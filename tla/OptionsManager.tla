--------------------------- MODULE OptionsManager ---------------------------
(***************************************************************************)
(* Options_manager (lib/options): options merged from several sources, the *)
(* table that says what each may be, defaults, and the checks.  An option  *)
(* is a name with a value; an empty value, "", asks for the default.       *)
(* A table gives for each name a record with the fields type,              *)
(* default_value, required and depends_on.                                 *)
(*                                                                         *)
(* A loop over an unordered map is one step; which of the exceptions it    *)
(* meets first is any of them.  What it had changed before it threw is     *)
(* left out: nobody reads the options after that.                          *)
(***************************************************************************)
EXTENDS Sequences

CONSTANTS
    Upper,          \* maps the names that are spelled in lower case
    Integral        \* the values that strtol reads as an int

VARIABLES
    m_info,             \* what is known of each option
    m_options,          \* the values given so far
    m_aggregate_checks, \* pairs of names and of the check they must pass
    thrown              \* the exception in flight, or "none"

manager == <<m_info, m_options, m_aggregate_checks>>

option_help == "HELP"

toupper(name) == IF name \in DOMAIN Upper THEN Upper[name] ELSE name

Throw(exception) ==
    /\ thrown' = exception
    /\ UNCHANGED manager

-----------------------------------------------------------------------------
\* The checks of several options together.

check_compatibility(options, incompatible) ==
    \A one, other \in incompatible : {one, other} \subseteq DOMAIN options => one = other

check_requires_at_least_one_of(options, requires_one_of) ==
    \E name \in requires_one_of : name \in DOMAIN options

Passes(options, check) ==
    IF check.func = "check_compatibility"
    THEN check_compatibility(options, check.members)
    ELSE check_requires_at_least_one_of(options, check.members)

-----------------------------------------------------------------------------
\* Adding to the manager.

\* A map after the entries of another have been assigned to it.
Assigned(map, entries) ==
    [key \in DOMAIN map \cup DOMAIN entries |->
        IF key \in DOMAIN entries THEN entries[key] ELSE map[key]]

SetOption(name, value) ==
    /\ m_options' = Assigned(m_options, [key \in {toupper(name)} |-> value])
    /\ UNCHANGED <<m_info, m_aggregate_checks, thrown>>

\* One round of add_options_from_command_line.  An argument is what stands
\* before and behind its first '='.
add_argument(arg) ==
    IF ~arg.dash \/ (arg.equals /\ arg.name = "")
    THEN Throw("Options_error")
    ELSE SetOption(arg.name, arg.value)

\* Fault: of two values of an option the first is kept.
add_element_unless_given(element) ==
    IF element.tag # "option"
    THEN Throw("exception")
    ELSE IF toupper(element.name) \in DOMAIN m_options
    THEN UNCHANGED <<manager, thrown>>
    ELSE SetOption(element.name, element.value)

\* One round of add_options_from_config_file.
add_element(element) ==
    IF element.tag # "option"
    THEN Throw("exception")
    ELSE SetOption(element.name, element.value)

\* A table with its names in upper case.
Uppercased(info) ==
    [upper \in {toupper(name) : name \in DOMAIN info} |->
        info[CHOOSE name \in DOMAIN info : toupper(name) = upper]]

add_info_and_checks(infos, checks) ==
    /\ m_info' = Assigned(Assigned(m_info, Uppercased(infos[1])), Uppercased(infos[2]))
    /\ m_aggregate_checks' = m_aggregate_checks \o checks
    /\ UNCHANGED <<m_options, thrown>>

get_options_exclusive_of(options_to_exclude) ==
    [name \in DOMAIN m_options \ DOMAIN options_to_exclude |-> m_options[name]]

-----------------------------------------------------------------------------
\* Defaults and checks.

\* What set_defaults_ makes of the options when it throws nothing.
WithDefaults ==
    [name \in DOMAIN m_options |->
        IF m_options[name] = "" THEN m_info[name].default_value ELSE m_options[name]]

\* Fault: an option without a value is taken as it is.
set_no_defaults ==
    /\ \A name \in DOMAIN m_options : m_options[name] = "" => name \in DOMAIN m_info
    /\ UNCHANGED <<manager, thrown>>

\* set_defaults_: an option without a value that no table knows throws.
set_defaults_ ==
    LET unknown == {name \in DOMAIN m_options : m_options[name] = "" /\ name \notin DOMAIN m_info}
    IN  IF unknown = {}
        THEN /\ m_options' = WithDefaults
             /\ UNCHANGED <<m_info, m_aggregate_checks, thrown>>
        ELSE \E name \in unknown :
                Throw(IF name = option_help THEN "Display_help_error" ELSE "Options_error")

\* The exception check_option_ throws, or "none".
Complaint(name, value) ==
    LET info == m_info[name]
    IN  IF name = option_help
        THEN "Display_help_error"
        ELSE IF name \notin DOMAIN m_info
        THEN "Options_error"
        ELSE IF info.default_value # "" /\ value = ""
        THEN "assertion"
        ELSE IF \/ info.type = "boolean" /\ value \notin {"0", "1"}
                \/ info.type = "integer" /\ value \notin Integral
        THEN "Options_error"
        ELSE "none"

missing_required_options ==
    {name \in DOMAIN m_info : m_info[name].required /\ name \notin DOMAIN m_options}

dependency_violations ==
    {name \in DOMAIN m_info \cap DOMAIN m_options :
        ~(m_info[name].depends_on \subseteq DOMAIN m_options)}

\* check_options_: each option, then all of them together.
check_options_ ==
    LET complaints == {Complaint(name, m_options[name]) : name \in DOMAIN m_options} \ {"none"}
    IN  IF complaints # {}
        THEN \E complaint \in complaints : Throw(complaint)
        ELSE IF \/ missing_required_options # {}
                \/ dependency_violations # {}
                \/ \E i \in DOMAIN m_aggregate_checks : ~Passes(m_options, m_aggregate_checks[i])
        THEN Throw("Options_error")
        ELSE UNCHANGED <<manager, thrown>>
=============================================================================
