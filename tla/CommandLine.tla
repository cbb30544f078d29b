----------------------------- MODULE CommandLine ----------------------------
(***************************************************************************)
(* What c4edit's command line, its config file and the tables of options   *)
(* ask for, said from all of them at once, and what the program owes to    *)
(* who started it: which command lines are obeyed, what is then on disk,   *)
(* and what is still there when it fails.                                  *)
(***************************************************************************)
EXTENDS C4edit, SequencesExt

Known == Assigned(exe_options_info_lookup, lib_options_info_lookup)

\* What the command line gives an option last, if it gives it.
OnCommandLine(name) == {i \in DOMAIN argv : toupper(argv[i].name) = name}

ConfigFile ==
    IF OnCommandLine("CONFIG_FILE") = {} THEN Absent
    ELSE LET path == argv[Max(OnCommandLine("CONFIG_FILE"))].value
         IN  IF path \in DOMAIN disk.files THEN disk.files[path] ELSE Absent

\* The options of the config file count as if they stood behind the others.
Requests == argv \o (IF ConfigFile.kind = "config" THEN ConfigFile.elements ELSE <<>>)
Asked == {toupper(Requests[i].name) : i \in DOMAIN Requests}

Value(name) ==
    LET value == Requests[Max({i \in DOMAIN Requests : toupper(Requests[i].name) = name})].value
    IN  IF value = "" THEN Known[name].default_value ELSE value

LibraryValue(name) == IF name \in Asked THEN Value(name) ELSE ""

WellFormed(arg) == arg.dash /\ (arg.equals => arg.name # "")

Readable ==
    /\ \A i \in DOMAIN argv : WellFormed(argv[i])
    /\ OnCommandLine("CONFIG_FILE") # {} =>
           /\ ConfigFile.kind = "config"
           /\ \A i \in DOMAIN ConfigFile.elements : ConfigFile.elements[i].tag = "option"

Understood(name) ==
    /\ name \in DOMAIN Known
    /\ Known[name].type = "boolean" => Value(name) \in {"0", "1"}

Loads == {"LOAD_SAVE", "LOAD_INFO"}

Allowed ==
    /\ Readable
    /\ \A name \in Asked : Understood(name) /\ Known[name].depends_on \subseteq Asked
    /\ \E load \in Loads : Asked \cap Loads = {load}
    /\ \E option \in Asked : option \in ToSet(write_options)

-----------------------------------------------------------------------------
\* The files that are asked for.

\* The log, if one is asked for.
Logs == IF "LOG" \in Asked /\ Value("LOG") = "1" THEN {log_filename} ELSE {}

InfoAskedFor == disk.files[Value("LOAD_INFO")]

\* The tree that is to be loaded.  An info file into which the log goes is none.
TreeAskedFor ==
    IF "LOAD_SAVE" \in Asked
    THEN [origin |-> Value("LOAD_SAVE"), data |-> disk.files[Value("LOAD_SAVE")].tree.data, complete |-> TRUE]
    ELSE IF Value("LOAD_INFO") \notin Logs /\ InfoAskedFor.kind = "info" /\ InfoAskedFor.whole
    THEN InfoAskedFor.tree
    ELSE Garbled

Output(option) ==
    CASE option = "WRITE_TRANSLATION" -> Written("translation", TreeAskedFor)
      [] option = "WRITE_INFO" -> Written("info", TreeAskedFor)
      [] option = "WRITE_SAVE" -> Written("save", SaveOf(TreeAskedFor))

InDebugDir(filename, extension) == make_path(LibraryValue("DEBUG_OUTPUT_DIR"), filename, extension)

Exports ==
    IF "LOAD_SAVE" \in Asked /\ LibraryValue("DEBUG_WRITE_IMPORTS") = "1"
    THEN {InDebugDir("ConstDefinitions", ".txt"), InDebugDir("EnumDefinitions", ".txt")}
    ELSE {}

CrashDumps ==
    IF "LOAD_SAVE" \in Asked THEN {InDebugDir(Value("LOAD_SAVE"), ".crash-dump.info")} ELSE {}

\* Which of the first k outputs go to a path, if they are asked for.
Outputs(path, k) ==
    {i \in 1..k : write_options[i] \in Asked /\ Value(write_options[i]) = path}

\* The log, or one of the first k outputs, or an export, or what was there,
\* stands at a path; of what goes to one path, the last remains.
Expected(path, k) ==
    IF path \in Logs THEN Log
    ELSE IF Outputs(path, k) # {} THEN Output(write_options[Max(Outputs(path, k))])
    ELSE IF path \in Exports THEN Written("definitions", NoTree)
    ELSE disk.files[path]

Cut(contents) == Torn(contents.kind, contents.tree)

\* On a full disk the end of an output, or of an export, may be missing.
Stands(path, k) ==
    \/ files[path] = Expected(path, k)
    \/ /\ disk.full
       /\ Outputs(path, k) # {} \/ path \in Exports
       /\ files[path] = Cut(Expected(path, k))

-----------------------------------------------------------------------------
\* Properties.

\* Types of the variables; the assertion of check_option_ never fails.
TypeOK ==
    /\ DOMAIN m_info \subseteq DOMAIN Known
    /\ m_info # <<>> => \A name \in DOMAIN m_info : m_info[name] = Known[name]
    /\ thrown \in {"none", "Display_help_error", "Options_error", "exception"}
    /\ DOMAIN files = DOMAIN disk.files
    /\ DOMAIN lib_options \subseteq DOMAIN lib_options_info_lookup
    /\ rc \in {0, -1}
    /\ rc = -1 => at = "ended"

\* main, set_defaults_then_check_options: whatever the sources of the options
\* and the order in which the maps are gone through, c4edit goes on to load
\* exactly if all that was asked for is understood and allowed; otherwise it
\* fails, or shows its help if it was asked to and understood.
ObeysWhatIsAllowed ==
    LET accepted == at \in {"log", "load", "read_save", "read_info", "write"} /\ thrown = "none"
        help == thrown = "Display_help_error"
    IN  /\ accepted => Allowed
        /\ thrown = "Options_error" => ~Allowed
        /\ help => option_help \in Asked
        /\ /\ at = "ended" /\ Readable /\ option_help \in Asked
           /\ \A name \in Asked \ {option_help} : Understood(name)
           => help

\* main, process_write_option and c4lib's writers: an exit status of 0, without
\* a help text, means that every file asked for has been written from the tree
\* that was to be loaded, and nothing else but the exports and the log; of
\* outputs to one file, the last of translation, info and save is there.  Only
\* a full disk goes unnoticed, at outputs and exports alike.
SuccessMeansWritten ==
    at = "ended" /\ rc = 0 =>
        IF thrown = "none"
        THEN \A path \in DOMAIN files : Stands(path, Len(write_options))
        ELSE files = disk.files

\* main and c4lib: a run that fails has written the outputs before the one that
\* failed, perhaps a part of that one, and not a part of a save unless the disk
\* was full; a load that fails leaves no file but those of the debug options
\* and the log.
FailureSparesFiles ==
    at = "ended" /\ rc = -1 =>
        IF ~Allowed THEN files = disk.files
        ELSE \/ \A path \in DOMAIN files \ (Exports \cup CrashDumps \cup Logs) : files[path] = disk.files[path]
             \/ \E k \in 0..Len(write_options) - 1 : \A path \in DOMAIN files :
                    \/ Stands(path, k)
                    \/ /\ write_options[k + 1] \in Asked /\ Value(write_options[k + 1]) = path
                       /\ write_options[k + 1] # "WRITE_SAVE" \/ disk.full
                       /\ files[path] = Cut(Output(write_options[k + 1]))

\* Parser::parse: when phase two fails, the crash dump holds the tree as it was
\* then, unless it cannot be written; when the load fails before, or does not
\* fail, none is written.
CrashDumpHoldsTree ==
    at = "ended" /\ Allowed /\ "LOAD_SAVE" \in Asked =>
        \A path \in (CrashDumps \ Logs) \cap DOMAIN files :
            IF ptree.data # "none" /\ ~ptree.complete /\ path \notin disk.readonly
            THEN /\ \/ files[path] = Written("info", ptree)
                    \/ disk.full /\ files[path] = Torn("info", ptree)
                 /\ rc = -1
            ELSE \/ files[path] = disk.files[path]
                 \/ Outputs(path, Len(write_options)) # {}
=============================================================================
