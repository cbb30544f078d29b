-------------------------- MODULE CommandLineProofs --------------------------
(***************************************************************************)
(* What c4edit owes to who started it, for every command line, every       *)
(* config file and every disk.  The invariant follows main from place to   *)
(* place: what has been gathered of the options, what has been loaded, and *)
(* which outputs have been written; and it says what an exception leaves.  *)
(***************************************************************************)
EXTENDS CommandLine, SequenceTheorems, TLAPS

Places == {"arguments", "config_file", "infos", "defaults", "checks", "log", "load",
           "read_save", "read_info", "phase_one", "phase_two", "crash_dump", "write", "ended"}

(* Request i is the last of the first n that gives the option a value. *)
IsLast(name, i, n) ==
    /\ i \in 1..n /\ toupper(Requests[i].name) = name
    /\ \A j \in (i + 1)..n : toupper(Requests[j].name) # name

Merged(options, n) ==
    /\ \A i \in 1..n : toupper(Requests[i].name) \in DOMAIN options
    /\ \A name \in DOMAIN options :
           \E i \in 1..n : IsLast(name, i, n) /\ options[name] = Requests[i].value

ReadableTo(n) == \A i \in 1..n : WellFormed(argv[i])
ElementsTo(n) == \A i \in 1..n : ConfigFile.elements[i].tag = "option"

(* The arguments, or the elements, that were read, and those to be read.   *)
ReadOf(list) == Len(list) - Len(input)
IsRest(list) ==
    /\ Len(input) \in 0..Len(list)
    /\ \A k \in 1..Len(input) : input[k] = list[ReadOf(list) + k]

Settled == DOMAIN m_options = Asked /\ \A name \in Asked : m_options[name] = Value(name)

LibrarySettled ==
    \A name \in {"DEBUG_OUTPUT_DIR", "DEBUG_WRITE_IMPORTS"} : LibOption(name) = LibraryValue(name)

ToLoad == [origin |-> Value("LOAD_SAVE"), data |-> "none", complete |-> FALSE]
Partly == [origin |-> Value("LOAD_SAVE"), data |-> inflated, complete |-> FALSE]

(* The log is started, and no other file has changed; then the exports are *)
(* written.                                                                *)
Started == \A path \in DOMAIN files : files[path] = IF path \in Logs THEN Log ELSE disk.files[path]
Exported == \A path \in DOMAIN files : Stands(path, 0)

-----------------------------------------------------------------------------
(* What holds at each place, as long as nothing has been thrown. *)

Nothing == m_info = <<>> /\ m_aggregate_checks = <<>>
Tables == m_info = Known /\ m_aggregate_checks = aggregate_checks
Untouched == files = disk.files /\ ptree = NoTree /\ lib_options = <<>>

AtArguments ==
    /\ input \in Seq(Arguments) /\ IsRest(argv) /\ ReadableTo(ReadOf(argv))
    /\ Merged(m_options, ReadOf(argv)) /\ Nothing /\ Untouched

AtConfigFile ==
    /\ ConfigFile.kind = "config" /\ ReadableTo(Len(argv))
    /\ input \in Seq(Elements) /\ IsRest(ConfigFile.elements)
    /\ ElementsTo(ReadOf(ConfigFile.elements))
    /\ Merged(m_options, Len(argv) + ReadOf(ConfigFile.elements)) /\ Nothing /\ Untouched

AtInfos == Readable /\ Merged(m_options, Len(Requests)) /\ Nothing /\ Untouched
AtDefaults == Readable /\ Merged(m_options, Len(Requests)) /\ Tables /\ Untouched
AtChecks == Readable /\ Settled /\ Tables /\ Untouched
AtLog == Allowed /\ Settled /\ Untouched

Loading == Allowed /\ Settled /\ LibrarySettled
AtLoad == Loading /\ Started /\ ptree = NoTree
AtReadSave == Loading /\ Started /\ ptree = NoTree /\ "LOAD_SAVE" \in Asked
AtReadInfo == Loading /\ Started /\ ptree = NoTree /\ "LOAD_SAVE" \notin Asked

SaveRead ==
    /\ "LOAD_SAVE" \in Asked
    /\ inflated = disk.files[Value("LOAD_SAVE")].tree.data /\ inflated # "none"
AtPhaseOne == Loading /\ Started /\ SaveRead /\ ptree = ToLoad
AtPhaseTwo == Loading /\ Exported /\ SaveRead /\ ptree = ToLoad
AtCrashDump == Loading /\ Exported /\ SaveRead /\ ptree = Partly

WrittenSoFar(k) == \A path \in DOMAIN files : Stands(path, k)
Remaining(k) == SubSeq(write_options, k + 1, 3)
AtWrite ==
    /\ Loading /\ ptree = TreeAskedFor
    /\ \E k \in 0..3 : writes = Remaining(k) /\ WrittenSoFar(k)

AtEnd == Allowed /\ ptree = TreeAskedFor /\ WrittenSoFar(3)

Going ==
    thrown = "none" =>
        /\ at = "arguments" => AtArguments
        /\ at = "config_file" => AtConfigFile
        /\ at = "infos" => AtInfos
        /\ at = "defaults" => AtDefaults
        /\ at = "checks" => AtChecks
        /\ at = "log" => AtLog
        /\ at = "load" => AtLoad
        /\ at = "read_save" => AtReadSave
        /\ at = "read_info" => AtReadInfo
        /\ at = "phase_one" => AtPhaseOne
        /\ at = "phase_two" => AtPhaseTwo
        /\ at = "crash_dump" => AtCrashDump
        /\ at = "write" => AtWrite
        /\ at = "ended" => AtEnd

-----------------------------------------------------------------------------
(* What an exception leaves. *)

UnderstoodOrHelp == Readable /\ \A name \in Asked \ {option_help} : Understood(name)

Spared ==
    \/ \A path \in DOMAIN files \ (Exports \cup CrashDumps \cup Logs) : files[path] = disk.files[path]
    \/ \E k \in 0..2 : \A path \in DOMAIN files :
           \/ Stands(path, k)
           \/ /\ write_options[k + 1] \in Asked /\ Value(write_options[k + 1]) = path
              /\ write_options[k + 1] # "WRITE_SAVE" \/ disk.full
              /\ files[path] = Cut(Output(write_options[k + 1]))

Dumped ==
    \A path \in (CrashDumps \ Logs) \cap DOMAIN files :
        IF ptree.data # "none" /\ ~ptree.complete /\ path \notin disk.readonly
        THEN files[path] = Written("info", ptree) \/ (disk.full /\ files[path] = Torn("info", ptree))
        ELSE files[path] = disk.files[path] \/ Outputs(path, 3) # {}

(* No export of the definitions is named as the crash dump is. *)
Apart == CrashDumps \cap Exports = {}

Caught ==
    /\ thrown = "Display_help_error" => option_help \in Asked /\ files = disk.files
    /\ thrown = "Options_error" =>
           /\ files = disk.files /\ ~Allowed
           /\ option_help \in Asked => ~UnderstoodOrHelp
    /\ thrown = "exception" =>
           /\ Readable => Allowed
           /\ IF Allowed THEN Spared ELSE files = disk.files
           /\ Allowed /\ Apart => Dumped

Fixtures ==
    /\ argv \in ArgumentLists /\ disk \in Disks /\ DOMAIN files = DOMAIN disk.files
    /\ at \in Places /\ thrown \in {"none", "Display_help_error", "Options_error", "exception"}
    /\ m_info = <<>> \/ m_info = Known
    /\ DOMAIN lib_options \subseteq DOMAIN lib_options_info_lookup
    /\ at \notin {"write", "ended"} /\ thrown = "none" => writes = write_options
    /\ rc = IF at = "ended" /\ thrown \notin {"none", "Display_help_error"} THEN -1 ELSE 0

IInv == Fixtures /\ Going /\ Caught

-----------------------------------------------------------------------------
(* What was asked for never changes: it is said of the command line and of *)
(* the disk as they were at the start.                                     *)

LEMMA FixedRequests ==
    ASSUME UNCHANGED start
    PROVE  /\ ConfigFile' = ConfigFile /\ Requests' = Requests /\ Asked' = Asked
           /\ \A name : OnCommandLine(name)' = OnCommandLine(name)
<1>1. argv' = argv /\ disk' = disk
  BY DEF start
<1>2. \A name : OnCommandLine(name)' = OnCommandLine(name)
  BY <1>1 DEF OnCommandLine
<1>3. ConfigFile' = ConfigFile
  BY <1>1, <1>2 DEF ConfigFile
<1>4. Requests' = Requests
  BY <1>1, <1>3 DEF Requests
<1>5. Asked' = Asked
  BY <1>4 DEF Asked
<1> QED
  BY <1>2, <1>3, <1>4, <1>5

LEMMA FixedValues ==
    ASSUME UNCHANGED start
    PROVE  /\ \A name : Value(name)' = Value(name)
           /\ \A name : LibraryValue(name)' = LibraryValue(name)
           /\ \A name : Understood(name)' <=> Understood(name)
<1>1. Requests' = Requests /\ Asked' = Asked
  BY FixedRequests
<1>2. \A name : Value(name)' = Value(name)
  BY <1>1 DEF Value
<1>3. \A name : LibraryValue(name)' = LibraryValue(name)
  BY <1>1, <1>2 DEF LibraryValue
<1>4. \A name : Understood(name)' <=> Understood(name)
  BY <1>2 DEF Understood
<1> QED
  BY <1>2, <1>3, <1>4

LEMMA FixedPermission ==
    ASSUME UNCHANGED start
    PROVE  (Readable' <=> Readable) /\ (Allowed' <=> Allowed) /\ (UnderstoodOrHelp' <=> UnderstoodOrHelp)
<1>1. ConfigFile' = ConfigFile /\ Asked' = Asked /\ OnCommandLine("CONFIG_FILE")' = OnCommandLine("CONFIG_FILE")
  BY FixedRequests
<1>2. Readable' <=> Readable
  BY <1>1 DEF Readable, start
<1>3. Allowed' <=> Allowed
  BY <1>1, <1>2, FixedValues DEF Allowed
<1>4. UnderstoodOrHelp' <=> UnderstoodOrHelp
  BY <1>1, <1>2, FixedValues DEF UnderstoodOrHelp
<1> QED
  BY <1>2, <1>3, <1>4

LEMMA FixedFiles ==
    ASSUME UNCHANGED start
    PROVE  /\ TreeAskedFor' = TreeAskedFor /\ ToLoad' = ToLoad
           /\ Exports' = Exports /\ CrashDumps' = CrashDumps /\ Logs' = Logs
           /\ \A option : Output(option)' = Output(option)
           /\ \A path, k : Outputs(path, k)' = Outputs(path, k)
           /\ \A path, k : Expected(path, k)' = Expected(path, k)
<1>1. disk' = disk /\ Asked' = Asked
  BY FixedRequests DEF start
<1>0. Logs' = Logs
  BY <1>1, FixedValues DEF Logs
<1>2. TreeAskedFor' = TreeAskedFor /\ ToLoad' = ToLoad
  <2>1. InfoAskedFor' = InfoAskedFor
    BY <1>1, FixedValues DEF InfoAskedFor
  <2>2. /\ Value("LOAD_SAVE")' = Value("LOAD_SAVE")
        /\ Value("LOAD_INFO")' = Value("LOAD_INFO")
    BY FixedValues
  <2>3. TreeAskedFor' = TreeAskedFor
    BY <2>1, <2>2, <1>0, <1>1 DEF TreeAskedFor
  <2> QED
    BY <2>2, <2>3, <1>1 DEF ToLoad
<1>3. Exports' = Exports /\ CrashDumps' = CrashDumps
  BY <1>1, FixedValues DEF Exports, CrashDumps, InDebugDir
<1>4. \A option : Output(option)' = Output(option)
  BY <1>2 DEF Output
<1>5. \A path, k : Outputs(path, k)' = Outputs(path, k)
  BY <1>1, FixedValues DEF Outputs
<1>6. \A path, k : Expected(path, k)' = Expected(path, k)
  BY <1>0, <1>1, <1>3, <1>4, <1>5 DEF Expected
<1> QED
  BY <1>0, <1>2, <1>3, <1>4, <1>5, <1>6

-----------------------------------------------------------------------------
(* Requests, and the last of them that gives an option. *)

LEMMA MaxIs ==
    ASSUME NEW S \in SUBSET Int, NEW m \in S, \A y \in S : m >= y
    PROVE  Max(S) = m
<1>1. Max(S) \in S /\ \A y \in S : Max(S) >= y
  BY Zenon DEF Max
<1>2. Max(S) \in Int /\ m \in Int /\ Max(S) >= m /\ m >= Max(S)
  BY <1>1
<1> QED
  BY <1>2

LEMMA ConfigIsRead ==
    ASSUME disk \in Disks, ConfigFile.kind = "config"
    PROVE  ConfigFile.elements \in Seq(Elements)
<1>1. ConfigFile \in FileContents
  BY DisksAssumption DEF ConfigFile, FileContents, Absent
<1> QED
  BY <1>1 DEF FileContents, Absent

Given == IF ConfigFile.kind = "config" THEN ConfigFile.elements ELSE <<>>

LEMMA RequestsAre ==
    ASSUME argv \in ArgumentLists, disk \in Disks
    PROVE  /\ argv \in Seq(Arguments) /\ Given \in Seq(Elements)
           /\ Len(Requests) = Len(argv) + Len(Given)
           /\ DOMAIN Requests = 1..Len(Requests)
           /\ \A i \in 1..Len(argv) : Requests[i] = argv[i]
           /\ \A i \in 1..Len(Given) : Requests[Len(argv) + i] = Given[i]
<1>1. argv \in Seq(Arguments)
  BY ArgumentListsAssumption
<1>2. Given \in Seq(Elements)
  BY ConfigIsRead DEF Given
<1>3. Requests = argv \o Given
  BY DEF Requests, Given
<1>4. argv \in Seq(Arguments \cup Elements) /\ Given \in Seq(Arguments \cup Elements)
  BY <1>1, <1>2
<1> HIDE DEF Given
<1> QED
  BY <1>1, <1>2, <1>3, <1>4

LEMMA LastIs ==
    ASSUME argv \in ArgumentLists, disk \in Disks,
           NEW name, NEW i, IsLast(name, i, Len(Requests))
    PROVE  /\ name \in Asked
           /\ Value(name) = IF Requests[i].value = "" THEN Known[name].default_value ELSE Requests[i].value
<1> DEFINE S == {j \in DOMAIN Requests : toupper(Requests[j].name) = name}
<1>1. DOMAIN Requests = 1..Len(Requests) /\ Len(Requests) \in Nat
  BY RequestsAre
<1>2. i \in S /\ S \in SUBSET Int /\ \A j \in S : i >= j
  BY <1>1 DEF IsLast
<1>3. Max(S) = i
  <2> HIDE DEF S
  <2> QED BY <1>2, MaxIs
<1>4. name \in Asked
  BY <1>2 DEF Asked
<1> QED
  BY <1>3, <1>4 DEF Value

LEMMA SettledFrom ==
    ASSUME argv \in ArgumentLists, disk \in Disks, NEW options, Merged(options, Len(Requests))
    PROVE  /\ DOMAIN options = Asked
           /\ \A name \in Asked : Value(name) =
                  IF options[name] = "" THEN Known[name].default_value ELSE options[name]
<1>1. DOMAIN Requests = 1..Len(Requests)
  BY RequestsAre
<1>2. Asked \subseteq DOMAIN options
  BY <1>1 DEF Merged, Asked
<1>3. \A name \in DOMAIN options :
          \E i \in 1..Len(Requests) : IsLast(name, i, Len(Requests)) /\ options[name] = Requests[i].value
  BY DEF Merged
<1>4. ASSUME NEW name \in DOMAIN options
      PROVE  /\ name \in Asked
             /\ Value(name) = IF options[name] = "" THEN Known[name].default_value ELSE options[name]
  <2>1. PICK i \in 1..Len(Requests) :
            IsLast(name, i, Len(Requests)) /\ options[name] = Requests[i].value
    BY <1>3
  <2> QED
    BY <2>1, LastIs
<1> QED
  BY <1>2, <1>4

LEMMA MergeOne ==
    ASSUME NEW n \in Nat, NEW options, Merged(options, n),
           NEW new, new = Assigned(options, [key \in {toupper(Requests[n + 1].name)} |-> Requests[n + 1].value])
    PROVE  Merged(new, n + 1)
<1> DEFINE key == toupper(Requests[n + 1].name)
<1>1. /\ DOMAIN new = DOMAIN options \cup {key}
      /\ new[key] = Requests[n + 1].value
      /\ \A name \in DOMAIN options \ {key} : new[name] = options[name]
  BY DEF Assigned
<1>2. \A i \in 1..(n + 1) : toupper(Requests[i].name) \in DOMAIN new
  BY <1>1 DEF Merged
<1>3. IsLast(key, n + 1, n + 1)
  BY DEF IsLast
<1>4. ASSUME NEW name \in DOMAIN options \ {key}
      PROVE  \E i \in 1..(n + 1) : IsLast(name, i, n + 1) /\ new[name] = Requests[i].value
  <2>1. PICK i \in 1..n : IsLast(name, i, n) /\ options[name] = Requests[i].value
    BY DEF Merged
  <2>2. IsLast(name, i, n + 1)
    BY <2>1 DEF IsLast
  <2> QED
    BY <2>1, <2>2, <1>1
<1> QED
  BY <1>1, <1>2, <1>3, <1>4 DEF Merged

-----------------------------------------------------------------------------
(* A step goes on, or it throws. *)

LEMMA Continuing ==
    ASSUME IInv, thrown = "none", at # "ended", thrown' = "none", at' \in Places,
           UNCHANGED <<rc, start>>, DOMAIN files' = DOMAIN files,
           DOMAIN lib_options' \subseteq DOMAIN lib_options_info_lookup,
           m_info' = <<>> \/ m_info' = Known,
           at' \in {"write", "ended"} \/ writes' = write_options, Going'
    PROVE  IInv'
<1>1. argv' = argv /\ disk' = disk /\ rc' = rc
  BY DEF start
<1>2. rc = 0
  BY DEF IInv, Fixtures
<1>3. Fixtures'
  BY <1>1, <1>2 DEF IInv, Fixtures
<1>4. Caught'
  BY DEF Caught
<1> QED
  BY <1>3, <1>4 DEF IInv

LEMMA Throwing ==
    ASSUME IInv, thrown = "none", at # "ended",
           NEW e \in {"Display_help_error", "Options_error", "exception"}, Throw(e),
           at' \in Places, at' # "ended", UNCHANGED <<rc, start>>, DOMAIN files' = DOMAIN files,
           DOMAIN lib_options' \subseteq DOMAIN lib_options_info_lookup, Caught'
    PROVE  IInv'
<1>1. argv' = argv /\ disk' = disk /\ rc' = rc /\ thrown' = e /\ m_info' = m_info
  BY DEF start, Throw, manager
<1>2. rc = 0
  BY DEF IInv, Fixtures
<1>3. Fixtures'
  BY <1>1, <1>2 DEF IInv, Fixtures
<1>4. Going'
  BY <1>1 DEF Going
<1> QED
  BY <1>3, <1>4 DEF IInv

(* An exception before anything was written, of a command line that is not *)
(* allowed.                                                                *)
LEMMA Refusing ==
    ASSUME IInv, thrown = "none", at # "ended", at' \in Places, at' # "ended",
           NEW e \in {"Options_error", "exception"}, Throw(e),
           UNCHANGED <<rc, lib_options, start>>, UNCHANGED files, files = disk.files,
           ~Readable
    PROVE  IInv'
<1>1. thrown' = e /\ files' = files /\ disk' = disk
  BY DEF Throw, start
<1>2. ~Readable' /\ ~Allowed' /\ ~UnderstoodOrHelp'
  BY FixedPermission DEF Allowed, UnderstoodOrHelp
<1>3. Caught'
  BY <1>1, <1>2 DEF Caught
<1>4. DOMAIN lib_options' \subseteq DOMAIN lib_options_info_lookup
  BY DEF IInv, Fixtures
<1> QED
  BY <1>1, <1>3, <1>4, Throwing

-----------------------------------------------------------------------------
(* The options are merged. *)

LEMMA InitHolds == Init => IInv
<1> SUFFICES ASSUME Init
             PROVE  IInv
  OBVIOUS
<1>1. argv \in Seq(Arguments) /\ Len(argv) \in Nat
  BY ArgumentListsAssumption DEF Init
<1>2. IsRest(argv) /\ ReadOf(argv) = 0
  BY <1>1 DEF Init, IsRest, ReadOf
<1>3. ReadableTo(0) /\ Merged(<<>>, 0)
  BY DEF ReadableTo, Merged
<1>4. AtArguments
  BY <1>1, <1>2, <1>3 DEF Init, AtArguments, Nothing, Untouched
<1>5. Going
  BY <1>4 DEF Going, Init
<1>6. Fixtures
  BY DEF Fixtures, Init, Places
<1>7. Caught
  BY DEF Caught, Init
<1> QED
  BY <1>5, <1>6, <1>7 DEF IInv

LEMMA RestAdvances ==
    ASSUME NEW S, NEW list \in Seq(S), input \in Seq(S), IsRest(list),
           input # <<>>, input' = Tail(input)
    PROVE  /\ ReadOf(list) \in Nat /\ ReadOf(list) + 1 \in 1..Len(list)
           /\ Head(input) = list[ReadOf(list) + 1]
           /\ input' \in Seq(S) /\ Len(input') \in 0..Len(list)
           /\ Len(list) - Len(input') = ReadOf(list) + 1
           /\ \A k \in 1..Len(input') : input'[k] = list[ReadOf(list) + 1 + k]
<1>1. /\ Len(input) \in Nat /\ Len(input) >= 1 /\ Len(list) \in Nat /\ Len(input) <= Len(list)
      /\ input' \in Seq(S) /\ Len(input') = Len(input) - 1
  BY DEF IsRest
<1>2. ReadOf(list) = Len(list) - Len(input)
  BY DEF ReadOf
<1>3. Head(input) = input[1] /\ \A k \in 1..Len(input') : input'[k] = input[k + 1]
  BY <1>1
<1>4. \A k \in 1..Len(input) : input[k] = list[ReadOf(list) + k]
  BY DEF IsRest
<1>5. ASSUME NEW k \in 1..Len(input')
      PROVE  input'[k] = list[ReadOf(list) + 1 + k]
  <2>1. k + 1 \in 1..Len(input) /\ ReadOf(list) + (k + 1) = ReadOf(list) + 1 + k
    BY <1>1, <1>2
  <2> QED
    BY <2>1, <1>3, <1>4
<1> QED
  BY <1>1, <1>2, <1>3, <1>4, <1>5

LEMMA ReadArgumentKeeps == IInv /\ thrown = "none" /\ ReadArgument => IInv'
<1> SUFFICES ASSUME IInv, thrown = "none", ReadArgument
             PROVE  IInv'
  OBVIOUS
<1>0. PICK n : n = ReadOf(argv)
  OBVIOUS
<1>1. at = "arguments" /\ at' = at /\ input # <<>> /\ input' = Tail(input)
  BY DEF ReadArgument
<1>2. UNCHANGED <<files, lib_options, ptree, writes, rc>> /\ UNCHANGED start
  BY DEF ReadArgument, program
<1>3. AtArguments /\ argv \in ArgumentLists /\ disk \in Disks
  BY <1>1 DEF IInv, Going, Fixtures
<1>4. /\ argv \in Seq(Arguments) /\ input \in Seq(Arguments) /\ IsRest(argv)
      /\ Merged(m_options, n) /\ ReadableTo(n) /\ files = disk.files
  BY <1>0, <1>3, ArgumentListsAssumption DEF AtArguments, Untouched
<1>5. /\ n \in Nat /\ n + 1 \in 1..Len(argv) /\ Head(input) = argv[n + 1]
      /\ input' \in Seq(Arguments) /\ Len(input') \in 0..Len(argv)
      /\ Len(argv) - Len(input') = n + 1
      /\ \A k \in 1..Len(input') : input'[k] = argv[n + 1 + k]
  BY <1>0, <1>1, <1>4, RestAdvances
<1>6. argv' = argv
  BY <1>2 DEF start
<1>7. Requests[n + 1] = argv[n + 1] /\ argv[n + 1] \in Arguments
  BY <1>3, <1>4, <1>5, RequestsAre
<1>8. CASE Throw("Options_error") /\ ~WellFormed(argv[n + 1])
  <2>1. ~Readable
    BY <1>4, <1>5, <1>8, SMTT(30) DEF Readable
  <2> QED
    BY <2>1, <1>1, <1>2, <1>4, <1>8, Refusing DEF Places
<1>9. CASE WellFormed(argv[n + 1]) /\ SetOption(argv[n + 1].name, argv[n + 1].value)
  <2>1. /\ m_options' = Assigned(m_options, [key \in {toupper(Requests[n + 1].name)} |-> Requests[n + 1].value])
        /\ m_info' = m_info /\ m_aggregate_checks' = m_aggregate_checks /\ thrown' = "none"
    BY <1>7, <1>9 DEF SetOption
  <2>2. Merged(m_options', n + 1)
    BY <2>1, <1>4, <1>5, MergeOne
  <2>3. Merged(m_options, n + 1)'
    BY <2>2, <1>2, FixedRequests DEF Merged, IsLast
  <2>4. ReadableTo(n + 1)
    BY <1>4, <1>5, <1>9 DEF ReadableTo
  <2>5. ReadOf(argv)' = n + 1 /\ IsRest(argv)'
    BY <1>5, <1>6 DEF ReadOf, IsRest
  <2>6. ReadableTo(n + 1)'
    BY <2>4, <1>6 DEF ReadableTo
  <2>7. Nothing' /\ Untouched'
    BY <1>2, <1>3, <2>1 DEF AtArguments, Nothing, Untouched, start
  <2>8. AtArguments'
    <3>1. ReadableTo(ReadOf(argv))' /\ Merged(m_options, ReadOf(argv))'
      BY <2>3, <2>5, <2>6 DEF ReadableTo, Merged, IsLast
    <3> QED
      BY <3>1, <2>5, <2>7, <1>5 DEF AtArguments
  <2>9. Going'
    BY <2>8, <1>1 DEF Going
  <2> QED
    BY <2>1, <2>9, <1>1, <1>2, Continuing DEF IInv, Fixtures, Places
<1>10. argv[n + 1].dash \in BOOLEAN /\ argv[n + 1].equals \in BOOLEAN
  BY <1>7 DEF Arguments
<1> QED
  BY <1>5, <1>8, <1>9, <1>10 DEF ReadArgument, add_argument, WellFormed

LEMMA ConfigFileIs ==
    ASSUME argv \in ArgumentLists, disk \in Disks, files = disk.files,
           Merged(m_options, Len(argv))
    PROVE  /\ "CONFIG_FILE" \in DOMAIN m_options <=> OnCommandLine("CONFIG_FILE") # {}
           /\ "CONFIG_FILE" \in DOMAIN m_options => ConfigFile = Contents(m_options["CONFIG_FILE"])
<1>1. argv \in Seq(Arguments) /\ \A i \in 1..Len(argv) : Requests[i] = argv[i]
  BY RequestsAre
<1>2. OnCommandLine("CONFIG_FILE") = {i \in 1..Len(argv) : toupper(argv[i].name) = "CONFIG_FILE"}
  BY <1>1 DEF OnCommandLine
<1>3. ASSUME OnCommandLine("CONFIG_FILE") # {}
      PROVE  "CONFIG_FILE" \in DOMAIN m_options
  BY <1>1, <1>2, <1>3 DEF Merged
<1>4. ASSUME "CONFIG_FILE" \in DOMAIN m_options
      PROVE  /\ OnCommandLine("CONFIG_FILE") # {}
             /\ m_options["CONFIG_FILE"] = argv[Max(OnCommandLine("CONFIG_FILE"))].value
  <2>1. PICK i \in 1..Len(argv) :
            IsLast("CONFIG_FILE", i, Len(argv)) /\ m_options["CONFIG_FILE"] = Requests[i].value
    BY <1>4 DEF Merged
  <2>2. /\ OnCommandLine("CONFIG_FILE") \in SUBSET Int /\ i \in OnCommandLine("CONFIG_FILE")
        /\ \A j \in OnCommandLine("CONFIG_FILE") : i >= j
    BY <2>1, <1>1, <1>2 DEF IsLast
  <2>3. Max(OnCommandLine("CONFIG_FILE")) = i
    BY <2>2, MaxIs
  <2> QED
    BY <2>1, <2>2, <2>3, <1>1
<1>5. "CONFIG_FILE" \in DOMAIN m_options => ConfigFile = Contents(m_options["CONFIG_FILE"])
  BY <1>4 DEF ConfigFile, Contents
<1> QED
  BY <1>3, <1>4, <1>5

LEMMA OpenConfigFileKeeps == IInv /\ thrown = "none" /\ OpenConfigFile => IInv'
<1> SUFFICES ASSUME IInv, thrown = "none", OpenConfigFile
             PROVE  IInv'
  OBVIOUS
<1>1. at = "arguments" /\ input = <<>>
  BY DEF OpenConfigFile
<1>2. UNCHANGED <<files, lib_options, ptree, writes, rc>> /\ UNCHANGED start
  BY DEF OpenConfigFile, program
<1>3. AtArguments /\ argv \in ArgumentLists /\ disk \in Disks
  BY <1>1 DEF IInv, Going, Fixtures
<1>4. /\ argv \in Seq(Arguments) /\ ReadOf(argv) = Len(argv) /\ files = disk.files
      /\ Merged(m_options, Len(argv)) /\ ReadableTo(Len(argv)) /\ Nothing /\ Untouched
  BY <1>1, <1>3, ArgumentListsAssumption DEF AtArguments, Untouched, ReadOf
<1>5. /\ "CONFIG_FILE" \in DOMAIN m_options <=> OnCommandLine("CONFIG_FILE") # {}
      /\ "CONFIG_FILE" \in DOMAIN m_options => ConfigFile = Contents(m_options["CONFIG_FILE"])
  BY <1>3, <1>4, ConfigFileIs
<1>6. \A i \in DOMAIN argv : WellFormed(argv[i])
  BY <1>4 DEF ReadableTo
<1>7. CASE "CONFIG_FILE" \notin DOMAIN m_options
  <2>1. ConfigFile = Absent /\ Readable
    BY <1>5, <1>6, <1>7 DEF ConfigFile, Readable
  <2>2. Len(Requests) = Len(argv)
    BY <2>1, <1>3, <1>4, RequestsAre DEF Given, Absent
  <2>3. at' = "infos" /\ UNCHANGED manager /\ thrown' = "none"
    BY <1>7, <1>1 DEF OpenConfigFile
  <2>4. Nothing' /\ Untouched'
    BY <1>2, <1>4, <2>3 DEF Nothing, Untouched, start, manager
  <2>5. Merged(m_options, Len(Requests))' /\ Readable'
    BY <1>2, <1>4, <2>1, <2>2, <2>3, FixedRequests, FixedPermission DEF Merged, IsLast, manager
  <2>6. Going'
    BY <2>3, <2>4, <2>5 DEF Going, AtInfos
  <2> QED
    BY <2>3, <2>6, <1>1, <1>2, Continuing DEF IInv, Fixtures, Places, manager
<1>8. CASE "CONFIG_FILE" \in DOMAIN m_options /\ ConfigFile.kind = "config"
  <2>1. /\ at' = "config_file" /\ input' = ConfigFile.elements /\ UNCHANGED manager /\ thrown' = "none"
    BY <1>1, <1>5, <1>8 DEF OpenConfigFile
  <2>2. PICK elements \in Seq(Elements) : elements = ConfigFile.elements
    BY <1>3, <1>8, ConfigIsRead
  <2>3. ConfigFile' = ConfigFile /\ Requests' = Requests /\ argv' = argv
    BY <1>2, FixedRequests DEF start
  <2>4. input' \in Seq(Elements) /\ IsRest(ConfigFile.elements)' /\ ReadOf(ConfigFile.elements)' = 0
    BY <2>1, <2>2, <2>3 DEF IsRest, ReadOf
  <2>5. Len(argv)' + ReadOf(ConfigFile.elements)' = Len(argv)
    BY <2>3, <2>4, <1>4
  <2>6. Merged(m_options, Len(argv) + ReadOf(ConfigFile.elements))'
    BY <2>1, <2>3, <2>5, <1>4 DEF Merged, IsLast, manager
  <2>7. ReadableTo(Len(argv))' /\ ElementsTo(ReadOf(ConfigFile.elements))'
    BY <2>3, <2>4, <1>4 DEF ReadableTo, ElementsTo
  <2>8. Nothing' /\ Untouched'
    BY <1>2, <1>4, <2>1 DEF Nothing, Untouched, start, manager
  <2>9. AtConfigFile'
    BY <2>3, <2>4, <2>6, <2>7, <2>8, <1>8 DEF AtConfigFile
  <2>10. Going'
    BY <2>1, <2>9 DEF Going
  <2> QED
    BY <2>1, <2>10, <1>1, <1>2, Continuing DEF IInv, Fixtures, Places, manager
<1>9. CASE "CONFIG_FILE" \in DOMAIN m_options /\ ConfigFile.kind # "config"
  <2>1. Throw("exception") /\ at' = at
    BY <1>1, <1>5, <1>9 DEF OpenConfigFile
  <2>2. ~Readable
    BY <1>5, <1>9 DEF Readable
  <2> QED
    BY <2>1, <2>2, <1>1, <1>2, <1>4, Refusing DEF Places
<1> QED
  BY <1>7, <1>8, <1>9

LEMMA ReadElementKeeps == IInv /\ thrown = "none" /\ ReadElement => IInv'
<1> SUFFICES ASSUME IInv, thrown = "none", ReadElement
             PROVE  IInv'
  OBVIOUS
<1>1. at = "config_file"
  BY DEF ReadElement
<1>2. UNCHANGED <<files, lib_options, ptree, writes, rc>> /\ UNCHANGED start
  BY DEF ReadElement, program
<1>3. AtConfigFile /\ argv \in ArgumentLists /\ disk \in Disks
  BY <1>1 DEF IInv, Going, Fixtures
<1>4. PICK elements : elements = ConfigFile.elements
  OBVIOUS
<1>5. PICK n : n = ReadOf(elements)
  OBVIOUS
<1>6. /\ elements \in Seq(Elements) /\ input \in Seq(Elements) /\ IsRest(elements) /\ ElementsTo(n)
      /\ Merged(m_options, Len(argv) + n) /\ ReadableTo(Len(argv))
      /\ ConfigFile.kind = "config" /\ Nothing /\ Untouched /\ files = disk.files
  BY <1>3, <1>4, <1>5, ConfigIsRead DEF AtConfigFile, Untouched
<1>7. /\ Len(Requests) = Len(argv) + Len(elements) /\ Len(argv) \in Nat
      /\ DOMAIN argv = 1..Len(argv)
      /\ \A i \in 1..Len(elements) : Requests[Len(argv) + i] = elements[i]
  <2>1. Given = elements
    BY <1>4, <1>6 DEF Given
  <2> QED
    BY <2>1, <1>3, RequestsAre
<1>8. /\ ConfigFile' = ConfigFile /\ Requests' = Requests /\ argv' = argv
      /\ ConfigFile'.elements = elements
  BY <1>2, <1>4, FixedRequests DEF start
<1>9. CASE input = <<>>
  <2>1. n = Len(elements)
    BY <1>5, <1>6, <1>9 DEF ReadOf
  <2>2. \A i \in DOMAIN ConfigFile.elements : ConfigFile.elements[i].tag = "option"
    BY <2>1, <1>4, <1>6 DEF ElementsTo
  <2>3. Readable
    BY <2>2, <1>6, <1>7 DEF Readable, ReadableTo
  <2>4. at' = "infos" /\ UNCHANGED manager /\ thrown' = "none"
    BY <1>9, <1>1 DEF ReadElement
  <2>5. Nothing' /\ Untouched'
    BY <1>2, <1>6, <2>4 DEF Nothing, Untouched, start, manager
  <2>6. Merged(m_options, Len(Requests))
    BY <1>6, <1>7, <2>1
  <2>7. Merged(m_options, Len(Requests))' /\ Readable'
    BY <1>2, <1>8, <2>3, <2>4, <2>6, FixedPermission DEF Merged, IsLast, manager
  <2>8. Going'
    BY <2>4, <2>5, <2>7 DEF Going, AtInfos
  <2> QED
    BY <2>4, <2>8, <1>1, <1>2, Continuing DEF IInv, Fixtures, Places, manager
<1>10. CASE input # <<>>
  <2>1. input' = Tail(input) /\ at' = at /\ add_element(Head(input))
    BY <1>10 DEF ReadElement
  <2>2. /\ n \in Nat /\ n + 1 \in 1..Len(elements) /\ Head(input) = elements[n + 1]
        /\ input' \in Seq(Elements) /\ Len(input') \in 0..Len(elements)
        /\ Len(elements) - Len(input') = n + 1
        /\ \A k \in 1..Len(input') : input'[k] = elements[n + 1 + k]
    BY <1>5, <1>6, <1>10, <2>1, RestAdvances
  <2>3. Requests[(Len(argv) + n) + 1] = elements[n + 1]
    BY <1>7, <2>2
  <2>4. CASE elements[n + 1].tag # "option"
    <3>1. Throw("exception")
      BY <2>1, <2>2, <2>4 DEF add_element
    <3>2. ~Readable
      <4>1. n + 1 \in DOMAIN ConfigFile.elements /\ ConfigFile.elements[n + 1].tag # "option"
        BY <1>4, <1>6, <2>2, <2>4
      <4>2. OnCommandLine("CONFIG_FILE") # {}
        BY <1>6 DEF ConfigFile, Absent
      <4> QED
        BY <4>1, <4>2 DEF Readable
    <3> QED
      BY <3>1, <3>2, <2>1, <1>1, <1>2, <1>6, Refusing DEF Places
  <2>5. CASE elements[n + 1].tag = "option"
    <3>1. /\ m_options' = Assigned(m_options, [key \in {toupper(Requests[(Len(argv) + n) + 1].name)} |->
                                                  Requests[(Len(argv) + n) + 1].value])
          /\ m_info' = m_info /\ m_aggregate_checks' = m_aggregate_checks /\ thrown' = "none"
      BY <2>1, <2>2, <2>3, <2>5 DEF add_element, SetOption
    <3>2. PICK m \in Nat : m = Len(argv) + n
      BY <1>7, <2>2
    <3>3. Merged(m_options', m + 1)
      BY <3>1, <3>2, <1>6, MergeOne
    <3>4. Merged(m_options, m + 1)'
      BY <3>3, <1>8 DEF Merged, IsLast
    <3>5. ReadOf(elements)' = n + 1 /\ IsRest(elements)'
      BY <2>2 DEF ReadOf, IsRest
    <3>6. ReadOf(ConfigFile.elements)' = n + 1 /\ IsRest(ConfigFile.elements)'
      BY <3>5, <1>8 DEF ReadOf, IsRest
    <3>7. ElementsTo(n + 1)
      BY <1>4, <1>6, <2>2, <2>5 DEF ElementsTo
    <3>8. ElementsTo(n + 1)'
      BY <3>7, <1>8 DEF ElementsTo
    <3>9. ReadableTo(Len(argv))'
      BY <1>6, <1>8 DEF ReadableTo
    <3>10. Nothing' /\ Untouched'
      BY <1>2, <1>6, <3>1 DEF Nothing, Untouched, start
    <3>11. Len(argv)' + ReadOf(ConfigFile.elements)' = m + 1
      BY <3>2, <3>6, <1>7, <1>8, <2>2
    <3>12. /\ Merged(m_options, Len(argv) + ReadOf(ConfigFile.elements))'
           /\ ElementsTo(ReadOf(ConfigFile.elements))'
      BY <3>4, <3>6, <3>8, <3>11 DEF Merged, IsLast, ElementsTo
    <3>13. AtConfigFile'
      BY <3>6, <3>9, <3>10, <3>12, <1>6, <1>8, <2>2 DEF AtConfigFile
    <3>14. Going'
      BY <3>13, <1>1, <2>1 DEF Going
    <3> QED
      BY <3>1, <3>14, <1>1, <2>1, <1>2, Continuing DEF IInv, Fixtures, Places
  <2> QED
    BY <2>4, <2>5
<1> QED
  BY <1>9, <1>10

-----------------------------------------------------------------------------
(* The tables of options. *)

LEMMA TablesAreKnown ==
    /\ \A name \in DOMAIN Known :
          Known[name].required = FALSE /\ Known[name].type \in {"text", "boolean"}
    /\ option_help \notin DOMAIN Known
<1>1. /\ \A name \in DOMAIN exe_options_info_lookup :
             /\ exe_options_info_lookup[name].required = FALSE
             /\ exe_options_info_lookup[name].type \in {"text", "boolean"}
      /\ option_help \notin DOMAIN exe_options_info_lookup
  BY DEF exe_options_info_lookup, Option, Text, Switch, option_help
<1>2. /\ \A name \in DOMAIN lib_options_info_lookup :
             /\ lib_options_info_lookup[name].required = FALSE
             /\ lib_options_info_lookup[name].type \in {"text", "boolean"}
      /\ option_help \notin DOMAIN lib_options_info_lookup
  BY DEF lib_options_info_lookup, Option, Text, Switch, option_help
<1> QED
  BY <1>1, <1>2 DEF Known, Assigned

LEMMA UppercasedIs ==
    ASSUME NEW table, table = [name \in DOMAIN table |-> table[name]],
           \A name \in DOMAIN table : name \notin DOMAIN Upper
    PROVE  Uppercased(table) = table
<1>1. \A name \in DOMAIN table : toupper(name) = name
  BY DEF toupper
<1>2. {toupper(name) : name \in DOMAIN table} = DOMAIN table
  BY <1>1
<1>3. \A upper \in DOMAIN table : (CHOOSE name \in DOMAIN table : toupper(name) = upper) = upper
  BY <1>1
<1> QED
  BY <1>2, <1>3 DEF Uppercased

LEMMA AddInfosKeeps == IInv /\ thrown = "none" /\ AddInfos => IInv'
<1> SUFFICES ASSUME IInv, thrown = "none", AddInfos
             PROVE  IInv'
  OBVIOUS
<1>1. at = "infos" /\ at' = "defaults"
  BY DEF AddInfos
<1>2. UNCHANGED <<files, lib_options, ptree, writes, rc>> /\ UNCHANGED start
  BY DEF AddInfos, program
<1>3. AtInfos
  BY <1>1 DEF IInv, Going
<1>4. Uppercased(exe_options_info_lookup) = exe_options_info_lookup
  <2>1. exe_options_info_lookup =
            [name \in DOMAIN exe_options_info_lookup |-> exe_options_info_lookup[name]]
    BY DEF exe_options_info_lookup
  <2> QED
    BY <2>1, UppercasedIs, UpperAssumption
<1>5. Uppercased(lib_options_info_lookup) = lib_options_info_lookup
  <2>1. lib_options_info_lookup =
            [name \in DOMAIN lib_options_info_lookup |-> lib_options_info_lookup[name]]
    BY DEF lib_options_info_lookup
  <2> QED
    BY <2>1, UppercasedIs, UpperAssumption
<1>6. Assigned(<<>>, exe_options_info_lookup) = exe_options_info_lookup
  BY DEF Assigned, exe_options_info_lookup
<1>7. m_info' = Known
  BY <1>3, <1>4, <1>5, <1>6 DEF AddInfos, add_info_and_checks, AtInfos, Nothing, Known
<1>8. m_aggregate_checks' = aggregate_checks /\ m_options' = m_options /\ thrown' = "none"
  <2>1. aggregate_checks \in Seq({aggregate_checks[1], aggregate_checks[2], aggregate_checks[3]})
    BY DEF aggregate_checks
  <2>2. <<>> \o aggregate_checks = aggregate_checks
    BY <2>1
  <2> QED
    BY <2>2, <1>3 DEF AddInfos, add_info_and_checks, AtInfos, Nothing
<1>9. Tables' /\ Untouched'
  BY <1>2, <1>3, <1>7, <1>8 DEF Tables, Untouched, AtInfos, start, Known
<1>10. Merged(m_options, Len(Requests))' /\ Readable'
  BY <1>2, <1>3, <1>8, FixedRequests, FixedPermission DEF AtInfos, Merged, IsLast
<1>11. Going'
  BY <1>1, <1>9, <1>10 DEF Going, AtDefaults
<1> QED
  BY <1>1, <1>2, <1>7, <1>8, <1>11, Continuing DEF IInv, Fixtures, Places

-----------------------------------------------------------------------------
(* Defaults and checks. *)

LEMMA Objecting ==
    ASSUME IInv, thrown = "none", at # "ended", at' \in Places, at' # "ended",
           Throw("Options_error"), UNCHANGED <<rc, lib_options, start>>,
           UNCHANGED files, files = disk.files,
           ~Allowed, option_help \in Asked => ~UnderstoodOrHelp
    PROVE  IInv'
<1>1. thrown' = "Options_error" /\ files' = files /\ disk' = disk /\ Asked' = Asked
  BY FixedRequests DEF Throw, start
<1>2. ~Allowed' /\ (option_help \in Asked' => ~UnderstoodOrHelp')
  BY <1>1, FixedPermission
<1>3. Caught'
  BY <1>1, <1>2 DEF Caught, option_help
<1>4. DOMAIN lib_options' \subseteq DOMAIN lib_options_info_lookup
  BY DEF IInv, Fixtures
<1> QED
  BY <1>1, <1>3, <1>4, Throwing

LEMMA Helping ==
    ASSUME IInv, thrown = "none", at # "ended", at' \in Places, at' # "ended",
           Throw("Display_help_error"), UNCHANGED <<rc, lib_options, start>>,
           UNCHANGED files, files = disk.files, option_help \in Asked
    PROVE  IInv'
<1>1. thrown' = "Display_help_error" /\ files' = files /\ disk' = disk /\ Asked' = Asked
  BY FixedRequests DEF Throw, start
<1>2. Caught'
  BY <1>1 DEF Caught, option_help
<1>3. DOMAIN lib_options' \subseteq DOMAIN lib_options_info_lookup
  BY DEF IInv, Fixtures
<1> QED
  BY <1>1, <1>2, <1>3, Throwing

LEMMA SetDefaultsKeeps == IInv /\ thrown = "none" /\ SetDefaults => IInv'
<1> SUFFICES ASSUME IInv, thrown = "none", SetDefaults
             PROVE  IInv'
  OBVIOUS
<1>1. at = "defaults" /\ at' = "checks"
  BY DEF SetDefaults
<1>2. UNCHANGED <<files, lib_options, ptree, writes, rc>> /\ UNCHANGED start
  BY DEF SetDefaults, program
<1>3. AtDefaults /\ argv \in ArgumentLists /\ disk \in Disks
  BY <1>1 DEF IInv, Going, Fixtures
<1>4. /\ Readable /\ Merged(m_options, Len(Requests)) /\ files = disk.files /\ Untouched
      /\ m_info = Known /\ m_aggregate_checks = aggregate_checks
  BY <1>3 DEF AtDefaults, Tables, Untouched
<1>5. /\ DOMAIN m_options = Asked
      /\ \A name \in Asked : Value(name) =
             IF m_options[name] = "" THEN Known[name].default_value ELSE m_options[name]
  BY <1>3, <1>4, SettledFrom
<1>6. ASSUME NEW name \in Asked, name \notin DOMAIN Known,
             Throw(IF name = option_help THEN "Display_help_error" ELSE "Options_error")
      PROVE  IInv'
  <2>1. CASE name = option_help
    BY <2>1, <1>1, <1>2, <1>4, <1>6, Helping DEF Places
  <2>2. CASE name # option_help
    <3>1. ~Allowed /\ ~UnderstoodOrHelp
      BY <2>2, <1>6 DEF Allowed, UnderstoodOrHelp, Understood
    <3> QED
      BY <3>1, <2>2, <1>1, <1>2, <1>4, <1>6, Objecting DEF Places
  <2> QED
    BY <2>1, <2>2
<1>7. ASSUME m_options' = WithDefaults, UNCHANGED <<m_info, m_aggregate_checks, thrown>>
      PROVE  IInv'
  <2>1. /\ DOMAIN m_options' = Asked
        /\ \A name \in Asked : m_options'[name] = Value(name)
    BY <1>4, <1>5, <1>7 DEF WithDefaults
  <2>2. Settled'
    BY <2>1, <1>2, FixedRequests, FixedValues DEF Settled
  <2>3. Readable' /\ Tables' /\ Untouched'
    BY <1>2, <1>4, <1>7, FixedPermission DEF Tables, Untouched, start, Known
  <2>4. Going'
    BY <2>2, <2>3, <1>1 DEF Going, AtChecks
  <2> QED
    BY <2>4, <1>1, <1>2, <1>7, Continuing DEF IInv, Fixtures, Places
<1> QED
  BY <1>4, <1>5, <1>6, <1>7 DEF SetDefaults, set_defaults_

LEMMA ComplaintIs ==
    ASSUME m_info = Known, NEW name
    PROVE  Complaint(name, Value(name)) = IF name = option_help THEN "Display_help_error"
                                          ELSE IF Understood(name) THEN "none" ELSE "Options_error"
<1>1. Value(name) = "" => Known[name].default_value = ""
  BY DEF Value
<1>2. name \in DOMAIN Known => Known[name].type \in {"text", "boolean"}
  BY TablesAreKnown
<1> QED
  BY <1>1, <1>2 DEF Complaint, Understood

(* The checks of several options say what Allowed says of them. *)
LEMMA AggregateChecksAre ==
    (\A i \in DOMAIN aggregate_checks : Passes(m_options, aggregate_checks[i]))
    <=> /\ \E load \in Loads : DOMAIN m_options \cap Loads = {load}
        /\ \E option \in DOMAIN m_options : option \in ToSet(write_options)
<1>1. DOMAIN aggregate_checks = 1..3
  BY DEF aggregate_checks
<1>2. Passes(m_options, aggregate_checks[1])
      <=> "LOAD_SAVE" \in DOMAIN m_options \/ "LOAD_INFO" \in DOMAIN m_options
  BY DEF Passes, aggregate_checks, check_requires_at_least_one_of
<1>3. Passes(m_options, aggregate_checks[2]) <=> \E option \in DOMAIN m_options : option \in ToSet(write_options)
  <2>1. ToSet(write_options) = {"WRITE_TRANSLATION", "WRITE_INFO", "WRITE_SAVE"}
    BY DEF ToSet, write_options
  <2> QED
    BY <2>1 DEF Passes, aggregate_checks, check_requires_at_least_one_of
<1>4. Passes(m_options, aggregate_checks[3])
      <=> ~("LOAD_SAVE" \in DOMAIN m_options /\ "LOAD_INFO" \in DOMAIN m_options)
  BY DEF Passes, aggregate_checks, check_compatibility
<1>5. (\A i \in DOMAIN aggregate_checks : Passes(m_options, aggregate_checks[i]))
      <=> /\ Passes(m_options, aggregate_checks[1])
          /\ Passes(m_options, aggregate_checks[2])
          /\ Passes(m_options, aggregate_checks[3])
  BY <1>1
<1>6. (\E load \in Loads : DOMAIN m_options \cap Loads = {load})
      <=> /\ "LOAD_SAVE" \in DOMAIN m_options \/ "LOAD_INFO" \in DOMAIN m_options
          /\ ~("LOAD_SAVE" \in DOMAIN m_options /\ "LOAD_INFO" \in DOMAIN m_options)
  BY DEF Loads
<1> QED
  BY <1>2, <1>3, <1>4, <1>5, <1>6

LEMMA CheckOptionsKeeps == IInv /\ thrown = "none" /\ CheckOptions => IInv'
<1> SUFFICES ASSUME IInv, thrown = "none", CheckOptions
             PROVE  IInv'
  OBVIOUS
<1>1. at = "checks" /\ at' = "log"
  BY DEF CheckOptions
<1>2. UNCHANGED <<files, lib_options, ptree, writes, rc>> /\ UNCHANGED start
  BY DEF CheckOptions, program
<1>3. AtChecks
  BY <1>1 DEF IInv, Going
<1>4. /\ Readable /\ Settled /\ Untouched /\ files = disk.files
      /\ m_info = Known /\ m_aggregate_checks = aggregate_checks
      /\ DOMAIN m_options = Asked
  BY <1>3 DEF AtChecks, Tables, Untouched, Settled
<1>5. \A name \in Asked :
          Complaint(name, m_options[name]) =
              IF name = option_help THEN "Display_help_error"
              ELSE IF Understood(name) THEN "none" ELSE "Options_error"
  BY <1>4, ComplaintIs DEF Settled
<1>6. ASSUME NEW name \in Asked, Complaint(name, m_options[name]) # "none",
             Throw(Complaint(name, m_options[name]))
      PROVE  IInv'
  <2>1. CASE name = option_help
    BY <2>1, <1>1, <1>2, <1>4, <1>5, <1>6, Helping DEF Places
  <2>2. CASE name # option_help
    <3>1. Throw("Options_error") /\ ~Understood(name)
      BY <2>2, <1>5, <1>6
    <3>2. ~Allowed /\ ~UnderstoodOrHelp
      BY <3>1, <2>2 DEF Allowed, UnderstoodOrHelp
    <3> QED
      BY <3>1, <3>2, <1>1, <1>2, <1>4, Objecting DEF Places
  <2> QED
    BY <2>1, <2>2
<1>7. CASE \A name \in Asked : Complaint(name, m_options[name]) = "none"
  <2>1. \A name \in Asked : name # option_help /\ Understood(name) /\ name \in DOMAIN Known
    BY <1>5, <1>7 DEF Understood
  <2>2. missing_required_options = {}
    BY <1>4, TablesAreKnown DEF missing_required_options
  <2>3. dependency_violations = {} <=> \A name \in Asked : Known[name].depends_on \subseteq Asked
    BY <2>1, <1>4 DEF dependency_violations
  <2>4. (\E i \in DOMAIN m_aggregate_checks : ~Passes(m_options, m_aggregate_checks[i]))
        <=> ~(/\ \E load \in Loads : Asked \cap Loads = {load}
              /\ \E option \in Asked : option \in ToSet(write_options))
    BY <1>4, AggregateChecksAre
  <2>5. Allowed <=> /\ dependency_violations = {}
                    /\ \A i \in DOMAIN m_aggregate_checks : Passes(m_options, m_aggregate_checks[i])
    BY <2>1, <2>3, <2>4, <1>4 DEF Allowed
  <2>6. {Complaint(name, m_options[name]) : name \in DOMAIN m_options} \ {"none"} = {}
    BY <1>4, <1>7
  <2>7. \/ ~Allowed /\ Throw("Options_error")
        \/ Allowed /\ UNCHANGED <<manager, thrown>>
    BY <2>2, <2>5, <2>6 DEF CheckOptions, check_options_
  <2>8. CASE ~Allowed /\ Throw("Options_error")
    BY <2>1, <2>8, <1>1, <1>2, <1>4, Objecting DEF Places
  <2>9. CASE Allowed /\ UNCHANGED <<manager, thrown>>
    <3>1. Allowed' /\ Settled' /\ Untouched'
      BY <2>9, <1>2, <1>4, FixedPermission, FixedRequests, FixedValues DEF Settled, Untouched, manager, start
    <3>2. Going'
      BY <3>1, <1>1 DEF Going, AtLog
    <3> QED
      BY <3>2, <2>9, <1>1, <1>2, Continuing DEF IInv, Fixtures, Places, manager
  <2> QED
    BY <2>7, <2>8, <2>9
<1>8. CASE \E name \in Asked : Complaint(name, m_options[name]) # "none"
  <2>1. {Complaint(name, m_options[name]) : name \in DOMAIN m_options} \ {"none"} # {}
    BY <1>4, <1>8
  <2>2. \E complaint \in {Complaint(name, m_options[name]) : name \in DOMAIN m_options} \ {"none"} :
            Throw(complaint)
    BY <2>1 DEF CheckOptions, check_options_
  <2> QED
    BY <2>2, <1>4, <1>6
<1> QED
  BY <1>7, <1>8

-----------------------------------------------------------------------------
(* Loading. *)

(* An exception after the options were accepted. *)
LEMMA Abandoning ==
    ASSUME IInv, thrown = "none", at # "ended", at' \in Places, at' # "ended",
           Throw("exception"), UNCHANGED <<rc, start>>, DOMAIN files' = DOMAIN files,
           DOMAIN lib_options' \subseteq DOMAIN lib_options_info_lookup,
           Allowed, Spared', Apart => Dumped'
    PROVE  IInv'
<1>1. thrown' = "exception" /\ (Allowed' <=> Allowed) /\ (Apart' <=> Apart)
  BY FixedPermission, FixedFiles DEF Throw, Apart
<1>2. Caught'
  BY <1>1 DEF Caught
<1> QED
  BY <1>2, Throwing

LEMMA AbandonedUntouched ==
    ASSUME UNCHANGED start, ptree'.data = "none",
           \A path \in DOMAIN files' \ Logs : files'[path] = disk.files[path]
    PROVE  Spared' /\ Dumped'
<1>1. disk' = disk /\ Logs' = Logs
  BY FixedFiles DEF start
<1>2. Spared'
  BY <1>1 DEF Spared
<1>3. Dumped'
  BY <1>1 DEF Dumped
<1> QED
  BY <1>2, <1>3

LEMMA AllowedIs ==
    ASSUME Allowed
    PROVE  /\ Asked \subseteq DOMAIN Known /\ option_help \notin Asked
           /\ "LOAD_SAVE" \notin Asked <=> "LOAD_INFO" \in Asked
<1>1. Asked \subseteq DOMAIN Known
  BY DEF Allowed, Understood
<1>2. PICK load \in Loads : Asked \cap Loads = {load}
  BY DEF Allowed
<1>3. "LOAD_SAVE" \notin Asked <=> "LOAD_INFO" \in Asked
  BY <1>2 DEF Loads
<1> QED
  BY <1>1, <1>3, TablesAreKnown

(* What was read of the options stays as it is. *)
LEMMA LoadingKept ==
    ASSUME UNCHANGED start, UNCHANGED lib_options, UNCHANGED manager, Loading
    PROVE  Loading'
<1>1. Allowed' /\ Settled'
  BY FixedPermission, FixedRequests, FixedValues DEF Loading, Settled, manager
<1>2. LibrarySettled'
  BY FixedValues DEF Loading, LibrarySettled, LibOption
<1> QED
  BY <1>1, <1>2 DEF Loading

(* The options that were settled say which file is the log. *)
LEMMA LoggingIs ==
    ASSUME Settled
    PROVE  /\ Logs = IF Logging THEN {log_filename} ELSE {}
           /\ \A path, contents : LeftAt(path, contents) = IF path \in Logs THEN Log ELSE contents
<1>1. Logs = IF Logging THEN {log_filename} ELSE {}
  BY DEF Settled, Logs, Logging
<1> QED
  BY <1>1 DEF LeftAt

LEMMA StartLogKeeps == IInv /\ thrown = "none" /\ StartLog => IInv'
<1> SUFFICES ASSUME IInv, thrown = "none", StartLog
             PROVE  IInv'
  OBVIOUS
<1>1. at = "log" /\ at' = "load" /\ lib_options' = get_options_exclusive_of(exe_options_info_lookup)
  BY DEF StartLog
<1>2. UNCHANGED <<ptree, writes, rc>> /\ UNCHANGED start
  BY DEF StartLog
<1>3. /\ AtLog /\ Allowed /\ Settled /\ files = disk.files /\ ptree = NoTree
      /\ DOMAIN m_options = Asked
  BY <1>1 DEF IInv, Going, AtLog, Untouched, Settled
<1>4. DOMAIN lib_options' = Asked \ DOMAIN exe_options_info_lookup
  BY <1>1, <1>3 DEF get_options_exclusive_of
<1>5. DOMAIN lib_options' \subseteq DOMAIN lib_options_info_lookup
  <2>1. DOMAIN Known = DOMAIN exe_options_info_lookup \cup DOMAIN lib_options_info_lookup
    BY DEF Known, Assigned
  <2> QED
    BY <2>1, <1>3, <1>4, AllowedIs
<1>6. CASE Throw("exception") /\ UNCHANGED files
  <2>1. files' = disk.files /\ ptree'.data = "none"
    BY <1>2, <1>3, <1>6 DEF NoTree
  <2>2. Spared' /\ Dumped'
    BY <2>1, <1>2, AbandonedUntouched
  <2> QED
    BY <2>1, <2>2, <1>1, <1>2, <1>3, <1>5, <1>6, Abandoning DEF Places
<1>7. CASE /\ UNCHANGED <<manager, thrown>>
           /\ \/ ~Logging /\ UNCHANGED files
              \/ Logging /\ Put(log_filename, Log)
  <2>6. DOMAIN files' = DOMAIN files
    BY <1>7 DEF Put
  <2>7. \A path \in DOMAIN files : files'[path] = IF path \in Logs THEN Log ELSE disk.files[path]
    BY <1>3, <1>7, LoggingIs DEF Put
  <2>8. Started'
    BY <1>2, <2>6, <2>7, FixedFiles DEF Started, start, Log, NoTree, Torn
  <2>1. Allowed' /\ Settled'
    BY <1>2, <1>3, <1>7, FixedPermission, FixedRequests, FixedValues DEF Settled, manager
  <2>2. \A name \in {"DEBUG_OUTPUT_DIR", "DEBUG_WRITE_IMPORTS"} :
            name \notin DOMAIN exe_options_info_lookup
    BY DEF exe_options_info_lookup
  <2>3. \A name \in {"DEBUG_OUTPUT_DIR", "DEBUG_WRITE_IMPORTS"} :
            LibOption(name)' = LibraryValue(name)
    BY <1>1, <1>3, <1>4, <2>2 DEF LibOption, LibraryValue, get_options_exclusive_of, Settled
  <2>4. LibrarySettled'
    BY <1>2, <2>3, FixedValues DEF LibrarySettled
  <2>5. Going'
    BY <2>1, <2>4, <2>8, <1>1, <1>2, <1>3 DEF Going, AtLoad, Loading, start, NoTree
  <2> QED
    BY <2>5, <2>6, <1>1, <1>2, <1>5, <1>7, Continuing DEF IInv, Fixtures, Places, manager
<1> QED
  BY <1>6, <1>7 DEF StartLog

LEMMA StartedKept ==
    ASSUME UNCHANGED start, UNCHANGED files, Started
    PROVE  Started'
<1>1. disk' = disk /\ Logs' = Logs
  BY FixedFiles DEF start
<1> QED
  BY <1>1 DEF Started

LEMMA LoadKeeps == IInv /\ thrown = "none" /\ Load => IInv'
<1> SUFFICES ASSUME IInv, thrown = "none", Load
             PROVE  IInv'
  OBVIOUS
<1>1. /\ at = "load" /\ thrown' = "none"
      /\ at' = IF "LOAD_SAVE" \in DOMAIN m_options THEN "read_save"
               ELSE IF "LOAD_INFO" \in DOMAIN m_options THEN "read_info" ELSE "write"
  BY DEF Load
<1>2. UNCHANGED manager /\ UNCHANGED <<files, lib_options, ptree, writes, rc>> /\ UNCHANGED start
  BY DEF Load, program
<1>3. Loading /\ Allowed /\ Started /\ ptree = NoTree /\ DOMAIN m_options = Asked
  BY <1>1 DEF IInv, Going, AtLoad, Loading, Settled
<1>4. Loading' /\ Started' /\ ptree' = NoTree /\ Asked' = Asked
  BY <1>2, <1>3, LoadingKept, FixedRequests, StartedKept
<1>5. at' = IF "LOAD_SAVE" \in Asked THEN "read_save" ELSE "read_info"
  BY <1>1, <1>3, AllowedIs
<1>6. Going'
  BY <1>4, <1>5 DEF Going, AtReadSave, AtReadInfo, NoTree
<1> QED
  BY <1>1, <1>2, <1>5, <1>6, Continuing DEF IInv, Fixtures, Places, manager

(* The tree is there, and nothing has been written but the exports. *)
LEMMA WritingStarts ==
    ASSUME IInv, thrown = "none", at \notin {"write", "ended"}, at' = "write", thrown' = "none",
           UNCHANGED <<manager, lib_options, writes, rc, start>>, DOMAIN files' = DOMAIN files,
           Loading, ptree' = TreeAskedFor, Exported'
    PROVE  IInv'
<1>1. Loading' /\ ptree' = TreeAskedFor'
  BY LoadingKept, FixedFiles
<1>2. writes = write_options
  BY DEF IInv, Fixtures
<1>3. writes' = Remaining(0)
  BY <1>2 DEF Remaining, write_options
<1>4. WrittenSoFar(0)'
  BY DEF WrittenSoFar, Exported
<1>5. AtWrite'
  BY <1>1, <1>3, <1>4 DEF AtWrite
<1>6. Going'
  BY <1>5 DEF Going
<1> QED
  BY <1>6, Continuing DEF IInv, Fixtures, Places, manager

LEMMA NoOutputYet == \A path : Outputs(path, 0) = {}
  BY DEF Outputs

(* Without exports, what was there stands. *)
LEMMA NothingToExport ==
    ASSUME UNCHANGED start, UNCHANGED files, Started, Exports = {}
    PROVE  Exported'
<1>1. \A path : Expected(path, 0) = IF path \in Logs THEN Log ELSE disk.files[path]
  BY NoOutputYet DEF Expected
<1>2. \A path \in DOMAIN files : files'[path] = Expected(path, 0)'
  BY <1>1, FixedFiles DEF Started
<1> QED
  BY <1>2 DEF Exported, Stands

LEMMA ReadInfoKeeps == IInv /\ thrown = "none" /\ ReadInfo => IInv'
<1> SUFFICES ASSUME IInv, thrown = "none", ReadInfo
             PROVE  IInv'
  OBVIOUS
<1>1. at = "read_info" /\ UNCHANGED <<files, lib_options, writes, rc>> /\ UNCHANGED start
  BY DEF ReadInfo
<1>2. /\ Loading /\ Allowed /\ Settled /\ "LOAD_SAVE" \notin Asked /\ "LOAD_INFO" \in Asked
      /\ Started /\ ptree = NoTree /\ DOMAIN files = DOMAIN disk.files
  BY <1>1, AllowedIs DEF IInv, Fixtures, Going, AtReadInfo, Loading
<1> DEFINE path == Value("LOAD_INFO")
<1>3. m_options["LOAD_INFO"] = path
  BY <1>2 DEF Settled
<1>4. ASSUME Contents(path) # Absent
      PROVE  TreeAskedFor = IF IsWhole(path, "info") THEN Contents(path).tree ELSE Garbled
  <2>1. path \in DOMAIN files /\ Contents(path) = files[path]
    BY <1>4 DEF Contents
  <2>2. CASE path \in Logs
    <3>1. Contents(path) = Log /\ ~IsWhole(path, "info")
      BY <2>1, <2>2, <1>2 DEF Started, IsWhole, Log, Torn
    <3> QED
      BY <3>1, <2>2, <1>2 DEF TreeAskedFor
  <2>3. CASE path \notin Logs
    <3>1. Contents(path) = InfoAskedFor
      BY <2>1, <2>3, <1>2 DEF Started, InfoAskedFor
    <3> QED
      BY <3>1, <2>3, <1>2 DEF TreeAskedFor, IsWhole
  <2> QED
    BY <2>2, <2>3
<1>5. CASE /\ IsWhole(path, "info") /\ ptree' = Contents(path).tree
           /\ at' = "write" /\ UNCHANGED <<manager, thrown>>
  <2>1. Contents(path) # Absent
    BY <1>5 DEF IsWhole, Absent
  <2>2. ptree' = TreeAskedFor
    BY <2>1, <1>4, <1>5
  <2>3. Exported'
    BY <1>1, <1>2, NothingToExport DEF Exports
  <2> QED
    BY <2>2, <2>3, <1>1, <1>2, <1>5, WritingStarts
<1>6. CASE /\ ~IsWhole(path, "info") /\ Contents(path) # Absent /\ ptree' = Garbled
           /\ at' = "write" /\ UNCHANGED <<manager, thrown>>
  <2>1. ptree' = TreeAskedFor
    BY <1>4, <1>6
  <2>2. Exported'
    BY <1>1, <1>2, NothingToExport DEF Exports
  <2> QED
    BY <2>1, <2>2, <1>1, <1>2, <1>6, WritingStarts
<1>7. CASE UNCHANGED ptree /\ Fails
  <2>1. Spared' /\ Dumped'
    BY <1>1, <1>2, <1>7, AbandonedUntouched DEF NoTree, Started
  <2> QED
    BY <2>1, <1>1, <1>2, <1>7, Abandoning DEF Fails, Places, IInv, Fixtures
<1> QED
  BY <1>3, <1>5, <1>6, <1>7 DEF ReadInfo, Goes

LEMMA ReadSaveKeeps == IInv /\ thrown = "none" /\ ReadSave => IInv'
<1> SUFFICES ASSUME IInv, thrown = "none", ReadSave
             PROVE  IInv'
  OBVIOUS
<1>1. at = "read_save" /\ UNCHANGED <<files, lib_options, writes, rc>> /\ UNCHANGED start
  BY DEF ReadSave
<1>2. /\ Loading /\ Allowed /\ Settled /\ "LOAD_SAVE" \in Asked
      /\ Started /\ ptree = NoTree /\ disk \in Disks /\ DOMAIN files = DOMAIN disk.files
  BY <1>1 DEF IInv, Fixtures, Going, AtReadSave, Loading
<1>3. m_options["LOAD_SAVE"] = Value("LOAD_SAVE")
  BY <1>2 DEF Settled
<1>4. ptree' = ToLoad
  BY <1>3 DEF ReadSave, ToLoad
<1>5. PICK path, save : /\ path = Value("LOAD_SAVE")
                        /\ save = IF Contents(path) = Log THEN disk.files[path] ELSE Contents(path)
  OBVIOUS
<1>6. CASE /\ save.kind = "save" /\ inflated' = save.tree.data
           /\ at' = "phase_one" /\ UNCHANGED <<manager, thrown>>
  <2>1. Contents(path) # Absent
    BY <1>5, <1>6 DEF Absent, Log, Torn
  <2>2. path \in DOMAIN disk.files /\ Contents(path) = files[path]
    BY <2>1, <1>2 DEF Contents
  <2>3. save = disk.files[path]
    BY <2>2, <1>2, <1>5 DEF Started
  <2>4. inflated' = disk.files[path].tree.data /\ inflated' # "none"
    BY <2>2, <2>3, <1>2, <1>6, DisksAssumption
  <2>5. SaveRead'
    BY <2>4, <1>1, <1>2, <1>5, FixedRequests, FixedValues DEF SaveRead, start
  <2>6. Loading' /\ ptree' = ToLoad' /\ Started'
    BY <1>1, <1>2, <1>4, <1>6, LoadingKept, StartedKept, FixedFiles
  <2>7. Going'
    BY <2>5, <2>6, <1>6 DEF Going, AtPhaseOne
  <2> QED
    BY <2>7, <1>1, <1>2, <1>6, Continuing DEF IInv, Fixtures, Places, manager
<1>7. CASE Fails
  <2>1. ptree'.data = "none"
    BY <1>4 DEF ToLoad
  <2>2. Spared' /\ Dumped'
    BY <2>1, <1>1, <1>2, AbandonedUntouched DEF Started
  <2> QED
    BY <2>2, <1>1, <1>2, <1>7, Abandoning DEF Fails, Places, IInv, Fixtures
<1> QED
  BY <1>3, <1>5, <1>6, <1>7 DEF ReadSave, Goes

(* What a write may leave, when nobody looks. *)
LEMMA UncheckedIs ==
    ASSUME NEW kind, NEW tree, NEW contents \in Unchecked(kind, tree)
    PROVE  contents = Written(kind, tree) \/ (disk.full /\ contents = Cut(Written(kind, tree)))
  BY DEF Unchecked, Cut, Written, Torn

LEMMA PhaseOneKeeps == IInv /\ thrown = "none" /\ PhaseOne => IInv'
<1> SUFFICES ASSUME IInv, thrown = "none", PhaseOne
             PROVE  IInv'
  OBVIOUS
<1>1. /\ at = "phase_one" /\ UNCHANGED <<lib_options, inflated, ptree, writes, rc>>
      /\ UNCHANGED start
  BY DEF PhaseOne
<1>2. /\ Loading /\ Allowed /\ Settled /\ LibrarySettled /\ SaveRead /\ "LOAD_SAVE" \in Asked
      /\ Started /\ ptree = ToLoad
  BY <1>1 DEF IInv, Going, AtPhaseOne, Loading, SaveRead
<1>3. PICK first, second : /\ first = InDebugDir("ConstDefinitions", ".txt")
                           /\ second = InDebugDir("EnumDefinitions", ".txt")
  OBVIOUS
<1>4. LibOption("DEBUG_WRITE_IMPORTS") = LibraryValue("DEBUG_WRITE_IMPORTS")
  BY <1>2 DEF LibrarySettled
<1>5. /\ first = make_path(LibOption("DEBUG_OUTPUT_DIR"), "ConstDefinitions", ".txt")
      /\ second = make_path(LibOption("DEBUG_OUTPUT_DIR"), "EnumDefinitions", ".txt")
  BY <1>2, <1>3 DEF LibrarySettled, InDebugDir
<1>6. Exports = IF LibraryValue("DEBUG_WRITE_IMPORTS") = "1" THEN {first, second} ELSE {}
  BY <1>2, <1>3 DEF Exports
<1>7. ASSUME NEW path \in Exports, NEW contents \in Unchecked("definitions", NoTree),
             files'[path] = LeftAt(path, contents)
      PROVE  Stands(path, 0)'
  <2>1. files'[path] = IF path \in Logs THEN Log ELSE contents
    BY <1>2, <1>7, LoggingIs
  <2>2. Expected(path, 0) = IF path \in Logs THEN Log ELSE Written("definitions", NoTree)
    BY NoOutputYet DEF Expected
  <2>3. contents = Written("definitions", NoTree)
        \/ (disk.full /\ contents = Cut(Written("definitions", NoTree)))
    BY UncheckedIs
  <2>4. \/ files'[path] = Expected(path, 0)
        \/ disk.full /\ files'[path] = Cut(Expected(path, 0))
    BY <2>1, <2>2, <2>3
  <2>5. Expected(path, 0)' = Expected(path, 0) /\ path \in Exports' /\ disk' = disk
    BY <1>1, FixedFiles DEF start
  <2> QED
    BY <2>4, <2>5 DEF Stands, Cut
<1>8. ASSUME NEW path \in DOMAIN files, path \notin Exports, files'[path] = files[path]
      PROVE  Stands(path, 0)'
  <2>1. Expected(path, 0) = IF path \in Logs THEN Log ELSE disk.files[path]
    BY <1>8, NoOutputYet DEF Expected
  <2>2. files'[path] = Expected(path, 0)'
    BY <2>1, <1>1, <1>2, <1>8, FixedFiles DEF Started
  <2> QED
    BY <2>2 DEF Stands
<1>9. ASSUME DOMAIN files' = DOMAIN files, at' = "phase_two", UNCHANGED <<manager, thrown>>, Exported'
      PROVE  IInv'
  <2>1. Loading' /\ ptree' = ToLoad'
    BY <1>1, <1>2, <1>9, LoadingKept, FixedFiles
  <2>2. SaveRead'
    BY <1>1, <1>2, FixedRequests, FixedValues DEF SaveRead, start
  <2>3. Going'
    BY <2>1, <2>2, <1>9 DEF Going, AtPhaseTwo
  <2> QED
    BY <2>3, <1>1, <1>9, Continuing DEF IInv, Fixtures, Places, manager
<1>10. ASSUME DOMAIN files' = DOMAIN files, Fails,
             \A path \in DOMAIN files \ Exports : files'[path] = files[path]
      PROVE  IInv'
  <2>1. /\ disk' = disk /\ Exports' = Exports /\ CrashDumps' = CrashDumps /\ Logs' = Logs
        /\ ptree'.data = "none"
    BY <1>1, <1>2, FixedFiles DEF start, ToLoad
  <2>2. \A path \in DOMAIN files \ (Exports \cup Logs) : files'[path] = disk.files[path]
    BY <1>2, <1>10 DEF Started
  <2>3. Spared'
    BY <2>1, <2>2, <1>10 DEF Spared
  <2>4. Apart => Dumped'
    BY <2>1, <2>2, <1>10 DEF Dumped, Apart
  <2> QED
    BY <2>3, <2>4, <1>1, <1>2, <1>10, Abandoning DEF Fails, Places, IInv, Fixtures
<1>11. CASE UNCHANGED files /\ Fails
  BY <1>10, <1>11
<1>12. CASE /\ LibOption("DEBUG_WRITE_IMPORTS") # "1" /\ UNCHANGED files
            /\ at' = "phase_two" /\ UNCHANGED <<manager, thrown>>
  <2>1. Exported'
    BY <1>1, <1>2, <1>4, <1>6, <1>12, NothingToExport
  <2> QED
    BY <2>1, <1>9, <1>12
<1>13. CASE /\ LibOption("DEBUG_WRITE_IMPORTS") = "1" /\ CanWrite(first) /\ CanWrite(second)
            /\ \E c1, c2 \in Unchecked("definitions", NoTree) :
                  files' = [files EXCEPT ![first] = LeftAt(first, c1), ![second] = LeftAt(second, c2)]
            /\ at' = "phase_two" /\ UNCHANGED <<manager, thrown>>
  <2>1. PICK c1, c2 \in Unchecked("definitions", NoTree) :
            files' = [files EXCEPT ![first] = LeftAt(first, c1), ![second] = LeftAt(second, c2)]
    BY <1>13
  <2>2. Exports = {first, second} /\ first \in DOMAIN files /\ second \in DOMAIN files
    BY <1>4, <1>6, <1>13 DEF CanWrite
  <2>3. /\ DOMAIN files' = DOMAIN files
        /\ files'[second] = LeftAt(second, c2)
        /\ first # second => files'[first] = LeftAt(first, c1)
        /\ \A path \in DOMAIN files \ Exports : files'[path] = files[path]
    BY <2>1, <2>2
  <2>4. Stands(first, 0)' /\ Stands(second, 0)'
    BY <2>2, <2>3, <1>7
  <2>5. \A path \in DOMAIN files \ Exports : Stands(path, 0)'
    BY <2>3, <1>8
  <2>6. Exported'
    BY <2>2, <2>3, <2>4, <2>5 DEF Exported
  <2> QED
    BY <2>3, <2>6, <1>9, <1>13
<1>14. CASE /\ LibOption("DEBUG_WRITE_IMPORTS") = "1" /\ Fails
            /\ \E c1 \in Unchecked("definitions", NoTree) : Put(first, c1)
  <2>1. Exports = {first, second}
    BY <1>4, <1>6, <1>14
  <2>2. DOMAIN files' = DOMAIN files /\ \A path \in DOMAIN files \ Exports : files'[path] = files[path]
    BY <2>1, <1>14 DEF Put
  <2> QED
    BY <2>2, <1>10, <1>14
<1> QED
  BY <1>5, <1>11, <1>12, <1>13, <1>14 DEF PhaseOne, Goes

LEMMA ExportedKept ==
    ASSUME UNCHANGED start, UNCHANGED files, Exported
    PROVE  Exported'
<1>1. \A path, k : Stands(path, k)' <=> Stands(path, k)
  BY FixedFiles DEF Stands, start, Cut
<1> QED
  BY <1>1 DEF Exported

LEMMA PhaseTwoKeeps == IInv /\ thrown = "none" /\ PhaseTwo => IInv'
<1> SUFFICES ASSUME IInv, thrown = "none", PhaseTwo
             PROVE  IInv'
  OBVIOUS
<1>1. /\ at = "phase_two" /\ UNCHANGED <<manager, thrown, files, lib_options, inflated, writes, rc>>
      /\ UNCHANGED start
  BY DEF PhaseTwo
<1>2. /\ Loading /\ Exported /\ SaveRead /\ "LOAD_SAVE" \in Asked /\ ptree = ToLoad
      /\ inflated = disk.files[Value("LOAD_SAVE")].tree.data
  BY <1>1 DEF IInv, Going, AtPhaseTwo, SaveRead
<1>3. PICK complete \in BOOLEAN :
          /\ ptree' = [origin |-> ptree.origin, data |-> inflated, complete |-> complete]
          /\ at' = IF complete THEN "write" ELSE "crash_dump"
  BY DEF PhaseTwo
<1>4. ptree' = [origin |-> Value("LOAD_SAVE"), data |-> inflated, complete |-> complete]
  BY <1>2, <1>3 DEF ToLoad
<1>5. CASE complete = TRUE
  <2>1. ptree' = TreeAskedFor
    BY <1>2, <1>4, <1>5 DEF TreeAskedFor
  <2>2. Exported'
    BY <1>1, <1>2, ExportedKept
  <2>3. UNCHANGED <<manager, lib_options, writes, rc, start>> /\ at' = "write"
    BY <1>1, <1>3, <1>5
  <2> QED
    BY <2>1, <2>2, <2>3, <1>1, <1>2, WritingStarts
<1>6. CASE complete = FALSE
  <2>1. at' = "crash_dump" /\ ptree' = Partly
    BY <1>3, <1>4, <1>6 DEF Partly
  <2>2. Loading' /\ ptree' = Partly'
    BY <2>1, <1>1, <1>2, LoadingKept, FixedValues DEF Partly
  <2>3. Exported' /\ SaveRead'
    BY <1>1, <1>2, ExportedKept, FixedRequests, FixedValues DEF SaveRead, start
  <2>4. Going'
    BY <2>1, <2>2, <2>3 DEF Going, AtCrashDump
  <2> QED
    BY <2>1, <2>4, <1>1, Continuing DEF IInv, Fixtures, Places, manager
<1> QED
  BY <1>5, <1>6

LEMMA CrashDumpKeeps == IInv /\ thrown = "none" /\ CrashDump => IInv'
<1> SUFFICES ASSUME IInv, thrown = "none", CrashDump
             PROVE  IInv'
  OBVIOUS
<1>1. /\ at = "crash_dump" /\ Fails /\ UNCHANGED <<lib_options, ptree, writes, rc>>
      /\ UNCHANGED start
  BY DEF CrashDump
<1>2. /\ Allowed /\ Settled /\ LibrarySettled /\ Exported
      /\ "LOAD_SAVE" \in Asked /\ inflated # "none" /\ ptree = Partly
  BY <1>1 DEF IInv, Going, AtCrashDump, Loading, SaveRead
<1>3. /\ ptree.origin = Value("LOAD_SAVE") /\ ptree.data # "none" /\ ~ptree.complete
  BY <1>2 DEF Partly
<1>4. CrashDumps = {DumpPath}
  BY <1>2, <1>3 DEF CrashDumps, DumpPath, InDebugDir, LibrarySettled
<1>5. DOMAIN files' = DOMAIN files
  BY DEF CrashDump, InfoWritten, InfoFails, Put
<1>6. \A path \in DOMAIN files \ CrashDumps : files'[path] = files[path]
  BY <1>4 DEF CrashDump, InfoWritten, InfoFails, Put
<1>7. \A path \in DOMAIN files \ (Exports \cup Logs) : files[path] = disk.files[path]
  BY <1>2, NoOutputYet DEF Exported, Stands, Expected
<1>8. ASSUME DumpPath \in DOMAIN files \ Logs
      PROVE  IF DumpPath \notin disk.readonly
             THEN \/ files'[DumpPath] = Written("info", ptree)
                  \/ disk.full /\ files'[DumpPath] = Torn("info", ptree)
             ELSE files'[DumpPath] = files[DumpPath]
  <2>1. \A contents : LeftAt(DumpPath, contents) = contents
    BY <1>2, <1>8, LoggingIs
  <2>2. \/ /\ DumpPath \notin disk.readonly
           /\ \E contents \in Unchecked("info", ptree) : files'[DumpPath] = contents
        \/ DumpPath \in disk.readonly /\ files' = files
        \/ DumpPath \notin disk.readonly /\ disk.full /\ files'[DumpPath] = Torn("info", ptree)
    BY <2>1, <1>8 DEF CrashDump, InfoWritten, InfoFails, Put, CanWrite
  <2>3. \A contents \in Unchecked("info", ptree) :
            contents = Written("info", ptree) \/ (disk.full /\ contents = Torn("info", ptree))
    BY DEF Unchecked
  <2> QED
    BY <2>2, <2>3
<1>9. /\ disk' = disk /\ Exports' = Exports /\ CrashDumps' = CrashDumps /\ Logs' = Logs
      /\ ptree' = ptree
  BY <1>1, FixedFiles DEF start
<1>10. Spared'
  BY <1>5, <1>6, <1>7, <1>9 DEF Spared
<1>11. Apart => Dumped'
  BY <1>3, <1>4, <1>5, <1>7, <1>8, <1>9 DEF Dumped, Apart
<1> QED
  BY <1>1, <1>2, <1>5, <1>10, <1>11, Abandoning DEF Fails, Places, IInv, Fixtures

-----------------------------------------------------------------------------
(* Writing. *)

LEMMA RemainingIs ==
    ASSUME NEW k \in 0..3, writes = Remaining(k), writes # <<>>
    PROVE  /\ k \in 0..2 /\ Head(writes) = write_options[k + 1]
           /\ Tail(writes) = Remaining(k + 1)
<1> DEFINE Options == {"WRITE_TRANSLATION", "WRITE_INFO", "WRITE_SAVE"}
           s == write_options
<1>1. s \in Seq(Options) /\ Len(s) = 3
  BY DEF write_options
<1> HIDE DEF Options, s
<1>2. ASSUME NEW m \in 0..3
      PROVE  /\ SubSeq(s, m + 1, 3) \in Seq(Options) /\ Len(SubSeq(s, m + 1, 3)) = 3 - m
             /\ \A i \in 1..(3 - m) : SubSeq(s, m + 1, 3)[i] = s[m + i]
  <2>0. \A i \in 1..3 : s[i] \in Options
    BY <1>1, SMTT(30)
  <2>1. m + 1 \in Int /\ 3 \in Int /\ \A i \in (m + 1)..3 : s[i] \in Options
    BY <2>0
  <2>2. /\ SubSeq(s, m + 1, 3) \in Seq(Options)
        /\ Len(SubSeq(s, m + 1, 3)) = IF m + 1 <= 3 THEN 3 - (m + 1) + 1 ELSE 0
        /\ \A i \in 1..(3 - (m + 1) + 1) : SubSeq(s, m + 1, 3)[i] = s[m + 1 + i - 1]
    BY <2>1, SubSeqProperties
  <2> QED
    BY <2>2
<1>3. Remaining(k) = SubSeq(s, k + 1, 3) /\ Remaining(k + 1) = SubSeq(s, (k + 1) + 1, 3)
  BY DEF Remaining, s
<1>4. writes \in Seq(Options) /\ Len(writes) = 3 - k /\ \A i \in 1..(3 - k) : writes[i] = s[k + i]
  BY <1>2, <1>3
<1>5. k \in 0..2 /\ k + 1 \in 0..3
  BY <1>4
<1>6. /\ Tail(writes) \in Seq(Options) /\ Len(Tail(writes)) = 2 - k
      /\ \A i \in 1..(2 - k) : Tail(writes)[i] = s[k + i + 1]
  BY <1>4, <1>5
<1>7. /\ Remaining(k + 1) \in Seq(Options) /\ Len(Remaining(k + 1)) = 2 - k
      /\ \A i \in 1..(2 - k) : Remaining(k + 1)[i] = s[k + 1 + i]
  BY <1>2, <1>3, <1>5
<1>8. Tail(writes) = Remaining(k + 1)
  BY <1>5, <1>6, <1>7
<1>9. Head(writes) = s[k + 1]
  BY <1>4, <1>5
<1> QED
  BY <1>5, <1>8, <1>9 DEF s

LEMMA OutputElsewhere ==
    ASSUME NEW k \in 0..2, NEW path,
           write_options[k + 1] \in Asked => Value(write_options[k + 1]) # path
    PROVE  Outputs(path, k + 1) = Outputs(path, k) /\ Expected(path, k + 1) = Expected(path, k)
<1>1. Outputs(path, k + 1) = Outputs(path, k)
  BY DEF Outputs
<1> QED
  BY <1>1 DEF Expected

LEMMA OutputHere ==
    ASSUME NEW k \in 0..2, NEW path,
           write_options[k + 1] \in Asked, Value(write_options[k + 1]) = path
    PROVE  /\ Outputs(path, k + 1) # {}
           /\ Expected(path, k + 1) = IF path \in Logs THEN Log ELSE Output(write_options[k + 1])
<1>1. /\ k + 1 \in Outputs(path, k + 1) /\ Outputs(path, k + 1) \in SUBSET Int
      /\ \A i \in Outputs(path, k + 1) : k + 1 >= i
  BY DEF Outputs
<1>2. Max(Outputs(path, k + 1)) = k + 1
  BY <1>1, MaxIs
<1> QED
  BY <1>1, <1>2 DEF Expected

LEMMA MoreOutputs ==
    ASSUME NEW k \in 0..3, NEW path, Outputs(path, k) # {}
    PROVE  Outputs(path, 3) # {}
  BY DEF Outputs

(* The next output is written, or was not asked for. *)
LEMMA Advancing ==
    ASSUME IInv, thrown = "none", at = "write", at' = at,
           UNCHANGED <<manager, thrown, lib_options, ptree, rc, start>>,
           NEW k \in 0..2, writes' = Remaining(k + 1), DOMAIN files' = DOMAIN files,
           WrittenSoFar(k + 1)'
    PROVE  IInv'
<1>1. Loading /\ ptree = TreeAskedFor
  BY DEF IInv, Going, AtWrite
<1>2. Loading' /\ ptree' = TreeAskedFor'
  BY <1>1, LoadingKept, FixedFiles
<1>3. AtWrite'
  <2>1. k + 1 \in 0..3 /\ writes' = Remaining(k + 1)'
    BY DEF Remaining
  <2> QED
    BY <2>1, <1>2 DEF AtWrite
<1>4. Going'
  BY <1>3 DEF Going
<1> QED
  BY <1>4, Continuing DEF IInv, Fixtures, Places, manager

LEMMA NotAskedKeeps == IInv /\ thrown = "none" /\ NotAsked => IInv'
<1> SUFFICES ASSUME IInv, thrown = "none", NotAsked
             PROVE  IInv'
  OBVIOUS
<1>1. /\ at = "write" /\ at' = at /\ writes # <<>> /\ writes' = Tail(writes)
      /\ Head(writes) \notin DOMAIN m_options
      /\ UNCHANGED <<manager, thrown, lib_options, ptree, rc>> /\ UNCHANGED start /\ UNCHANGED files
  BY DEF NotAsked, Done
<1>2. PICK k \in 0..3 : writes = Remaining(k) /\ WrittenSoFar(k)
  BY <1>1 DEF IInv, Going, AtWrite
<1>3. k \in 0..2 /\ Head(writes) = write_options[k + 1] /\ writes' = Remaining(k + 1)
  BY <1>1, <1>2, RemainingIs
<1>4. write_options[k + 1] \notin Asked
  BY <1>1, <1>3 DEF IInv, Going, AtWrite, Loading, Settled
<1>5. \A path : Outputs(path, k + 1) = Outputs(path, k) /\ Expected(path, k + 1) = Expected(path, k)
  BY <1>3, <1>4, OutputElsewhere
<1>6. WrittenSoFar(k + 1)
  BY <1>2, <1>5 DEF WrittenSoFar, Stands
<1>7. WrittenSoFar(k + 1)'
  BY <1>1, <1>6, FixedFiles DEF WrittenSoFar, Stands, start
<1> QED
  BY <1>1, <1>3, <1>7, Advancing

LEMMA OutputsAre ==
    /\ Output("WRITE_TRANSLATION") = Written("translation", TreeAskedFor)
    /\ Output("WRITE_INFO") = Written("info", TreeAskedFor)
    /\ Output("WRITE_SAVE") = Written("save", SaveOf(TreeAskedFor))
    /\ Cut(Output("WRITE_TRANSLATION")) = Torn("translation", TreeAskedFor)
    /\ Cut(Output("WRITE_INFO")) = Torn("info", TreeAskedFor)
    /\ Cut(Output("WRITE_SAVE")) = Torn("save", SaveOf(TreeAskedFor))
<1>1. /\ Output("WRITE_TRANSLATION") = Written("translation", TreeAskedFor)
      /\ Output("WRITE_INFO") = Written("info", TreeAskedFor)
      /\ Output("WRITE_SAVE") = Written("save", SaveOf(TreeAskedFor))
  BY DEF Output
<1>2. \A kind, tree : Cut(Written(kind, tree)) = Torn(kind, tree)
  BY DEF Cut, Written
<1> QED
  BY <1>1, <1>2

(* A step that writes, at the k-th of the outputs. *)
WritesAt(k, option) ==
    /\ k \in 0..2 /\ option = write_options[k + 1] /\ option \in Asked
    /\ WrittenSoFar(k) /\ writes' = Remaining(k + 1)
    /\ m_options[option] = Value(option)
    /\ Loading /\ Allowed /\ ptree = TreeAskedFor /\ at = "write"
    /\ UNCHANGED <<lib_options, ptree, rc>> /\ UNCHANGED start

LEMMA WritingIs ==
    ASSUME IInv, thrown = "none", NEW option, Writing(option)
    PROVE  \E k \in 0..2 : WritesAt(k, option)
<1>1. /\ at = "write" /\ writes # <<>> /\ writes' = Tail(writes) /\ Head(writes) = option
      /\ option \in DOMAIN m_options
      /\ UNCHANGED <<lib_options, ptree, rc>> /\ UNCHANGED start
  BY DEF Writing
<1>2. Loading /\ Allowed /\ ptree = TreeAskedFor
  BY <1>1 DEF IInv, Going, AtWrite, Loading
<1>3. PICK k \in 0..3 : writes = Remaining(k) /\ WrittenSoFar(k)
  BY <1>1 DEF IInv, Going, AtWrite
<1>4. k \in 0..2 /\ option = write_options[k + 1] /\ writes' = Remaining(k + 1)
  BY <1>1, <1>3, RemainingIs
<1>5. option \in Asked /\ m_options[option] = Value(option)
  BY <1>1, <1>2 DEF Loading, Settled
<1> QED
  BY <1>1, <1>2, <1>3, <1>4, <1>5 DEF WritesAt

LEMMA WritingGoesOn ==
    ASSUME IInv, thrown = "none", NEW k, NEW option, WritesAt(k, option), Done,
           NEW contents, contents = Output(option) \/ (disk.full /\ contents = Cut(Output(option))),
           files' = [files EXCEPT ![Value(option)] = LeftAt(Value(option), contents)]
    PROVE  IInv'
<1>1. /\ k \in 0..2 /\ option = write_options[k + 1] /\ option \in Asked /\ WrittenSoFar(k)
      /\ at = "write" /\ writes' = Remaining(k + 1) /\ Settled
      /\ UNCHANGED <<lib_options, ptree, rc>> /\ UNCHANGED start
  BY DEF WritesAt, Loading
<1>2. DOMAIN files' = DOMAIN files /\ disk' = disk
  BY <1>1 DEF start
<1>3. ASSUME NEW path \in DOMAIN files, path # Value(option)
      PROVE  Stands(path, k + 1)'
  <2>1. Outputs(path, k + 1) = Outputs(path, k) /\ Expected(path, k + 1) = Expected(path, k)
    BY <1>1, <1>3, OutputElsewhere
  <2>2. files'[path] = files[path] /\ Stands(path, k)
    BY <1>1, <1>3 DEF WrittenSoFar
  <2> QED
    BY <2>1, <2>2, <1>1, <1>2, FixedFiles DEF Stands
<1>4. ASSUME NEW path \in DOMAIN files, path = Value(option)
      PROVE  Stands(path, k + 1)'
  <2>1. /\ Outputs(path, k + 1) # {}
        /\ Expected(path, k + 1) = IF path \in Logs THEN Log ELSE Output(option)
    BY <1>1, <1>4, OutputHere
  <2>2. files'[path] = IF path \in Logs THEN Log ELSE contents
    BY <1>1, <1>4, LoggingIs
  <2>3. \/ files'[path] = Expected(path, k + 1)
        \/ disk.full /\ files'[path] = Cut(Expected(path, k + 1))
    BY <2>1, <2>2
  <2> QED
    BY <2>1, <2>3, <1>1, <1>2, FixedFiles DEF Stands, Cut
<1>5. WrittenSoFar(k + 1)'
  BY <1>2, <1>3, <1>4 DEF WrittenSoFar
<1> QED
  BY <1>1, <1>2, <1>5, Advancing DEF Done

LEMMA WritingFails ==
    ASSUME IInv, thrown = "none", NEW k, NEW option, WritesAt(k, option), Fails,
           \/ files' = files
           \/ /\ option # "WRITE_SAVE" \/ disk.full
              /\ files' = [files EXCEPT ![Value(option)] = LeftAt(Value(option), Cut(Output(option)))]
    PROVE  IInv'
<1>1. /\ k \in 0..2 /\ option = write_options[k + 1] /\ option \in Asked /\ WrittenSoFar(k)
      /\ at = "write" /\ Allowed /\ Settled /\ ptree = TreeAskedFor
      /\ UNCHANGED <<lib_options, ptree, rc>> /\ UNCHANGED start
  BY DEF WritesAt, Loading
<1>2. /\ DOMAIN files' = DOMAIN files /\ disk' = disk /\ ptree' = ptree
      /\ Asked' = Asked /\ Value(option)' = Value(option) /\ Output(option)' = Output(option)
      /\ CrashDumps' = CrashDumps /\ Logs' = Logs
  BY <1>1, FixedRequests, FixedValues, FixedFiles DEF start
<1>3. \A path \in DOMAIN files : Stands(path, k)
  BY <1>1 DEF WrittenSoFar
<1>4. ASSUME NEW path \in DOMAIN files
      PROVE  \/ files'[path] = files[path]
             \/ /\ Value(option) = path /\ (option # "WRITE_SAVE" \/ disk.full)
                /\ files'[path] = Cut(Output(option))
  <2>1. CASE path \in Logs
    <3>1. files[path] = Log
      BY <2>1, <1>3, <1>4 DEF Stands, Expected, Cut, Log, Torn
    <3> QED
      BY <2>1, <3>1, <1>1, <1>4, LoggingIs
  <2>2. CASE path \notin Logs
    <3>1. LeftAt(path, Cut(Output(option))) = Cut(Output(option))
      BY <2>2, <1>1, LoggingIs
    <3> QED
      BY <3>1, <1>4
  <2> QED
    BY <2>1, <2>2
<1>5. Spared'
  <2>1. ASSUME NEW path \in DOMAIN files, files'[path] = files[path]
        PROVE  Stands(path, k)'
    BY <2>1, <1>1, <1>2, <1>3, FixedFiles DEF Stands
  <2>2. \A path \in DOMAIN files :
            \/ Stands(path, k)'
            \/ /\ option \in Asked' /\ Value(option)' = path
               /\ option # "WRITE_SAVE" \/ disk'.full
               /\ files'[path] = Cut(Output(option))'
    BY <2>1, <1>1, <1>2, <1>4 DEF Cut
  <2> QED
    BY <2>2, <1>1, <1>2 DEF Spared
<1>6. ASSUME Apart
      PROVE  Dumped'
  <2>1. ASSUME NEW path \in CrashDumps \ Logs, path \in DOMAIN files
        PROVE  files'[path] = disk.files[path] \/ Outputs(path, 3) # {}
    <3>1. CASE Outputs(path, k + 1) # {}
      BY <3>1, <1>1, MoreOutputs
    <3>2. CASE Outputs(path, k + 1) = {}
      <4>1. path # Value(option)
        BY <3>2, <1>1, OutputHere
      <4>2. Outputs(path, k) = {} /\ Stands(path, k)
        BY <3>2, <4>1, <1>1, <1>3, <2>1, OutputElsewhere
      <4>3. files[path] = disk.files[path]
        BY <4>2, <1>6, <2>1 DEF Stands, Expected, Apart
      <4> QED
        BY <4>1, <4>3, <1>4, <2>1
    <3> QED
      BY <3>1, <3>2
  <2>2. CrashDumps # {} => ptree = [origin |-> Value("LOAD_SAVE"),
                                    data |-> disk.files[Value("LOAD_SAVE")].tree.data, complete |-> TRUE]
    BY <1>1 DEF CrashDumps, TreeAskedFor
  <2>3. CrashDumps # {} => ptree.complete
    BY <2>2
  <2> QED
    BY <2>1, <2>3, <1>1, <1>2, FixedFiles DEF Dumped
<1> QED
  BY <1>1, <1>2, <1>5, <1>6, Abandoning DEF Fails, Places, IInv, Fixtures

LEMMA WriteTranslationKeeps == IInv /\ thrown = "none" /\ WriteTranslation => IInv'
<1> SUFFICES ASSUME IInv, thrown = "none", WriteTranslation
             PROVE  IInv'
  OBVIOUS
<1>1. PICK k \in 0..2 : WritesAt(k, "WRITE_TRANSLATION")
  BY WritingIs DEF WriteTranslation
<1>2. m_options["WRITE_TRANSLATION"] = Value("WRITE_TRANSLATION") /\ ptree = TreeAskedFor
  BY <1>1 DEF WritesAt
<1>3. \/ files' = files /\ Fails
      \/ files' = [files EXCEPT ![Value("WRITE_TRANSLATION")] = LeftAt(Value("WRITE_TRANSLATION"), Cut(Output("WRITE_TRANSLATION")))] /\ Fails
      \/ files' = [files EXCEPT ![Value("WRITE_TRANSLATION")] = LeftAt(Value("WRITE_TRANSLATION"), Output("WRITE_TRANSLATION"))] /\ Done
      \/ /\ disk.full /\ Done
         /\ files' = [files EXCEPT ![Value("WRITE_TRANSLATION")] = LeftAt(Value("WRITE_TRANSLATION"), Cut(Output("WRITE_TRANSLATION")))]
  BY <1>2, OutputsAre DEF WriteTranslation, Put, Unchecked
<1> QED
  BY <1>1, <1>3, WritingGoesOn, WritingFails

LEMMA WriteInfoKeeps == IInv /\ thrown = "none" /\ WriteInfo => IInv'
<1> SUFFICES ASSUME IInv, thrown = "none", WriteInfo
             PROVE  IInv'
  OBVIOUS
<1>1. PICK k \in 0..2 : WritesAt(k, "WRITE_INFO")
  BY WritingIs DEF WriteInfo
<1>2. m_options["WRITE_INFO"] = Value("WRITE_INFO") /\ ptree = TreeAskedFor
  BY <1>1 DEF WritesAt
<1>3. \/ files' = files /\ Fails
      \/ files' = [files EXCEPT ![Value("WRITE_INFO")] = LeftAt(Value("WRITE_INFO"), Cut(Output("WRITE_INFO")))] /\ Fails
      \/ files' = [files EXCEPT ![Value("WRITE_INFO")] = LeftAt(Value("WRITE_INFO"), Output("WRITE_INFO"))] /\ Done
      \/ /\ disk.full /\ Done
         /\ files' = [files EXCEPT ![Value("WRITE_INFO")] = LeftAt(Value("WRITE_INFO"), Cut(Output("WRITE_INFO")))]
  BY <1>2, OutputsAre DEF WriteInfo, InfoWritten, InfoFails, Put, Unchecked
<1> QED
  BY <1>1, <1>3, WritingGoesOn, WritingFails

LEMMA WriteSaveKeeps == IInv /\ thrown = "none" /\ WriteSave => IInv'
<1> SUFFICES ASSUME IInv, thrown = "none", WriteSave
             PROVE  IInv'
  OBVIOUS
<1>1. PICK k \in 0..2 : WritesAt(k, "WRITE_SAVE")
  BY WritingIs DEF WriteSave
<1>2. m_options["WRITE_SAVE"] = Value("WRITE_SAVE") /\ ptree = TreeAskedFor
  BY <1>1 DEF WritesAt
<1>3. \/ files' = files /\ Fails
      \/ files' = [files EXCEPT ![Value("WRITE_SAVE")] = LeftAt(Value("WRITE_SAVE"), Output("WRITE_SAVE"))] /\ Done
      \/ /\ disk.full /\ (Done \/ Fails)
         /\ files' = [files EXCEPT ![Value("WRITE_SAVE")] = LeftAt(Value("WRITE_SAVE"), Cut(Output("WRITE_SAVE")))]
  BY <1>2, OutputsAre DEF WriteSave, Put
<1> QED
  BY <1>1, <1>3, WritingGoesOn, WritingFails

-----------------------------------------------------------------------------
(* The end. *)

LEMMA SamePlaces ==
    ASSUME UNCHANGED start, UNCHANGED <<files, ptree>>
    PROVE  /\ \A k : WrittenSoFar(k)' <=> WrittenSoFar(k)
           /\ (Spared' <=> Spared) /\ (Dumped' <=> Dumped)
<1>1. disk' = disk /\ files' = files /\ ptree' = ptree /\ Asked' = Asked /\ Exports' = Exports
      /\ CrashDumps' = CrashDumps /\ Logs' = Logs
  BY FixedRequests, FixedFiles DEF start
<1>2. \A path, k : Stands(path, k)' <=> Stands(path, k)
  BY <1>1, FixedFiles DEF Stands, Cut
<1>3. \A k : WrittenSoFar(k)' <=> WrittenSoFar(k)
  BY <1>1, <1>2 DEF WrittenSoFar
<1>4. Spared' <=> Spared
  BY <1>1, <1>2, FixedValues, FixedFiles DEF Spared, Cut
<1>5. Dumped' <=> Dumped
  BY <1>1, FixedFiles DEF Dumped
<1> QED
  BY <1>3, <1>4, <1>5

LEMMA SameCaught ==
    ASSUME UNCHANGED start, UNCHANGED <<files, ptree, thrown>>, Caught
    PROVE  Caught'
<1>1. disk' = disk /\ Asked' = Asked /\ (Apart' <=> Apart)
  BY FixedRequests, FixedFiles DEF start, Apart
<1> QED
  BY <1>1, SamePlaces, FixedPermission DEF Caught, option_help

LEMMA ReturnKeeps == IInv /\ thrown = "none" /\ Return => IInv'
<1> SUFFICES ASSUME IInv, thrown = "none", Return
             PROVE  IInv'
  OBVIOUS
<1>1. /\ at = "write" /\ at' = "ended" /\ writes = <<>> /\ UNCHANGED <<thrown, manager>>
      /\ UNCHANGED <<files, lib_options, ptree, rc>> /\ UNCHANGED start
  BY DEF Return, program
<1>2. Allowed /\ ptree = TreeAskedFor
  BY <1>1 DEF IInv, Going, AtWrite, Loading
<1>3. PICK k \in 0..3 : writes = Remaining(k) /\ WrittenSoFar(k)
  BY <1>1 DEF IInv, Going, AtWrite
<1>4. k = 3
  <2>1. /\ Remaining(0) # <<>> /\ Remaining(1) # <<>> /\ Remaining(2) # <<>>
    BY DEF Remaining, write_options
  <2> QED
    BY <2>1, <1>1, <1>3
<1>5. Allowed' /\ ptree' = TreeAskedFor' /\ WrittenSoFar(3)'
  BY <1>1, <1>2, <1>3, <1>4, FixedPermission, FixedFiles, SamePlaces
<1>6. Going'
  BY <1>1, <1>5 DEF Going, AtEnd
<1>7. thrown' = "none" /\ at' \in Places /\ DOMAIN lib_options' \subseteq DOMAIN lib_options_info_lookup
      /\ m_info' = m_info /\ rc' = 0 /\ rc = 0 /\ argv' = argv /\ disk' = disk
  BY <1>1 DEF Places, IInv, Fixtures, manager, start
<1>8. Fixtures'
  BY <1>1, <1>7 DEF IInv, Fixtures
<1>9. Caught'
  BY <1>1, <1>7, SameCaught DEF IInv
<1> QED
  BY <1>6, <1>8, <1>9 DEF IInv

LEMMA CatchKeeps == IInv /\ Catch => IInv'
<1> SUFFICES ASSUME IInv, Catch
             PROVE  IInv'
  OBVIOUS
<1>1. /\ thrown # "none" /\ at # "ended" /\ at' = "ended"
      /\ rc' = IF thrown = "Display_help_error" THEN 0 ELSE -1
      /\ UNCHANGED <<thrown, files, lib_options, ptree>> /\ m_info' = m_info
      /\ UNCHANGED start /\ argv' = argv /\ disk' = disk
  BY DEF Catch, manager, start
<1>2. Fixtures'
  BY <1>1 DEF IInv, Fixtures, Places
<1>3. Going'
  BY <1>1 DEF Going
<1>4. Caught'
  BY <1>1, SameCaught DEF IInv
<1> QED
  BY <1>2, <1>3, <1>4 DEF IInv

LEMMA StutterKeeps == IInv /\ UNCHANGED vars => IInv'
<1> SUFFICES ASSUME IInv, UNCHANGED vars
             PROVE  IInv'
  OBVIOUS
<1>1. /\ m_info' = m_info /\ m_options' = m_options /\ m_aggregate_checks' = m_aggregate_checks
      /\ UNCHANGED <<thrown, at, input, files, lib_options, inflated, ptree, writes, rc>>
      /\ UNCHANGED manager /\ UNCHANGED start /\ argv' = argv /\ disk' = disk
  BY DEF vars, manager, program, start
<1>2. /\ Requests' = Requests /\ ConfigFile' = ConfigFile /\ Asked' = Asked
      /\ (Readable' <=> Readable) /\ (Allowed' <=> Allowed)
      /\ \A name : Value(name)' = Value(name)
  BY <1>1, FixedRequests, FixedValues, FixedPermission
<1>3. \A n : Merged(m_options, n)' <=> Merged(m_options, n)
  BY <1>1, <1>2 DEF Merged, IsLast
<1>4. (Untouched' <=> Untouched) /\ (Nothing' <=> Nothing) /\ (Tables' <=> Tables)
  BY <1>1 DEF Untouched, Nothing, Tables, Known, NoTree
<1>5. AtArguments => AtArguments'
  <2>1. (IsRest(argv)' <=> IsRest(argv)) /\ ReadOf(argv)' = ReadOf(argv)
    BY <1>1 DEF IsRest, ReadOf
  <2>2. ReadableTo(ReadOf(argv))' <=> ReadableTo(ReadOf(argv))
    BY <1>1, <2>1 DEF ReadableTo
  <2>3. Merged(m_options, ReadOf(argv))' <=> Merged(m_options, ReadOf(argv))
    BY <1>1, <1>2, <2>1 DEF Merged, IsLast
  <2> QED
    BY <2>1, <2>2, <2>3, <1>1, <1>4 DEF AtArguments
<1>6. AtConfigFile => AtConfigFile'
  <2>1. /\ IsRest(ConfigFile.elements)' <=> IsRest(ConfigFile.elements)
        /\ ReadOf(ConfigFile.elements)' = ReadOf(ConfigFile.elements)
    BY <1>1, <1>2 DEF IsRest, ReadOf
  <2>2. /\ ReadableTo(Len(argv))' <=> ReadableTo(Len(argv))
        /\ ElementsTo(ReadOf(ConfigFile.elements))' <=> ElementsTo(ReadOf(ConfigFile.elements))
    BY <1>1, <1>2, <2>1 DEF ReadableTo, ElementsTo
  <2>3. Merged(m_options, Len(argv) + ReadOf(ConfigFile.elements))'
        <=> Merged(m_options, Len(argv) + ReadOf(ConfigFile.elements))
    BY <1>1, <1>2, <2>1 DEF Merged, IsLast
  <2> QED
    BY <2>1, <2>2, <2>3, <1>1, <1>2, <1>4 DEF AtConfigFile
<1>7. /\ AtInfos => AtInfos'
      /\ AtDefaults => AtDefaults'
  BY <1>1, <1>2, <1>4 DEF AtInfos, AtDefaults, Merged, IsLast
<1>8. Settled' <=> Settled
  BY <1>1, <1>2 DEF Settled
<1>9. (AtChecks => AtChecks') /\ (AtLog => AtLog')
  BY <1>2, <1>4, <1>8 DEF AtChecks, AtLog
<1>10. Loading => Loading'
  BY <1>1, LoadingKept
<1>11. /\ Exported => Exported'
       /\ Started => Started'
       /\ (SaveRead' <=> SaveRead) /\ ToLoad' = ToLoad /\ Partly' = Partly
  BY <1>1, <1>2, ExportedKept, StartedKept, FixedFiles DEF SaveRead, Partly
<1>12. /\ AtLoad => AtLoad'
       /\ AtReadSave => AtReadSave'
       /\ AtReadInfo => AtReadInfo'
       /\ AtPhaseOne => AtPhaseOne'
       /\ AtPhaseTwo => AtPhaseTwo'
       /\ AtCrashDump => AtCrashDump'
  BY <1>1, <1>2, <1>10, <1>11
     DEF AtLoad, AtReadSave, AtReadInfo, AtPhaseOne, AtPhaseTwo, AtCrashDump, NoTree
<1>13. (AtWrite => AtWrite') /\ (AtEnd => AtEnd')
  BY <1>1, <1>2, <1>10, SamePlaces, FixedFiles DEF AtWrite, AtEnd, Remaining
<1>14. Going'
  BY <1>1, <1>5, <1>6, <1>7, <1>9, <1>12, <1>13 DEF IInv, Going
<1>15. Fixtures'
  BY <1>1 DEF IInv, Fixtures, Known
<1>16. Caught'
  BY <1>1, SameCaught DEF IInv
<1> QED
  BY <1>14, <1>15, <1>16 DEF IInv

-----------------------------------------------------------------------------
(* The invariant is one. *)

LEMMA NextKeeps == IInv /\ [Next]_vars => IInv'
<1> SUFFICES ASSUME IInv, [Next]_vars
             PROVE  IInv'
  OBVIOUS
<1>1. CASE UNCHANGED vars
  BY <1>1, StutterKeeps
<1>2. CASE Catch
  BY <1>2, CatchKeeps
<1>3. ASSUME thrown = "none", Step
      PROVE  IInv'
  BY <1>3, ReadArgumentKeeps, OpenConfigFileKeeps, ReadElementKeeps, AddInfosKeeps,
     SetDefaultsKeeps, CheckOptionsKeeps, StartLogKeeps, LoadKeeps, ReadInfoKeeps,
     ReadSaveKeeps, PhaseOneKeeps, PhaseTwoKeeps, CrashDumpKeeps, NotAskedKeeps,
     WriteTranslationKeeps, WriteInfoKeeps, WriteSaveKeeps, ReturnKeeps DEF Step
<1> QED
  BY <1>1, <1>2, <1>3 DEF Next

LEMMA AlwaysIInv == Spec => []IInv
  BY InitHolds, NextKeeps, PTL DEF Spec

-----------------------------------------------------------------------------
(* The theorems. *)

(* Types: the tables are those of the two programs, the assertion of       *)
(* check_option_ never fails, the names of files never change, and the     *)
(* exit status is set at the end.                                          *)
THEOREM TypeCorrect == Spec => []TypeOK
<1>1. IInv => TypeOK
  <2> SUFFICES ASSUME IInv
               PROVE  TypeOK
    OBVIOUS
  <2>1. /\ DOMAIN m_info \subseteq DOMAIN Known
        /\ m_info # <<>> => \A name \in DOMAIN m_info : m_info[name] = Known[name]
    BY DEF IInv, Fixtures
  <2> QED
    BY <2>1 DEF IInv, Fixtures, TypeOK
<1> QED
  BY <1>1, AlwaysIInv, PTL

(* main, set_defaults_then_check_options: c4edit goes on to load exactly   *)
(* if what the command line and the config file ask for together is        *)
(* understood and allowed, for every command line, config file and order   *)
(* in which the maps are gone through.                                     *)
THEOREM OptionsAreObeyed == Spec => []ObeysWhatIsAllowed
<1>1. IInv => ObeysWhatIsAllowed
  <2> SUFFICES ASSUME IInv
               PROVE  ObeysWhatIsAllowed
    OBVIOUS
  <2>1. ASSUME at \in {"log", "load", "read_save", "read_info", "write"}, thrown = "none"
        PROVE  Allowed
    BY <2>1 DEF IInv, Going, AtLog, AtLoad, AtReadSave, AtReadInfo, AtWrite, Loading
  <2>2. /\ thrown = "Options_error" => ~Allowed
        /\ thrown = "Display_help_error" => option_help \in Asked
    BY DEF IInv, Caught
  <2>3. ASSUME at = "ended", Readable, option_help \in Asked,
               \A name \in Asked \ {option_help} : Understood(name)
        PROVE  thrown = "Display_help_error"
    <3>1. UnderstoodOrHelp /\ ~Allowed
      BY <2>3, AllowedIs DEF UnderstoodOrHelp
    <3>2. thrown # "none"
      BY <2>3, <3>1 DEF IInv, Going, AtEnd
    <3> QED
      BY <2>3, <3>1, <3>2 DEF IInv, Caught, Fixtures
  <2> QED
    BY <2>1, <2>2, <2>3 DEF ObeysWhatIsAllowed
<1> QED
  BY <1>1, AlwaysIInv, PTL

(* main, process_write_option and c4lib's writers: with an exit status of  *)
(* 0 every file asked for holds the tree that was to be loaded, the log    *)
(* and the exports of the definitions are where they were asked for, and   *)
(* no other file was touched; a full disk may have cut outputs and exports *)
(* short.                                                                  *)
THEOREM SuccessIsWritten == Spec => []SuccessMeansWritten
<1>1. IInv => SuccessMeansWritten
  <2> SUFFICES ASSUME IInv, at = "ended", rc = 0
               PROVE  IF thrown = "none"
                      THEN \A path \in DOMAIN files : Stands(path, Len(write_options))
                      ELSE files = disk.files
    BY DEF SuccessMeansWritten
  <2>1. Len(write_options) = 3
    BY DEF write_options
  <2>2. CASE thrown = "none"
    BY <2>1, <2>2 DEF IInv, Going, AtEnd, WrittenSoFar
  <2>3. CASE thrown # "none"
    BY <2>3 DEF IInv, Fixtures, Caught
  <2> QED
    BY <2>2, <2>3
<1> QED
  BY <1>1, AlwaysIInv, PTL

(* main and c4lib: a run that fails has written nothing but the log, the   *)
(* files of the debug options, the outputs before the one that failed, and *)
(* perhaps a part of that one.                                             *)
THEOREM FailureSpares == Spec => []FailureSparesFiles
<1>1. IInv => FailureSparesFiles
  <2> SUFFICES ASSUME IInv, at = "ended", rc = -1
               PROVE  IF Allowed THEN Spared ELSE files = disk.files
    <3>1. 0..Len(write_options) - 1 = 0..2
      BY DEF write_options
    <3> QED
      BY <3>1 DEF FailureSparesFiles, Spared
  <2>1. thrown \in {"Options_error", "exception"}
    BY DEF IInv, Fixtures
  <2> QED
    BY <2>1 DEF IInv, Caught
<1> QED
  BY <1>1, AlwaysIInv, PTL

(* Parser::parse: the crash dump holds the tree as it was when phase two   *)
(* failed, and no other failure leaves one; of a run in which no export of *)
(* the definitions is named as the dump is.                                *)
THEOREM CrashDumpIsTree == Spec /\ Apart => []CrashDumpHoldsTree
<1>1. IInv /\ Apart => CrashDumpHoldsTree
  <2> SUFFICES ASSUME IInv, Apart, at = "ended", Allowed, "LOAD_SAVE" \in Asked,
                      NEW path \in CrashDumps \ Logs, path \in DOMAIN files
               PROVE  IF ptree.data # "none" /\ ~ptree.complete /\ path \notin disk.readonly
                      THEN /\ \/ files[path] = Written("info", ptree)
                              \/ disk.full /\ files[path] = Torn("info", ptree)
                           /\ rc = -1
                      ELSE \/ files[path] = disk.files[path]
                           \/ Outputs(path, Len(write_options)) # {}
    BY DEF CrashDumpHoldsTree
  <2>1. Len(write_options) = 3
    BY DEF write_options
  <2>2. CASE thrown = "none"
    <3>1. ptree = [origin |-> Value("LOAD_SAVE"),
                   data |-> disk.files[Value("LOAD_SAVE")].tree.data, complete |-> TRUE]
      BY <2>2 DEF IInv, Going, AtEnd, TreeAskedFor
    <3>2. Stands(path, 3)
      BY <2>2 DEF IInv, Going, AtEnd, WrittenSoFar
    <3>3. files[path] = disk.files[path] \/ Outputs(path, 3) # {}
      BY <3>2 DEF Stands, Expected, Apart
    <3> QED
      BY <3>1, <3>3, <2>1
  <2>3. CASE thrown # "none"
    <3>1. thrown = "exception" /\ rc = -1
      BY <2>3, AllowedIs DEF IInv, Caught, Fixtures
    <3> QED
      BY <3>1, <2>1 DEF IInv, Caught, Dumped
  <2> QED
    BY <2>2, <2>3
<1>2. Apart /\ [Next]_vars => Apart'
  <2>1. [Next]_vars => UNCHANGED start
    BY DEF Next, Step, vars, Catch, ReadArgument, OpenConfigFile, ReadElement, AddInfos,
           SetDefaults, CheckOptions, StartLog, Load, ReadInfo, ReadSave, PhaseOne, PhaseTwo,
           CrashDump, NotAsked, WriteTranslation, WriteInfo, WriteSave, Writing, Return
  <2> QED
    BY <2>1, FixedFiles DEF Apart
<1> QED
  BY <1>1, <1>2, AlwaysIInv, PTL DEF Spec
=============================================================================
