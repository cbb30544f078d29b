------------------------------- MODULE C4edit -------------------------------
(***************************************************************************)
(* c4edit (src/main.cpp) from its arguments to its exit status: it merges  *)
(* and checks its options, loads a save or an info file through the API of *)
(* c4lib (lib/c4lib, lib/schema-parser/parser.cpp) and writes what it was  *)
(* asked for.  All runs on one thread and fails by exception.              *)
(*                                                                         *)
(* A file is known by its kind, the tree it stands for, and whether it is  *)
(* whole.  A tree is known by its data, whether it is complete, and the    *)
(* save named in its origin node.  What a save or a schema does to the     *)
(* parser is a choice: each stage of the load may throw.                   *)
(***************************************************************************)
EXTENDS OptionsManager, OptionsData, Integers

CONSTANTS
    ArgumentLists,  \* the command lines of a run
    Disks,          \* the states of the disk: files, read-only ones, and
                    \* whether it has room for what is written
    LastPart        \* the paths that name a directory, each with its last part

Arguments == [dash : BOOLEAN, equals : BOOLEAN, name : STRING, value : STRING]
Elements == [tag : STRING, name : STRING, value : STRING]

Absent == [kind |-> "absent"]
FileContents ==
    {Absent}
    \cup [kind : {"config"}, elements : Seq(Elements)]
    \cup [kind : {"save", "info", "translation", "definitions", "log"}, whole : BOOLEAN,
          tree : [origin : STRING, data : STRING, complete : BOOLEAN]]

\* The tables of options are spelled in upper case.
ASSUME UpperAssumption ==
    \A name \in DOMAIN Upper :
        name \notin DOMAIN exe_options_info_lookup \cup DOMAIN lib_options_info_lookup

ASSUME ArgumentListsAssumption == ArgumentLists \subseteq Seq(Arguments)

\* The debugging binaries are left out, and so are the runs that ask for them.
ASSUME BinariesAssumption ==
    LET asks(requests) == \E i \in DOMAIN requests : toupper(requests[i].name) = "DEBUG_WRITE_BINARIES"
    IN  /\ \A args \in ArgumentLists : ~asks(args)
        /\ \A d \in Disks : \A path \in DOMAIN d.files :
               d.files[path].kind = "config" => ~asks(d.files[path].elements)

\* No save holds the data that stands for having none.
ASSUME DisksAssumption ==
    \A d \in Disks :
        /\ d.full \in BOOLEAN
        /\ \A path \in DOMAIN d.files :
              /\ d.files[path] \in FileContents
              /\ d.files[path].kind = "save" => d.files[path].tree.data # "none"

VARIABLES
    at,             \* where main is
    input,          \* the arguments, later the elements, still to be added
    files,          \* the files on disk, by path
    lib_options,    \* the options handed to the library
    inflated,       \* the data of the save that was read, in memory
    ptree,          \* the tree
    writes,         \* the write options still to be processed
    rc,             \* the exit status
    disk,           \* the disk as it was when the program was started
    argv            \* the command line

program == <<files, lib_options, inflated, ptree, writes, rc>>
start == <<disk, argv>>
vars == <<manager, thrown, at, input, program, start>>

NoTree == [origin |-> "", data |-> "none", complete |-> TRUE]
Written(kind, tree) == [kind |-> kind, tree |-> tree, whole |-> TRUE]
Torn(kind, tree) == [kind |-> kind, tree |-> tree, whole |-> FALSE]

\* Log lines, perhaps among something else.
Log == Torn("log", NoTree)

Contents(path) == IF path \in DOMAIN files THEN files[path] ELSE Absent
IsWhole(path, kind) == Contents(path).kind = kind /\ Contents(path).whole
CanWrite(path) == path \in DOMAIN files \ disk.readonly

\* An option of the library that was not given reads as "" (operator[]).
LibOption(name) == IF name \in DOMAIN lib_options THEN lib_options[name] ELSE ""

last_part(path) == IF path \in DOMAIN LastPart THEN LastPart[path] ELSE path

\* make_path: the last part of a path, in another directory, with an extension.
make_path(output_dir, filename, extension) ==
    (IF output_dir = "" THEN "" ELSE output_dir \o "/") \o last_part(filename) \o extension

\* The logger keeps its file open and goes on appending to it, whatever else
\* is written there.
Logging == "LOG" \in DOMAIN m_options /\ m_options["LOG"] = "1"
LeftAt(path, contents) == IF Logging /\ path = log_filename THEN Log ELSE contents
Put(path, contents) == CanWrite(path) /\ files' = [files EXCEPT ![path] = LeftAt(path, contents)]

\* What a stream leaves that nobody looks at before it is closed: on a full
\* disk the end may be missing.
Unchecked(kind, tree) == {Written(kind, tree)} \cup (IF disk.full THEN {Torn(kind, tree)} ELSE {})

-----------------------------------------------------------------------------
\* Options.

ReadArgument ==
    /\ at = "arguments"
    /\ input # <<>>
    /\ add_argument(Head(input))
    /\ input' = Tail(input)
    /\ UNCHANGED <<at, program, start>>

\* The config file is the one named on the command line.
OpenConfigFile ==
    /\ at = "arguments"
    /\ input = <<>>
    /\ IF "CONFIG_FILE" \notin DOMAIN m_options
       THEN at' = "infos" /\ UNCHANGED <<manager, thrown, input>>
       ELSE LET contents == Contents(m_options["CONFIG_FILE"])
            IN  IF contents.kind = "config"
                THEN at' = "config_file" /\ input' = contents.elements /\ UNCHANGED <<manager, thrown>>
                ELSE Throw("exception") /\ UNCHANGED <<at, input>>
    /\ UNCHANGED <<program, start>>

ReadElement ==
    /\ at = "config_file"
    /\ IF input = <<>>
       THEN at' = "infos" /\ UNCHANGED <<manager, thrown, input>>
       ELSE add_element(Head(input)) /\ input' = Tail(input) /\ UNCHANGED at
    /\ UNCHANGED <<program, start>>

AddInfos ==
    /\ at = "infos"
    /\ add_info_and_checks(<<exe_options_info_lookup, lib_options_info_lookup>>, aggregate_checks)
    /\ at' = "defaults"
    /\ UNCHANGED <<input, program, start>>

SetDefaults ==
    /\ at = "defaults"
    /\ set_defaults_
    /\ at' = "checks"
    /\ UNCHANGED <<input, program, start>>

CheckOptions ==
    /\ at = "checks"
    /\ check_options_
    /\ at' = "log"
    /\ UNCHANGED <<input, program, start>>

\* The log is created, or opened to append; the library's options are split off.
StartLog ==
    /\ at = "log"
    /\ lib_options' = get_options_exclusive_of(exe_options_info_lookup)
    /\ \/ ~Logging /\ UNCHANGED <<files, manager, thrown>>
       \/ Logging /\ Put(log_filename, Log) /\ UNCHANGED <<manager, thrown>>
       \/ Logging /\ ~CanWrite(log_filename) /\ UNCHANGED files /\ Throw("exception")
    /\ at' = "load"
    /\ UNCHANGED <<input, inflated, ptree, writes, rc, start>>

-----------------------------------------------------------------------------
\* Loading.

\* The last thing a step of the load does: go on, or throw.
Goes(on) == at' = on /\ UNCHANGED <<manager, thrown>>
Fails == Throw("exception") /\ UNCHANGED at

Load ==
    /\ at = "load"
    /\ at' = IF "LOAD_SAVE" \in DOMAIN m_options THEN "read_save"
             ELSE IF "LOAD_INFO" \in DOMAIN m_options THEN "read_info"
             ELSE "write"
    /\ UNCHANGED <<manager, thrown, input, program, start>>

\* What the parser of Boost may make of a text that is no info file, or a part
\* of one.
Garbled == [origin |-> "", data |-> "garbled", complete |-> FALSE]

ReadInfo ==
    LET path == m_options["LOAD_INFO"]
    IN  /\ at = "read_info"
        /\ \/ IsWhole(path, "info") /\ ptree' = Contents(path).tree /\ Goes("write")
           \/ ~IsWhole(path, "info") /\ Contents(path) # Absent /\ ptree' = Garbled /\ Goes("write")
           \/ ~IsWhole(path, "info") /\ UNCHANGED ptree /\ Fails
        /\ UNCHANGED <<input, files, lib_options, inflated, writes, rc, start>>

\* read_save_dispatch_ clears the tree and adds the origin; Node_reader::init
\* inflates the save, behind which the log's lines may stand by now.
ReadSave ==
    LET path == m_options["LOAD_SAVE"]
        save == IF Contents(path) = Log THEN disk.files[path] ELSE Contents(path)
    IN  /\ at = "read_save"
        /\ ptree' = [origin |-> path, data |-> "none", complete |-> FALSE]
        /\ \/ save.kind = "save" /\ save.whole /\ inflated' = save.tree.data /\ Goes("phase_one")
           \/ UNCHANGED inflated /\ Fails
        /\ UNCHANGED <<input, files, lib_options, writes, rc, start>>

\* Phase one, and the two exports of the definitions, which look at their
\* streams when they open them and not again.
PhaseOne ==
    LET directory == LibOption("DEBUG_OUTPUT_DIR")
        exports == <<make_path(directory, "ConstDefinitions", ".txt"),
                     make_path(directory, "EnumDefinitions", ".txt")>>
    IN  /\ at = "phase_one"
        /\ \/ UNCHANGED files /\ Fails
           \/ LibOption("DEBUG_WRITE_IMPORTS") # "1" /\ UNCHANGED files /\ Goes("phase_two")
           \/ /\ LibOption("DEBUG_WRITE_IMPORTS") = "1"
              /\ CanWrite(exports[1]) /\ CanWrite(exports[2])
              /\ \E first, second \in Unchecked("definitions", NoTree) :
                    files' = [files EXCEPT ![exports[1]] = LeftAt(exports[1], first),
                                           ![exports[2]] = LeftAt(exports[2], second)]
              /\ Goes("phase_two")
           \/ /\ LibOption("DEBUG_WRITE_IMPORTS") = "1"
              /\ ~CanWrite(exports[2])
              /\ \E first \in Unchecked("definitions", NoTree) : Put(exports[1], first)
              /\ Fails
        /\ UNCHANGED <<input, lib_options, inflated, ptree, writes, rc, start>>

PhaseTwo ==
    /\ at = "phase_two"
    /\ \E complete \in BOOLEAN :
          /\ ptree' = [origin |-> ptree.origin, data |-> inflated, complete |-> complete]
          /\ at' = IF complete THEN "write" ELSE "crash_dump"
    /\ UNCHANGED <<manager, thrown, input, files, lib_options, inflated, writes, rc, start>>

\* write_info of boost looks at the stream once, before it is closed: what is
\* still in the buffer may be lost in silence.
InfoWritten(path, tree) == \E contents \in Unchecked("info", tree) : Put(path, contents)

InfoFails(path, tree) ==
    \/ ~CanWrite(path) /\ UNCHANGED files
    \/ disk.full /\ Put(path, Torn("info", tree))

\* Fault: the dump goes into the current directory, whatever the options say.
DumpHere == make_path("", ptree.origin, ".crash-dump.info")

DumpPath == make_path(LibOption("DEBUG_OUTPUT_DIR"), ptree.origin, ".crash-dump.info")

\* What the parser does with an exception of phase two: the dump, which may
\* throw itself, and the exception once more.
CrashDump ==
    /\ at = "crash_dump"
    /\ InfoWritten(DumpPath, ptree) \/ InfoFails(DumpPath, ptree)
    /\ Fails
    /\ UNCHANGED <<input, lib_options, inflated, ptree, writes, rc, start>>

-----------------------------------------------------------------------------
\* Writing.

write_options == <<"WRITE_TRANSLATION", "WRITE_INFO", "WRITE_SAVE">>

\* process_write_option: the next of the three, if it is asked for.
Writing(option) ==
    /\ at = "write"
    /\ writes # <<>>
    /\ Head(writes) = option
    /\ option \in DOMAIN m_options
    /\ writes' = Tail(writes)
    /\ UNCHANGED <<input, lib_options, inflated, ptree, rc, start>>

Done == UNCHANGED <<manager, thrown, at>>

NotAsked ==
    /\ at = "write"
    /\ writes # <<>>
    /\ Head(writes) \notin DOMAIN m_options
    /\ writes' = Tail(writes)
    /\ Done
    /\ UNCHANGED <<input, files, lib_options, inflated, ptree, rc, start>>

\* The file is opened first; a tree that cannot be written leaves what was
\* written up to there, and nobody looks at the stream.
WriteTranslation ==
    LET path == m_options["WRITE_TRANSLATION"]
    IN  /\ Writing("WRITE_TRANSLATION")
        /\ \/ ~CanWrite(path) /\ UNCHANGED files /\ Fails
           \/ Put(path, Torn("translation", ptree)) /\ Fails
           \/ \E contents \in Unchecked("translation", ptree) : Put(path, contents) /\ Done

WriteInfo ==
    LET path == m_options["WRITE_INFO"]
    IN  /\ Writing("WRITE_INFO")
        /\ \/ InfoWritten(path, ptree) /\ Done
           \/ InfoFails(path, ptree) /\ Fails

\* A save says nothing of the origin of its tree.
SaveOf(tree) == [tree EXCEPT !.origin = ""]

\* Fault: the file is opened before the save is put together.
WriteSaveInPlace ==
    LET path == m_options["WRITE_SAVE"]
    IN  /\ Writing("WRITE_SAVE")
        /\ \/ Put(path, Torn("save", SaveOf(ptree))) /\ Fails
           \/ Put(path, Written("save", SaveOf(ptree))) /\ Done

\* The save is put together in memory, which fails without a trace; then the
\* file is opened and written, and the stream checked before it is closed.
WriteSave ==
    LET path == m_options["WRITE_SAVE"]
    IN  /\ Writing("WRITE_SAVE")
        /\ \/ UNCHANGED files /\ Fails
           \/ Put(path, Written("save", SaveOf(ptree))) /\ Done
           \/ disk.full /\ Put(path, Torn("save", SaveOf(ptree))) /\ (Done \/ Fails)

-----------------------------------------------------------------------------
\* The end.

\* The handlers of main.
Catch ==
    /\ thrown # "none"
    /\ at # "ended"
    /\ at' = "ended"
    /\ rc' = IF thrown = "Display_help_error" THEN 0 ELSE -1
    /\ UNCHANGED <<manager, thrown, input, files, lib_options, inflated, ptree, writes, start>>

Return ==
    /\ at = "write"
    /\ writes = <<>>
    /\ at' = "ended"
    /\ UNCHANGED <<manager, thrown, input, program, start>>

Init ==
    /\ m_info = <<>> /\ m_options = <<>> /\ m_aggregate_checks = <<>>
    /\ thrown = "none"
    /\ at = "arguments"
    /\ argv \in ArgumentLists
    /\ input = argv
    /\ disk \in Disks
    /\ files = disk.files
    /\ lib_options = <<>>
    /\ inflated = "none"
    /\ ptree = NoTree
    /\ writes = write_options
    /\ rc = 0

Step ==
    \/ ReadArgument \/ OpenConfigFile \/ ReadElement \/ AddInfos \/ SetDefaults
    \/ CheckOptions \/ StartLog
    \/ Load \/ ReadInfo \/ ReadSave \/ PhaseOne \/ PhaseTwo \/ CrashDump
    \/ NotAsked \/ WriteTranslation \/ WriteInfo \/ WriteSave
    \/ Return

Next ==
    \/ thrown = "none" /\ Step
    \/ Catch

Spec == Init /\ [][Next]_vars
=============================================================================
