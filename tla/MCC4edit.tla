------------------------------ MODULE MCC4edit ------------------------------
(***************************************************************************)
(* Command lines made of a way to load and one or two more options, and    *)
(* three disks.  One of the saves is in a directory, and the log's own     *)
(* file is also loaded from and written to.                                *)
(***************************************************************************)
EXTENDS CommandLine

MCLastPart == [path \in {"saves/a.sav"} |-> "a.sav"]

MCUpper ==
    [schema |-> "SCHEMA", load_info |-> "LOAD_INFO", write_save |-> "WRITE_SAVE", help |-> "HELP"]

Pair(name, value) == [dash |-> TRUE, equals |-> TRUE, name |-> name, value |-> value]
Alone(name) == [dash |-> TRUE, equals |-> FALSE, name |-> name, value |-> ""]
Word == [dash |-> FALSE, equals |-> FALSE, name |-> "WRITE_SAVE", value |-> ""]
Element(name, value) == [tag |-> "option", name |-> name, value |-> value]
Remark == [tag |-> "remark", name |-> "", value |-> ""]

Roots == <<Alone("BTS_INSTALL_DIR"), Pair("CUSTOM_ASSETS_DIR", "assets"), Alone("schema")>>

\* Ways to load, and none.
Bases ==
    {<<>>,
     <<Pair("LOAD_SAVE", "old.sav")>> \o Roots,
     <<Pair("LOAD_SAVE", "saves/a.sav")>> \o Roots,
     <<Pair("load_info", "old.info")>>,
     <<Pair("load_info", "c4lib-log.txt")>>}

Extras ==
    {Pair("WRITE_TRANSLATION", "out"), Alone("WRITE_TRANSLATION"),
     Pair("WRITE_INFO", "out"), Pair("WRITE_INFO", "c4lib-log.txt"), Alone("WRITE_INFO"),
     Pair("write_save", "out"), Pair("WRITE_SAVE", "old.sav"), Alone("WRITE_SAVE"),
     Pair("LOAD_INFO", "absent"), Alone("LOAD_SAVE"),
     Pair("CONFIG_FILE", "all.xml"), Pair("CONFIG_FILE", "bad.xml"), Alone("CONFIG_FILE"),
     Pair("DEBUG_OUTPUT_DIR", "dbg"), Pair("DEBUG_WRITE_IMPORTS", "1"),
     Pair("LOG", "1"), Pair("LOG", "yes"), Alone("LOG"),
     Alone("help"), Pair("HELP", "1"), Pair("LOUD", "1"), Alone("LOUD"),
     Word, Pair("", "out")}

Triples ==
    {<<Pair("WRITE_SAVE", save), Pair("WRITE_INFO", info), Pair("WRITE_TRANSLATION", text)>> :
        save \in {"out", "old.sav"}, info \in {"out", "old.info"}, text \in {"out", ""}}
    \cup {<<Pair("CONFIG_FILE", "all.xml"), Pair("DEBUG_OUTPUT_DIR", "dbg"), Pair("DEBUG_WRITE_IMPORTS", "1")>>,
          <<Pair("WRITE_INFO", "out"), Alone("DEBUG_OUTPUT_DIR"), Alone("DEBUG_WRITE_IMPORTS")>>,
          <<Pair("WRITE_INFO", "old.sav.crash-dump.info"), Pair("WRITE_SAVE", "out"), Pair("DEBUG_WRITE_IMPORTS", "1")>>,
          <<Pair("WRITE_SAVE", "c4lib-log.txt"), Pair("LOG", "1"), Pair("DEBUG_WRITE_IMPORTS", "1")>>}

MCArgumentLists ==
    {base \o more : base \in Bases, more \in SeqOf(Extras, 2) \cup Triples}

Tree(data) == [origin |-> "old.sav", data |-> data, complete |-> TRUE]

DiskFiles ==
    [path \in {"out", "0", "c4lib-log.txt", "old.sav.crash-dump.info", "dbg/old.sav.crash-dump.info",
               "a.sav.crash-dump.info", "dbg/a.sav.crash-dump.info",
               "ConstDefinitions.txt", "EnumDefinitions.txt",
               "dbg/ConstDefinitions.txt", "dbg/EnumDefinitions.txt"} |-> Absent]
    @@ "old.sav" :> Written("save", SaveOf(Tree("d1")))
    @@ "saves/a.sav" :> Written("save", SaveOf(Tree("d3")))
    @@ "old.info" :> Written("info", Tree("d2"))
    @@ "all.xml" :> [kind |-> "config",
                     elements |-> <<Element("LOAD_SAVE", "old.sav"), Element("WRITE_SAVE", ""),
                                    Element("schema", "s"), Element("BTS_INSTALL_DIR", "b"),
                                    Element("CUSTOM_ASSETS_DIR", "c"), Element("DEBUG_OUTPUT_DIR", "")>>]
    @@ "bad.xml" :> [kind |-> "config", elements |-> <<Element("WRITE_INFO", "out"), Remark>>]

MCDisks ==
    {[files |-> DiskFiles, readonly |-> {}, full |-> FALSE],
     [files |-> [DiskFiles EXCEPT !["c4lib-log.txt"] = Log], readonly |-> {}, full |-> TRUE],
     [files |-> [DiskFiles EXCEPT !["old.info"] = Torn("info", Tree("d2"))],
      readonly |-> {"0", "c4lib-log.txt", "dbg/EnumDefinitions.txt", "dbg/old.sav.crash-dump.info"}, full |-> FALSE]}
=============================================================================
