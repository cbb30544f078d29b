----------------------------- MODULE OptionsData ----------------------------
(***************************************************************************)
(* The options of c4edit (src/options-data.hpp) and those of c4lib         *)
(* (lib/util/options-data.hpp), without their help texts.                  *)
(***************************************************************************)
\* No option is required by itself.
Option(type, default_value, depends_on) ==
    [type |-> type, default_value |-> default_value, required |-> FALSE, depends_on |-> depends_on]

Text == Option("text", "", {})
Switch == Option("boolean", "0", {})

exe_options_info_lookup ==
    [name \in {"CONFIG_FILE", "LOAD_INFO", "LOAD_SAVE", "LOG",
               "WRITE_TRANSLATION", "WRITE_INFO", "WRITE_SAVE"} |->
        CASE name \in {"CONFIG_FILE", "LOAD_INFO"} -> Text
          [] name = "LOAD_SAVE" -> Option("text", "", {"BTS_INSTALL_DIR", "CUSTOM_ASSETS_DIR", "SCHEMA"})
          [] name = "LOG" -> Switch
          [] OTHER -> Option("text", "0", {})]

lib_options_info_lookup ==
    [name \in {"BTS_INSTALL_DIR", "CUSTOM_ASSETS_DIR", "MOD_NAME", "DEBUG_OUTPUT_DIR", "SCHEMA",
               "USE_MODULAR_LOADING", "OMIT_OFFSET_COLUMN", "OMIT_HEX_COLUMN", "OMIT_ASCII_COLUMN",
               "DEBUG_WRITE_BINARIES", "DEBUG_WRITE_IMPORTS"} |->
        CASE name \in {"BTS_INSTALL_DIR", "CUSTOM_ASSETS_DIR", "MOD_NAME", "DEBUG_OUTPUT_DIR"} -> Text
          [] name = "SCHEMA" -> Option("text", "BTS.Schema", {})
          [] OTHER -> Switch]

\* Fault: two loads are thought to be compatible.
checks_without_compatibility ==
    <<[members |-> {"LOAD_SAVE", "LOAD_INFO"}, func |-> "check_requires_at_least_one_of"],
      [members |-> {"WRITE_TRANSLATION", "WRITE_INFO", "WRITE_SAVE"},
       func |-> "check_requires_at_least_one_of"]>>

\* The checks main adds: requires_one_load_option, requires_one_write_option
\* and multiple_load_options_are_incompatible.
aggregate_checks ==
    <<[members |-> {"LOAD_SAVE", "LOAD_INFO"}, func |-> "check_requires_at_least_one_of"],
      [members |-> {"WRITE_TRANSLATION", "WRITE_INFO", "WRITE_SAVE"},
       func |-> "check_requires_at_least_one_of"],
      [members |-> {"LOAD_SAVE", "LOAD_INFO"}, func |-> "check_compatibility"]>>

log_filename == "c4lib-log.txt"
=============================================================================
