SPECIFICATION SpecRoundTrip
CHECK_DEADLOCK FALSE
CONSTANTS
    Trees        <- MCTrees
    Definitions  <- MCDefinitions
    Surrogates   <- MCSurrogates
    BytesPerLine = 2
    Radix        = 4
    md5_length   = 2
    max_string_length = 2
INVARIANTS TypeOK TranslationDescribesTree OffsetsPointIntoSave SavesTranslate ReadsBack PlayersNameLeaders
