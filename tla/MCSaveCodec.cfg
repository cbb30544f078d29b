SPECIFICATION Spec
CONSTANTS
    Saves          <- MCAllSaves
    Datas          <- MCDatas
    Footers        <- MCFooters
    CompressedSize <- MCCompressedSize
    compressBound  <- MCCompressBound
    ChecksumLength = 2
    max_string_length = 2
    MaxChunk       = 2
    BufferSize     = 2
    StagingSize    = 2
    MaxWrites      = 1
    MaxCalls       = 4
    Torn           = Torn
    NoTree         = NoTree
CHECK_DEADLOCK FALSE
PROPERTIES ImplementsSaveStore CallsReturn
