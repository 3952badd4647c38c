SPECIFICATION Spec
CONSTANTS
    Documents <- MCDocuments
    Height <- MCHeight
    OcrText <- MCOcrText
    MaxParagraphs = 9
    Configs <- MCConfigs
INVARIANTS
    TextChunked
    GroupsCover
    ReadingOrder
    HeadersGone
    TablesInPlace
    ChartsTravelWhole
