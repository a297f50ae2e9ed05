SPECIFICATION FairSpec
CONSTANTS
    u1 = u1
    u2 = u2
    s1 = s1
    s2 = s2
    s3 = s3
    Uris = {u1}
    Slots = {s1, s2, s3}
    Kinds = {"didOpen", "didChange", "didClose", "definition", "references", "hover"}
    Imports <- MCImports
    LineStarts <- MCLineStarts
    Chars <- MCChars
    Ascii <- MCAscii
    WordFirst <- MCWordFirst
    Positions <- MCPositions
    Dots <- MCDots
    MaxVersion = 3
    MaxMessages = 4
    NoUri = NoUri
PROPERTIES EveryHandlerReturns LatestShown
CHECK_DEADLOCK FALSE
