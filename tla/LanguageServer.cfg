SPECIFICATION Spec
CONSTANTS
    u1 = u1
    u2 = u2
    s1 = s1
    s2 = s2
    s3 = s3
    Uris = {u1, u2}
    Slots = {s1, s2, s3}
    Kinds = {"didOpen", "didChange", "didSave", "didClose", "completion", "dotCompletion", "definition", "references", "rename"}
    Imports <- MCImports
    LineStarts <- MCLineStarts
    Chars <- MCChars
    Ascii <- MCAscii
    WordFirst <- MCWordFirst
    Positions <- MCPositions
    Dots <- MCDots
    MaxVersion = 3
    MaxMessages = 5
    NoUri = NoUri
SYMMETRY SlotSymmetry
INVARIANTS FreshWhenQuiet DefinitionsNotOlder  LockOrder BehindOneThatGoesOn
PROPERTY NeverGoesBack
CHECK_DEADLOCK FALSE
