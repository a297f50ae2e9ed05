SPECIFICATION Spec
CONSTANTS
    Src = Src
    Main = Main
    Unnamed = Unnamed
    OtherNames = {x}
    Code = Code
    Empty = Empty
    OtherTexts = {t}
    NoText = NoText
    Home = Home
    None = None
    MaxNodes = 3
    MaxGestures = 5
INVARIANTS FilesHaveTexts OpenHasText OpenFileHasTab EditorShowsCurrent ExplorerRenders
CHECK_DEADLOCK FALSE
