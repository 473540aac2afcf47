SPECIFICATION FairSelectionSpec
CONSTANTS
    text = text
    image = image
    own = own
    app = app
    Own = {own}
    Paste = {app}
    Target = {text, image}
    Size <- MCSize
    Limit = 2
    MaxTransfers = 2
    MaxAsks = 3
    MaxStalls = 2
    None = none
INVARIANTS
    SelectionTypes
    WholeValue
PROPERTIES
    Answered
    RoomAgain
CHECK_DEADLOCK FALSE
