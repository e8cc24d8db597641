SPECIFICATION Spec
CONSTANTS
    WordBits = 8
    Width = 2
    Height = 6
    Top = 4
    Pinwheel <- MCPinwheel
    Traces <- MCTraces
    Table <- MCTable
    BufSize = 3
    Strings <- MCStrings
    Formats <- MCFormats
    Numbers <- MCNumbers
    Lengths = {1, 3}
    MaxText = 4
INVARIANTS ScreenConsistent PrintedIsNumber
PROPERTIES ImplementsTypeAhead
