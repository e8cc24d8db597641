\* klibc.c:238: the width is the desired final length of the string.
SPECIFICATION Spec
CONSTANTS
    WordBits = 8
    Width = 2
    Height = 6
    Top = 4
    Pinwheel <- MCPinwheel
    Traces <- MCTraces
    Table <- MCTable
    BufSize = 2
    Strings <- MCStrings
    Formats <- MCFormats
    Numbers <- MCNumbers
    Lengths = {3}
    MaxText = 4
INVARIANTS SprintHasWidth
