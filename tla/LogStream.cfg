\* A short buffer; lengths around its size, a negative one among them; every
\* value of an 8-bit signed and a 9-bit unsigned integer; "0x1FF" and "-128"
\* are the longest texts.  Pieces of all texts of four characters out of NUL
\* and the two parentheses.
CONSTANTS
    SIZE = 16
    kMaxNumercSize = 6
    MaxDigits = 5
    Lengths <- MCLengths
    SizeMax = 64
    MinValue <- MCMin
    MaxValue = 511
    Chars = {0, 40, 41}
    TextSize = 5
SPECIFICATION StreamSpec
INVARIANTS InBounds NeverThrows ReadsBack PieceOrder
PROPERTY ImplementsLogStream
