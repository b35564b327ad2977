CONSTANTS
    Byte <- MCByte
    Zero = 0
    PadByte = 90
    Junk = 91
    BlockSize = 4
    HashSize = 3
    LengthSize = 2
    HalfLength = 16
    LengthField <- MCLengthField
    Digest <- MCDigest
    Keys <- MCKeys
    Pieces <- MCPieces
    Xor <- MCXor
    InnerPad = 54
    OuterPad = 92
    MaxText = 9
SPECIFICATION Spec
INVARIANTS NothingSkipped
PROPERTIES ImplementsMac
