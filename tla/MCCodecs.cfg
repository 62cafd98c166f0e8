SPECIFICATION MCSpec
CONSTANTS
    W = 6
    B = 64
    Steps <- FlsSteps
    Words = {0, 1, 2, 7, 8, 9, 31, 32, 37, 62, 63}
    Low = {0, 1, 63, 64, 255}
    High = {1, 15, 63, 64, 255}
    MaxDigits = 6
    Width = 3
    ByteValues = {0, 1, 9, 10, 16, 47, 160, 255}
    MaxValue = 5000
    IntBits = 12
    Filling = {0, 1, 255}
    Places = {1, 2, 31, 32}
    Odd = {0, 1, 128, 254}
    Typed = {0, 5, 57}
    TypedAt = {1, 2, 24, 46, 47, 48}
    MaxKeys = 2
    MaxHashed = 72
    Beyond = 9
    BLOCKBYTES = 3
    OUTBYTES = 2
    KEYBYTES = 2
    CounterWord = 4
    MaxLen = 11
    Pieces = {0, 1, 2, 3, 4, 7}
    H0 <- Initial
    Compress <- Chain
    Stored <- Whole
    MessageByte <- Place
    KeyByte <- KeyPlace
INVARIANTS NumbersAreRead KeysAreRight ArithmeticIsExact BlockIsHeldBack HashesAreRight
CHECK_DEADLOCK FALSE
