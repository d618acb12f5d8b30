\* Texts of up to seven characters, whose bits are all, none or one set.
CONSTANTS
    Bytes = {0, 4, 129, 255}
    MaxSize = 7
    SizeBits = 5
SPECIFICATION EncodeSpec
INVARIANT LongEnoughIsRestored
CHECK_DEADLOCK FALSE
