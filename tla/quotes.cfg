CONSTANTS
    NumberSpace = 65536
    Numbers = {0, 65535, 65536}
    Layers = 3
    NoText = NoText
SPECIFICATION CodecSpec
INVARIANT
    OnePairRemoved
