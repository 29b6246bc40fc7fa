SPECIFICATION FairSpec
CONSTANTS
    Byte = 3
    MaxBytes = 8
INVARIANT ReturnsChecksum
INVARIANT NeverWraps
PROPERTY Terminates
