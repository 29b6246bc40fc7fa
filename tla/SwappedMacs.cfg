SPECIFICATION Spec
CONSTANTS
    m1 = m1
    m2 = m2
    Macs = {m1, m2}
    UInt = 262144
    Frames <- MCFrames
    MaxPkts = 1
    MaxDetails = 1
INVARIANT HeadlineNamesMacs
