SPECIFICATION Spec
CONSTANTS
    m1 = m1
    m2 = m2
    Macs = {m1, m2}
    UInt = 262144
    Frames <- MCFrames
    MaxPkts = 2
    MaxDetails = 2
INVARIANT TypeOK
INVARIANT TreeIsOfRow
INVARIANT PageTellsRow
INVARIANT FlagsTellSame
INVARIANT TcpFieldsCaptured
INVARIANT HexIsDump
INVARIANT ParentOfIndex
PROPERTY ReplacedIsFreed
PROPERTY SavedReadsBack
