SPECIFICATION Spec
CONSTANTS
    Packets <- MCPackets
    MaxRows = 3
INVARIANT ComparatorsAreOrders
INVARIANT HeadIsSorted
INVARIANT ProtosInTurn
