SPECIFICATION StartSpec
CONSTANTS
    Copies = {c1, c2}
    Paths = {p1, p2}
    NoPath = NoPath
    Here = c1
    Interfaces <- MCInterfaces
INVARIANT ShownIsStored
INVARIANT SelectionIsListed
INVARIANT OpenedIsOfLabel
