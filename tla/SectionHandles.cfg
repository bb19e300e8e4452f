SPECIFICATION Spec
CONSTANTS
    Addrs = {a1, a2, a3}
    Null = null
    Clients = {c1, c2}
    MaxSections = 3
SYMMETRY Symmetry
INVARIANTS
    OnlyEntriesLive
    FreshHandleFound
