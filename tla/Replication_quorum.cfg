SPECIFICATION Spec
CONSTANTS
    o = o
    p = p
    q = q
    Node = {o, p, q}
    Nets <- MCNets
    MaxWork = 1
SYMMETRY Peers
CHECK_DEADLOCK FALSE
INVARIANTS QuorumIsHeld  NoSilentFork 
