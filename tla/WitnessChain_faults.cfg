SPECIFICATION ChainSpec
CONSTANTS
    Record = {r1, r2, r3}
    NL = NL
    Frag = Frag
    BadFrag = BadFrag
    GENESIS = GENESIS
    Cuts = {{"inside"}, {"inside", "character", "newline"}}
    RepairsTail = TRUE
    MaxKills = 2
    MaxPowerLosses = 2
    MaxIOErrors = 2
SYMMETRY RecordSymmetry
CHECK_DEADLOCK FALSE
INVARIANTS  CrashedChainBoots
