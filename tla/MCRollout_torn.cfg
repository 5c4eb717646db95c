SPECIFICATION Spec
CONSTANTS
    u1 = u1
    u2 = u2
    Packs <- MCGoodBad
    BootPack <- MCBoot
    Reloaders <- MCTicker
    MaxPuts = 2
    MaxEdits = 0
    MaxOutages = 0
    MaxErrors = 0
INVARIANTS ServedWhole
CHECK_DEADLOCK FALSE
