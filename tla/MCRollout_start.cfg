SPECIFICATION Spec
CONSTANTS
    u1 = u1
    u2 = u2
    Packs <- MCGood
    BootPack <- MCBoot
    Reloaders <- MCTicker
    MaxPuts = 1
    MaxEdits = 0
    MaxOutages = 0
    MaxErrors = 0
INVARIANTS UsedAreMirrored
CHECK_DEADLOCK FALSE
