SPECIFICATION Spec
CONSTANTS
    u1 = u1
    u2 = u2
    Packs <- MCAll
    BootPack <- MCBoot
    Reloaders <- MCTicker
    MaxPuts = 3
    MaxEdits = 0
    MaxOutages = 2
    MaxErrors = 1
INVARIANTS InOrder AppliedIsOnDisk
CHECK_DEADLOCK FALSE
