SPECIFICATION FairSpec
CONSTANTS
    u1 = u1
    u2 = u2
    Packs <- MCNoBad
    BootPack <- MCBoot
    Reloaders <- MCReloaders
    MaxPuts = 2
    MaxEdits = 1
    MaxOutages = 1
    MaxErrors = 0
INVARIANTS FingerprintHonest
PROPERTIES Converges LastIsApplied
CHECK_DEADLOCK FALSE
