SPECIFICATION Spec
CONSTANTS
    Damageable <- PatchedOnly
    MaxFaults = 2
INVARIANTS
    ConflictIsMovedAside
