SPECIFICATION Spec
CONSTANTS
    Schemes = {nexonplug, NexonPlug, ngm}
    First = nexonplug
    Apps = {a1, a2}
    Ours = Ours
    Legacy = Legacy
    None = None
    Absent = Absent
    Torn = Torn
INVARIANTS
    TypeOK
    RollbackKeepsChoice
    OwnHandlerOnlyAfterRemoval
    InstalledMeansRegistered
PROPERTIES
    RestoredBeforeForgotten
SYMMETRY Symmetry
