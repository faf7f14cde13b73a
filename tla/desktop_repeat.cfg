SPECIFICATION Spec
CONSTANTS
    Schemes = {nexonplug, ngm}
    First = nexonplug
    Apps = {a1}
    Ours = Ours
    Legacy = Legacy
    None = None
    Absent = Absent
    Torn = Torn
INVARIANTS
    SafeToRepeat
