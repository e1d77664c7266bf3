SPECIFICATION Spec
CONSTANTS
    Names = {cpu, gpu, default}
    Classes = {op}
    Factories = {opFactory, otherFactory}
    Users = {u1}
    MaxEntries = 4
    MaxAliases = 2
INVARIANTS
    AliasesAgree
    EntriesOutliveUsers
CHECK_DEADLOCK FALSE
