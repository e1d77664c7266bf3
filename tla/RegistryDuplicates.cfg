SPECIFICATION Spec
CONSTANTS
    Names = {cpu, gpu, default}
    Classes = {op}
    Factories = {opFactory, otherFactory}
    Users = {u1}
    MaxEntries = 2
    MaxAliases = 1
INVARIANT RegisteredOnce
CHECK_DEADLOCK FALSE
