CONSTANTS
    Byte = {a, b}
    Junk = Junk
    InitCapacity = 2
    ShrinkCapacity = 4
    Doublings = {2, 4}
    MaxCapacity = 8
    MaxLen = 3
SPECIFICATION Spec
INVARIANTS TypeOK
PROPERTIES ImplementsBytes ReleasesMemory
