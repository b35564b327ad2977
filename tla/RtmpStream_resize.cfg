CONSTANTS
    MaxTs = 2
    None = None
    DefaultSize = 1
    Csids = {2, 6, 7}
    Control = 2
    LocalSize = 2
    Lens = {2, 3}
    Clock = {0, 1, 3}
    MaxMessages = 3
    Window = 1
    Habits = {"resize"}
SPECIFICATION Spec
INVARIANTS ReadableBelowLen
CHECK_DEADLOCK FALSE
