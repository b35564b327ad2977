CONSTANTS
    Sessions = {s1, s2, s3}
    Clients = {c1, c2}
    Flvs = {f1}
    Streams = {n1, n2}
    NoName = empty
    Gids = {g1, g2, g3}
    Habits = {"reset"}
    PullIfAbsent = TRUE
    PushIfPub = TRUE
    CleanTicks = 1
    None = None
SPECIFICATION Spec
PROPERTIES PullWhenAbsent
CHECK_DEADLOCK FALSE
