CONSTANTS
    Sessions = {s1, s2}
    Clients = {c1, c2}
    Flvs = {}
    Streams = {n1, n2}
    NoName = empty
    Gids = {g1, g2}
    Habits = {"early", "takeover", "rerole", "bad", "reset", "late"}
    PullIfAbsent = TRUE
    PushIfPub = TRUE
    CleanTicks = 1
    None = None
SPECIFICATION Spec
SYMMETRY Symmetry
INVARIANTS PlayersFound ClientsOwned
CHECK_DEADLOCK FALSE
