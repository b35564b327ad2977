CONSTANTS
    Sessions = {s1, s2}
    Clients = {c1, c2}
    Flvs = {f1}
    Streams = {n1, empty}
    NoName = empty
    Gids = {g1, g2, g3}
    Habits = {"early", "reset"}
    PullIfAbsent = TRUE
    PushIfPub = TRUE
    CleanTicks = 2
    None = None
SPECIFICATION FairSpec
INVARIANTS TypeOK MembersMatch CallbacksAlive NeverUsesLostGroup OnlyLeaversFail
PROPERTIES PullUnlessReset EmptyGroupErased
