\* The sums put a digest at the last and at the first place of its part.
CONSTANTS
    C1Time = 1
    S1Time = 2
    ForeignRests = {"c1 foreign"}
    ByteSums = {727, 728}
    ForeignPeers <- MCForeignPeers
SPECIFICATION FairSpec
INVARIANTS TypeOK HandshakeAnswered AnswersMatch NothingBroken ReadyMeansPublisher
PROPERTIES EndsInMedia
CHECK_DEADLOCK FALSE
