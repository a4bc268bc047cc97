SPECIFICATION FairSpec
CONSTANTS
    c1 = c1
    c2 = c2
    Clients = {c1, c2}
    Requests <- MCRequests
    Backlog = 1
    DataFiles <- MCDataFiles
    None = None
INVARIANTS TextsArrive AnswerRight  NoAnswerLost
PROPERTY EveryConnectionEnds
CHECK_DEADLOCK FALSE
