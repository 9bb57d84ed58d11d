SPECIFICATION FairSpec
CONSTANTS
    Waits <- WaitsForTheObject
    Conf <- MCConf
    Truths <- MCTruths
    Goal <- MCGoal
    Describing <- DescribeFirst
    NotFoundChecks = 20
INVARIANTS
    TypeOK
    StartsWithASoundRefresh
    SuccessMeansGoal
    DeletedMeansGone
    KnownStatesNeverEndAWait
    LostAnswerNeverPanics
    DeadlineLeavesTheTimeout
    KafkaKeySeenTwice
PROPERTIES
    ImplementsPromise
    WaitReturns
