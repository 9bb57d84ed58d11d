SPECIFICATION Spec
CONSTANTS
    Waits <- PlattcDeletion
    Conf <- MCConf
    Truths <- MCTruths
    Goal <- MCGoal
    Describing <- PlattcDeletion
    NotFoundChecks = 20
INVARIANT
    DeletedMeansGone
