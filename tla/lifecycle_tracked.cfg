SPECIFICATION Spec
CONSTANTS
    Kinds <- DeletableKinds
    Handlers <- MCHandlers
    Describing <- MCDescribing
    Objects = {1, 2}
    Foreign = {1}
    Parts = {"first"}
    Values = {"a", "b"}
    MaxFaults = 2
INVARIANT TypeOK
 
PROPERTY ForgottenOnlyIfGone
PROPERTY DestroyedMeansGone
