SPECIFICATION Spec
CONSTANTS
    Ids = {1, 2, 3}
    DisplayNames <- MCDisplayNames
    Numbers = {"0", "1", "2", "3", "4", "5", "6", "7", "8", "9"}
    Configurations <- MCConfigurations
    MaxChanges = 1
    MaxRuns = 2
INVARIANTS TypeOK TrackedFilesAgree OneCreateOnDisk AddressesAreUnique 
    
PROPERTIES LetGoMeansGone HandlersEnd
CHECK_DEADLOCK FALSE
