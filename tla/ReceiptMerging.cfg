CONSTANTS
    MaxGroups = 2
    Timeout = 1
    NoId = NoId
    Bases = {"A", "B", "C", "D"}
    Sends <- MCSends
    SmsIds <- MCSmsIds
SPECIFICATION Spec
INVARIANTS TypeOK ReportsAreWhole FiresOnceAllReported
PROPERTY MergedOnce
