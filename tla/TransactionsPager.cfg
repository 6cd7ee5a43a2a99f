\* Pages of one row of a log of up to four rows, three pages in all.
CONSTANTS
    Types = {"OPEN", "CANCEL"}
    All = "all"
    PageSize = 1
    MaxRows = 4
    MaxFetches = 3
SPECIFICATION FairSpec
INVARIANTS
    NoRowSkipped
    EndIsTrue
PROPERTIES
    LoadsSettle
CHECK_DEADLOCK FALSE
