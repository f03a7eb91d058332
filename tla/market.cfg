\* A list of three to five items, two of the same hour, two items to a page
\* and two pages, two jobs, one fault, one override at a time.
SPECIFICATION MarketSearchSpec
CONSTANTS
    FirstListed = 3
    LastItem = 5
    EndedAt <- Endings
    PeriodStart = 1
    PageSize = 2
    MaxPages = 2
    Unreadable = {3}
    Mismatched = {}
    Odd = {2}
    MinGroup = 2
    Sources = {"yahoo_scrape", "aucfan_api"}
    MaxJobs = 2
    MaxMishaps = 1
    Judged = {2}
    Editors = {e1}
    MaxLock = 3
INVARIANTS
    CompleteIsWhole
    SnapshotAgrees
    ConfirmedAsRead
CHECK_DEADLOCK FALSE
