SPECIFICATION Spec
SYMMETRY Symmetry
CONSTANTS
    u1 = u1
    u2 = u2
    c1 = c1
    c2 = c2
    k1 = k1
    k2 = k2
    cv1 = cv1
    cv2 = cv2
    s1 = s1
    s2 = s2
    applied = applied
    rejected = rejected
    Null = Null
    Users <- MCUsers
    Accounts <- MCUsers
    Chats <- MCChats
    Codes <- MCCodes
    CVs <- MCCVs
    Slots <- MCSlots
    Servers <- MCSlots
    Statuses <- MCStatuses
    Titles <- MCTitles
    Final <- MCFinal
    Views <- MCViews
    Links <- MCLinks
    Url <- MCUrl
    Posting <- MCPosting
    Identified <- MCIdentified
    LongNumbers <- MCLongNumbers
    LeadingNumber <- MCLeadingNumber
    Localized <- MCLocalized
    Workloads <- MCWorkloads
    Grain = 2
    PageSize = 2
INVARIANTS
    TypeOK
    OfferingsMatchPostings
    HistoryTellsState
    PagesMissNothing
    SnapshotIsItsVersion
    QuietCacheIsCurrent
CHECK_DEADLOCK FALSE
