SPECIFICATION FairSpec
CONSTANTS
    m1 = m1
    phone = phone
    desktop = desktop
    Messages <- MessagesOne
    Writers <- WritersTwo
    MaxVer = 2
    MaxEvents = 2
    MaxFailures = 1
INVARIANTS
    NothingMissing
    ChannelFollowsVisibility
PROPERTY EventuallyShown
CHECK_DEADLOCK FALSE
