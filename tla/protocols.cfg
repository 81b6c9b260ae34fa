SPECIFICATION MCSpec
CONSTANTS
    a = a
    b = b
    c = c
    t1 = t1
    t2 = t2
    r1 = r1
    r2 = r2
    Nothing = Nothing
    Servers = {a, b, c}
    Trees = {t1, t2}
    Root <- MCRoot
    RosterOf <- MCRosterOf
    Sends <- MCSends
    Local <- MCLocal
    Refusing <- MCRefusing
    Finishing <- MCFinishing
    Faulty = {c}
    c1 = c1
    c2 = c2
    p = p
    Children = {c1, c2}
    Parent = p
    IsRoot = FALSE
    Types = {"announce", "reply", "note", "other"}
    Aggregated = {"reply", "announce"}
    OnChannel = {"reply", "note"}
    OnHandler = {"announce"}
    ChannelLength = 1
    Deliveries <- MCDeliveries
    MaxQueue = 2
    TreeServers <- MCServers
    MaxRoster = 4
    MaxChildren = 3
    MaxNodes = 6
    Names = {"ocs", "smc"}
    MsgTypes = {"m1", "m2"}
    Protos = {"p1", "p2"}
    Handles <- MCHandles
    Late <- MCLate
    Tied <- MCTied
    Makes <- MCMakes
    MaxSaves = 2
INVARIANTS
    OneInstance
    HandledInTime
    NoLostWakeup
    TreesAreRight
    
PROPERTIES
    Delivered
    OneFromEachChild
    InstanceIsMailbox
CHECK_DEADLOCK FALSE
