SPECIFICATION FairSpec
CONSTANTS
    a = a
    b = b
    c = c
    t1 = t1
    t2 = t2
    r1 = r1
    r2 = r2
    Nothing = Nothing
    Servers = {a, b}
    Trees = {t1, t2}
    Root <- MCOneRoot
    RosterOf <- MCTwoRosters
    Sends <- MCOneSend
    Local = {}
    Refusing = {}
    Finishing = {}
    Faulty = {b}
PROPERTIES
    PendingTreeCreated
CHECK_DEADLOCK FALSE
