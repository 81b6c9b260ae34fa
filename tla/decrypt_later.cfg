SPECIFICATION Spec
CONSTANTS
    t1 = t1
    t2 = t2
    t3 = t3
    t4 = t4
    t5 = t5
    t6 = t6
    t7 = t7
    alice = alice
    bob = bob
    q1 = q1
    None = None
    NoRequest = NoRequest
    Trustees = {t1, t2, t3, t4, t5}
    SC <- MCSC
    Faulty = {}
    Requests = {q1}
    Payloads <- MCPayloads
    First <- MCFirst
    Rosters <- MCInOrder
    MaxLedger = 4
INVARIANTS
    ReadCanBeProved
CHECK_DEADLOCK FALSE
