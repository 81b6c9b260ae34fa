SPECIFICATION CreatedFairSpec
CONSTANTS
    n1 = n1
    n2 = n2
    n3 = n3
    r1 = r1
    r2 = r2
    r3 = r3
    alice = alice
    bob = bob
    None = None
    Leader = n1
    Quorums <- MCQuorums
    Nodes = {n1, n2}
    Entry = {n1}
    Requests = {r1, r2}
    Payloads <- MCSmallPayloads
    Faulty = {n2}
    BadDisk = {}
INVARIANTS
    EntryIsCurrent
PROPERTIES
    RequestsReturn
    
CHECK_DEADLOCK FALSE
