SPECIFICATION WrittenFairSpec
CONSTANTS
    n1 = n1
    n2 = n2
    n3 = n3
    r1 = r1
    r2 = r2
    r3 = r3
    alice = alice
    bob = bob
    None = None
    Leader = n1
    Quorums <- MCQuorums
    Nodes = {n1}
    Entry = {n1}
    Requests = {r1, r2}
    Payloads <- MCReads
    Faulty = {n1}
    BadDisk = {}
    Counts = {0}
PROPERTIES
    AllReadsReturned
CHECK_DEADLOCK FALSE
