SPECIFICATION MCSpec
CONSTANTS
    t1 = t1
    t2 = t2
    t3 = t3
    t4 = t4
    t5 = t5
    t6 = t6
    t7 = t7
    alice = alice
    bob = bob
    q1 = q1
    None = None
    NoRequest = NoRequest
    Trustees = {t1, t2, t3, t4, t5}
    SC <- MCSC
    Faulty = {t1, t2}
    Requests = {q1}
    Payloads <- MCPayloads
    First <- MCFirst
    Rosters <- MCRosters
    MaxLedger = 4
    Skipchains <- MCChains
    ParentOf <- MCParent
    Backless <- MCBackless
    Q = 11
    Bytes = {0, 1}
    PickLen = 2
    KeyNodes = {1, 2, 3, 4}
    Secrets <- MCSecrets
    NoCase = NoCase
    Size = 3
    DkgThreshold = 2
    Wait = TRUE
    Stopping = {2}
INVARIANTS
    
    SharesFillTheSlice
    EndIsFinished
    WaitIsBarrier
    UisRecover
    SecretIsRecovered
PROPERTIES
    BunchIsTrue
    ReadersAreServed
    KeysAreServed
CHECK_DEADLOCK FALSE
