------------------------------ MODULE AccLedger ------------------------------
(***************************************************************************)
(* What the access-control cothority promises its clients: one ledger that *)
(* only grows, in which every read was allowed by an earlier write, and    *)
(* answers that each name one entry of their own.                          *)
(*                                                                         *)
(* There are no nodes, no stores, no propagation and no restarts here.     *)
(***************************************************************************)
EXTENDS Naturals, Sequences

CONSTANTS
    Requests,   \* one identifier per write or read request
    Payloads,   \* the data clients may ask to have appended
    First       \* the entry that opens the ledger

VARIABLES
    ledger,     \* the entries, oldest first
    answer      \* the position each request was answered with; 0: none yet

vars == <<ledger, answer>>

Init ==
    /\ ledger = <<>>
    /\ answer = [r \in Requests |-> 0]

\* An entry that may follow the entries of l: a write whose shares are valid, or
\* a read, signed by one of the readers that an earlier write names.
Allowed(l, p) ==
    \/ p.kind = "ots" /\ p.sharesOK
    \/ /\ p.kind = "read"
       /\ p.doc \in 1..Len(l)
       /\ l[p.doc].kind = "ots"
       /\ p.signer \in l[p.doc].readers

Open ==
    /\ ledger = <<>>
    /\ ledger' = <<First>>
    /\ UNCHANGED answer

Add(p) ==
    /\ ledger # <<>>
    /\ Allowed(ledger, p)
    /\ ledger' = Append(ledger, p)
    /\ UNCHANGED answer

\* A request is answered once, with an entry no other request is answered with.
Answer(r, i) ==
    /\ answer[r] = 0
    /\ \A q \in Requests : answer[q] # i
    /\ answer' = [answer EXCEPT ![r] = i]
    /\ UNCHANGED ledger

Next ==
    \/ Open
    \/ \E p \in Payloads : Add(p)
    \/ \E r \in Requests, i \in 2..Len(ledger) : Answer(r, i)

Spec == Init /\ [][Next]_vars

=============================================================================
