------------------------------ MODULE Mailbox ------------------------------
(***************************************************************************)
(* What a TreeNodeInstance promises to the overlay and to the protocol: a  *)
(* mailbox with one line per kind of message.  A message is handed over    *)
(* exactly once and in its turn; only the first of a line can be turned    *)
(* away, and nothing is handed over from a mailbox after it was emptied by *)
(* its closing.                                                            *)
(***************************************************************************)
EXTENDS Sequences, Naturals

CONSTANTS Messages, Lines, LineOf(_)

VARIABLES
    line,       \* for each line the messages put and not handed over
    given,      \* for each line the messages handed over or turned away
    open        \* whether the mailbox still hands out messages

boxVars == <<line, given, open>>

BoxInit ==
    /\ line = [k \in Lines |-> <<>>]
    /\ given = [k \in Lines |-> <<>>]
    /\ open = TRUE

Put(m) ==
    /\ line' = [line EXCEPT ![LineOf(m)] = Append(@, m)]
    /\ UNCHANGED <<given, open>>

\* The next n messages of a line leave it together.
Hand(k, n) ==
    /\ open
    /\ n \in 1..Len(line[k])
    /\ given' = [given EXCEPT ![k] = @ \o SubSeq(line[k], 1, n)]
    /\ line' = [line EXCEPT ![k] = SubSeq(@, n + 1, Len(@))]
    /\ UNCHANGED open

Shut ==
    /\ open' = FALSE
    /\ UNCHANGED <<line, given>>

BoxNext ==
    \/ given' # given /\ \E k \in Lines : \E n \in 1..Len(line[k]) : Hand(k, n)
    \/ given' = given /\ line' # line /\ \E m \in Messages : Put(m)
    \/ open' # open /\ Shut

BoxSpec == BoxInit /\ [][BoxNext]_boxVars

=============================================================================
