--------------------------- MODULE MCOtsWorkflow ---------------------------
(* Instances of OtsWorkflow for TLC. *)
EXTENDS OtsWorkflow

CONSTANTS q1, t1, t2, t3, t4, t5, t6, t7, alice, bob, None

MCSC == <<t1, t2, t3, t4>>

\* The writer's list, its ends cut off, two lists in another order, one trustee alone
\* and a list with a trustee that has no share.
MCRosters ==
    {MCSC, <<t1, t2, t3>>, <<t1, t2>>, <<t1, t3, t2>>, <<t2, t1>>, <<t1>>, MCSC \o <<t5>>}

MCSeven == <<t1, t2, t3, t4, t5, t6, t7>>

MCInOrder == {MCSC}

MCSevenInOrder == {MCSeven}

Write(reader) ==
    [kind |-> "ots", sharesOK |-> TRUE, readers |-> {reader}, doc |-> 0, signer |-> None]

Read(signer, doc) ==
    [kind |-> "read", sharesOK |-> TRUE, readers |-> {}, doc |-> doc, signer |-> signer]

MCFirst == [kind |-> "genesis", sharesOK |-> TRUE, readers |-> {}, doc |-> 0, signer |-> None]

MCPayloads ==
    {Write(alice), Write(bob)} \cup {Read(s, d) : s \in {alice, bob}, d \in {2, 3}}

MCAlice == {Write(alice), Read(alice, 2)}

=============================================================================
