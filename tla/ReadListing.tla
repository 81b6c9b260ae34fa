----------------------------- MODULE ReadListing -----------------------------
(***************************************************************************)
(* GetReadRequests: a client walks the chain as one node knows it, along   *)
(* the forward links, while the service goes on.  The walk takes saveMutex *)
(* once per block, so blocks and links are stored between its steps.       *)
(***************************************************************************)
EXTENDS OcsService

CONSTANT Counts     \* the values of Count a client may ask for

ASSUME CountsAssumption == Counts \subseteq Nat

VARIABLES
    lpc,        \* "idle", "walk", "done", "error" or "lost"
    lat,        \* the node that walks
    start,      \* the Start of the request
    count,      \* the Count of the request
    current,    \* the block the walk is at
    docs        \* the reads found so far, reply.Documents

listVars == <<lpc, lat, start, count, current, docs>>

ListInit ==
    /\ lpc = "idle"
    /\ lat = Leader
    /\ start = 0
    /\ count = 0
    /\ current = 0
    /\ docs = <<>>

\* The checks before the loop: the starting block is known, and for Count = 0 it
\* is a write.  Clients name any block of the chain.
GetReadRequests(n) ==
    /\ lpc = "idle"
    /\ \E b \in Positions, c \in Counts :
        /\ start' = b
        /\ count' = c
        /\ current' = b
        /\ lpc' = IF b \in stored[n] /\ (c = 0 => chain[b].kind = "ots") THEN "walk" ELSE "error"
    /\ lat' = n
    /\ UNCHANGED <<docs, vars>>

\* Mutation: off by one.
WantsOneMore == count = 0 \/ Len(docs) <= count

WantsMore == count = 0 \/ Len(docs) < count

IsRead == chain[current].kind = "read"

\* A read of another document when Count = 0: `continue` starts the next round of
\* the loop at the same block.
SkipRead ==
    /\ lpc = "walk"
    /\ WantsMore
    /\ IsRead
    /\ count = 0 /\ chain[current].doc # start
    /\ UNCHANGED <<listVars, vars>>

\* Mutation: the break at a block without forward links is in the branch for reads.
VisitNoBreak ==
    /\ lpc = "walk"
    /\ WantsMore
    /\ ~(IsRead /\ count = 0 /\ chain[current].doc # start)
    /\ docs' = IF IsRead THEN Append(docs, current) ELSE docs
    /\ current' = IF current \in fwd[lat] THEN current + 1 ELSE current
    /\ lpc' = IF IsRead /\ current \notin fwd[lat] THEN "done" ELSE lpc
    /\ UNCHANGED <<lat, start, count, vars>>

\* Any other block: a read is added to the reply, then the walk follows the
\* forward link, or ends at a block that has none.
VisitBlock ==
    /\ lpc = "walk"
    /\ WantsMore
    /\ ~(IsRead /\ count = 0 /\ chain[current].doc # start)
    /\ docs' = IF IsRead THEN Append(docs, current) ELSE docs
    /\ IF current \in fwd[lat]
       THEN current' = current + 1 /\ lpc' = lpc
       ELSE current' = current /\ lpc' = "done"
    /\ UNCHANGED <<lat, start, count, vars>>

\* The loop's condition fails: enough reads were found.
EnoughReads ==
    /\ lpc = "walk"
    /\ ~WantsMore
    /\ lpc' = "done"
    /\ UNCHANGED <<lat, start, count, current, docs, vars>>

\* The node that walks restarts, or another one does.
ListRestart(n) ==
    /\ Restart(n)
    /\ lpc' = IF lpc = "walk" /\ lat = n THEN "lost" ELSE lpc
    /\ UNCHANGED <<lat, start, count, current, docs>>

List == SkipRead \/ VisitBlock \/ EnoughReads

ListNext ==
    \/ Step /\ UNCHANGED listVars
    \/ \E n \in Faulty : ListRestart(n)
    \/ \E n \in Nodes : GetReadRequests(n)
    \/ List

allVars == <<vars, listVars>>

ListSpec == Init /\ ListInit /\ [][ListNext]_allVars

-----------------------------------------------------------------------------
\* GetFromGenesisByID in the loop returns a block, never nil: the node has every
\* block the walk gets to.
CurrentIsStored == lpc = "walk" => current \in stored[lat]

\* The reads the walk must have met before it looks at block b.
ReadsBefore(b) ==
    {i \in start..(b - 1) : chain[i].kind = "read" /\ (count = 0 => chain[i].doc = start)}

\* The reply of GetReadRequests is the reads from Start on, in the order of the
\* chain, without gaps or repetitions, and never more than Count of them, although
\* blocks arrive and are linked while the walk is under way.
ReplyIsExact ==
    /\ count > 0 => Len(docs) <= count
    /\ \A i, j \in 1..Len(docs) : i < j => docs[i] < docs[j]
    /\ lpc = "walk" => {docs[i] : i \in 1..Len(docs)} = ReadsBefore(current)
    /\ lpc = "done" =>
        \E b \in {current, current + 1} : {docs[i] : i \in 1..Len(docs)} = ReadsBefore(b)

\* api.go:256-259, "A maximum of 'count' requests are returned": a listing with a
\* Count ends, however many reads are appended while it walks.
ListingReturns == (lpc = "walk" /\ count > 0) ~> (lpc \in {"done", "lost"})

\* api.go:256-259, "If 'count' == 0, 'start' must point to a write-block, and all
\* read-requests for that write-block will be returned": so does one without.
AllReadsReturned == (lpc = "walk" /\ count = 0) ~> (lpc \in {"done", "lost"})

=============================================================================
