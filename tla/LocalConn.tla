------------------------------ MODULE LocalConn ------------------------------
(***************************************************************************)
(* The in-process transport of onet: the two ends of a connection, each    *)
(* with a goroutine that moves messages from its incoming to its outgoing  *)
(* queue, and the LocalManager, whose lock is held by every operation even *)
(* while it waits for a queue or for such a goroutine.                     *)
(***************************************************************************)
EXTENDS Naturals, Sequences

CONSTANTS
    Dialler, Acceptor,  \* the two ends
    LocalSends,              \* bound: how many messages an end sends
    Closing,            \* the ends that may be closed by their router
    LocalMaxBuffer,     \* how many messages a queue holds
    MaxRetries     \* how often connecting is tried

LocalEnds == {Dialler, Acceptor}
Nobody == "nobody"

ASSUME LocalAssumption ==
    /\ Dialler # Acceptor /\ Nobody \notin LocalEnds
    /\ LocalSends \in [LocalEnds -> Nat]
    /\ Closing \subseteq LocalEnds
    /\ LocalMaxBuffer \in Nat \ {0} /\ MaxRetries \in Nat \ {0}

VARIABLES
    lm,         \* who holds the lock of the LocalManager, for how long an operation takes
    conns,      \* the ends in the manager's map
    listener,   \* the Acceptor's LocalListener: "new", "listening", "stopped"
    tries,      \* how often the Dialler has tried to connect
    incoming,   \* incomingQueue of each end
    outgoing,   \* outgoingQueue
    buff,       \* what the goroutine of an end holds between the two
    closeCh,    \* the ends whose closeCh is closed
    ended,      \* the ends whose goroutine has closed the queues and confirmed
    sending,    \* where Send is: "idle", "put"
    closing,    \* where Close is: "no", "lock", "own", "remote", "closed", "ErrClosed"
    reading,    \* the ends whose router reads
    sent,       \* how many messages an end has put into the other's queue
    calls,      \* how often an end has called Send
    received    \* how many messages Receive has returned to an end

queues == <<incoming, outgoing, buff>>
local_vars == <<lm, conns, listener, tries, queues, closeCh, ended, sending, closing, reading, sent,
                calls, received>>

Peer(e) == IF e = Dialler THEN Acceptor ELSE Dialler

LocalInit ==
    /\ lm = Nobody
    /\ conns = {} /\ listener = "new" /\ tries = 0
    /\ incoming = [e \in LocalEnds |-> <<>>]
    /\ outgoing = [e \in LocalEnds |-> <<>>]
    /\ buff = [e \in LocalEnds |-> <<>>]
    /\ closeCh = {} /\ ended = {}
    /\ sending = [e \in LocalEnds |-> "idle"]
    /\ closing = [e \in LocalEnds |-> "no"]
    /\ reading = {}
    /\ sent = [e \in LocalEnds |-> 0] /\ calls = sent
    /\ received = sent

-----------------------------------------------------------------------------
(* Listening and connecting *)

Listen ==
    /\ listener = "new" /\ lm = Nobody
    /\ listener' = "listening"
    /\ UNCHANGED <<lm, conns, tries, queues, closeCh, ended, sending, closing, reading, sent, calls,
                   received>>

StopListening ==
    /\ listener = "listening" /\ lm = Nobody /\ Acceptor \in Closing
    /\ listener' = "stopped"
    /\ UNCHANGED <<lm, conns, tries, queues, closeCh, ended, sending, closing, reading, sent, calls,
                   received>>

\* One try; it succeeds once, and both routers start to read.
LocalConnect ==
    /\ conns = {} /\ closeCh = {} /\ lm = Nobody /\ tries < MaxRetries
    /\ tries' = tries + 1
    /\ IF listener = "listening" THEN conns' = LocalEnds /\ reading' = LocalEnds
       ELSE UNCHANGED <<conns, reading>>
    /\ UNCHANGED <<lm, listener, queues, closeCh, ended, sending, closing, sent, calls, received>>

Connected == conns # {} \/ closeCh # {}

-----------------------------------------------------------------------------
(* Send and Receive *)

LocalSend(e) ==
    /\ Connected /\ sending[e] = "idle" /\ calls[e] < LocalSends[e]
    /\ lm = Nobody
    /\ calls' = [calls EXCEPT ![e] = @ + 1]
    /\ IF Peer(e) \in conns
       THEN lm' = e /\ sending' = [sending EXCEPT ![e] = "put"]
       ELSE UNCHANGED <<lm, sending>>
    /\ UNCHANGED <<conns, listener, tries, queues, closeCh, ended, closing, reading, sent, received>>

\* The queue with the message, if there is room for it.
Queued(q, msg) == {Append(x, msg) : x \in {y \in {q} : Len(y) < LocalMaxBuffer}}

\* The message waits for a place in the other end's queue, with the manager locked.
Put(e) ==
    /\ sending[e] = "put"
    /\ \E q \in Queued(incoming[Peer(e)], calls[e]) :
          incoming' = [incoming EXCEPT ![Peer(e)] = q]
    /\ sent' = [sent EXCEPT ![e] = @ + 1]
    /\ sending' = [sending EXCEPT ![e] = "idle"]
    /\ lm' = Nobody
    /\ UNCHANGED <<conns, listener, tries, outgoing, buff, closeCh, ended, closing, reading, calls,
                   received>>

Running(e) == Connected /\ e \notin ended

\* LocalConn.start: at the select, if closeCh and a message are both there, either is taken.
Take(e) ==
    /\ Running(e) /\ buff[e] = <<>> /\ incoming[e] # <<>>
    /\ buff' = [buff EXCEPT ![e] = <<Head(incoming[e])>>]
    /\ incoming' = [incoming EXCEPT ![e] = Tail(@)]
    /\ UNCHANGED <<lm, conns, listener, tries, outgoing, closeCh, ended, sending, closing, reading,
                   sent, calls, received>>

Pass(e) ==
    /\ Running(e) /\ buff[e] # <<>> /\ Len(outgoing[e]) < LocalMaxBuffer
    /\ outgoing' = [outgoing EXCEPT ![e] = @ \o buff[e]]
    /\ buff' = [buff EXCEPT ![e] = <<>>]
    /\ UNCHANGED <<lm, conns, listener, tries, incoming, closeCh, ended, sending, closing, reading,
                   sent, calls, received>>

\* Mutation: it waits until all is read.
EndsRead(e) == buff[e] = <<>> /\ outgoing[e] = <<>>

AtSelect(e) == buff[e] = <<>>

End(e) ==
    /\ Running(e) /\ e \in closeCh /\ AtSelect(e)
    /\ ended' = ended \cup {e}
    /\ UNCHANGED <<lm, conns, listener, tries, queues, closeCh, sending, closing, reading, sent,
                   calls, received>>

\* A router reads until there is an error; once it is closed it drops what it gets and
\* stops reading.
Receive(e) ==
    /\ e \in reading
    /\ \/ /\ outgoing[e] # <<>>
          /\ outgoing' = [outgoing EXCEPT ![e] = Tail(@)]
          /\ IF closing[e] = "no"
             THEN received' = [received EXCEPT ![e] = @ + 1] /\ UNCHANGED reading
             ELSE reading' = reading \ {e} /\ UNCHANGED received
       \/ /\ outgoing[e] = <<>> /\ e \in ended
          /\ reading' = reading \ {e}
          /\ UNCHANGED <<outgoing, received>>
    /\ UNCHANGED <<lm, conns, listener, tries, incoming, buff, closeCh, ended, sending, closing, sent,
                   calls>>

-----------------------------------------------------------------------------
(* Close *)

Closes(e, pc) == closing' = [closing EXCEPT ![e] = pc]

\* An end whose closeCh is closed returns ErrClosed at once.
CloseCall(e) ==
    /\ Connected /\ e \in Closing /\ closing[e] = "no"
    /\ Closes(e, IF e \in closeCh THEN "ErrClosed" ELSE "lock")
    /\ UNCHANGED <<lm, conns, listener, tries, queues, closeCh, ended, sending, reading, sent, calls,
                   received>>

StillOpen(e) == e \in conns

TakenOut(e) == conns \ {e}

CloseLock(e) ==
    /\ closing[e] = "lock" /\ lm = Nobody
    /\ IF StillOpen(e)
       THEN /\ lm' = e /\ Closes(e, "own")
            /\ conns' = TakenOut(e) /\ closeCh' = closeCh \cup {e}
       ELSE Closes(e, "ErrClosed") /\ UNCHANGED <<lm, conns, closeCh>>
    /\ UNCHANGED <<listener, tries, queues, ended, sending, reading, sent, calls, received>>

\* closeChannels returns when the goroutine has confirmed; then the other end's turn.
CloseOwn(e) ==
    /\ closing[e] = "own" /\ e \in ended
    /\ IF Peer(e) \in conns
       THEN /\ Closes(e, "remote") /\ UNCHANGED lm
            /\ conns' = conns \ {Peer(e)} /\ closeCh' = closeCh \cup {Peer(e)}
       ELSE Closes(e, "closed") /\ lm' = Nobody /\ UNCHANGED <<conns, closeCh>>
    /\ UNCHANGED <<listener, tries, queues, ended, sending, reading, sent, calls, received>>

CloseRemote(e) ==
    /\ closing[e] = "remote" /\ Peer(e) \in ended
    /\ Closes(e, "closed") /\ lm' = Nobody
    /\ UNCHANGED <<conns, listener, tries, queues, closeCh, ended, sending, reading, sent, calls,
                   received>>

-----------------------------------------------------------------------------
Moving(e) == Take(e) \/ Pass(e) \/ End(e)
Finishing(e) == CloseLock(e) \/ CloseOwn(e) \/ CloseRemote(e)

LocalNext ==
    \/ Listen \/ StopListening \/ LocalConnect
    \/ \E e \in LocalEnds : LocalSend(e) \/ Put(e) \/ Moving(e) \/ Receive(e)
                            \/ CloseCall(e) \/ Finishing(e)

\* The goroutines of both ends run, and an operation that has begun goes on when it can;
\* for a lock it is enough that one that stays free is taken.
LocalFairness ==
    /\ \A e \in LocalEnds : WF_local_vars(Put(e)) /\ WF_local_vars(Moving(e))
    /\ \A e \in LocalEnds : WF_local_vars(Receive(e)) /\ WF_local_vars(Finishing(e))
    /\ WF_local_vars(Listen) /\ WF_local_vars(LocalConnect)

LocalSpec == LocalInit /\ [][LocalNext]_local_vars /\ LocalFairness

-----------------------------------------------------------------------------
\* Messages are never put into a queue that is closed, which would stop the program: the
\* lock is taken to look for the end and kept until the message is in.
NoSendOnClosed == \A e \in LocalEnds : sending[e] = "put" => Peer(e) \notin ended

\* closeCh is closed once: an end that is closed from both sides is found in the map by one.
ClosedOnce == [][\A e \in LocalEnds : closing[e] = "lock" /\ closing'[e] = "own" => e \notin closeCh]_local_vars

\* What is sent arrives as long as no side closes the connection.
Arrives ==
    []<>(\/ \A e \in LocalEnds : received[Peer(e)] = sent[e]
         \/ \E e \in LocalEnds : closing[e] # "no")

\* The reader of an end is gone and more messages came than its queue holds.
Clogged(e) == e \notin reading /\ Len(outgoing[e]) = LocalMaxBuffer /\ buff[e] # <<>>

\* Close comes to an end, unless messages pile up behind a router that does not read any
\* more: then the manager stays locked.
CloseReturns ==
    []<>(\/ \A e \in LocalEnds : closing[e] \in {"no", "closed", "ErrClosed"}
         \/ \E e \in LocalEnds : Clogged(e))

(* What an in-process connection promises: messages arrive, and it can be closed from  *)
(* both ends without a panic and without waiting for ever.                             *)
LocalPromise == []NoSendOnClosed /\ ClosedOnce /\ Arrives /\ CloseReturns

=============================================================================
