------------------------------- MODULE Router -------------------------------
(***************************************************************************)
(* The routers of onet servers: connections that are opened by either      *)
(* side, sometimes by both at once, handled by a goroutine per side, broken *)
(* by timeouts, and closed when a router stops.                            *)
(*                                                                         *)
(* A connection behaves as a TCPConn: two queues, an end that can be closed *)
(* on each side, and the loss of what was not read when it is closed.      *)
(***************************************************************************)
EXTENDS Naturals, Sequences, FiniteSets, SequencesExt, FiniteSetsExt

CONSTANTS
    Routers,
    Sends,       \* bound: <<from, to>> -> how many messages are sent
    Stopping,    \* the routers that may stop
    MaxConns,    \* bound: the connections that are opened
    Impatient,   \* the routers whose reads may time out
    MaxTimeouts  \* bound: how many of them do

ASSUME RouterAssumption ==
    /\ DOMAIN Sends \subseteq Routers \X Routers
    /\ Sends \in [DOMAIN Sends -> Nat]
    /\ Stopping \subseteq Routers /\ Impatient \subseteq Routers
    /\ MaxConns \in Nat /\ MaxTimeouts \in Nat

Conns == 1..MaxConns

VARIABLES
    ends,        \* for each connection opened: <<the dialling router, the other>>
    queue,       \* the messages on the way to an end of a connection
    shut,        \* the ends that are closed: <<router, connection>>
    listening,   \* the routers whose host listens
    isClosed,    \* the routers with that flag
    connections, \* for each router and remote router the registered connections
    handler,     \* where handleConn is, for each end
    accept,      \* where the listener's function is, for each connection
    sender,      \* a Send under way, for each router and remote router
    stop,        \* where Stop is
    tx,          \* the messages sent through an end, as the connection counts them
    traffic,     \* the traffic of closed connections
    sentOK,      \* how many calls of Send succeeded
    got,         \* the messages a router has dispatched: <<from, nr>>
    timeouts     \* how many reads have timed out

links == <<ends, queue, shut>>
counts == <<tx, traffic>>
router_vars == <<links, listening, isClosed, connections, handler, accept, sender, stop, counts, sentOK,
          got, timeouts>>

Ends == Routers \X Conns
Identity == 0   \* the first message of a connection; the others are numbered from 1

RouterInit ==
    /\ ends = <<>>
    /\ queue = [e \in Ends |-> <<>>]
    /\ shut = {}
    /\ listening = Routers
    /\ isClosed = {}
    /\ connections = [l \in Routers \X Routers |-> <<>>]
    /\ handler = [e \in Ends |-> "none"]
    /\ accept = [c \in Conns |-> "none"]
    /\ sender = [l \in DOMAIN Sends |-> [pc |-> "idle", nr |-> 0, conn |-> 0, tries |-> 0]]
    /\ stop = [r \in Routers |-> "no"]
    /\ tx = [e \in Ends |-> 0]
    /\ traffic = [r \in Routers |-> 0]
    /\ sentOK = [l \in DOMAIN Sends |-> 0]
    /\ got = [r \in Routers |-> {}]
    /\ timeouts = 0

Other(r, c) == IF ends[c][1] = r THEN ends[c][2] ELSE ends[c][1]
At(l, pc) == sender[l].pc = pc
Sender(l, f) == sender' = [sender EXCEPT ![l] = f]

\* TCPConn.Send: the own end is open; what is sent to a closed end is lost.
Transmits(r, c, m) ==
    /\ <<r, c>> \notin shut
    /\ queue' = IF <<Other(r, c), c>> \in shut THEN queue
                ELSE [queue EXCEPT ![Other(r, c), c] = Append(@, m)]
    /\ tx' = [tx EXCEPT ![r, c] = @ + 1]

-----------------------------------------------------------------------------
(* Router.Send *)

\* The first registered connection, or a new one.
Send(l) ==
    LET cs == connections[l] IN
    /\ At(l, "idle") /\ sender[l].nr < Sends[l]
    /\ Sender(l, [pc |-> IF cs = <<>> THEN "connect" ELSE "send", nr |-> sender[l].nr + 1,
                  conn |-> IF cs = <<>> THEN 0 ELSE cs[1], tries |-> 1])
    /\ UNCHANGED <<links, listening, isClosed, connections, handler, accept, stop, counts, sentOK,
                   got, timeouts>>

\* host.Connect and the sending of the own identity.
Connect(l) ==
    LET c == Len(ends) + 1 IN
    /\ At(l, "connect") /\ c <= MaxConns
    /\ \/ /\ l[2] \in listening
          /\ ends' = Append(ends, l)
          /\ queue' = [queue EXCEPT ![l[2], c] = <<Identity>>]
          /\ tx' = [tx EXCEPT ![l[1], c] = 1]
          /\ accept' = [accept EXCEPT ![c] = "new"]
          /\ Sender(l, [sender[l] EXCEPT !.pc = "register", !.conn = c])
       \/ /\ l[2] \notin listening
          /\ Sender(l, [sender[l] EXCEPT !.pc = "idle"])
          /\ UNCHANGED <<ends, queue, tx, accept>>
    /\ UNCHANGED <<shut, listening, isClosed, connections, handler, stop, traffic, sentOK, got,
                   timeouts>>

Register(l, c) == connections' = [connections EXCEPT ![l] = Append(@, c)]

registerConnection(l) ==
    /\ At(l, "register")
    /\ IF l[1] \in isClosed
       THEN Sender(l, [sender[l] EXCEPT !.pc = "idle"]) /\ UNCHANGED connections
       ELSE Sender(l, [sender[l] EXCEPT !.pc = "launch"]) /\ Register(l, sender[l].conn)
    /\ UNCHANGED <<links, listening, isClosed, handler, accept, stop, counts, sentOK, got, timeouts>>

MayLaunch(r) == r \notin isClosed

Launch(r, c) ==
    handler' = IF MayLaunch(r) THEN [handler EXCEPT ![r, c] = "receive"] ELSE handler

launchHandleRoutine(l) ==
    /\ At(l, "launch")
    /\ Launch(l[1], sender[l].conn)
    /\ Sender(l, [sender[l] EXCEPT !.pc = IF MayLaunch(l[1]) THEN "send" ELSE "idle"])
    /\ UNCHANGED <<links, listening, isClosed, connections, accept, stop, counts, sentOK, got,
                   timeouts>>

\* One more try, with a new connection, after a first failure.
SendOn(l) ==
    LET s == sender[l] IN
    /\ At(l, "send")
    /\ \/ /\ Transmits(l[1], s.conn, s.nr)
          /\ sentOK' = [sentOK EXCEPT ![l] = @ + 1]
          /\ Sender(l, [s EXCEPT !.pc = "idle"])
       \/ /\ {<<r, s.conn>> : r \in Routers} \cap shut # {}
          /\ Sender(l, IF s.tries = 1 THEN [s EXCEPT !.pc = "connect", !.tries = 2]
                       ELSE [s EXCEPT !.pc = "idle"])
          /\ UNCHANGED <<queue, tx, sentOK>>
    /\ UNCHANGED <<ends, shut, listening, isClosed, connections, handler, accept, stop, traffic,
                   got, timeouts>>

-----------------------------------------------------------------------------
(* Router.Start: the function that the listener calls for a new connection. *)

\* A closed router leaves the connection as it is.
Accepts(r, c) == r \notin isClosed

\* receiveServerIdentity, and registerConnection with what it received.
AcceptRegister(c) ==
    LET r == ends[c][2] IN
    /\ accept[c] = "new" /\ queue[r, c] # <<>>
    /\ queue' = [queue EXCEPT ![r, c] = Tail(@)]
    /\ IF Accepts(r, c)
       THEN /\ Register(<<r, ends[c][1]>>, c)
            /\ accept' = [accept EXCEPT ![c] = "launch"]
       ELSE /\ accept' = [accept EXCEPT ![c] = "refused"]
            /\ UNCHANGED connections
    /\ UNCHANGED <<ends, shut, listening, isClosed, handler, sender, stop, counts, sentOK, got,
                   timeouts>>

AcceptLaunch(c) ==
    /\ accept[c] = "launch"
    /\ Launch(ends[c][2], c)
    /\ accept' = [accept EXCEPT ![c] = "done"]
    /\ UNCHANGED <<links, listening, isClosed, connections, sender, stop, counts, sentOK, got,
                   timeouts>>

-----------------------------------------------------------------------------
(* handleConn of router r on connection c *)

Handler(e, pc) == handler' = [handler EXCEPT ![e] = pc]

\* Receive returns a message, and the router is not closed.
HandleMessage(r, c) ==
    /\ handler[r, c] = "receive" /\ <<r, c>> \notin shut
    /\ queue[r, c] # <<>> /\ r \notin isClosed
    /\ Handler(<<r, c>>, "dispatch")
    /\ UNCHANGED <<links, listening, isClosed, connections, accept, sender, stop, counts, sentOK,
                   got, timeouts>>

Dispatch(r, c) ==
    /\ handler[r, c] = "dispatch"
    /\ got' = [got EXCEPT ![r] = @ \cup {<<Other(r, c), Head(queue[r, c])>>}]
    /\ queue' = [queue EXCEPT ![r, c] = Tail(@)]
    /\ Handler(<<r, c>>, "receive")
    /\ UNCHANGED <<ends, shut, listening, isClosed, connections, accept, sender, stop, counts,
                   sentOK, timeouts>>

\* updateTx
Accounted(r, c) == traffic[r] + tx[r, c]

\* The deferred function: the connection is closed, its traffic added and wg.Done called.
\* Only then is it removed.
Deferred(r, c) ==
    /\ shut' = shut \cup {<<r, c>>}
    /\ traffic' = [traffic EXCEPT ![r] = Accounted(r, c)]
    /\ Handler(<<r, c>>, "remove")

\* The connection is closed on this side or on the other, or a message comes too late,
HandleClosed(r, c) ==
    /\ handler[r, c] = "receive"
    /\ \/ {<<r, c>>, <<Other(r, c), c>>} \cap shut # {}
       \/ queue[r, c] # <<>> /\ r \in isClosed
    /\ Deferred(r, c)
    /\ UNCHANGED <<ends, queue, listening, isClosed, connections, accept, sender, stop, tx, sentOK,
                   got, timeouts>>

\* or nothing came for readTimeout.
HandleTimeout(r, c) ==
    /\ r \in Impatient /\ handler[r, c] = "receive" /\ queue[r, c] = <<>>
    /\ timeouts < MaxTimeouts
    /\ timeouts' = timeouts + 1
    /\ Deferred(r, c)
    /\ UNCHANGED <<ends, queue, listening, isClosed, connections, accept, sender, stop, tx, sentOK,
                   got>>

\* The last connection takes the place of the removed one.
Without(cs, c) ==
    [i \in 1..(Len(cs) - 1) |-> IF cs[i] = c THEN Last(cs) ELSE cs[i]]

removeConnection(r, c) ==
    LET l == <<r, Other(r, c)>> IN
    /\ handler[r, c] = "remove"
    /\ connections' = [connections EXCEPT ![l] = Without(@, c)]
    /\ Handler(<<r, c>>, "gone")
    /\ UNCHANGED <<links, listening, isClosed, accept, sender, stop, counts, sentOK, got, timeouts>>

-----------------------------------------------------------------------------
(* Router.Stop *)

StopHost(r) ==
    /\ r \in Stopping /\ stop[r] = "no"
    /\ listening' = listening \ {r}
    /\ stop' = [stop EXCEPT ![r] = "close"]
    /\ UNCHANGED <<links, isClosed, connections, handler, accept, sender, counts, sentOK, got,
                   timeouts>>

Registered(r) == UNION {ToSet(connections[r, o]) : o \in Routers}

ToClose(r) == Registered(r)

StopClose(r) ==
    /\ stop[r] = "close"
    /\ isClosed' = isClosed \cup {r}
    /\ shut' = shut \cup {<<r, c>> : c \in ToClose(r)}
    /\ stop' = [stop EXCEPT ![r] = "wait"]
    /\ UNCHANGED <<ends, queue, listening, connections, handler, accept, sender, counts, sentOK, got,
                   timeouts>>

\* Mutation: a handler that dispatches is not waited for.
CountedReading(r) == {c \in Conns : handler[r, c] = "receive"}

\* The handlers the WaitGroup counts.
Counted(r) == {c \in Conns : handler[r, c] \in {"receive", "dispatch"}}

StopWait(r) ==
    /\ stop[r] = "wait" /\ Counted(r) = {}
    /\ stop' = [stop EXCEPT ![r] = "stopped"]
    /\ UNCHANGED <<links, listening, isClosed, connections, handler, accept, sender, counts,
                   sentOK, got, timeouts>>

-----------------------------------------------------------------------------
Sending(l) ==
    Connect(l) \/ registerConnection(l) \/ launchHandleRoutine(l) \/ SendOn(l)

Accepting(c) == AcceptRegister(c) \/ AcceptLaunch(c)

Handling(r, c) ==
    HandleMessage(r, c) \/ Dispatch(r, c) \/ HandleClosed(r, c) \/ removeConnection(r, c)

RouterNext ==
    \/ \E l \in DOMAIN Sends : Send(l) \/ Sending(l)
    \/ \E c \in DOMAIN ends : Accepting(c)
    \/ \E r \in Routers, c \in DOMAIN ends : Handling(r, c) \/ HandleTimeout(r, c)
    \/ \E r \in Routers : StopHost(r) \/ StopClose(r) \/ StopWait(r)

RouterSpec == RouterInit /\ [][RouterNext]_router_vars

\* The goroutines of senders, listeners and handlers run, and so does Stop once it is
\* called.  Nobody has to send, to stop or to time out.
RouterFairness ==
    /\ \A l \in DOMAIN Sends : WF_router_vars(Sending(l))
    /\ \A c \in Conns : WF_router_vars(c \in DOMAIN ends /\ Accepting(c))
    /\ \A r \in Routers, c \in Conns : WF_router_vars(c \in DOMAIN ends /\ Handling(r, c))
    /\ \A r \in Routers : WF_router_vars(StopClose(r) \/ StopWait(r))

RouterFairSpec == RouterSpec /\ RouterFairness

-----------------------------------------------------------------------------
\* A connection with a running handler is among the registered ones, in which Stop
\* looks for what it has to close: the removal of others never takes it away.
HandledIsRegistered ==
    \A r \in Routers, c \in DOMAIN ends :
        c \in Counted(r) => c \in ToSet(connections[r, Other(r, c)])

\* Once Stop has returned no message is dispatched any more, whatever connections were
\* being opened, accepted or read from when it was called.
QuietOnceStopped ==
    [][\A r \in Routers : stop[r] = "stopped" => got'[r] = got[r]]_router_vars

\* Router.Tx: the registered connections and the traffic of the closed ones.
Tx(r) ==
    traffic[r] + FoldSet(LAMBDA c, n : n + tx[r, c], 0, Registered(r))

\* What was sent is never missing from Tx: a connection that is closed is counted in the
\* traffic before it is removed, and in between counts twice.
TxIsComplete ==
    \A r \in Routers :
        Tx(r) >= FoldSet(LAMBDA l, n : n + sentOK[l], 0, {l \in DOMAIN Sends : l[1] = r})

\* Stop returns: every handler comes to an end, with any connection still opening.
StopReturns == []<>(\A r \in Routers : stop[r] \in {"no", "stopped"})

\* As long as no read times out and no router stops, every message that was sent without
\* an error is dispatched, even if both routers have opened a connection.
Dispatched ==
    []<>(\/ \A l \in DOMAIN Sends : sentOK[l] = Cardinality({m \in got[l[2]] : m[1] = l[1]})
         \/ timeouts > 0
         \/ \E r \in Routers : stop[r] # "no")

(* What a router promises: it dispatches what was sent, counts it, keeps track of the  *)
(* connections it handles, and stops for good.                                         *)
RouterPromise ==
    []HandledIsRegistered /\ []TxIsComplete /\ QuietOnceStopped /\ StopReturns /\ Dispatched

=============================================================================
