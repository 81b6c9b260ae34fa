------------------------------ MODULE WebSocket ------------------------------
(***************************************************************************)
(* A client of onet services and the websockets it talks to: the start and *)
(* stop of a WebSocket, the loop that serves a connection, and a Client    *)
(* that several goroutines share.                                          *)
(***************************************************************************)
EXTENDS Naturals, Sequences

CONSTANTS
    Servers,
    Calls,            \* the goroutines that use the client
    Asks,             \* for each of them the <<server, path, request>> it sends (SendToAll: several)
    MaxRetryConnect   \* how often dialling is tried

(* What can become of a request: it is answered, fails to be decoded, its handler returns a *)
(* ClientError with a code, or its reply cannot be encoded.                                *)
Answered == 0
Undecodable == 1
Unencodable == 2
Path == "known"
NoPath == "unknown"

WebSocketErrorPathNotFound == 4000
WebSocketErrorProtobufDecode == 4001
WebSocketErrorProtobufEncode == 4002
WebSocketErrorInvalidErrorCode == 4003

ASSUME WebAssumption ==
    /\ Asks \in [Calls -> Seq(Servers \X {Path, NoPath} \X Nat)]
    /\ MaxRetryConnect \in Nat \ {0}

VARIABLES
    started,     \* the flag of each WebSocket
    webStart,    \* where start is: "no", "listen", "wait", "returned"
    webStop,     \* where stop is: "no", "rendezvous", "returned"
    listens,     \* the servers whose port is open
    keep,        \* whether the client keeps its connections
    mutex,       \* the calls that hold the lock of the client
    pc,          \* where a call is
    todo,        \* what a call has still to send, the one under way first
    dials,       \* how often the call under way has dialled
    pool,        \* Client.connections: the destinations with a connection
    wire,        \* for each open connection what is on it
    results      \* what a call got for each thing it asked

server_vars == <<started, webStart, webStop, listens>>
client_vars == <<keep, mutex, pc, todo, dials, pool, results>>
web_vars == <<server_vars, client_vars, wire>>

Dest(a) == <<a[1], a[2]>>
Quiet == [is |-> "quiet"]
Broken == [is |-> "broken"]

WebInit ==
    /\ started = [s \in Servers |-> FALSE]
    /\ webStart = [s \in Servers |-> "no"]
    /\ webStop = [s \in Servers |-> "no"]
    /\ listens = {}
    /\ keep \in BOOLEAN
    /\ mutex = {} /\ dials = 0
    /\ pc = [g \in Calls |-> "idle"]
    /\ todo = Asks
    /\ pool = {}
    /\ wire = [d \in Servers \X {Path, NoPath} |-> Broken]
    /\ results = [g \in Calls |-> {}]

-----------------------------------------------------------------------------
(* WebSocket.start and stop, which Server.Start and Server.Close call *)

WebStart(s) ==
    /\ webStart[s] = "no"
    /\ webStop[s] # "rendezvous"        \* stop holds the lock
    /\ started' = [started EXCEPT ![s] = TRUE]
    /\ webStart' = [webStart EXCEPT ![s] = "listen"]
    /\ UNCHANGED <<webStop, listens, client_vars, wire>>

\* Mutation: it returns at once.
AtOnce == "returned"

\* startstop is not buffered.
AfterListen == "wait"

\* go ListenAndServe
WebListen(s) ==
    /\ webStart[s] = "listen"
    /\ listens' = listens \cup {s}
    /\ webStart' = [webStart EXCEPT ![s] = AfterListen]
    /\ UNCHANGED <<started, webStop, client_vars, wire>>

\* The server may be stopped before it listens; connections that are open stay so, or break.
WebStop(s) ==
    /\ webStop[s] = "no"
    /\ IF started[s]
       THEN /\ webStop' = [webStop EXCEPT ![s] = "rendezvous"]
            /\ listens' = listens \ {s}
            /\ \/ wire' = [d \in DOMAIN wire |-> IF d[1] = s THEN Broken ELSE wire[d]]
               \/ UNCHANGED wire
       ELSE /\ webStop' = [webStop EXCEPT ![s] = "returned"]
            /\ UNCHANGED <<listens, wire>>
    /\ UNCHANGED <<started, webStart, client_vars>>

\* start sends on startstop and stop receives.
Rendezvous(s) ==
    /\ webStop[s] = "rendezvous" /\ webStart[s] = "wait"
    /\ webStop' = [webStop EXCEPT ![s] = "returned"]
    /\ webStart' = [webStart EXCEPT ![s] = "returned"]
    /\ started' = [started EXCEPT ![s] = FALSE]
    /\ UNCHANGED <<listens, client_vars, wire>>

-----------------------------------------------------------------------------
(* ServiceProcessor.ProcessClientRequest and wsHandler.ServeHTTP *)

\* The error code of a request, 0 for none.  A code above 2 is what the handler returns.
ProcessClientRequest(path, r) ==
    CASE path = NoPath -> WebSocketErrorPathNotFound
      [] path = Path /\ r = Undecodable -> WebSocketErrorProtobufDecode
      [] path = Path /\ r = Unencodable -> WebSocketErrorProtobufEncode
      [] OTHER -> r

\* The close message of a failed request has a code between 4000 and 4999.
CloseCode(code) ==
    IF code < 4000 \/ code >= 5000 THEN WebSocketErrorInvalidErrorCode ELSE code

ServeHTTP(d) ==
    LET m == wire[d] IN
    /\ m.is = "request"
    /\ LET code == ProcessClientRequest(d[2], m.ask[3]) IN
       wire' = [wire EXCEPT ![d] = IF code = 0 THEN [is |-> "reply", ask |-> m.ask, of |-> m.of]
                                   ELSE [is |-> "close", code |-> CloseCode(code)]]
    /\ UNCHANGED <<server_vars, client_vars>>

-----------------------------------------------------------------------------
(* Client.Send of each thing the call g has to ask.  The lock is held from connecting to *)
(* the reply.                                                                            *)

AtPc(g, where) == pc[g] = where
Goto(g, where) == pc' = [pc EXCEPT ![g] = where]

MayLock(g) == mutex = {}

SendLock(g, a) ==
    /\ AtPc(g, "idle") /\ MayLock(g)
    /\ mutex' = mutex \cup {g}
    /\ Goto(g, IF Dest(a) \in pool THEN "write" ELSE "dial")
    /\ dials' = 0
    /\ UNCHANGED <<server_vars, keep, todo, pool, wire, results>>

\* The end of Send, with the reply or an error code, and the unlocking.
SendEnds(g, a, code, reply) ==
    /\ results' = [results EXCEPT ![g] = @ \cup {[ask |-> a, code |-> code, reply |-> reply]}]
    /\ todo' = [todo EXCEPT ![g] = Tail(@)]
    /\ mutex' = mutex \ {g}
    /\ Goto(g, "idle")

\* The deferred closing of the connection.
CloseConn(a) ==
    IF keep THEN UNCHANGED pool ELSE pool' = pool \ {Dest(a)}

TryAgain(n) == n < MaxRetryConnect

SendDial(g, a) ==
    /\ AtPc(g, "dial")
    /\ IF a[1] \in listens
       THEN /\ pool' = pool \cup {Dest(a)}
            /\ wire' = [wire EXCEPT ![Dest(a)] = Quiet]
            /\ Goto(g, "write")
            /\ UNCHANGED <<mutex, todo, dials, results>>
       ELSE /\ UNCHANGED <<pool, wire>>
            /\ IF TryAgain(dials + 1)
               THEN dials' = (dials + 1) % MaxRetryConnect /\ UNCHANGED <<mutex, pc, todo, results>>
               ELSE SendEnds(g, a, 0, {}) /\ UNCHANGED dials
    /\ UNCHANGED <<server_vars, keep>>

\* A connection that broke stays in the map of a client that keeps connections.
SendWrite(g, a) ==
    /\ AtPc(g, "write")
    /\ IF wire[Dest(a)].is = "broken"
       THEN SendEnds(g, a, 0, {}) /\ CloseConn(a) /\ UNCHANGED wire
       ELSE /\ wire' = [wire EXCEPT ![Dest(a)] = [is |-> "request", ask |-> a, of |-> g]]
            /\ Goto(g, "read")
            /\ UNCHANGED <<mutex, todo, pool, results>>
    /\ UNCHANGED <<server_vars, keep, dials>>

\* NewClientError finds the code in the text of a close error; other errors have code 0.
SendRead(g, a) ==
    LET m == wire[Dest(a)] IN
    /\ AtPc(g, "read")
    /\ \/ m.is = "reply" /\ SendEnds(g, a, 0, {<<m.of, m.ask>>})
          /\ wire' = [wire EXCEPT ![Dest(a)] = IF keep THEN Quiet ELSE Broken]
       \/ m.is = "close" /\ SendEnds(g, a, m.code, {})
          /\ wire' = [wire EXCEPT ![Dest(a)] = Broken]
       \/ m.is = "broken" /\ SendEnds(g, a, 0, {}) /\ UNCHANGED wire
    /\ CloseConn(a)
    /\ UNCHANGED <<server_vars, keep, dials>>

-----------------------------------------------------------------------------
ClientSend(g) ==
    /\ todo[g] # <<>>
    /\ LET a == Head(todo[g]) IN SendLock(g, a) \/ SendDial(g, a) \/ SendWrite(g, a) \/ SendRead(g, a)

WebNext ==
    \/ \E s \in Servers : WebStart(s) \/ WebListen(s) \/ WebStop(s) \/ Rendezvous(s)
    \/ \E d \in DOMAIN wire : ServeHTTP(d)
    \/ \E g \in Calls : ClientSend(g)

\* Goroutines run on, handlers return, and a lock that stays free is taken.  Nobody has to
\* start or stop a server.
WebFairness ==
    /\ \A s \in Servers : WF_web_vars(WebListen(s)) /\ WF_web_vars(Rendezvous(s))
    /\ \A d \in Servers \X {Path, NoPath} : WF_web_vars(ServeHTTP(d))
    /\ \A g \in Calls : WF_web_vars(ClientSend(g))

WebSpec == WebInit /\ [][WebNext]_web_vars /\ WebFairness

-----------------------------------------------------------------------------
\* A reply that a call gets answers the request that this very call has sent, also on a
\* connection that is kept and used by several goroutines.
OwnReply == \A g \in Calls : \A r \in results[g] : r.reply \subseteq {<<g, r.ask>>}

\* The code of a ClientError that a service returns reaches the client if it is in the
\* range for applications; the client sees no code outside it.
CodeIsPassed ==
    \A g \in Calls : \A r \in results[g] :
        r.code # 0 => /\ r.code \in 4000..4999
                      /\ r.ask[2] = Path /\ r.ask[3] \in 4000..4999 => r.code = r.ask[3]

\* A call ends, with a reply or an error, whatever servers are started and stopped.
SendReturns == []<>(\A g \in Calls : pc[g] = "idle")

\* The stop of a WebSocket meets its start, however far that has come, and both return.
StopMeetsStart == []<>(\A s \in Servers : webStop[s] # "rendezvous")

(* What clients and servers of websockets promise: calls end with their own reply or   *)
(* the code of their error, and servers can be stopped while they start.               *)
WebPromise == []OwnReply /\ []CodeIsPassed /\ SendReturns /\ StopMeetsStart

=============================================================================
