------------------------------- MODULE Monitor -------------------------------
(***************************************************************************)
(* The monitor of a simulation: clients send measures to it, directly or   *)
(* through a proxy that puts the measures of all its clients on one        *)
(* connection, and it ends when the last of its connections is done.       *)
(***************************************************************************)
EXTENDS Naturals, Sequences

CONSTANTS
    Direct,     \* clients that connect to the monitor
    Proxied,    \* clients that connect to the proxy
    Proxy,      \* the proxy, as a peer of the monitor
    Measures    \* bound: how many measures a client records

Clients == Direct \cup Proxied
Peers == Direct \cup {Proxy}

ASSUME MonitorAssumption ==
    /\ Direct \cap Proxied = {} /\ Proxy \notin Clients
    /\ Measures \in [Clients -> Nat]

VARIABLES
    sink,       \* global.connection of a client: "none", "open", "closed"
    recorded,   \* how many measures a client has sent
    line,       \* what is on a connection: <<client, "measure" or "end">>
    closedSink, \* the connections closed by the sending side, or by Stop
    nconn,      \* the proxy's count of its connections
    proxying,   \* proxyConnection of a client: "none", "accepted", "reading", "closing", "gone"
    handling,   \* handleConnection of a peer: "none", "accepted", "reading", "giving", "done", "gone"
    given,      \* what the handler of a peer holds
    mconns,      \* the connections of the monitor
    finished,   \* who has finished: "proxy", "monitor"
    stopped,    \* whether Stop was called
    stats       \* how many measures of each client Update has stored

mon_vars == <<sink, recorded, line, closedSink, nconn, proxying, handling, given, mconns, finished, stopped,
              stats>>

MonitorInit ==
    /\ sink = [c \in Clients |-> "none"]
    /\ recorded = [c \in Clients |-> 0]
    /\ line = [p \in Clients \cup {Proxy} |-> <<>>]
    /\ closedSink = {}
    /\ nconn = 0
    /\ proxying = [c \in Proxied |-> "none"]
    /\ handling = [p \in Peers |-> IF p = Proxy THEN "accepted" ELSE "none"]   \* connectToSink
    /\ given = [p \in Peers |-> <<>>]
    /\ mconns = {} /\ finished = {} /\ stopped = FALSE
    /\ stats = [c \in Clients |-> 0]

-----------------------------------------------------------------------------
(* The clients: ConnectSink, Record and EndAndCleanup *)

ConnectSink(c) ==
    /\ sink[c] = "none"
    /\ \/ /\ c \in Direct /\ "monitor" \notin finished /\ ~stopped
          /\ handling' = [handling EXCEPT ![c] = "accepted"]
          /\ UNCHANGED proxying
       \/ /\ c \in Proxied /\ "proxy" \notin finished
          /\ proxying' = [proxying EXCEPT ![c] = "accepted"]
          /\ UNCHANGED handling
    /\ sink' = [sink EXCEPT ![c] = "open"]
    /\ UNCHANGED <<recorded, line, closedSink, nconn, given, mconns, finished, stopped, stats>>

Record(c) ==
    /\ sink[c] = "open" /\ recorded[c] < Measures[c]
    /\ recorded' = [recorded EXCEPT ![c] = @ + 1]
    /\ line' = [line EXCEPT ![c] = Append(@, <<c, "measure">>)]
    /\ UNCHANGED <<sink, closedSink, nconn, proxying, handling, given, mconns, finished, stopped, stats>>

EndAndCleanup(c) ==
    /\ sink[c] = "open"
    /\ line' = [line EXCEPT ![c] = Append(@, <<c, "end">>)]
    /\ closedSink' = closedSink \cup {c}
    /\ sink' = [sink EXCEPT ![c] = "closed"]
    /\ UNCHANGED <<recorded, nconn, proxying, handling, given, mconns, finished, stopped, stats>>

-----------------------------------------------------------------------------
(* Proxy and proxyConnection *)

ProxyGoto(c, pc) == proxying' = [proxying EXCEPT ![c] = pc]

\* newConn is received as long as the proxy has not finished.
ProxyNewConn(c) ==
    /\ proxying[c] = "accepted" /\ "proxy" \notin finished
    /\ nconn' = nconn + 1
    /\ ProxyGoto(c, "reading")
    /\ UNCHANGED <<sink, recorded, line, closedSink, handling, given, mconns, finished, stopped, stats>>

ProxyForward(c) ==
    /\ proxying[c] = "reading"
    /\ line[c] # <<>>
    /\ line' = [line EXCEPT ![c] = Tail(@), ![Proxy] = Append(@, Head(line[c]))]
    /\ IF Head(line[c])[2] = "end" THEN ProxyGoto(c, "closing") ELSE UNCHANGED proxying
    /\ UNCHANGED <<sink, recorded, closedSink, nconn, handling, given, mconns, finished, stopped, stats>>

\* The last connection that closes ends the proxy, with a message "end".
ProxyCloseConn(c) ==
    /\ proxying[c] = "closing"
    /\ nconn' = nconn - 1
    /\ ProxyGoto(c, "gone")
    /\ IF nconn' = 0
       THEN /\ line' = [line EXCEPT ![Proxy] = Append(@, <<c, "end">>)]
            /\ closedSink' = closedSink \cup {Proxy}
            /\ finished' = finished \cup {"proxy"}
       ELSE UNCHANGED <<line, closedSink, finished>>
    /\ UNCHANGED <<sink, recorded, handling, given, mconns, stopped, stats>>

-----------------------------------------------------------------------------
(* Monitor.Listen and handleConnection *)

PeerGoto(p, pc) == handling' = [handling EXCEPT ![p] = pc]

\* The accepting goroutine puts the connection in the map, even after the end.
Accept(p) ==
    /\ handling[p] = "accepted"
    /\ mconns' = mconns \cup {p}
    /\ PeerGoto(p, "reading")
    /\ UNCHANGED <<sink, recorded, line, closedSink, nconn, proxying, given, finished, stopped, stats>>

\* The break for "end" only leaves the switch.
AfterDecode(m) == IF m[2] = "end" THEN "reading" ELSE "giving"

Decode(p) ==
    /\ handling[p] = "reading" /\ line[p] # <<>> /\ ~(stopped /\ p \in closedSink)
    /\ line' = [line EXCEPT ![p] = Tail(@)]
    /\ given' = [given EXCEPT ![p] = <<Head(line[p])[1]>>]
    /\ PeerGoto(p, AfterDecode(Head(line[p])))
    /\ UNCHANGED <<sink, recorded, closedSink, nconn, proxying, mconns, finished, stopped, stats>>

DecodeEOF(p) ==
    /\ handling[p] = "reading" /\ p \in closedSink
    /\ line[p] = <<>> \/ stopped
    /\ PeerGoto(p, "done")
    /\ UNCHANGED <<sink, recorded, line, closedSink, nconn, proxying, given, mconns, finished, stopped, stats>>

\* m.measures and Stats.Update
Update(p) ==
    /\ handling[p] = "giving" /\ "monitor" \notin finished
    /\ stats' = [stats EXCEPT ![given[p][1]] = @ + 1]
    /\ PeerGoto(p, "reading")
    /\ UNCHANGED <<sink, recorded, line, closedSink, nconn, proxying, given, mconns, finished, stopped>>

\* Mutation: the connection is looked for under another name.
NotFound(p) == mconns

Left(p) == mconns \ {p}

\* m.done: the listener is closed with the last connection.
Done(p) ==
    /\ handling[p] = "done" /\ "monitor" \notin finished
    /\ mconns' = Left(p)
    /\ PeerGoto(p, "gone")
    /\ finished' = IF mconns' = {} THEN finished \cup {"monitor"} ELSE finished
    /\ UNCHANGED <<sink, recorded, line, closedSink, nconn, proxying, given, stopped, stats>>

Stop ==
    /\ ~stopped
    /\ stopped' = TRUE
    /\ closedSink' = closedSink \cup mconns
    /\ UNCHANGED <<sink, recorded, line, nconn, proxying, handling, given, mconns, finished, stats>>

-----------------------------------------------------------------------------
ClientStep(c) == ConnectSink(c) \/ EndAndCleanup(c)
ProxyStep(c) == ProxyNewConn(c) \/ ProxyForward(c) \/ ProxyCloseConn(c)
PeerStep(p) == Accept(p) \/ Decode(p) \/ DecodeEOF(p) \/ Update(p) \/ Done(p)

MonitorNext ==
    \/ \E c \in Clients : ClientStep(c) \/ Record(c)
    \/ \E c \in Proxied : ProxyStep(c)
    \/ \E p \in Peers : PeerStep(p)
    \/ Stop

\* The goroutines of proxy and monitor run, and each client connects and cleans up, as
\* the simulations do; how much it records is up to it, and so is Stop.
MonitorFairness ==
    /\ \A c \in Clients : WF_mon_vars(ClientStep(c))
    /\ \A c \in Proxied : WF_mon_vars(ProxyStep(c))
    /\ \A p \in Peers : WF_mon_vars(PeerStep(p))

MonitorSpec == MonitorInit /\ [][MonitorNext]_mon_vars /\ MonitorFairness

-----------------------------------------------------------------------------
\* When the monitor is done with a connection it has stored every measure sent over it;
\* on the proxy's connection those of all clients the proxy is done with.
Recorded ==
    ~stopped =>
        /\ \A c \in Direct : handling[c] = "gone" => stats[c] = recorded[c]
        /\ \A c \in Proxied : handling[Proxy] = "gone" /\ proxying[c] = "gone" => stats[c] = recorded[c]

\* Listen returns once all clients have ended, although connections come and go before
\* that and others may be accepted when it is about to return.
ListenReturns == []<>(mconns = {} \/ "monitor" \in finished)

(* The monitor stores all measures and comes to an end.                                *)
MonitorPromise == []Recorded /\ ListenReturns

=============================================================================
