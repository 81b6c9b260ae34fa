----------------------------- MODULE MCNetwork -----------------------------
(***************************************************************************)
(* The network of onet for TLC: Router, LocalConn, Tcp, WebSocket and      *)
(* Protobuf, and the simulation framework beside them.  They share no      *)
(* state: the module named by active runs, and the others stay as they are *)
(* at first.                                                               *)
(***************************************************************************)
EXTENDS Router, LocalConn, Tcp, WebSocket, MCEncoding, MCSimulation

CONSTANTS g1, g2

\* Both routers send, and may open a connection at the same time.
MCSends == <<h1, h2>> :> 1 @@ <<h2, h1>> :> 1

\* More messages than fit into the queues of an end.
MCLocalSends == h1 :> 3 @@ h2 :> 1

\* Two goroutines that use the same connection, if it is kept.
MCAsks == g1 :> <<<<h1, Path, Answered>>, <<h1, NoPath, Answered>>>>
       @@ g2 :> <<<<h1, Path, 5000>>, <<h1, Path, 4100>>>>

Modules == {"router", "local", "tcp", "listener", "web", "encoding", "monitor", "stats",
            "simulate", "runs", "runfile"}

MCInit ==
    /\ RouterInit /\ LocalInit /\ TcpInit /\ WebInit /\ MCSimInit
    /\ active \in Modules
    /\ keep => active = "web"
    /\ coded \in IF active = "encoding" THEN Messages ELSE {NoMessage}

MCNext ==
    /\ UNCHANGED <<active, coded>>
    /\ \/ active = "router" /\ RouterNext /\ UNCHANGED <<local_vars, tcp_vars, web_vars, sim_all>>
       \/ active = "local" /\ LocalNext /\ UNCHANGED <<router_vars, tcp_vars, web_vars, sim_all>>
       \/ active = "tcp" /\ ConnNext /\ UNCHANGED <<router_vars, local_vars, web_vars, sim_all>>
       \/ active = "listener" /\ ListenerNext /\ UNCHANGED <<router_vars, local_vars, web_vars, sim_all>>
       \/ active = "web" /\ WebNext /\ UNCHANGED <<router_vars, local_vars, tcp_vars, sim_all>>
       \/ MCSimNext /\ UNCHANGED <<router_vars, local_vars, tcp_vars, web_vars>>

\* The fairness of the modules, for the one that runs.
MCSpec ==
    /\ MCInit
    /\ [][MCNext]_<<router_vars, local_vars, tcp_vars, web_vars, sim_all, coded, active>>
    /\ \A l \in DOMAIN Sends : WF_router_vars(active = "router" /\ Sending(l))
    /\ \A k \in Conns :
           WF_router_vars(active = "router" /\ k \in DOMAIN ends /\ Accepting(k))
    /\ \A r \in Routers, k \in Conns :
           WF_router_vars(active = "router" /\ k \in DOMAIN ends /\ Handling(r, k))
    /\ \A r \in Routers : WF_router_vars(active = "router" /\ (StopClose(r) \/ StopWait(r)))
    /\ \A e \in LocalEnds : WF_local_vars(active = "local" /\ Put(e))
    /\ \A e \in LocalEnds : WF_local_vars(active = "local" /\ Moving(e))
    /\ \A e \in LocalEnds : WF_local_vars(active = "local" /\ Receive(e))
    /\ \A e \in LocalEnds : WF_local_vars(active = "local" /\ Finishing(e))
    /\ WF_local_vars(active = "local" /\ Listen)
    /\ WF_local_vars(active = "local" /\ LocalConnect)
    /\ \A s \in Servers : WF_web_vars(active = "web" /\ (WebListen(s) \/ Rendezvous(s)))
    /\ \A s \in Servers : WF_web_vars(active = "web" /\ ServeHTTP(<<s, Path>>))
    /\ \A s \in Servers : WF_web_vars(active = "web" /\ ServeHTTP(<<s, NoPath>>))
    /\ \A g \in Calls : WF_web_vars(active = "web" /\ ClientSend(g))
    /\ \A s \in Senders : WF_tcp_vars(active = "tcp" /\ Writing(s))
    /\ WF_tcp_vars(active = "tcp" /\ Receiving)
    /\ WF_tcp_vars(active = "listener" /\ Listening)
    /\ WF_tcp_vars(active = "listener" /\ StopReturn)
    /\ MCSimFairness

=============================================================================
