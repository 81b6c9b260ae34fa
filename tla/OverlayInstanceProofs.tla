----------------------- MODULE OverlayInstanceProofs ------------------------
(***************************************************************************)
(* Overlay: at most one protocol instance is started for a token.          *)
(***************************************************************************)
EXTENDS OverlayProofs

\* Leaves are for Zenon; those with arithmetic, and a few others, cite SMTT.
USE ZenonT(60)

-----------------------------------------------------------------------------
(* The inductive invariants. *)

\* What a goroutine of s has taken and not yet handled.
Held(s, w, m) == worker[s][w].pc \in Holding /\ worker[s][w].msg = m

\* A protocol message for s that is on its way, waits for its tree, or is handled.
Around(s, m) ==
    \/ \E x \in Servers : In(m, net[<<x, s>>])
    \/ In(m, pendingMsg[s])
    \/ \E w \in Workers : Held(s, w, m)

\* A round whose root has not started it, and whose root has not lost its memory.
Virgin(t) == Root[t] \notin failed /\ started[Root[t]][t] = 0

\* transmitMux keeps the goroutines of a server apart.
MuxInv ==
    \A s \in Servers, v, w \in Workers :
        worker[s][v].pc \in {"create", "register"}
            /\ worker[s][w].pc \in {"create", "register"} => v = w

\* An instance that was started is remembered; until it is, the goroutine that has
\* started it has transmitMux.
MemoryInv ==
    /\ \A s \in Servers, t \in Trees :
          /\ started[s][t] <= 1
          /\ started[s][t] = 1 => \/ t \in protocols[s] \cup finished[s]
                                  \/ \E w \in Workers : /\ worker[s][w].pc = "register"
                                                        /\ worker[s][w].msg.id = t
    /\ \A s \in Servers, w \in Workers :
          /\ worker[s][w].pc = "register" =>
                worker[s][w].msg.id \in instances[s] \cup finished[s]
          /\ worker[s][w].pc = "create" => started[s][worker[s][w].msg.id] = 0

\* Nothing happens in a round before its root has started it: CreateProtocol is never
\* the second to start an instance.
VirginInv ==
    \A t \in Trees : Virgin(t) =>
        \A s \in Servers : /\ started[s][t] = 0
                           /\ \A m \in Proto : Around(s, m) => m.id # t

-----------------------------------------------------------------------------
(* The handlers that take no protocol message leave all of them where they *)
(* are, and the configs too, except for the one that is taken.             *)

LEMMA TakenOrder ==
    ASSUME OverlayTypeOK, NEW s \in Servers, NEW d \in Servers, NEW t,
           net[<<s, d>>] # <<>>, net' = Taken(s, d), ~IsConfig(Head(net[<<s, d>>]), t),
           NEW l \in Links
    PROVE  /\ ConfigLeads(net[l], t) => ConfigLeads(net'[l], t)
           /\ HasConfig(net[l], t) => HasConfig(net'[l], t)
  <1>1. net[<<s, d>>] \in Seq(Message)
    BY DEF OverlayTypeOK, Links
  <1>2. CASE l = <<s, d>>
    <2>1. net'[l] = Tail(net[<<s, d>>])
      BY <1>2, TakenNet
    <2> QED
      BY <1>1, <1>2, <2>1, ConfigTail
  <1>3. CASE l # <<s, d>>
    BY <1>3, TakenNet
  <1> QED
    BY <1>2, <1>3

LEMMA AnsweredOrder ==
    ASSUME OverlayTypeOK, NEW s \in Servers, NEW d \in Servers, NEW x \in Message, NEW t,
           net[<<s, d>>] # <<>>, net' = Answered(s, d, x), x.kind # "proto",
           ~IsConfig(Head(net[<<s, d>>]), t), NEW l \in Links
    PROVE  /\ ConfigLeads(net[l], t) => ConfigLeads(net'[l], t)
           /\ HasConfig(net[l], t) => HasConfig(net'[l], t)
  <1>1. net[<<s, d>>] \in Seq(Message) /\ net[<<d, s>>] \in Seq(Message)
    BY DEF OverlayTypeOK, Links
  <1>2. PICK q \in Seq(Message) : q = Tail(net[<<s, d>>])
    BY <1>1, TailElements
  <1>3. /\ ConfigLeads(net[<<s, d>>], t) => ConfigLeads(q, t)
        /\ HasConfig(net[<<s, d>>], t) => HasConfig(q, t)
    BY <1>1, <1>2, ConfigTail
  <1>4. ~IsProto(x, t)
    BY DEF IsProto
  <1>5. CASE l = <<s, d>> /\ s = d
    <2>1. net'[l] = Append(q, x)
      BY <1>2, <1>5, AnsweredLinks
    <2>2. /\ ConfigLeads(q, t) => ConfigLeads(Append(q, x), t)
          /\ HasConfig(q, t) => HasConfig(Append(q, x), t)
      BY <1>4, ConfigAppend
    <2> QED
      BY <1>3, <1>5, <2>1, <2>2
  <1>6. CASE l = <<s, d>> /\ s # d
    <2>1. net'[l] = q
      BY <1>2, <1>6, AnsweredLinks
    <2> QED
      BY <1>3, <1>6, <2>1
  <1>7. CASE l = <<d, s>> /\ s # d
    <2>1. net'[l] = Append(net[<<d, s>>], x)
      BY <1>7, AnsweredLinks
    <2>2. LET r == net[<<d, s>>] IN
          /\ ConfigLeads(r, t) => ConfigLeads(Append(r, x), t)
          /\ HasConfig(r, t) => HasConfig(Append(r, x), t)
      BY <1>1, <1>4, ConfigAppend
    <2> QED
      BY <1>7, <2>1, <2>2
  <1>8. CASE l # <<s, d>> /\ l # <<d, s>>
    BY <1>8, AnsweredLinks
  <1> QED
    BY <1>5, <1>6, <1>7, <1>8

\* What the five handlers have in common.
Unnoticed(s, d) ==
    /\ \A l \in Links : /\ \A m \in Proto : In(m, net'[l]) => In(m, net[l])
                        /\ Once(net[l]) => Once(net'[l])
    /\ \A l \in Links, t \in Trees :
          ~IsConfig(Head(net[<<s, d>>]), t) =>
              /\ ConfigLeads(net[l], t) => ConfigLeads(net'[l], t)
              /\ HasConfig(net[l], t) => HasConfig(net'[l], t)
    /\ \A x \in Servers, v \in Workers :
          \/ worker'[x][v] = worker[x][v]
          \/ worker[x][v].pc = "idle" /\ worker'[x][v].pc = "blocked"
    /\ UNCHANGED <<pendingMsg, tokens, sent, got, failed>>

LEMMA TakenUnnoticed ==
    ASSUME OverlayTypeOK, NEW s \in Servers, NEW d \in Servers, net[<<s, d>>] # <<>>,
           net' = Taken(s, d), UNCHANGED <<pendingMsg, tokens, sent, got, failed>>,
           \A x \in Servers, v \in Workers :
              \/ worker'[x][v] = worker[x][v]
              \/ worker[x][v].pc = "idle" /\ worker'[x][v].pc = "blocked"
    PROVE  Unnoticed(s, d)
  <1>1. \A l \in Links : /\ \A m \in Proto : In(m, net'[l]) => In(m, net[l])
                         /\ Once(net[l]) => Once(net'[l])
    BY TakenNet
  <1>2. \A l \in Links, t \in Trees :
           ~IsConfig(Head(net[<<s, d>>]), t) =>
               /\ ConfigLeads(net[l], t) => ConfigLeads(net'[l], t)
               /\ HasConfig(net[l], t) => HasConfig(net'[l], t)
    BY TakenOrder
  <1> QED
    BY <1>1, <1>2 DEF Unnoticed

LEMMA AnsweredUnnoticed ==
    ASSUME OverlayTypeOK, NEW s \in Servers, NEW d \in Servers, net[<<s, d>>] # <<>>,
           NEW x \in Message, x.kind # "proto",
           net' = Answered(s, d, x), UNCHANGED <<pendingMsg, tokens, sent, got, failed>>,
           \A y \in Servers, v \in Workers :
              \/ worker'[y][v] = worker[y][v]
              \/ worker[y][v].pc = "idle" /\ worker'[y][v].pc = "blocked"
    PROVE  Unnoticed(s, d)
  <1>1. \A l \in Links : /\ \A m \in Proto : In(m, net'[l]) => In(m, net[l])
                         /\ Once(net[l]) => Once(net'[l])
    <2>1. \A m \in Proto : m # x
      BY DEF Proto
    <2>2. \A l \in Links : /\ \A m : In(m, net'[l]) => In(m, net[l]) \/ (l = <<d, s>> /\ m = x)
                           /\ Once(net[l]) /\ x.kind # "proto" => Once(net'[l])
      BY AnsweredNet, SMTT(60)
    <2> QED
      BY <2>1, <2>2
  <1>2. \A l \in Links, t \in Trees :
           ~IsConfig(Head(net[<<s, d>>]), t) =>
               /\ ConfigLeads(net[l], t) => ConfigLeads(net'[l], t)
               /\ HasConfig(net[l], t) => HasConfig(net'[l], t)
    BY AnsweredOrder
  <1> QED
    BY <1>1, <1>2 DEF Unnoticed

LEMMA BlockedIdle ==
    ASSUME OverlayTypeOK, NEW d \in Servers, NEW needed, WaitsForLock(d, needed),
           worker[d]["router"] = Idle
    PROVE  \A x \in Servers, v \in Workers :
              \/ worker'[x][v] = worker[x][v]
              \/ worker[x][v].pc = "idle" /\ worker'[x][v].pc = "blocked"
  <1>1. CASE needed /\ treeLocked[d]
    <2>1. /\ Goes(d, "router", "blocked", Nothing) /\ "router" \in Workers
          /\ [pc |-> "blocked", msg |-> Nothing] \in Place
      BY <1>1 DEF WaitsForLock, Place, Workers
    <2>2. /\ worker'[d]["router"].pc = "blocked"
          /\ \A x \in Servers, v \in Workers :
                <<x, v>> # <<d, "router">> => worker'[x][v] = worker[x][v]
      BY <2>1, WorkerMoves
    <2>3. worker[d]["router"].pc = "idle"
      BY SMTT(60) DEF Idle
    <2> QED
      BY <2>2, <2>3
  <1>2. CASE ~(needed /\ treeLocked[d])
    BY <1>2 DEF WaitsForLock
  <1> QED
    BY <1>1, <1>2

LEMMA HandlersKeep ==
    ASSUME OverlayTypeOK, NEW s \in Servers, NEW d \in Servers,
           \/ handleConfigMessage(s, d) \/ handleRequestTree(s, d) \/ handleRequestRoster(s, d)
           \/ handleSendTree(s, d) \/ handleSendRoster(s, d)
    PROVE  Unnoticed(s, d)
  <1>1. CASE handleConfigMessage(s, d)
    <2>1. net[<<s, d>>] # <<>> /\ net' = Taken(s, d) /\ UNCHANGED worker
          /\ UNCHANGED <<pendingMsg, tokens, sent, got, failed>>
      BY <1>1 DEF handleConfigMessage, Received
    <2> QED
      BY <2>1, TakenUnnoticed
  <1>2. CASE handleRequestTree(s, d)
    <2>1. net[<<s, d>>] # <<>> /\ Head(net[<<s, d>>]).id \in Trees
      BY <1>2, HeadMessage, KindTypes DEF handleRequestTree
    <2>2. PICK x \in Message : x.kind # "proto" /\ net' = Answered(s, d, x)
      BY <1>2, <2>1, MessageTypes DEF handleRequestTree, Msg
    <2>3. UNCHANGED worker /\ UNCHANGED <<pendingMsg, tokens, sent, got, failed>>
      BY <1>2 DEF handleRequestTree, local
    <2> QED
      BY <2>1, <2>2, <2>3, AnsweredUnnoticed
  <1>3. CASE handleRequestRoster(s, d)
    <2>1. net[<<s, d>>] # <<>> /\ Head(net[<<s, d>>]).id \in Rosters
      BY <1>3, HeadMessage, KindTypes DEF handleRequestRoster
    <2>2. PICK x \in Message : x.kind # "proto" /\ net' = Answered(s, d, x)
      BY <1>3, <2>1, MessageTypes DEF handleRequestRoster, Msg, Rosters
    <2>3. UNCHANGED worker /\ UNCHANGED <<pendingMsg, tokens, sent, got, failed>>
      BY <1>3 DEF handleRequestRoster, local
    <2> QED
      BY <2>1, <2>2, <2>3, AnsweredUnnoticed
  <1>4. CASE handleSendTree(s, d)
    <2> DEFINE t == Head(net[<<s, d>>]).id
    <2>1. net[<<s, d>>] # <<>> /\ t \in Trees \cup {Nothing} /\ worker[d]["router"] = Idle
      BY <1>4, HeadMessage, KindTypes DEF handleSendTree, Received
    <2>2. \A x \in Servers, v \in Workers :
              \/ worker'[x][v] = worker[x][v]
              \/ worker[x][v].pc = "idle" /\ worker'[x][v].pc = "blocked"
      BY <1>4, <2>1, BlockedIdle DEF handleSendTree
    <2>3. UNCHANGED <<pendingMsg, tokens, sent, got, failed>>
      BY <1>4 DEF handleSendTree
    <2>4. CASE net' = Taken(s, d)
      BY <2>1, <2>2, <2>3, <2>4, TakenUnnoticed
    <2>5. CASE t # Nothing /\ net' = Answered(s, d, Msg("reqRoster", RosterOf[t], d, 0))
      <3>1. PICK x \in Message : x.kind # "proto" /\ net' = Answered(s, d, x)
        BY <2>1, <2>5, MessageTypes DEF Msg
      <3> QED
        BY <2>1, <2>2, <2>3, <3>1, AnsweredUnnoticed
    <2> QED
      BY <1>4, <2>4, <2>5 DEF handleSendTree
  <1>5. CASE handleSendRoster(s, d)
    <2>1. net[<<s, d>>] # <<>> /\ worker[d]["router"] = Idle /\ net' = Taken(s, d)
          /\ UNCHANGED <<pendingMsg, tokens, sent, got, failed>>
      BY <1>5 DEF handleSendRoster, Received
    <2>2. \A x \in Servers, v \in Workers :
              \/ worker'[x][v] = worker[x][v]
              \/ worker[x][v].pc = "idle" /\ worker'[x][v].pc = "blocked"
      BY <1>5, <2>1, BlockedIdle DEF handleSendRoster
    <2> QED
      BY <2>1, <2>2, TakenUnnoticed
  <1> QED
    BY <1>1, <1>2, <1>3, <1>4, <1>5

-----------------------------------------------------------------------------
(* Where the other steps take a message. *)

LEMMA ProcessMsgMoves ==
    ASSUME OverlayTypeOK, NEW s \in Servers, NEW d \in Servers, ProcessMsg(s, d)
    PROVE  \E m \in Proto :
              /\ net[<<s, d>>] # <<>> /\ m = Head(net[<<s, d>>]) /\ In(m, net[<<s, d>>])
              /\ net' = Taken(s, d)
              /\ worker[d]["router"].pc = "idle"
              /\ worker'[d]["router"].pc \in {"transmit", "request"}
              /\ worker'[d]["router"].msg = m
              /\ \A x \in Servers, v \in Workers :
                    <<x, v>> # <<d, "router">> => worker'[x][v] = worker[x][v]
              /\ UNCHANGED <<local, tokens, sent, got, failed>>
  <1>1. Received(s, d, "proto") /\ "router" \in Workers
    BY DEF ProcessMsg, Workers
  <1>2. PICK m \in Proto : m = Head(net[<<s, d>>])
    BY <1>1, HeadMessage, KindTypes
  <1>3. net[<<s, d>>] # <<>> /\ In(m, net[<<s, d>>]) /\ worker[d]["router"].pc = "idle"
    BY <1>1, <1>2, HeadMessage, SMTT(60) DEF Received, Idle
  <1>4. PICK pc \in {"transmit", "request"} : Goes(d, "router", pc, m)
    BY <1>2 DEF ProcessMsg
  <1>5. [pc |-> pc, msg |-> m] \in Place
    BY DEF Place, Holding
  <1>6. /\ worker'[d]["router"].pc \in {"transmit", "request"}
        /\ worker'[d]["router"].msg = m
        /\ \A x \in Servers, v \in Workers :
              <<x, v>> # <<d, "router">> => worker'[x][v] = worker[x][v]
    BY <1>1, <1>4, <1>5, WorkerMoves, SMTT(60)
  <1>7. net' = Taken(s, d) /\ UNCHANGED <<local, tokens, sent, got, failed>>
    BY DEF ProcessMsg
  <1> QED
    BY <1>2, <1>3, <1>6, <1>7

LEMMA RequestTreeMoves ==
    ASSUME OverlayTypeOK, NEW s \in Servers, requestTree(s)
    PROVE  \E m \in Proto, x \in Message :
              /\ Held(s, "router", m) /\ worker[s]["router"].pc = "request"
              /\ worker'[s]["router"].pc = "idle"
              /\ \A y \in Servers, v \in Workers :
                    <<y, v>> # <<s, "router">> => worker'[y][v] = worker[y][v]
              /\ pendingMsg' = [pendingMsg EXCEPT ![s] = Append(@, m)]
              /\ x.kind = "reqTree" /\ <<s, m.from>> \in Links
              /\ net' = [net EXCEPT ![<<s, m.from>>] = Append(@, x)]
              /\ UNCHANGED <<configs, pendingTree, treeLocked, tokens, sent, got, failed>>
  <1>1. "router" \in Workers /\ worker[s]["router"].pc = "request"
        /\ worker[s]["router"].pc \in Holding
    BY DEF requestTree, Workers, Holding
  <1>2. PICK m \in Proto : m = worker[s]["router"].msg
    BY <1>1, PlaceTypes
  <1>3. m.id \in Trees /\ m.from \in Servers /\ <<s, m.from>> \in Links
    BY DEF Proto, Links
  <1>4. PICK x \in Message : x = Msg("reqTree", m.id, s, 0)
    BY <1>3, MessageTypes
  <1>5. x.kind = "reqTree"
    BY <1>4 DEF Msg
  <1>6. Goes(s, "router", "idle", Nothing) /\ [pc |-> "idle", msg |-> Nothing] \in Place
    BY DEF requestTree, Returns, Goes, Idle, Place
  <1>7. /\ worker'[s]["router"].pc = "idle"
        /\ \A y \in Servers, v \in Workers :
              <<y, v>> # <<s, "router">> => worker'[y][v] = worker[y][v]
    BY <1>1, <1>6, WorkerMoves
  <1>8. /\ pendingMsg' = [pendingMsg EXCEPT ![s] = Append(@, m)]
        /\ net' = [net EXCEPT ![<<s, m.from>>] = Append(@, x)]
        /\ UNCHANGED <<configs, pendingTree, treeLocked, tokens, sent, got, failed>>
    BY <1>2, <1>4 DEF requestTree
  <1> QED
    BY <1>1, <1>2, <1>3, <1>5, <1>7, <1>8 DEF Held

LEMMA NextPendingMoves ==
    ASSUME OverlayTypeOK, NEW s \in Servers, NextPending(s)
    PROVE  /\ worker[s]["pending"].pc = "next"
           /\ \/ /\ worker'[s]["pending"].pc = "idle" /\ UNCHANGED pendingMsg
              \/ \E i \in 1..Len(pendingMsg[s]) :
                    /\ pendingMsg' = [pendingMsg EXCEPT ![s] = Without(@, i)]
                    /\ worker'[s]["pending"].pc = "transmit"
                    /\ worker'[s]["pending"].msg = pendingMsg[s][i]
           /\ \A x \in Servers, v \in Workers :
                 <<x, v>> # <<s, "pending">> => worker'[x][v] = worker[x][v]
           /\ UNCHANGED <<net, configs, pendingTree, treeLocked, tokens, sent, got, failed>>
  <1>0. \A q \in Seq(Proto) : DOMAIN q = 1..Len(q)
    BY SMTT(60)
  <1>1. pendingMsg[s] \in Seq(Proto) /\ "pending" \in Workers
    BY DEF OverlayTypeOK, Workers
  <1>2. /\ worker[s]["pending"].pc = "next"
        /\ UNCHANGED <<net, configs, pendingTree, treeLocked, tokens, sent, got, failed>>
    BY DEF NextPending
  <1>3. CASE \E i \in DOMAIN pendingMsg[s] :
                /\ pendingMsg' = [pendingMsg EXCEPT ![s] = Without(@, i)]
                /\ Goes(s, "pending", "transmit", pendingMsg[s][i])
    <2>1. PICK i \in 1..Len(pendingMsg[s]) :
              /\ pendingMsg' = [pendingMsg EXCEPT ![s] = Without(@, i)]
              /\ Goes(s, "pending", "transmit", pendingMsg[s][i])
      BY <1>0, <1>1, <1>3
    <2>2. pendingMsg[s][i] \in Proto
      BY <1>1, RemovedElements
    <2>3. [pc |-> "transmit", msg |-> pendingMsg[s][i]] \in Place
      BY <2>2 DEF Place, Holding
    <2>4. /\ worker'[s]["pending"].pc = "transmit" /\ worker'[s]["pending"].msg = pendingMsg[s][i]
          /\ \A x \in Servers, v \in Workers :
                <<x, v>> # <<s, "pending">> => worker'[x][v] = worker[x][v]
      BY <1>1, <2>1, <2>3, WorkerMoves, SMTT(60)
    <2> QED
      BY <1>2, <2>1, <2>4
  <1>4. CASE Returns(s, "pending") /\ UNCHANGED pendingMsg
    <2>1. Goes(s, "pending", "idle", Nothing) /\ [pc |-> "idle", msg |-> Nothing] \in Place
      BY <1>4 DEF Returns, Goes, Idle, Place
    <2>2. /\ worker'[s]["pending"].pc = "idle"
          /\ \A x \in Servers, v \in Workers :
                <<x, v>> # <<s, "pending">> => worker'[x][v] = worker[x][v]
      BY <1>1, <2>1, WorkerMoves
    <2> QED
      BY <1>2, <1>4, <2>2
  <1> QED
    BY <1>3, <1>4 DEF NextPending, FirstPending

LEMMA CheckPendingMoves ==
    ASSUME OverlayTypeOK, NEW s \in Servers, NEW t \in Trees, checkPendingMessages(s, t)
    PROVE  /\ worker[s]["pending"].pc = "idle" /\ worker'[s]["pending"].pc = "next"
           /\ \A x \in Servers, v \in Workers :
                 <<x, v>> # <<s, "pending">> => worker'[x][v] = worker[x][v]
           /\ UNCHANGED <<net, pendingMsg, configs, pendingTree, treeLocked, tokens, sent, got,
                          failed>>
  <1>1. "pending" \in Workers /\ worker[s]["pending"].pc = "idle"
        /\ Goes(s, "pending", "next", Msg("tree", t, s, 0))
        /\ UNCHANGED <<net, pendingMsg, configs, pendingTree, treeLocked, tokens, sent, got,
                       failed>>
    BY SMTT(60) DEF checkPendingMessages, Workers, Idle
  <1>2. [pc |-> "next", msg |-> Msg("tree", t, s, 0)] \in Place
    BY MessageTypes DEF Place
  <1> QED
    BY <1>1, <1>2, WorkerMoves, SMTT(60)

-----------------------------------------------------------------------------
(* One instance.  The goroutines that do not create an instance, and those *)
(* that end one, keep what is known about the ones that do.                *)

LEMMA GoroutineFrame ==
    ASSUME OverlayTypeOK, MuxInv, MemoryInv, started' = started,
           \A x \in Servers : /\ instances[x] \cup finished[x] \subseteq instances'[x] \cup finished'[x]
                              /\ protocols[x] \cup finished[x] \subseteq protocols'[x] \cup finished'[x],
           \A x \in Servers, v \in Workers :
              \/ worker'[x][v] = worker[x][v]
              \/ /\ worker[x][v].pc # "register"
                 /\ worker'[x][v].pc \notin {"create", "register"}
    PROVE  MuxInv' /\ MemoryInv'
  <1>1. MuxInv'
    BY DEF MuxInv
  <1>2. ASSUME NEW s \in Servers, NEW t \in Trees
        PROVE  /\ started'[s][t] <= 1
               /\ started'[s][t] = 1 => \/ t \in protocols'[s] \cup finished'[s]
                                        \/ \E w \in Workers : /\ worker'[s][w].pc = "register"
                                                              /\ worker'[s][w].msg.id = t
    BY SMTT(60) DEF MemoryInv
  <1>3. ASSUME NEW s \in Servers, NEW w \in Workers
        PROVE  /\ worker'[s][w].pc = "register" =>
                     worker'[s][w].msg.id \in instances'[s] \cup finished'[s]
               /\ worker'[s][w].pc = "create" => started'[s][worker'[s][w].msg.id] = 0
    BY SMTT(60) DEF MemoryInv
  <1>4. MemoryInv'
    BY <1>2, <1>3 DEF MemoryInv
  <1> QED
    BY <1>1, <1>4

\* Most goroutines neither create an instance nor end one.
LEMMA GoroutineStep ==
    ASSUME OverlayTypeOK, MuxInv, MemoryInv,
           UNCHANGED <<instances, protocols, finished, started>>,
           NEW s \in Servers, NEW w \in Workers, worker[s][w].pc # "register",
           worker'[s][w].pc \notin {"create", "register"},
           \A x \in Servers, v \in Workers : <<x, v>> # <<s, w>> => worker'[x][v] = worker[x][v]
    PROVE  MuxInv' /\ MemoryInv'
  <1>1. \A x \in Servers, v \in Workers :
           \/ worker'[x][v] = worker[x][v]
           \/ worker[x][v].pc # "register" /\ worker'[x][v].pc \notin {"create", "register"}
    OBVIOUS
  <1> QED
    BY <1>1, GoroutineFrame

LEMMA QuietMemory ==
    ASSUME OverlayTypeOK, MuxInv, MemoryInv,
           UNCHANGED <<instances, protocols, finished, started, worker>>
    PROVE  MuxInv' /\ MemoryInv'
  BY GoroutineFrame

LEMMA CreateProtocolMemory ==
    ASSUME OverlayTypeOK, MuxInv, MemoryInv, VirginInv, NEW t \in Trees, CreateProtocol(t)
    PROVE  MuxInv' /\ MemoryInv'
  <1>1. PICK s \in Servers : s = Root[t]
    BY OverlayAssumption
  <1>2. /\ started[s][t] = 0 /\ s \notin failed
        /\ started' = [started EXCEPT ![s][t] = 1]
        /\ instances' = [instances EXCEPT ![s] = instances[s] \cup {t}]
        /\ protocols' = [protocols EXCEPT ![s] = protocols[s] \cup {t}]
        /\ UNCHANGED <<finished, worker>>
    BY <1>1 DEF CreateProtocol, Add
  <1>3. ASSUME NEW w \in Workers, worker[s][w].pc \in Holding
        PROVE  worker[s][w].msg.id # t
    <2>1. worker[s][w].msg \in Proto /\ Around(s, worker[s][w].msg)
      BY <1>3, PlaceTypes DEF Around, Held
    <2> QED
      BY <1>1, <1>2, <2>1 DEF VirginInv, Virgin
  <1>4. MuxInv'
    BY <1>2 DEF MuxInv
  <1>5. \A x \in Servers, u \in Trees :
           started'[x][u] = IF x = s /\ u = t THEN 1 ELSE started[x][u]
    BY <1>2 DEF OverlayTypeOK
  <1>6. \A x \in Servers : /\ instances[x] \subseteq instances'[x]
                           /\ protocols[x] \subseteq protocols'[x]
                           /\ x = s => t \in protocols'[x]
    BY <1>2 DEF OverlayTypeOK
  <1>7. ASSUME NEW x \in Servers, NEW u \in Trees
        PROVE  /\ started'[x][u] <= 1
               /\ started'[x][u] = 1 => \/ u \in protocols'[x] \cup finished'[x]
                                        \/ \E w \in Workers : /\ worker'[x][w].pc = "register"
                                                              /\ worker'[x][w].msg.id = u
    BY <1>2, <1>5, <1>6, SMTT(60) DEF MemoryInv
  <1>8. ASSUME NEW x \in Servers, NEW w \in Workers
        PROVE  /\ worker'[x][w].pc = "register" =>
                     worker'[x][w].msg.id \in instances'[x] \cup finished'[x]
               /\ worker'[x][w].pc = "create" => started'[x][worker'[x][w].msg.id] = 0
    <2>1. worker'[x][w].pc = "register" =>
              worker'[x][w].msg.id \in instances'[x] \cup finished'[x]
      BY <1>2, <1>6 DEF MemoryInv
    <2>2. ASSUME worker[x][w].pc = "create"
          PROVE  started'[x][worker[x][w].msg.id] = 0
      <3>1. worker[x][w].msg.id \in Trees /\ started[x][worker[x][w].msg.id] = 0
        BY <2>2, PlaceTypes, SMTT(60) DEF MemoryInv, Holding, Proto
      <3>2. ~(x = s /\ worker[x][w].msg.id = t)
        BY <1>3, <2>2 DEF Holding
      <3> QED
        BY <1>5, <3>1, <3>2
    <2> QED
      BY <1>2, <2>1, <2>2
  <1>9. MemoryInv'
    BY <1>7, <1>8 DEF MemoryInv
  <1> QED
    BY <1>4, <1>9

\* Done before or after the instance is registered, and the end of a server.
LEMMA NodeDeleteMemory ==
    ASSUME OverlayTypeOK, MuxInv, MemoryInv, NEW s \in Servers, NEW ts, nodeDelete(s, ts),
           UNCHANGED <<protocols, started, worker>>
    PROVE  MuxInv' /\ MemoryInv'
  <1>1. \A x \in Servers :
           /\ instances[x] \cup finished[x] \subseteq instances'[x] \cup finished'[x]
           /\ protocols[x] \cup finished[x] \subseteq protocols'[x] \cup finished'[x]
    BY DEF nodeDelete, OverlayTypeOK
  <1> QED
    BY <1>1, GoroutineFrame

LEMMA TransmitMemory ==
    ASSUME OverlayTypeOK, MuxInv, MemoryInv, NEW s \in Servers, NEW w \in Workers,
           TransmitMsg(s, w)
    PROVE  MuxInv' /\ MemoryInv'
  <1>1. worker[s][w].pc = "transmit" /\ worker[s][w].pc \in Holding
    BY DEF TransmitMsg, Holding
  <1>2. PICK m \in Proto : m = worker[s][w].msg
    BY <1>1, PlaceTypes
  <1>3. UNCHANGED <<instances, protocols, finished, started>>
    BY DEF TransmitMsg, tokens
  <1>4. CASE Ends(s, w)
    <2>1. /\ worker'[s][w].pc \in {"idle", "next"}
          /\ \A x \in Servers, v \in Workers : <<x, v>> # <<s, w>> => worker'[x][v] = worker[x][v]
      BY <1>1, <1>4, EndsMoves
    <2> QED
      BY <1>1, <1>3, <2>1, GoroutineStep
  <1>5. CASE m.id \notin protocols[s] \cup finished[s] /\ Goes(s, w, "create", m)
    <2>1. [pc |-> "create", msg |-> m] \in Place /\ m.id \in Trees
      BY DEF Place, Holding, Proto
    <2>2. /\ worker'[s][w].pc = "create" /\ worker'[s][w].msg = m
          /\ \A x \in Servers, v \in Workers : <<x, v>> # <<s, w>> => worker'[x][v] = worker[x][v]
      BY <1>5, <2>1, WorkerMoves, SMTT(60)
    <2>3. \A v \in Workers \ {w} : worker[s][v].pc \notin {"create", "register"}
      BY DEF TransmitMsg, transmitMux
    <2>4. started[s][m.id] = 0
      <3>1. started[s][m.id] \in Nat /\ started[s][m.id] <= 1
        BY <2>1 DEF OverlayTypeOK, MemoryInv
      <3>2. started[s][m.id] # 1
        BY <1>1, <1>5, <2>1, <2>3, SMTT(60) DEF MemoryInv
      <3> QED
        BY <3>1, <3>2, SMTT(60)
    <2>5. MuxInv'
      BY <2>2, <2>3, SMTT(60) DEF MuxInv
    <2>6. ASSUME NEW x \in Servers, NEW t \in Trees
          PROVE  /\ started'[x][t] <= 1
                 /\ started'[x][t] = 1 => \/ t \in protocols'[x] \cup finished'[x]
                                          \/ \E v \in Workers : /\ worker'[x][v].pc = "register"
                                                                /\ worker'[x][v].msg.id = t
      BY <1>1, <1>3, <2>2, SMTT(60) DEF MemoryInv
    <2>7. ASSUME NEW x \in Servers, NEW v \in Workers
          PROVE  /\ worker'[x][v].pc = "register" =>
                       worker'[x][v].msg.id \in instances'[x] \cup finished'[x]
                 /\ worker'[x][v].pc = "create" => started'[x][worker'[x][v].msg.id] = 0
      BY <1>3, <2>2, <2>4, SMTT(60) DEF MemoryInv
    <2> QED
      BY <2>5, <2>6, <2>7 DEF MemoryInv
  <1> QED
    BY <1>2, <1>4, <1>5 DEF TransmitMsg

LEMMA CreateInstanceMemory ==
    ASSUME OverlayTypeOK, MuxInv, MemoryInv, NEW s \in Servers, NEW w \in Workers,
           CreateInstance(s, w)
    PROVE  MuxInv' /\ MemoryInv'
  <1>1. worker[s][w].pc = "create" /\ worker[s][w].pc \in Holding
    BY DEF CreateInstance, Holding
  <1>2. PICK m \in Proto : m = worker[s][w].msg
    BY <1>1, PlaceTypes
  <1>3. /\ instances' = [instances EXCEPT ![s] = instances[s] \cup {m.id}]
        /\ UNCHANGED <<protocols, finished>> /\ m.id \in Trees
    BY <1>2 DEF CreateInstance, Add, Proto
  <1>4. \A x \in Servers : instances[x] \subseteq instances'[x] /\ (x = s => m.id \in instances'[x])
    BY <1>3 DEF OverlayTypeOK
  <1>5. CASE Ends(s, w) /\ UNCHANGED started
    <2>1. /\ worker'[s][w].pc \in {"idle", "next"}
          /\ \A x \in Servers, v \in Workers : <<x, v>> # <<s, w>> => worker'[x][v] = worker[x][v]
      BY <1>1, <1>5, EndsMoves
    <2>2. \A x \in Servers, v \in Workers :
             \/ worker'[x][v] = worker[x][v]
             \/ worker[x][v].pc # "register" /\ worker'[x][v].pc \notin {"create", "register"}
      BY <1>1, <2>1
    <2> QED
      BY <1>3, <1>4, <1>5, <2>2, GoroutineFrame
  <1>6. CASE Goes(s, w, "register", m) /\ started' = [started EXCEPT ![s][m.id] = @ + 1]
    <2>1. [pc |-> "register", msg |-> m] \in Place
      BY DEF Place, Holding
    <2>2. /\ worker'[s][w].pc = "register" /\ worker'[s][w].msg = m
          /\ \A x \in Servers, v \in Workers : <<x, v>> # <<s, w>> => worker'[x][v] = worker[x][v]
      BY <1>6, <2>1, WorkerMoves, SMTT(60)
    <2>3. \A v \in Workers \ {w} : worker[s][v].pc \notin {"create", "register"}
      BY <1>1 DEF MuxInv
    <2>4. started[s][m.id] = 0
      BY <1>1, <1>2 DEF MemoryInv
    <2>5. \A x \in Servers, t \in Trees :
             started'[x][t] = IF x = s /\ t = m.id THEN 1 ELSE started[x][t]
      BY <1>3, <1>6, <2>4, SMTT(60) DEF OverlayTypeOK
    <2>6. MuxInv'
      BY <2>2, <2>3, SMTT(60) DEF MuxInv
    <2>7. ASSUME NEW x \in Servers, NEW t \in Trees
          PROVE  /\ started'[x][t] <= 1
                 /\ started'[x][t] = 1 => \/ t \in protocols'[x] \cup finished'[x]
                                          \/ \E v \in Workers : /\ worker'[x][v].pc = "register"
                                                                /\ worker'[x][v].msg.id = t
      <3>1. CASE x = s /\ t = m.id
        BY <2>2, <2>5, <3>1, SMTT(60)
      <3>2. CASE ~(x = s /\ t = m.id)
        <4>1. started'[x][t] = started[x][t]
          BY <2>5, <3>2
        <4>2. \A v \in Workers : worker[x][v].pc = "register" => worker'[x][v] = worker[x][v]
          BY <1>1, <2>2
        <4> QED
          BY <1>3, <4>1, <4>2, SMTT(60) DEF MemoryInv
      <3> QED
        BY <3>1, <3>2
    <2>8. ASSUME NEW x \in Servers, NEW v \in Workers
          PROVE  /\ worker'[x][v].pc = "register" =>
                       worker'[x][v].msg.id \in instances'[x] \cup finished'[x]
                 /\ worker'[x][v].pc = "create" => started'[x][worker'[x][v].msg.id] = 0
      <3>1. CASE x = s /\ v = w
        BY <1>4, <2>2, <3>1
      <3>2. CASE x = s /\ v # w
        BY <2>2, <2>3, <3>2
      <3>3. CASE x # s
        <4>1. worker'[x][v] = worker[x][v]
          BY <2>2, <3>3
        <4>2. worker[x][v].pc = "create" => worker[x][v].msg.id \in Trees
          BY PlaceTypes DEF Holding, Proto
        <4> QED
          BY <1>3, <1>4, <2>5, <3>3, <4>1, <4>2, SMTT(60) DEF MemoryInv
      <3> QED
        BY <3>1, <3>2, <3>3
    <2> QED
      BY <2>6, <2>7, <2>8 DEF MemoryInv
  <1> QED
    BY <1>2, <1>5, <1>6 DEF CreateInstance

LEMMA RegisterMemory ==
    ASSUME OverlayTypeOK, MuxInv, MemoryInv, NEW s \in Servers, NEW w \in Workers,
           RegisterProtocolInstance(s, w)
    PROVE  MuxInv' /\ MemoryInv'
  <1>1. worker[s][w].pc = "register" /\ worker[s][w].pc \in Holding
    BY DEF RegisterProtocolInstance, Holding
  <1>2. PICK m \in Proto : m = worker[s][w].msg
    BY <1>1, PlaceTypes
  <1>3. UNCHANGED <<instances, finished, started>> /\ m.id \in Trees
    BY <1>2 DEF RegisterProtocolInstance, Proto
  <1>4. /\ worker'[s][w].pc \in {"idle", "next"}
        /\ \A x \in Servers, v \in Workers : <<x, v>> # <<s, w>> => worker'[x][v] = worker[x][v]
    BY <1>1, EndsMoves DEF RegisterProtocolInstance
  <1>5. \A x \in Servers : protocols[x] \subseteq protocols'[x]
    <2>1. \/ UNCHANGED protocols
          \/ protocols' = [protocols EXCEPT ![s] = protocols[s] \cup {m.id}]
      BY <1>2 DEF RegisterProtocolInstance, Add
    <2>2. protocols \in [Servers -> SUBSET Trees]
      BY DEF OverlayTypeOK
    <2> QED
      BY <2>1, <2>2, SMTT(60)
  <1>6. m.id \in protocols'[s] \cup finished'[s]
    <2>1. CASE m.id \in instances[s]
      BY <1>2, <2>1, SMTT(60) DEF RegisterProtocolInstance, Add, OverlayTypeOK
    <2>2. CASE m.id \notin instances[s]
      BY <1>1, <1>2, <1>3, <2>2 DEF MemoryInv
    <2> QED
      BY <2>1, <2>2
  <1>7. MuxInv'
    BY <1>4 DEF MuxInv
  <1>8. ASSUME NEW x \in Servers, NEW t \in Trees
        PROVE  /\ started'[x][t] <= 1
               /\ started'[x][t] = 1 => \/ t \in protocols'[x] \cup finished'[x]
                                        \/ \E v \in Workers : /\ worker'[x][v].pc = "register"
                                                              /\ worker'[x][v].msg.id = t
    <2>1. CASE x = s /\ t = m.id
      BY <1>3, <1>6, <2>1 DEF MemoryInv
    <2>2. CASE ~(x = s /\ t = m.id)
      <3>1. \A v \in Workers : worker[x][v].pc = "register" /\ worker[x][v].msg.id = t =>
               worker'[x][v] = worker[x][v]
        BY <1>2, <1>4, <2>2
      <3> QED
        BY <1>3, <1>5, <3>1, SMTT(60) DEF MemoryInv
    <2> QED
      BY <2>1, <2>2
  <1>9. ASSUME NEW x \in Servers, NEW v \in Workers
        PROVE  /\ worker'[x][v].pc = "register" =>
                     worker'[x][v].msg.id \in instances'[x] \cup finished'[x]
               /\ worker'[x][v].pc = "create" => started'[x][worker'[x][v].msg.id] = 0
    BY <1>3, <1>4, SMTT(60) DEF MemoryInv
  <1> QED
    BY <1>7, <1>8, <1>9 DEF MemoryInv

LEMMA RestartLoses ==
    ASSUME OverlayTypeOK, NEW s \in Servers, Restart(s)
    PROVE  /\ \A t \in Trees : started'[s][t] = 0 /\ firstFrom'[s][t] = Nothing
           /\ pendingMsg'[s] = <<>> /\ ~treeLocked'[s]
           /\ \A w \in Workers : worker'[s][w].pc = "idle"
           /\ \A x \in Servers \ {s} :
                 /\ started'[x] = started[x] /\ worker'[x] = worker[x]
                 /\ instances'[x] = instances[x] /\ protocols'[x] = protocols[x]
                 /\ finished'[x] = finished[x] /\ pendingMsg'[x] = pendingMsg[x]
                 /\ firstFrom'[x] = firstFrom[x] /\ configured'[x] = configured[x]
                 /\ configs'[x] = configs[x] /\ pendingTree'[x] = pendingTree[x]
                 /\ treeLocked'[x] = treeLocked[x]
           /\ \A x \in Servers : net'[<<x, s>>] = <<>>
           /\ \A x \in Servers, y \in Servers \ {s} : net'[<<x, y>>] = net[<<x, y>>]
           /\ failed' = failed \cup {s} /\ UNCHANGED <<sent, got>>
  <1>1. /\ \A t \in Trees : started'[s][t] = 0 /\ firstFrom'[s][t] = Nothing
        /\ pendingMsg'[s] = <<>> /\ ~treeLocked'[s]
        /\ failed' = failed \cup {s} /\ UNCHANGED <<sent, got>>
    BY DEF Restart, OverlayTypeOK
  <1>2. \A w \in Workers : worker'[s][w].pc = "idle"
    BY DEF Restart, OverlayTypeOK, Idle
  <1>3. \A x \in Servers \ {s} :
           /\ started'[x] = started[x] /\ worker'[x] = worker[x]
           /\ instances'[x] = instances[x] /\ protocols'[x] = protocols[x]
           /\ finished'[x] = finished[x] /\ pendingMsg'[x] = pendingMsg[x]
           /\ firstFrom'[x] = firstFrom[x] /\ configured'[x] = configured[x]
           /\ configs'[x] = configs[x] /\ pendingTree'[x] = pendingTree[x]
           /\ treeLocked'[x] = treeLocked[x]
    BY DEF Restart, OverlayTypeOK
  <1>4. /\ \A x \in Servers : net'[<<x, s>>] = <<>>
        /\ \A x \in Servers, y \in Servers \ {s} : net'[<<x, y>>] = net[<<x, y>>]
    BY DEF Restart
  <1> QED
    BY <1>1, <1>2, <1>3, <1>4

\* A restart brings no message to any place.
LEMMA RestartKeeps ==
    ASSUME OverlayTypeOK, NEW s \in Servers, Restart(s), NEW y \in Servers
    PROVE  /\ \A x \in Servers : \A m : In(m, net'[<<x, y>>]) => In(m, net[<<x, y>>])
           /\ \A x \in Servers : Once(net[<<x, y>>]) => Once(net'[<<x, y>>])
           /\ \A m : In(m, pendingMsg'[y]) => In(m, pendingMsg[y])
           /\ Once(pendingMsg[y]) => Once(pendingMsg'[y])
           /\ \A w \in Workers : worker'[y][w].pc \in Holding => worker'[y][w] = worker[y][w]
  <1>1. CASE y = s
    <2>1. pendingMsg'[y] = <<>> /\ \A x \in Servers : net'[<<x, y>>] = <<>>
      BY <1>1, RestartLoses
    <2>2. \A w \in Workers : worker'[y][w].pc \notin Holding
      BY <1>1, RestartLoses DEF Holding
    <2> QED
      BY <2>1, <2>2, NothingInEmpty
  <1>2. CASE y \in Servers \ {s}
    BY <1>2, RestartLoses
  <1> QED
    BY <1>1, <1>2

LEMMA RestartMemory ==
    ASSUME OverlayTypeOK, MuxInv, MemoryInv, NEW s \in Servers, Restart(s)
    PROVE  MuxInv' /\ MemoryInv'
  <1>1. MuxInv'
    BY RestartLoses DEF MuxInv
  <1>2. ASSUME NEW x \in Servers, NEW t \in Trees
        PROVE  /\ started'[x][t] <= 1
               /\ started'[x][t] = 1 => \/ t \in protocols'[x] \cup finished'[x]
                                        \/ \E v \in Workers : /\ worker'[x][v].pc = "register"
                                                              /\ worker'[x][v].msg.id = t
    <2>1. CASE x = s
      BY <2>1, RestartLoses, SMTT(60)
    <2>2. CASE x \in Servers \ {s}
      BY <2>2, RestartLoses, SMTT(60) DEF MemoryInv
    <2> QED
      BY <2>1, <2>2
  <1>3. ASSUME NEW x \in Servers, NEW v \in Workers
        PROVE  /\ worker'[x][v].pc = "register" =>
                     worker'[x][v].msg.id \in instances'[x] \cup finished'[x]
               /\ worker'[x][v].pc = "create" => started'[x][worker'[x][v].msg.id] = 0
    BY RestartLoses, SMTT(60) DEF MemoryInv
  <1> QED
    BY <1>1, <1>2, <1>3 DEF MemoryInv

LEMMA MemoryStep ==
    ASSUME OverlayTypeOK, MuxInv, MemoryInv, VirginInv, [Next]_vars
    PROVE  MuxInv' /\ MemoryInv'
  <1>1. ASSUME NEW s \in Servers, NEW d \in Servers, Unnoticed(s, d)
        PROVE  MuxInv' /\ MemoryInv'
    <2>1. \A x \in Servers, v \in Workers :
             \/ worker'[x][v] = worker[x][v]
             \/ worker[x][v].pc # "register" /\ worker'[x][v].pc \notin {"create", "register"}
      BY <1>1 DEF Unnoticed
    <2> QED
      BY <1>1, <2>1, GoroutineFrame DEF Unnoticed, tokens
  <1>2. ASSUME NEW s \in Servers, NEW d \in Servers, ProcessMsg(s, d)
        PROVE  MuxInv' /\ MemoryInv'
    <2>1. /\ worker[d]["router"].pc = "idle"
          /\ worker'[d]["router"].pc \in {"transmit", "request"}
          /\ \A x \in Servers, v \in Workers :
                <<x, v>> # <<d, "router">> => worker'[x][v] = worker[x][v]
          /\ UNCHANGED tokens
      BY <1>2, ProcessMsgMoves
    <2> QED
      BY <2>1, GoroutineStep DEF Workers, tokens
  <1>3. ASSUME NEW s \in Servers, requestTree(s)
        PROVE  MuxInv' /\ MemoryInv'
    <2>1. /\ worker[s]["router"].pc = "request" /\ worker'[s]["router"].pc = "idle"
          /\ \A x \in Servers, v \in Workers :
                <<x, v>> # <<s, "router">> => worker'[x][v] = worker[x][v]
          /\ UNCHANGED tokens
      BY <1>3, RequestTreeMoves
    <2> QED
      BY <2>1, GoroutineStep DEF Workers, tokens
  <1>4. ASSUME NEW s \in Servers, NextPending(s)
        PROVE  MuxInv' /\ MemoryInv'
    <2>1. /\ worker[s]["pending"].pc = "next" /\ worker'[s]["pending"].pc \in {"idle", "transmit"}
          /\ \A x \in Servers, v \in Workers :
                <<x, v>> # <<s, "pending">> => worker'[x][v] = worker[x][v]
          /\ UNCHANGED tokens
      BY <1>4, NextPendingMoves
    <2> QED
      BY <2>1, GoroutineStep DEF Workers, tokens
  <1>5. ASSUME NEW s \in Servers, NEW t \in Trees, checkPendingMessages(s, t)
        PROVE  MuxInv' /\ MemoryInv'
    <2>1. /\ worker[s]["pending"].pc = "idle" /\ worker'[s]["pending"].pc = "next"
          /\ \A x \in Servers, v \in Workers :
                <<x, v>> # <<s, "pending">> => worker'[x][v] = worker[x][v]
          /\ UNCHANGED tokens
      BY <1>5, CheckPendingMoves
    <2> QED
      BY <2>1, GoroutineStep DEF Workers, tokens
  <1>6. ASSUME NEW s \in Servers, NEW t \in Trees, Node(s, t)
        PROVE  MuxInv' /\ MemoryInv'
    BY <1>6, QuietMemory DEF Node, tokens
  <1>7. ASSUME NEW t \in Trees, NEW s \in Servers, NEW d \in Servers, SendTo(t, s, d)
        PROVE  MuxInv' /\ MemoryInv'
    BY <1>7, QuietMemory DEF SendTo, tokens
  <1>8. CASE UNCHANGED vars
    BY <1>8, QuietMemory DEF vars, tokens
  <1>9. ASSUME NEW s \in Servers, NEW t \in Trees, DoneInstance(s, t)
        PROVE  MuxInv' /\ MemoryInv'
    BY <1>9, NodeDeleteMemory DEF DoneInstance
  <1>10. ASSUME NEW s \in Servers, CloseOverlay(s)
        PROVE  MuxInv' /\ MemoryInv'
    BY <1>10, NodeDeleteMemory DEF CloseOverlay
  <1> QED
    BY OverlayCases, HandlersKeep, CreateProtocolMemory, TransmitMemory, CreateInstanceMemory,
       RegisterMemory, RestartMemory, <1>1, <1>2, <1>3, <1>4, <1>5, <1>6, <1>7, <1>8, <1>9, <1>10

\* Nothing comes to be around of a round that its root has not started.
LEMMA VirginFrame ==
    ASSUME OverlayTypeOK, VirginInv,
           \A t \in Trees : Virgin(t)' => Virgin(t),
           \A s \in Servers, t \in Trees :
              Virgin(t)' /\ started[s][t] = 0 => started'[s][t] = 0,
           \A s \in Servers, m \in Proto : Around(s, m)' => Around(s, m) \/ ~Virgin(m.id)
    PROVE  VirginInv'
  <1>1. ASSUME NEW t \in Trees, Virgin(t)', NEW s \in Servers
        PROVE  started'[s][t] = 0 /\ \A m \in Proto : Around(s, m)' => m.id # t
    BY <1>1 DEF VirginInv
  <1> QED
    BY <1>1 DEF VirginInv

\* What is around, from the three places where it can be.
LEMMA AroundFrame ==
    ASSUME NEW s \in Servers, NEW m \in Proto, Around(s, m)',
           \A x \in Servers : In(m, net'[<<x, s>>]) => Around(s, m),
           In(m, pendingMsg'[s]) => Around(s, m),
           \A w \in Workers : worker'[s][w].pc \in Holding /\ worker'[s][w].msg = m => Around(s, m)
    PROVE  Around(s, m)
  <1>1. \/ \E x \in Servers : In(m, net'[<<x, s>>])
        \/ In(m, pendingMsg'[s])
        \/ \E w \in Workers : worker'[s][w].pc \in Holding /\ worker'[s][w].msg = m
    BY DEF Around, Held, In
  <1> QED
    BY <1>1

LEMMA QuietVirgin ==
    ASSUME OverlayTypeOK, VirginInv, UNCHANGED <<started, failed>>,
           \A s \in Servers, m \in Proto : Around(s, m)' => Around(s, m)
    PROVE  VirginInv'
  <1>1. \A t \in Trees : Virgin(t)' => Virgin(t)
    BY DEF Virgin
  <1> QED
    BY <1>1, VirginFrame

LEMMA NoStepVirgin ==
    ASSUME OverlayTypeOK, VirginInv, UNCHANGED <<started, net, pendingMsg, worker>>,
           failed \subseteq failed'
    PROVE  VirginInv'
  <1>1. \A t \in Trees : Virgin(t)' => Virgin(t)
    BY DEF Virgin
  <1>2. \A s \in Servers, m \in Proto : Around(s, m)' => Around(s, m)
    BY DEF Around, Held, In
  <1> QED
    BY <1>1, <1>2, VirginFrame

LEMMA CreateProtocolVirgin ==
    ASSUME OverlayTypeOK, VirginInv, NEW t \in Trees, CreateProtocol(t)
    PROVE  VirginInv'
  <1>1. PICK s \in Servers : s = Root[t]
    BY OverlayAssumption
  <1>2. started' = [started EXCEPT ![s][t] = 1] /\ UNCHANGED <<net, pendingMsg, worker, failed>>
    BY <1>1 DEF CreateProtocol
  <1>3. \A x \in Servers, u \in Trees :
           started'[x][u] = IF x = s /\ u = t THEN 1 ELSE started[x][u]
    BY <1>2 DEF OverlayTypeOK
  <1>4. ASSUME NEW u \in Trees, Virgin(u)'
        PROVE  Virgin(u) /\ u # t
    BY <1>1, <1>2, <1>3, <1>4, OverlayAssumption, SMTT(60) DEF Virgin
  <1>5. \A x \in Servers, m \in Proto : Around(x, m)' => Around(x, m)
    BY <1>2 DEF Around, Held, In
  <1> QED
    BY <1>3, <1>4, <1>5, VirginFrame

LEMMA SendToVirgin ==
    ASSUME OverlayTypeOK, VirginInv, NEW t \in Trees, NEW s \in Servers, NEW d \in Servers,
           <<t, s, d>> \in DOMAIN Sends, SendTo(t, s, d)
    PROVE  VirginInv'
  <1>1. PICK m \in Proto : m = Msg("proto", t, s, sent[<<t, s, d>>] + 1)
    <2>1. sent[<<t, s, d>>] + 1 \in Nat
      BY SMTT(60) DEF OverlayTypeOK
    <2> QED
      BY <2>1, MessageTypes
  <1>2. m \in Message /\ Msg("config", t, s, 0) \in Message
        /\ Msg("config", t, s, 0).kind = "config" /\ <<s, d>> \in Links /\ m.id = t
    BY <1>1, MessageTypes DEF Msg, Links
  <1>3. \A l \in Links, x \in Proto : In(x, net'[l]) => In(x, net[l]) \/ x = m
    <2>1. CASE net' = [net EXCEPT ![<<s, d>>] = @ \o <<Msg("config", t, s, 0), m>>]
      <3>1. PICK c \in Message : c = Msg("config", t, s, 0) /\ c.kind = "config"
        BY <1>2
      <3>2. \A l \in Links : \A x : In(x, net'[l]) => In(x, net[l]) \/ x \in {c, m}
        BY <1>2, <2>1, <3>1, ConfigAppendedNet
      <3>3. \A x \in Proto : x # c
        BY <3>1 DEF Proto
      <3> QED
        BY <3>2, <3>3, SMTT(60)
    <2>2. CASE net' = [net EXCEPT ![<<s, d>>] = @ \o <<m>>]
      <3>1. net[<<s, d>>] \o <<m>> = Append(net[<<s, d>>], m)
        <4>1. net[<<s, d>>] \in Seq(Message)
          BY <1>2 DEF OverlayTypeOK
        <4> QED
          BY <1>2, <4>1, AppendBoth
      <3>2. net' = [net EXCEPT ![<<s, d>>] = Append(@, m)]
        BY <2>2, <3>1
      <3> QED
        BY <1>2, <3>2, AppendedNet
    <2> QED
      BY <1>1, <2>1, <2>2 DEF SendTo, ConfigFirst
  <1>4. UNCHANGED <<pendingMsg, started, worker, failed>> /\ started[s][t] > 0
    BY DEF SendTo, Running, local, tokens
  <1>5. ~Virgin(m.id)
    <2>1. started[s][t] # 0
      BY <1>4, SMTT(60)
    <2> QED
      BY <1>2, <2>1 DEF VirginInv
  <1>6. ASSUME NEW x \in Servers, NEW y \in Proto, Around(x, y)', y # m
        PROVE  Around(x, y)
    <2>1. \A z \in Servers : In(y, net'[<<z, x>>]) => Around(x, y)
      BY <1>3, <1>6 DEF Around, Links
    <2>2. /\ In(y, pendingMsg'[x]) => Around(x, y)
          /\ \A w \in Workers : worker'[x][w].pc \in Holding /\ worker'[x][w].msg = y => Around(x, y)
      BY <1>4 DEF Around, Held
    <2> QED
      BY <1>6, <2>1, <2>2, AroundFrame
  <1>7. \A u \in Trees : Virgin(u)' => Virgin(u)
    BY <1>4 DEF Virgin
  <1> QED
    BY <1>4, <1>5, <1>6, <1>7, VirginFrame

LEMMA HandlersVirgin ==
    ASSUME OverlayTypeOK, VirginInv, NEW s \in Servers, NEW d \in Servers, Unnoticed(s, d)
    PROVE  VirginInv'
  <1>1. ASSUME NEW x \in Servers, NEW m \in Proto, Around(x, m)'
        PROVE  Around(x, m)
    <2>1. \A z \in Servers : In(m, net'[<<z, x>>]) => Around(x, m)
      BY DEF Unnoticed, Around, Links
    <2>2. In(m, pendingMsg'[x]) => Around(x, m)
      BY DEF Unnoticed, Around
    <2>3. \A w \in Workers : worker'[x][w].pc \in Holding => worker'[x][w] = worker[x][w]
      BY DEF Unnoticed, Holding
    <2>4. \A w \in Workers : worker'[x][w].pc \in Holding /\ worker'[x][w].msg = m => Around(x, m)
      BY <2>3 DEF Around, Held
    <2> QED
      BY <1>1, <2>1, <2>2, <2>4, AroundFrame
  <1> QED
    BY <1>1, QuietVirgin DEF Unnoticed, tokens

LEMMA ProcessMsgVirgin ==
    ASSUME OverlayTypeOK, VirginInv, NEW s \in Servers, NEW d \in Servers, ProcessMsg(s, d)
    PROVE  VirginInv'
  <1>1. PICK m \in Proto :
              /\ net[<<s, d>>] # <<>> /\ In(m, net[<<s, d>>])
              /\ net' = Taken(s, d)
              /\ worker'[d]["router"].msg = m
              /\ \A x \in Servers, v \in Workers :
                    <<x, v>> # <<d, "router">> => worker'[x][v] = worker[x][v]
              /\ UNCHANGED <<local, tokens, sent, got, failed>>
    BY ProcessMsgMoves
  <1>2. ASSUME NEW x \in Servers, NEW y \in Proto, Around(x, y)'
        PROVE  Around(x, y)
    <2>1. \A z \in Servers : In(y, net'[<<z, x>>]) => Around(x, y)
      BY <1>1, TakenNet DEF Around, Links
    <2>2. In(y, pendingMsg'[x]) => Around(x, y)
      BY <1>1 DEF local, Around
    <2>3. \A w \in Workers : worker'[x][w].pc \in Holding /\ worker'[x][w].msg = y => Around(x, y)
      BY <1>1 DEF Around, Held
    <2> QED
      BY <1>2, <2>1, <2>2, <2>3, AroundFrame
  <1> QED
    BY <1>1, <1>2, QuietVirgin DEF tokens

LEMMA RequestTreeVirgin ==
    ASSUME OverlayTypeOK, VirginInv, NEW s \in Servers, requestTree(s)
    PROVE  VirginInv'
  <1>1. PICK m \in Proto, q \in Message :
              /\ Held(s, "router", m)
              /\ worker'[s]["router"].pc = "idle"
              /\ \A y \in Servers, v \in Workers :
                    <<y, v>> # <<s, "router">> => worker'[y][v] = worker[y][v]
              /\ pendingMsg' = [pendingMsg EXCEPT ![s] = Append(@, m)]
              /\ q.kind = "reqTree" /\ <<s, m.from>> \in Links
              /\ net' = [net EXCEPT ![<<s, m.from>>] = Append(@, q)]
              /\ UNCHANGED <<tokens, failed>>
    BY RequestTreeMoves
  <1>2. ASSUME NEW x \in Servers, NEW y \in Proto, Around(x, y)'
        PROVE  Around(x, y)
    <2>1. y # q
      BY <1>1 DEF Proto
    <2>7. \A l \in Links : In(y, net'[l]) => In(y, net[l])
      BY <1>1, <2>1, AppendedNet
    <2>2. \A z \in Servers : In(y, net'[<<z, x>>]) => Around(x, y)
      BY <2>7 DEF Around, Links
    <2>3. ASSUME x = s PROVE In(y, pendingMsg'[x]) => Around(x, y)
      <3>1. pendingMsg[s] \in Seq(Proto) /\ pendingMsg'[s] = Append(pendingMsg[s], m)
        BY <1>1 DEF OverlayTypeOK
      <3>2. In(y, pendingMsg'[s]) => In(y, pendingMsg[s]) \/ y = m
        BY <3>1, AppendElements, SMTT(60)
      <3> QED
        BY <1>1, <2>3, <3>2 DEF Around, Workers
    <2>4. ASSUME x # s PROVE In(y, pendingMsg'[x]) => Around(x, y)
      <3>1. pendingMsg'[x] = pendingMsg[x]
        BY <1>1, <2>4 DEF OverlayTypeOK
      <3> QED
        BY <3>1 DEF Around
    <2>5. In(y, pendingMsg'[x]) => Around(x, y)
      BY <2>3, <2>4
    <2>6. \A w \in Workers : worker'[x][w].pc \in Holding /\ worker'[x][w].msg = y => Around(x, y)
      BY <1>1 DEF Around, Held, Holding
    <2> QED
      BY <1>2, <2>2, <2>5, <2>6, AroundFrame
  <1> QED
    BY <1>1, <1>2, QuietVirgin DEF tokens

LEMMA NextPendingVirgin ==
    ASSUME OverlayTypeOK, VirginInv, NEW s \in Servers, NextPending(s)
    PROVE  VirginInv'
  <1>1. pendingMsg[s] \in Seq(Proto)
    BY DEF OverlayTypeOK
  <1>2. /\ \A x \in Servers, v \in Workers :
              <<x, v>> # <<s, "pending">> => worker'[x][v] = worker[x][v]
        /\ UNCHANGED <<net, tokens, failed>>
    BY NextPendingMoves
  <1>3. /\ \A y : In(y, pendingMsg'[s]) => In(y, pendingMsg[s])
        /\ \A x \in Servers \ {s} : pendingMsg'[x] = pendingMsg[x]
        /\ worker'[s]["pending"].pc \in Holding => In(worker'[s]["pending"].msg, pendingMsg[s])
    <2>1. CASE worker'[s]["pending"].pc = "idle" /\ UNCHANGED pendingMsg
      BY <2>1 DEF Holding
    <2>2. CASE \E i \in 1..Len(pendingMsg[s]) :
                  /\ pendingMsg' = [pendingMsg EXCEPT ![s] = Without(@, i)]
                  /\ worker'[s]["pending"].pc = "transmit"
                  /\ worker'[s]["pending"].msg = pendingMsg[s][i]
      <3>1. PICK i \in 1..Len(pendingMsg[s]) :
                  /\ pendingMsg' = [pendingMsg EXCEPT ![s] = Without(@, i)]
                  /\ worker'[s]["pending"].msg = pendingMsg[s][i]
        BY <2>2
      <3>2. pendingMsg'[s] = Without(pendingMsg[s], i)
            /\ \A x \in Servers \ {s} : pendingMsg'[x] = pendingMsg[x]
        BY <3>1 DEF OverlayTypeOK
      <3> QED
        BY <1>1, <3>1, <3>2, RemovedElements, SMTT(60)
    <2> QED
      BY <2>1, <2>2, NextPendingMoves
  <1>4. ASSUME NEW x \in Servers, NEW y \in Proto, Around(x, y)'
        PROVE  Around(x, y)
    <2>1. \A z \in Servers : In(y, net'[<<z, x>>]) => Around(x, y)
      BY <1>2 DEF Around
    <2>2. In(y, pendingMsg'[x]) => Around(x, y)
      BY <1>3, SMTT(60) DEF Around
    <2>3. \A w \in Workers : worker'[x][w].pc \in Holding /\ worker'[x][w].msg = y => Around(x, y)
      BY <1>2, <1>3 DEF Around, Held
    <2> QED
      BY <1>4, <2>1, <2>2, <2>3, AroundFrame
  <1> QED
    BY <1>2, <1>4, QuietVirgin DEF tokens

\* A goroutine that goes on with its message, or ends.
LEMMA GoesOnVirgin ==
    ASSUME OverlayTypeOK, NEW s \in Servers, NEW w \in Workers,
           UNCHANGED <<net, pendingMsg>>,
           \A x \in Servers, v \in Workers : <<x, v>> # <<s, w>> => worker'[x][v] = worker[x][v],
           worker'[s][w].pc \in Holding =>
              worker[s][w].pc \in Holding /\ worker'[s][w].msg = worker[s][w].msg,
           NEW x \in Servers, NEW y \in Proto, Around(x, y)'
    PROVE  Around(x, y)
  <1>1. \A z \in Servers : In(y, net'[<<z, x>>]) => Around(x, y)
    BY DEF Around
  <1>2. In(y, pendingMsg'[x]) => Around(x, y)
    BY DEF Around
  <1>3. \A v \in Workers : worker'[x][v].pc \in Holding /\ worker'[x][v].msg = y => Around(x, y)
    BY DEF Around, Held
  <1> QED
    BY <1>1, <1>2, <1>3, AroundFrame

\* What TransmitMsg, CreateInstance and RegisterProtocolInstance have in common.
LEMMA TransmitKeeps ==
    ASSUME OverlayTypeOK, NEW s \in Servers, NEW w \in Workers,
           TransmitMsg(s, w) \/ CreateInstance(s, w) \/ RegisterProtocolInstance(s, w)
    PROVE  /\ worker[s][w].pc \in Holding
           /\ worker'[s][w].pc \in Holding => worker'[s][w].msg = worker[s][w].msg
           /\ \A x \in Servers, v \in Workers : <<x, v>> # <<s, w>> => worker'[x][v] = worker[x][v]
           /\ UNCHANGED <<net, pendingMsg, pendingTree, treeLocked, sent, failed>>
  <1>1. worker[s][w].pc \in Holding
    BY DEF TransmitMsg, CreateInstance, RegisterProtocolInstance, Holding
  <1>2. PICK m \in Proto : m = worker[s][w].msg
    BY <1>1, PlaceTypes
  <1>3. Ends(s, w) \/ Goes(s, w, "create", m) \/ Goes(s, w, "register", m)
    BY <1>2 DEF TransmitMsg, CreateInstance, RegisterProtocolInstance
  <1>4. UNCHANGED <<net, pendingMsg, pendingTree, treeLocked, sent, failed>>
    BY DEF TransmitMsg, CreateInstance, RegisterProtocolInstance, local
  <1>5. CASE Ends(s, w)
    BY <1>1, <1>4, <1>5, EndsMoves DEF Holding
  <1>6. ASSUME NEW pc \in {"create", "register"}, Goes(s, w, pc, m)
        PROVE  /\ worker'[s][w].msg = m
               /\ \A x \in Servers, v \in Workers :
                     <<x, v>> # <<s, w>> => worker'[x][v] = worker[x][v]
    <2>1. [pc |-> pc, msg |-> m] \in Place
      BY DEF Place, Holding
    <2> QED
      BY <1>6, <2>1, WorkerMoves, SMTT(60)
  <1> QED
    BY <1>1, <1>2, <1>3, <1>4, <1>5, <1>6

LEMMA TransmitVirgin ==
    ASSUME OverlayTypeOK, VirginInv, NEW s \in Servers, NEW w \in Workers,
           TransmitMsg(s, w) \/ RegisterProtocolInstance(s, w)
    PROVE  VirginInv'
  <1>1. \A x \in Servers, y \in Proto : Around(x, y)' => Around(x, y)
    BY TransmitKeeps, GoesOnVirgin
  <1>2. UNCHANGED <<started, failed>>
    BY DEF TransmitMsg, RegisterProtocolInstance, tokens
  <1> QED
    BY <1>1, <1>2, QuietVirgin

LEMMA CreateInstanceVirgin ==
    ASSUME OverlayTypeOK, VirginInv, NEW s \in Servers, NEW w \in Workers, CreateInstance(s, w)
    PROVE  VirginInv'
  <1>1. \A x \in Servers, y \in Proto : Around(x, y)' => Around(x, y)
    BY TransmitKeeps, GoesOnVirgin
  <1>2. UNCHANGED failed /\ worker[s][w].pc \in Holding
    BY TransmitKeeps
  <1>3. PICK m \in Proto : m = worker[s][w].msg
    BY <1>2, PlaceTypes
  <1>4. m.id \in Trees /\ Around(s, m)
    BY <1>2, <1>3 DEF Around, Held, Proto
  <1>5. CASE UNCHANGED started
    BY <1>1, <1>2, <1>5, QuietVirgin
  <1>6. CASE started' = [started EXCEPT ![s][m.id] = @ + 1]
    <2>1. \A x \in Servers, t \in Trees :
             /\ started[x][t] \in Nat
             /\ started'[x][t] = IF x = s /\ t = m.id THEN started[x][t] + 1 ELSE started[x][t]
      <3>1. started \in [Servers -> [Trees -> Nat]]
        BY DEF OverlayTypeOK
      <3> QED
        BY <1>4, <1>6, <3>1
    <2>2. ASSUME NEW t \in Trees, Virgin(t)'
          PROVE  Virgin(t) /\ t # m.id
      <3>1. Root[t] \in Servers /\ Root[t] \notin failed /\ started'[Root[t]][t] = 0
        BY <1>2, <2>2, OverlayAssumption DEF Virgin
      <3>2. Virgin(t)
        BY <2>1, <3>1, SMTT(60) DEF Virgin
      <3> QED
        BY <1>4, <3>2 DEF VirginInv
    <2> QED
      BY <1>1, <2>1, <2>2, VirginFrame
  <1> QED
    BY <1>3, <1>5, <1>6 DEF CreateInstance

LEMMA RestartVirgin ==
    ASSUME OverlayTypeOK, VirginInv, NEW s \in Servers, Restart(s)
    PROVE  VirginInv'
  <1>1. ASSUME NEW t \in Trees, Virgin(t)'
        PROVE  Virgin(t)
    <2>1. Root[t] \in Servers \ {s} /\ Root[t] \notin failed /\ started'[Root[t]][t] = 0
      <3>1. failed' = failed \cup {s}
        BY RestartLoses
      <3>2. Root[t] \in Servers
        BY OverlayAssumption
      <3> QED
        BY <1>1, <3>1, <3>2 DEF Virgin
    <2> QED
      BY <2>1, RestartLoses DEF Virgin
  <1>2. ASSUME NEW x \in Servers, NEW m \in Proto, Around(x, m)'
        PROVE  Around(x, m)
    <2>1. \A z \in Servers : In(m, net'[<<z, x>>]) => Around(x, m)
      BY RestartKeeps DEF Around
    <2>2. In(m, pendingMsg'[x]) => Around(x, m)
      BY RestartKeeps DEF Around
    <2>3. \A w \in Workers : worker'[x][w].pc \in Holding /\ worker'[x][w].msg = m => Around(x, m)
      BY RestartKeeps DEF Around, Held
    <2> QED
      BY <1>2, <2>1, <2>2, <2>3, AroundFrame
  <1>3. \A x \in Servers, t \in Trees : started[x][t] = 0 => started'[x][t] = 0
    BY RestartLoses
  <1> QED
    BY <1>1, <1>2, <1>3, VirginFrame

LEMMA VirginStep ==
    ASSUME OverlayTypeOK, VirginInv, [Next]_vars
    PROVE  VirginInv'
  <1>1. ASSUME NEW s \in Servers, NEW t \in Trees, checkPendingMessages(s, t)
        PROVE  VirginInv'
    <2>1. /\ worker'[s]["pending"].pc = "next" /\ UNCHANGED <<net, pendingMsg, started, failed>>
          /\ \A x \in Servers, v \in Workers :
                <<x, v>> # <<s, "pending">> => worker'[x][v] = worker[x][v]
      BY <1>1, CheckPendingMoves DEF tokens
    <2>2. worker'[s]["pending"].pc \notin Holding /\ "pending" \in Workers
      BY <2>1 DEF Holding, Workers
    <2>3. \A x \in Servers, y \in Proto : Around(x, y)' => Around(x, y)
      BY <2>1, <2>2, GoesOnVirgin
    <2> QED
      BY <2>1, <2>3, QuietVirgin
  <1>2. ASSUME NEW s \in Servers, NEW t \in Trees, Node(s, t) \/ DoneInstance(s, t)
        PROVE  VirginInv'
    BY <1>2, NoStepVirgin DEF Node, DoneInstance, tokens, local
  <1>3. ASSUME NEW s \in Servers, CloseOverlay(s)
        PROVE  VirginInv'
    BY <1>3, NoStepVirgin DEF CloseOverlay, local
  <1>4. CASE UNCHANGED vars
    BY <1>4, NoStepVirgin DEF vars, tokens, local
  <1> QED
    BY OverlayCases, HandlersKeep, HandlersVirgin, CreateProtocolVirgin, SendToVirgin,
       ProcessMsgVirgin, RequestTreeVirgin, NextPendingVirgin, TransmitVirgin,
       CreateInstanceVirgin, RestartVirgin, <1>1, <1>2, <1>3, <1>4

LEMMA InstanceInit ==
    ASSUME Init
    PROVE  MuxInv /\ MemoryInv /\ VirginInv
  <1>1. /\ \A s \in Servers, t \in Trees : started[s][t] = 0
        /\ \A s \in Servers, w \in Workers : worker[s][w].pc = "idle"
        /\ \A l \in Links : net[l] = <<>>
        /\ \A s \in Servers : pendingMsg[s] = <<>>
    BY DEF Init, Idle, Links
  <1>2. ASSUME NEW s \in Servers, NEW m \in Proto
        PROVE  ~Around(s, m)
    <2>1. ~In(m, <<>>)
      BY SMTT(60) DEF In
    <2>2. \A w \in Workers : ~Held(s, w, m)
      BY <1>1 DEF Held, Holding
    <2> QED
      BY <1>1, <2>1, <2>2 DEF Around, Links
  <1> QED
    BY <1>1, <1>2, SMTT(60) DEF MuxInv, MemoryInv, VirginInv

\* However the goroutines of a server interleave, and whenever Done is called, at most
\* one protocol instance is started for a token: transmitMux is held until the instance
\* is in protocolInstances or its token is known to be done.
THEOREM OneInstanceHolds == Spec => []OneInstance
  <1>1. Init => OverlayTypeOK /\ MuxInv /\ MemoryInv /\ VirginInv
    BY TypeInit, InstanceInit
  <1>2. /\ OverlayTypeOK /\ MuxInv /\ MemoryInv /\ VirginInv
        /\ [Next]_vars
        => (OverlayTypeOK /\ MuxInv /\ MemoryInv /\ VirginInv)'
    BY TypeStep, MemoryStep, VirginStep
  <1>3. MemoryInv => OneInstance
    BY DEF MemoryInv, OneInstance
  <1> QED
    BY <1>1, <1>2, <1>3, PTL DEF Spec

=============================================================================
