------------------------- MODULE OverlayOrderProofs -------------------------
(***************************************************************************)
(* Overlay: a message is handled once and with its configuration, and no   *)
(* handler returns with the lock of the pending trees.                     *)
(***************************************************************************)
EXTENDS OverlayUniqueProofs

\* Leaves are for Zenon; those with arithmetic, and a few others, cite SMTT.
USE ZenonT(60)

-----------------------------------------------------------------------------
(* The inductive invariant. *)

\* The config for t is still on its way from s to d, before all the messages for t.
Leads(t, s, d) ==
    /\ \A m \in Proto : m.id = t /\ m.from = s =>
          ~In(m, pendingMsg[d]) /\ \A w \in Workers : ~Held(d, w, m)
    /\ ConfigLeads(net[<<s, d>>], t)
    /\ <<t, s, d>> \in DOMAIN Sends /\ sent[<<t, s, d>>] > 0 => HasConfig(net[<<s, d>>], t)

\* The config for an instance has arrived, or was used, or comes before any message of
\* the root.
ConfigAt(d, t) ==
    /\ firstFrom[d][t] # Nothing => started[d][t] = 1
    /\ Root[t] \notin failed /\ <<d, t>> \notin Refusing =>
          /\ firstFrom[d][t] = Root[t] => t \in configured[d]
          /\ t \in configs[d] \/ firstFrom[d][t] # Nothing \/ Leads(t, Root[t], d)

ConfigInv == \A d \in Servers \ failed, t \in Trees : ConfigAt(d, t)

-----------------------------------------------------------------------------
(* The config comes before the message. *)

LEMMA ConfigFrame ==
    ASSUME NEW d \in Servers, NEW t \in Trees, failed \subseteq failed', ConfigAt(d, t),
           firstFrom'[d][t] = firstFrom[d][t], started'[d][t] = started[d][t],
           configured[d] \subseteq configured'[d], t \in configs[d] => t \in configs'[d],
           Root[t] \notin failed' /\ Leads(t, Root[t], d) =>
              Leads(t, Root[t], d)' \/ t \in configs'[d]
    PROVE  ConfigAt(d, t)'
  BY DEF ConfigAt

LEMMA LeadsNext ==
    ASSUME NEW t \in Trees, NEW s \in Servers, NEW d \in Servers,
           \A m \in Proto : m.id = t /\ m.from = s =>
              /\ ~In(m, pendingMsg'[d])
              /\ \A w \in Workers : ~(worker'[d][w].pc \in Holding /\ worker'[d][w].msg = m),
           ConfigLeads(net'[<<s, d>>], t),
           <<t, s, d>> \in DOMAIN Sends /\ sent'[<<t, s, d>>] > 0 => HasConfig(net'[<<s, d>>], t)
    PROVE  Leads(t, s, d)'
  BY DEF Leads, Held, In, ConfigLeads, HasConfig, IsConfig, IsProto

\* The messages of d stay where they are, and so do those on the way to d.
LEMMA LeadsFrame ==
    ASSUME NEW t \in Trees, NEW s \in Servers, NEW d \in Servers, Leads(t, s, d),
           KeepsList(d), \A w \in Workers : KeepsHeld(d, w),
           ConfigLeads(net[<<s, d>>], t) => ConfigLeads(net'[<<s, d>>], t),
           HasConfig(net[<<s, d>>], t) => HasConfig(net'[<<s, d>>], t),
           sent'[<<t, s, d>>] = sent[<<t, s, d>>]
    PROVE  Leads(t, s, d)'
  <1>1. \A m \in Proto : m.id = t /\ m.from = s => ~In(m, pendingMsg'[d])
    BY DEF Leads, KeepsList
  <1>2. ASSUME NEW m \in Proto, m.id = t, m.from = s, NEW w \in Workers
        PROVE  ~(worker'[d][w].pc \in Holding /\ worker'[d][w].msg = m)
    BY <1>2 DEF Leads, KeepsHeld, Held
  <1>3. /\ ConfigLeads(net'[<<s, d>>], t)
        /\ <<t, s, d>> \in DOMAIN Sends /\ sent'[<<t, s, d>>] > 0 => HasConfig(net'[<<s, d>>], t)
    BY DEF Leads
  <1> QED
    BY <1>1, <1>2, <1>3, LeadsNext

LEMMA QuietConfig ==
    ASSUME OverlayTypeOK, ConfigInv, UNCHANGED <<net, pendingMsg, worker, sent, configs, configured,
                                                 firstFrom>>,
           failed \subseteq failed',
           \A d \in Servers, t \in Trees :
              started[d][t] = 1 => started'[d][t] = 1
    PROVE  ConfigInv'
  <1>1. ASSUME NEW d \in Servers \ failed', NEW t \in Trees
        PROVE  ConfigAt(d, t)'
    <2>1. ConfigAt(d, t) /\ Root[t] \in Servers
      BY OverlayAssumption DEF ConfigInv
    <2>2. Leads(t, Root[t], d) => Leads(t, Root[t], d)'
      <3>1. KeepsList(d) /\ \A w \in Workers : KeepsHeld(d, w)
        BY DEF KeepsList, KeepsHeld
      <3> QED
        BY <2>1, <3>1, LeadsFrame
    <2> QED
      BY <2>1, <2>2 DEF ConfigAt
  <1> QED
    BY <1>1 DEF ConfigInv

LEMMA HandlersConfig ==
    ASSUME OverlayTypeOK, ConfigInv, NEW x \in Servers, NEW y \in Servers, Unnoticed(x, y),
           UNCHANGED configs, Head(net[<<x, y>>]).kind # "config"
    PROVE  ConfigInv'
  <1>1. ASSUME NEW d \in Servers \ failed', NEW t \in Trees
        PROVE  ConfigAt(d, t)'
    <2>1. ConfigAt(d, t) /\ Root[t] \in Servers /\ <<Root[t], d>> \in Links
      BY OverlayAssumption DEF ConfigInv, Links, Unnoticed
    <2>2. /\ ConfigLeads(net[<<Root[t], d>>], t) => ConfigLeads(net'[<<Root[t], d>>], t)
          /\ HasConfig(net[<<Root[t], d>>], t) => HasConfig(net'[<<Root[t], d>>], t)
      BY <2>1 DEF Unnoticed, IsConfig
    <2>3. KeepsList(d) /\ \A w \in Workers : KeepsHeld(d, w)
      BY DEF Unnoticed, KeepsList, KeepsHeld, Holding
    <2>4. Leads(t, Root[t], d) => Leads(t, Root[t], d)'
      BY <2>1, <2>2, <2>3, LeadsFrame DEF Unnoticed
    <2>5. UNCHANGED <<firstFrom, started, configured, configs, failed>>
      BY DEF Unnoticed, tokens
    <2> QED
      BY <2>1, <2>4, <2>5, ConfigFrame
  <1> QED
    BY <1>1 DEF ConfigInv

\* The config for t arrives.
LEMMA HandleConfigMessageConfig ==
    ASSUME OverlayTypeOK, ConfigInv, NEW x \in Servers, NEW y \in Servers,
           handleConfigMessage(x, y)
    PROVE  ConfigInv'
  <1>1. PICK h \in Message : h = Head(net[<<x, y>>]) /\ h.kind = "config" /\ h.id \in Trees
    BY HeadMessage, KindTypes DEF handleConfigMessage
  <1>2. /\ net[<<x, y>>] # <<>> /\ net' = Taken(x, y)
        /\ configs' = [configs EXCEPT ![y] = configs[y] \cup {h.id}]
        /\ UNCHANGED <<pendingMsg, firstFrom, started, configured, worker, sent, failed>>
    BY <1>1 DEF handleConfigMessage, Received, Add, tokens
  <1>3. /\ \A d \in Servers : configs[d] \subseteq configs'[d]
        /\ h.id \in configs'[y]
    BY <1>2 DEF OverlayTypeOK
  <1>4. ASSUME NEW d \in Servers \ failed', NEW t \in Trees
        PROVE  ConfigAt(d, t)'
    <2>1. ConfigAt(d, t) /\ Root[t] \in Servers /\ <<Root[t], d>> \in Links
      BY <1>2, OverlayAssumption DEF ConfigInv, Links
    <2>2. ASSUME Leads(t, Root[t], d)
          PROVE  Leads(t, Root[t], d)' \/ t \in configs'[d]
      <3>1. CASE d = y /\ h.id = t
        BY <1>3, <3>1
      <3>2. CASE ~(d = y /\ h.id = t)
        <4>1. /\ ConfigLeads(net[<<Root[t], d>>], t) => ConfigLeads(net'[<<Root[t], d>>], t)
              /\ HasConfig(net[<<Root[t], d>>], t) => HasConfig(net'[<<Root[t], d>>], t)
          <5>1. CASE h.id # t
            BY <1>1, <1>2, <2>1, <5>1, TakenOrder DEF IsConfig
          <5>2. CASE d # y
            BY <1>2, <2>1, <5>2, TakenNet, SMTT(60)
          <5> QED
            BY <3>2, <5>1, <5>2
        <4>2. KeepsList(d) /\ \A w \in Workers : KeepsHeld(d, w)
          BY <1>2 DEF KeepsList, KeepsHeld
        <4> QED
          BY <1>2, <2>1, <2>2, <4>1, <4>2, LeadsFrame
      <3> QED
        BY <3>1, <3>2
    <2> QED
      BY <1>2, <1>3, <2>1, <2>2, ConfigFrame
  <1> QED
    BY <1>4 DEF ConfigInv

\* A message of the root that the config leads is not the next one.
LEMMA ProcessMsgConfig ==
    ASSUME OverlayTypeOK, OnceInv, ConfigInv, NEW x \in Servers, NEW y \in Servers,
           ProcessMsg(x, y)
    PROVE  ConfigInv'
  <1>1. PICK m \in Proto :
              /\ net[<<x, y>>] # <<>> /\ m = Head(net[<<x, y>>]) /\ In(m, net[<<x, y>>])
              /\ net' = Taken(x, y)
              /\ worker'[y]["router"].msg = m
              /\ \A z \in Servers, v \in Workers :
                    <<z, v>> # <<y, "router">> => worker'[z][v] = worker[z][v]
              /\ UNCHANGED <<pendingMsg, configs, firstFrom, started, configured, sent, failed>>
    BY ProcessMsgMoves DEF local, tokens
  <1>2. m.kind = "proto" /\ m.from = x
    BY <1>1 DEF OnceInv, Proto
  <1>3. ASSUME NEW d \in Servers \ failed', NEW t \in Trees
        PROVE  ConfigAt(d, t)'
    <2>1. ConfigAt(d, t) /\ Root[t] \in Servers /\ <<Root[t], d>> \in Links
      BY <1>1, OverlayAssumption DEF ConfigInv, Links
    <2>2. ASSUME Leads(t, Root[t], d)
          PROVE  Leads(t, Root[t], d)'
      <3>1. ~IsConfig(m, t)
        BY <1>2 DEF IsConfig
      <3>2. /\ ConfigLeads(net[<<Root[t], d>>], t) => ConfigLeads(net'[<<Root[t], d>>], t)
            /\ HasConfig(net[<<Root[t], d>>], t) => HasConfig(net'[<<Root[t], d>>], t)
        BY <1>1, <2>1, <3>1, TakenOrder
      <3>3. d = y => ~(m.id = t /\ m.from = Root[t])
        <4>1. ASSUME d = y, m.id = t, m.from = Root[t] PROVE FALSE
          <5>1. ConfigLeads(net[<<x, y>>], t) /\ net[<<x, y>>] \in Seq(Message)
            BY <1>2, <2>2, <4>1 DEF Leads, OverlayTypeOK, Links
          <5>2. ~IsProto(m, t)
            BY <1>1, <3>1, <5>1, ConfigTail
          <5> QED
            BY <1>2, <4>1, <5>2 DEF IsProto
        <4> QED
          BY <4>1
      <3>4. ASSUME NEW z \in Proto, z.id = t, z.from = Root[t]
            PROVE  /\ ~In(z, pendingMsg'[d])
                   /\ \A w \in Workers : ~(worker'[d][w].pc \in Holding /\ worker'[d][w].msg = z)
        BY <1>1, <2>2, <3>3, <3>4 DEF Leads, Held
      <3>5. /\ ConfigLeads(net'[<<Root[t], d>>], t)
            /\ <<t, Root[t], d>> \in DOMAIN Sends /\ sent'[<<t, Root[t], d>>] > 0 =>
                  HasConfig(net'[<<Root[t], d>>], t)
        BY <1>1, <2>2, <3>2 DEF Leads
      <3> QED
        BY <2>1, <3>4, <3>5, LeadsNext
    <2> QED
      BY <1>1, <2>1, <2>2, ConfigFrame
  <1> QED
    BY <1>3 DEF ConfigInv

LEMMA RequestTreeConfig ==
    ASSUME OverlayTypeOK, ConfigInv, NEW x \in Servers, requestTree(x)
    PROVE  ConfigInv'
  <1>1. PICK m \in Proto, q \in Message :
              /\ Held(x, "router", m)
              /\ worker'[x]["router"].pc = "idle"
              /\ \A y \in Servers, v \in Workers :
                    <<y, v>> # <<x, "router">> => worker'[y][v] = worker[y][v]
              /\ pendingMsg' = [pendingMsg EXCEPT ![x] = Append(@, m)]
              /\ q.kind = "reqTree" /\ <<x, m.from>> \in Links
              /\ net' = [net EXCEPT ![<<x, m.from>>] = Append(@, q)]
              /\ UNCHANGED <<configs, firstFrom, started, configured, sent, failed>>
    BY RequestTreeMoves DEF tokens
  <1>2. \A y \in Servers : \A z : In(z, pendingMsg'[y]) => In(z, pendingMsg[y]) \/ (y = x /\ z = m)
    <2>1. /\ pendingMsg[x] \in Seq(Proto) /\ pendingMsg'[x] = Append(pendingMsg[x], m)
          /\ \A y \in Servers \ {x} : pendingMsg'[y] = pendingMsg[y]
      BY <1>1 DEF OverlayTypeOK
    <2>2. \A z : In(z, pendingMsg'[x]) => In(z, pendingMsg[x]) \/ z = m
      BY <2>1, AppendElements
    <2> QED
      BY <2>1, <2>2
  <1>3. ASSUME NEW d \in Servers \ failed', NEW t \in Trees
        PROVE  ConfigAt(d, t)'
    <2>1. ConfigAt(d, t) /\ Root[t] \in Servers /\ <<Root[t], d>> \in Links
      BY <1>1, OverlayAssumption DEF ConfigInv, Links
    <2>2. ASSUME Leads(t, Root[t], d)
          PROVE  Leads(t, Root[t], d)'
      <3>1. /\ ConfigLeads(net[<<Root[t], d>>], t) => ConfigLeads(net'[<<Root[t], d>>], t)
            /\ HasConfig(net[<<Root[t], d>>], t) => HasConfig(net'[<<Root[t], d>>], t)
        <4>1. CASE <<Root[t], d>> = <<x, m.from>>
          <5>1. /\ net'[<<Root[t], d>>] = Append(net[<<Root[t], d>>], q)
                /\ net[<<Root[t], d>>] \in Seq(Message) /\ ~IsProto(q, t)
            BY <1>1, <2>1, <4>1, AppendedNet DEF OverlayTypeOK, IsProto
          <5> QED
            BY <5>1, ConfigAppend, SMTT(60)
        <4>2. CASE <<Root[t], d>> # <<x, m.from>>
          BY <1>1, <2>1, <4>2, AppendedNet
        <4> QED
          BY <4>1, <4>2
      <3>2. ASSUME NEW z \in Proto, z.id = t, z.from = Root[t]
            PROVE  ~In(z, pendingMsg'[d])
        <4>1. ~In(z, pendingMsg[d]) /\ ~(d = x /\ z = m)
          BY <1>1, <2>2, <3>2 DEF Leads, Workers
        <4> QED
          BY <1>2, <4>1
      <3>3. ASSUME NEW z \in Proto, z.id = t, z.from = Root[t], NEW w \in Workers
            PROVE  ~(worker'[d][w].pc \in Holding /\ worker'[d][w].msg = z)
        BY <1>1, <2>2, <3>3, SMTT(60) DEF Leads, Held, Holding
      <3>4. /\ ConfigLeads(net'[<<Root[t], d>>], t)
            /\ <<t, Root[t], d>> \in DOMAIN Sends /\ sent'[<<t, Root[t], d>>] > 0 =>
                  HasConfig(net'[<<Root[t], d>>], t)
        BY <1>1, <2>2, <3>1 DEF Leads
      <3> QED
        BY <2>1, <3>2, <3>3, <3>4, LeadsNext
    <2> QED
      BY <1>1, <2>1, <2>2, ConfigFrame
  <1> QED
    BY <1>3 DEF ConfigInv

LEMMA NextPendingConfig ==
    ASSUME OverlayTypeOK, ConfigInv, NEW x \in Servers, NextPending(x)
    PROVE  ConfigInv'
  <1>1. /\ \A y \in Servers, v \in Workers :
              <<y, v>> # <<x, "pending">> => worker'[y][v] = worker[y][v]
        /\ UNCHANGED <<net, configs, firstFrom, started, configured, sent, failed>>
    BY NextPendingMoves DEF tokens
  <1>2. /\ \A y \in Servers : \A z : In(z, pendingMsg'[y]) => In(z, pendingMsg[y])
        /\ worker'[x]["pending"].pc \in Holding => In(worker'[x]["pending"].msg, pendingMsg[x])
    <2>1. CASE worker'[x]["pending"].pc = "idle" /\ UNCHANGED pendingMsg
      BY <2>1 DEF Holding
    <2>2. CASE \E i \in 1..Len(pendingMsg[x]) :
                  /\ pendingMsg' = [pendingMsg EXCEPT ![x] = Without(@, i)]
                  /\ worker'[x]["pending"].pc = "transmit"
                  /\ worker'[x]["pending"].msg = pendingMsg[x][i]
      <3>1. PICK i \in 1..Len(pendingMsg[x]) :
                  /\ pendingMsg' = [pendingMsg EXCEPT ![x] = Without(@, i)]
                  /\ worker'[x]["pending"].msg = pendingMsg[x][i]
        BY <2>2
      <3>2. /\ pendingMsg[x] \in Seq(Proto) /\ pendingMsg'[x] = Without(pendingMsg[x], i)
            /\ \A y \in Servers \ {x} : pendingMsg'[y] = pendingMsg[y]
        BY <3>1 DEF OverlayTypeOK
      <3>3. /\ \A z : In(z, pendingMsg'[x]) => In(z, pendingMsg[x])
            /\ In(pendingMsg[x][i], pendingMsg[x])
        BY <3>2, RemovedElements, SMTT(60)
      <3> QED
        BY <3>1, <3>2, <3>3
    <2> QED
      BY <2>1, <2>2, NextPendingMoves
  <1>3. ASSUME NEW d \in Servers \ failed', NEW t \in Trees
        PROVE  ConfigAt(d, t)'
    <2>1. ConfigAt(d, t) /\ Root[t] \in Servers
      BY <1>1, OverlayAssumption DEF ConfigInv
    <2>2. ASSUME Leads(t, Root[t], d)
          PROVE  Leads(t, Root[t], d)'
      <3>1. ASSUME NEW z \in Proto, z.id = t, z.from = Root[t]
            PROVE  /\ ~In(z, pendingMsg'[d])
                   /\ \A w \in Workers : ~(worker'[d][w].pc \in Holding /\ worker'[d][w].msg = z)
        BY <1>1, <1>2, <2>2, <3>1 DEF Leads, Held
      <3>2. /\ ConfigLeads(net'[<<Root[t], d>>], t)
            /\ <<t, Root[t], d>> \in DOMAIN Sends /\ sent'[<<t, Root[t], d>>] > 0 =>
                  HasConfig(net'[<<Root[t], d>>], t)
        BY <1>1, <2>2 DEF Leads
      <3> QED
        BY <2>1, <3>1, <3>2, LeadsNext
    <2> QED
      BY <1>1, <2>1, <2>2, ConfigFrame
  <1> QED
    BY <1>3 DEF ConfigInv

\* A goroutine that starts to look for messages, goes on with its message, or ends.
LEMMA GoesOnConfig ==
    ASSUME OverlayTypeOK, ConfigInv, NEW x \in Servers, NEW w \in Workers, KeepsHeld(x, w),
           \A y \in Servers, v \in Workers : <<y, v>> # <<x, w>> => worker'[y][v] = worker[y][v],
           UNCHANGED <<net, pendingMsg, sent, failed>>,
           NEW d \in Servers \ failed', NEW t \in Trees,
           firstFrom'[d][t] = firstFrom[d][t], started'[d][t] = started[d][t],
           configured[d] \subseteq configured'[d], t \in configs[d] => t \in configs'[d]
    PROVE  ConfigAt(d, t)'
  <1>1. ConfigAt(d, t) /\ Root[t] \in Servers
    BY OverlayAssumption DEF ConfigInv
  <1>2. KeepsList(d) /\ \A v \in Workers : KeepsHeld(d, v)
    BY DEF KeepsList, KeepsHeld
  <1>3. Leads(t, Root[t], d) => Leads(t, Root[t], d)'
    BY <1>1, <1>2, LeadsFrame
  <1> QED
    BY <1>1, <1>3, ConfigFrame

LEMMA TransmitConfig ==
    ASSUME OverlayTypeOK, ConfigInv, NEW x \in Servers, NEW w \in Workers,
           TransmitMsg(x, w) \/ RegisterProtocolInstance(x, w)
    PROVE  ConfigInv'
  <1>1. /\ KeepsHeld(x, w) /\ UNCHANGED <<net, pendingMsg, sent, failed>>
        /\ \A y \in Servers, v \in Workers : <<y, v>> # <<x, w>> => worker'[y][v] = worker[y][v]
    BY TransmitKeeps DEF KeepsHeld
  <1>2. UNCHANGED <<firstFrom, started, configured, configs>>
    BY DEF TransmitMsg, RegisterProtocolInstance, tokens, local
  <1>3. \A d \in Servers \ failed', t \in Trees : ConfigAt(d, t)'
    BY <1>1, <1>2, GoesOnConfig
  <1> QED
    BY <1>3 DEF ConfigInv

\* An instance that is created for a message of the root finds its config: the message
\* is at work, so it does not follow the config any more.
LEMMA CreateInstanceConfig ==
    ASSUME OverlayTypeOK, MemoryInv, ConfigInv, NEW x \in Servers, NEW w \in Workers,
           CreateInstance(x, w)
    PROVE  ConfigInv'
  <1>1. /\ KeepsHeld(x, w) /\ UNCHANGED <<net, pendingMsg, sent, failed>>
        /\ \A y \in Servers, v \in Workers : <<y, v>> # <<x, w>> => worker'[y][v] = worker[y][v]
        /\ worker[x][w].pc = "create" /\ worker[x][w].pc \in Holding
    BY TransmitKeeps DEF KeepsHeld, CreateInstance
  <1>2. PICK m \in Proto : m = worker[x][w].msg
    BY <1>1, PlaceTypes
  <1>3. m.id \in Trees /\ m.from \in Servers /\ m.from # Nothing
    BY OverlayAssumption DEF Proto
  <1>4. configs' = [configs EXCEPT ![x] = configs[x] \ {m.id}]
    BY <1>2 DEF CreateInstance
  <1>5. \A d \in Servers, t \in Trees : ~(d = x /\ t = m.id) /\ t \in configs[d] => t \in configs'[d]
    BY <1>4 DEF OverlayTypeOK
  <1>6. CASE <<x, m.id>> \in Refusing /\ UNCHANGED <<started, firstFrom, configured>>
    <2>1. ASSUME NEW d \in Servers \ failed', NEW t \in Trees
          PROVE  ConfigAt(d, t)'
      <3>1. CASE d = x /\ t = m.id
        <4>1. ConfigAt(d, t)
          BY <1>1 DEF ConfigInv
        <4> QED
          BY <1>6, <3>1, <4>1 DEF ConfigAt
      <3>2. CASE ~(d = x /\ t = m.id)
        BY <1>1, <1>5, <1>6, <3>2, GoesOnConfig
      <3> QED
        BY <3>1, <3>2
    <2> QED
      BY <2>1 DEF ConfigInv
  <1>7. CASE /\ started' = [started EXCEPT ![x][m.id] = @ + 1]
             /\ firstFrom' = [firstFrom EXCEPT ![x][m.id] = m.from]
             /\ configured' = IF m.id \in configs[x] THEN Add(configured, x, m.id) ELSE configured
    <2>1. /\ \A d \in Servers : configured[d] \subseteq configured'[d]
          /\ m.id \in configs[x] => m.id \in configured'[x]
      <3>1. CASE m.id \in configs[x]
        BY <1>7, <3>1 DEF Add, OverlayTypeOK
      <3>2. CASE m.id \notin configs[x]
        BY <1>7, <3>2
      <3> QED
        BY <3>1, <3>2
    <2>2. \A d \in Servers, t \in Trees :
             /\ ~(d = x /\ t = m.id) => /\ firstFrom'[d][t] = firstFrom[d][t]
                                        /\ started'[d][t] = started[d][t]
             /\ d = x /\ t = m.id => /\ firstFrom'[d][t] = m.from
                                     /\ started'[d][t] = started[d][t] + 1
      BY <1>3, <1>7 DEF OverlayTypeOK
    <2>3. started[x][m.id] = 0
      BY <1>1, <1>2 DEF MemoryInv
    <2>4. ASSUME NEW d \in Servers \ failed', NEW t \in Trees
          PROVE  ConfigAt(d, t)'
      <3>1. CASE d = x /\ t = m.id
        <4>1. ConfigAt(d, t)
          BY <1>1 DEF ConfigInv
        <4>2. firstFrom[d][t] = Nothing
          BY <2>3, <3>1, <4>1, SMTT(60) DEF ConfigAt
        <4>3. m.from = Root[t] => ~Leads(t, Root[t], d)
          BY <1>1, <1>2, <3>1 DEF Leads, Held
        <4>4. /\ firstFrom'[d][t] = m.from /\ firstFrom'[d][t] # Nothing
              /\ started'[d][t] = 1
          <5>1. firstFrom'[d][t] = m.from /\ started'[d][t] = 0 + 1
            BY <2>2, <2>3, <3>1
          <5>2. m.from # Nothing
            BY <1>3
          <5> QED
            BY <5>1, <5>2, SMTT(60)
        <4>5. Root[t] \notin failed' /\ <<d, t>> \notin Refusing /\ m.from = Root[t] =>
                 t \in configured'[d]
          BY <1>1, <2>1, <3>1, <4>1, <4>2, <4>3 DEF ConfigAt
        <4> QED
          BY <4>4, <4>5 DEF ConfigAt
      <3>2. CASE ~(d = x /\ t = m.id)
        BY <1>1, <1>5, <2>1, <2>2, <3>2, GoesOnConfig
      <3> QED
        BY <3>1, <3>2
    <2> QED
      BY <2>4 DEF ConfigInv
  <1> QED
    BY <1>2, <1>6, <1>7 DEF CreateInstance

\* SendToTreeNode puts the config before the first message, and the others after it.
LEMMA SendToLeads ==
    ASSUME OverlayTypeOK, NEW t \in Trees, NEW x \in Servers, NEW y \in Servers,
           <<t, x, y>> \in DOMAIN Sends, SendTo(t, x, y),
           NEW u \in Trees, NEW d \in Servers, Leads(u, Root[u], d)
    PROVE  Leads(u, Root[u], d)'
  <1>1. PICK n \in Nat : n = sent[<<t, x, y>>]
    BY DEF OverlayTypeOK
  <1>2. PICK m \in Message : m = Msg("proto", t, x, n + 1) /\ m.kind = "proto" /\ m.id = t
    <2>1. Msg("proto", t, x, n + 1) \in Message
      BY MessageTypes, SMTT(60)
    <2> QED
      BY <2>1 DEF Msg
  <1>3. PICK c \in Message : c = Msg("config", t, x, 0) /\ c.kind = "config" /\ c.id = t
    BY MessageTypes DEF Msg
  <1>4. PICK r \in Servers : r = Root[u]
    BY OverlayAssumption
  <1>5. <<x, y>> \in Links /\ <<r, d>> \in Links /\ net[<<x, y>>] \in Seq(Message)
        /\ net[<<x, y>>] \o <<m>> = Append(net[<<x, y>>], m)
    <2>1. <<x, y>> \in Links /\ <<r, d>> \in Links
      BY DEF Links
    <2>2. net[<<x, y>>] \in Seq(Message)
      BY <2>1 DEF OverlayTypeOK
    <2> QED
      BY <2>1, <2>2, AppendBoth
  <1>6. /\ \A k \in DOMAIN Sends : k # <<t, x, y>> => sent'[k] = sent[k]
        /\ UNCHANGED <<pendingMsg, worker>>
    BY <1>1 DEF SendTo, OverlayTypeOK, local
  <1>7. ASSUME NEW z \in Proto, z.id = u, z.from = r
        PROVE  /\ ~In(z, pendingMsg'[d])
               /\ \A w \in Workers : ~(worker'[d][w].pc \in Holding /\ worker'[d][w].msg = z)
    BY <1>4, <1>6, <1>7 DEF Leads, Held
  <1>8. /\ ConfigLeads(net[<<r, d>>], u)
        /\ <<u, r, d>> \in DOMAIN Sends /\ sent[<<u, r, d>>] > 0 => HasConfig(net[<<r, d>>], u)
    BY <1>4 DEF Leads
  <1>9. CASE <<r, d>> # <<x, y>>
    <2>1. net'[<<r, d>>] = net[<<r, d>>]
      BY <1>5, <1>9 DEF SendTo, OverlayTypeOK
    <2>2. <<u, r, d>> \in DOMAIN Sends => sent'[<<u, r, d>>] = sent[<<u, r, d>>]
      BY <1>6, <1>9
    <2> QED
      BY <1>4, <1>7, <1>8, <2>1, <2>2, LeadsNext
  <1>10. CASE <<r, d>> = <<x, y>> /\ net' = [net EXCEPT ![<<x, y>>] = @ \o <<c, m>>]
    <2>1. /\ net'[<<r, d>>] = Append(Append(net[<<r, d>>], c), m)
          /\ net[<<r, d>>] \in Seq(Message)
      <3>1. net'[<<x, y>>] = Append(Append(net[<<x, y>>], c), m)
        <4>1. net'[<<x, y>>] = net[<<x, y>>] \o <<c, m>>
          BY <1>5, <1>10 DEF OverlayTypeOK
        <4> QED
          BY <1>5, <4>1, AppendBoth
      <3> QED
        BY <1>5, <1>10, <3>1
    <2>2. PICK q \in Seq(Message) : q = Append(net[<<r, d>>], c)
      BY <2>1, AppendElements
    <2>3. /\ ConfigLeads(q, u) /\ (HasConfig(net[<<r, d>>], u) => HasConfig(q, u))
          /\ u = t => HasConfig(q, u)
      BY <1>3, <1>8, <2>1, <2>2, ConfigAppend DEF IsProto, IsConfig
    <2>4. /\ ConfigLeads(net'[<<r, d>>], u)
          /\ HasConfig(q, u) => HasConfig(net'[<<r, d>>], u)
      <3>1. IsProto(m, u) => HasConfig(q, u)
        BY <1>2, <2>3 DEF IsProto
      <3>2. net'[<<r, d>>] = Append(q, m)
        BY <2>1, <2>2
      <3>3. /\ ConfigLeads(Append(q, m), u)
            /\ HasConfig(q, u) => HasConfig(Append(q, m), u)
        BY <2>3, <3>1, ConfigAppend
      <3> QED
        BY <3>2, <3>3
    <2>5. <<u, r, d>> \in DOMAIN Sends /\ sent'[<<u, r, d>>] > 0 => HasConfig(net'[<<r, d>>], u)
      BY <1>6, <1>8, <2>3, <2>4
    <2> QED
      BY <1>4, <1>7, <2>4, <2>5, LeadsNext
  <1>11. CASE /\ <<r, d>> = <<x, y>> /\ net' = [net EXCEPT ![<<x, y>>] = Append(@, m)]
              /\ ~(n = 0 /\ x = Root[t])
    <2>1. net'[<<r, d>>] = Append(net[<<r, d>>], m) /\ net[<<r, d>>] \in Seq(Message)
      BY <1>5, <1>11, AppendedNet
    <2>2. ASSUME u = t PROVE HasConfig(net[<<r, d>>], u)
      <3>1. r = x /\ d = y /\ n # 0
        BY <1>4, <1>11, <2>2
      <3>2. <<u, r, d>> \in DOMAIN Sends /\ sent[<<u, r, d>>] > 0
        BY <1>1, <2>2, <3>1, SMTT(60)
      <3> QED
        BY <1>8, <3>2
    <2>3. IsProto(m, u) => HasConfig(net[<<r, d>>], u)
      BY <1>2, <2>2 DEF IsProto
    <2>4. /\ ConfigLeads(net'[<<r, d>>], u)
          /\ HasConfig(net[<<r, d>>], u) => HasConfig(net'[<<r, d>>], u)
      BY <1>8, <2>1, <2>3, ConfigAppend, SMTT(60)
    <2>5. <<u, r, d>> \in DOMAIN Sends /\ sent'[<<u, r, d>>] > 0 => HasConfig(net'[<<r, d>>], u)
      BY <1>6, <1>8, <2>2, <2>4
    <2> QED
      BY <1>4, <1>7, <2>4, <2>5, LeadsNext
  <1>12. \/ net' = [net EXCEPT ![<<x, y>>] = @ \o <<c, m>>]
         \/ net' = [net EXCEPT ![<<x, y>>] = Append(@, m)] /\ ~(n = 0 /\ x = Root[t])
    BY <1>1, <1>2, <1>3, <1>5 DEF SendTo, ConfigFirst
  <1> QED
    BY <1>9, <1>10, <1>11, <1>12

LEMMA SendToConfig ==
    ASSUME OverlayTypeOK, ConfigInv, NEW t \in Trees, NEW x \in Servers, NEW y \in Servers,
           <<t, x, y>> \in DOMAIN Sends, SendTo(t, x, y)
    PROVE  ConfigInv'
  <1>1. UNCHANGED <<firstFrom, started, configured, configs, failed>>
    BY DEF SendTo, tokens, local
  <1>2. ASSUME NEW d \in Servers \ failed', NEW u \in Trees
        PROVE  ConfigAt(d, u)'
    <2>1. ConfigAt(d, u) /\ (Leads(u, Root[u], d) => Leads(u, Root[u], d)')
      BY <1>1, SendToLeads DEF ConfigInv
    <2> QED
      BY <1>1, <2>1, ConfigFrame
  <1> QED
    BY <1>2 DEF ConfigInv

LEMMA RestartConfig ==
    ASSUME OverlayTypeOK, ConfigInv, NEW x \in Servers, Restart(x)
    PROVE  ConfigInv'
  <1>1. ASSUME NEW d \in Servers \ failed', NEW t \in Trees
        PROVE  ConfigAt(d, t)'
    <2>1. ConfigAt(d, t) /\ Root[t] \in Servers /\ d \in Servers \ {x}
      BY RestartLoses, OverlayAssumption, SMTT(60) DEF ConfigInv
    <2>2. /\ net'[<<Root[t], d>>] = net[<<Root[t], d>>] /\ UNCHANGED sent
          /\ KeepsList(d) /\ \A w \in Workers : KeepsHeld(d, w)
      <3>1. /\ net'[<<Root[t], d>>] = net[<<Root[t], d>>] /\ UNCHANGED sent
            /\ pendingMsg'[d] = pendingMsg[d] /\ worker'[d] = worker[d]
        BY <2>1, RestartLoses, SMTT(60)
      <3> QED
        BY <3>1 DEF KeepsList, KeepsHeld
    <2>3. Leads(t, Root[t], d) => Leads(t, Root[t], d)'
      BY <2>1, <2>2, LeadsFrame
    <2>4. /\ firstFrom'[d] = firstFrom[d] /\ started'[d] = started[d]
          /\ configured'[d] = configured[d] /\ configs'[d] = configs[d]
          /\ failed \subseteq failed'
      BY <2>1, RestartLoses
    <2> QED
      BY <2>1, <2>3, <2>4, ConfigFrame
  <1> QED
    BY <1>1 DEF ConfigInv

LEMMA ConfigStep ==
    ASSUME OverlayTypeOK, MemoryInv, UniqueInv, ConfigInv, [Next]_vars
    PROVE  ConfigInv'
  <1>1. ASSUME NEW x \in Servers, NEW y \in Servers,
               \/ handleRequestTree(x, y) \/ handleRequestRoster(x, y)
               \/ handleSendTree(x, y) \/ handleSendRoster(x, y)
        PROVE  ConfigInv'
    <2>1. UNCHANGED configs /\ Head(net[<<x, y>>]).kind # "config"
      BY <1>1 DEF handleRequestTree, handleRequestRoster, handleSendTree, handleSendRoster,
                  Received, local
    <2> QED
      BY <1>1, <2>1, HandlersKeep, HandlersConfig
  <1>2. ASSUME NEW s \in Servers, NEW t \in Trees, checkPendingMessages(s, t)
        PROVE  ConfigInv'
    <2>1. /\ worker'[s]["pending"].pc = "next"
          /\ \A x \in Servers, v \in Workers :
                <<x, v>> # <<s, "pending">> => worker'[x][v] = worker[x][v]
          /\ UNCHANGED <<net, pendingMsg, configs, firstFrom, started, configured, sent, failed>>
      BY <1>2, CheckPendingMoves DEF tokens
    <2>2. KeepsHeld(s, "pending") /\ "pending" \in Workers
      BY <2>1 DEF KeepsHeld, Holding, Workers
    <2>3. \A d \in Servers \ failed', u \in Trees : ConfigAt(d, u)'
      BY <2>1, <2>2, GoesOnConfig
    <2> QED
      BY <2>3 DEF ConfigInv
  <1>3. ASSUME NEW s \in Servers, NEW t \in Trees, Node(s, t) \/ DoneInstance(s, t)
        PROVE  ConfigInv'
    BY <1>3, QuietConfig DEF Node, DoneInstance, tokens, local
  <1>4. ASSUME NEW s \in Servers, CloseOverlay(s)
        PROVE  ConfigInv'
    BY <1>4, QuietConfig DEF CloseOverlay, local
  <1>5. ASSUME NEW t \in Trees, CreateProtocol(t)
        PROVE  ConfigInv'
    <2>1. \A d \in Servers, u \in Trees : started[d][u] = 1 => started'[d][u] = 1
      BY <1>5 DEF CreateProtocol, OverlayTypeOK
    <2> QED
      BY <1>5, <2>1, QuietConfig DEF CreateProtocol
  <1>6. CASE UNCHANGED vars
    BY <1>6, QuietConfig DEF vars, tokens, local
  <1>7. OnceInv
    BY DEF UniqueInv
  <1> QED
    BY OverlayCases, HandleConfigMessageConfig, ProcessMsgConfig, RequestTreeConfig,
       NextPendingConfig, TransmitConfig, CreateInstanceConfig, SendToConfig, RestartConfig,
       <1>1, <1>2, <1>3, <1>4, <1>5, <1>6, <1>7

LEMMA ConfigInit ==
    ASSUME Init
    PROVE  ConfigInv
  <1>1. /\ \A x, y \in Servers : net[<<x, y>>] = <<>>
        /\ \A s \in Servers : pendingMsg[s] = <<>>
        /\ \A s \in Servers, w \in Workers : worker[s][w].pc = "idle"
        /\ \A s \in Servers, t \in Trees : firstFrom[s][t] = Nothing
        /\ \A l \in DOMAIN Sends : sent[l] = 0
    BY DEF Init, Idle
  <1>2. ASSUME NEW d \in Servers, NEW t \in Trees
        PROVE  ConfigAt(d, t)
    <2>1. Root[t] \in Servers /\ Root[t] # Nothing
      BY OverlayAssumption
    <2>2. ConfigLeads(net[<<Root[t], d>>], t)
      BY <1>1, <2>1, SMTT(60) DEF ConfigLeads
    <2>3. \A m \in Proto : ~In(m, pendingMsg[d]) /\ \A w \in Workers : ~Held(d, w, m)
      BY <1>1, SMTT(60) DEF In, Held, Holding
    <2>4. Leads(t, Root[t], d)
      BY <1>1, <2>2, <2>3, SMTT(60) DEF Leads
    <2> QED
      BY <1>1, <2>1, <2>4 DEF ConfigAt
  <1> QED
    BY <1>2 DEF ConfigInv

-----------------------------------------------------------------------------
OverlayInv ==
    /\ OverlayTypeOK /\ MuxInv /\ MemoryInv /\ VirginInv
    /\ RosterInv /\ UniqueInv /\ ConfigInv

LEMMA OverlayInvariant == Spec => []OverlayInv
  <1>1. Init => OverlayInv
    BY TypeInit, InstanceInit, RosterInit, UniqueInit, ConfigInit DEF OverlayInv
  <1>2. OverlayInv /\ [Next]_vars => OverlayInv'
    BY TypeStep, MemoryStep, VirginStep, RosterStep, UniqueStep, ConfigStep DEF OverlayInv
  <1> QED
    BY <1>1, <1>2, PTL DEF Spec

\* What UniqueInv says of the list of the messages that were passed to an instance.
LEMMA OnceIsNotTwice ==
    ASSUME OverlayTypeOK, UniqueInv
    PROVE  NotTwice
  <1>1. ASSUME NEW s \in Servers, NEW i \in DOMAIN got[s], NEW j \in DOMAIN got[s],
               got[s][i] = got[s][j]
        PROVE  i = j
    <2>1. PICK q \in Seq(Proto) : q = got[s] /\ Once(q)
      <3>1. got[s] \in Seq(Proto)
        BY DEF OverlayTypeOK
      <3> QED
        BY <3>1 DEF UniqueInv, OnceInv
    <2>2. DOMAIN q = 1..Len(q) /\ \A k \in 1..Len(q) : q[k] \in Proto
      BY SMTT(60)
    <2>3. i \in 1..Len(q) /\ j \in 1..Len(q) /\ q[i] = q[j]
      BY <1>1, <2>1, <2>2
    <2>4. q[i].kind = "proto"
      BY <2>2, <2>3 DEF Proto
    <2> QED
      BY <2>1, <2>3, <2>4 DEF Once
  <1> QED
    BY <1>1 DEF NotTwice

\* No handler returns with pendingTreeLock held, no message is passed to an instance
\* twice although the pending ones are looked for again and again, and an instance that
\* is created for a message of the root has its config: whichever servers shut down or
\* restart, and whatever the order in which messages, trees and rosters arrive.
THEOREM HandledInTimeHolds == Spec => []HandledInTime
  <1>1. OverlayInv => NeverLeftLocked
    BY DEF OverlayInv, RosterInv, NeverLeftLocked
  <1>2. OverlayInv => NotTwice
    BY OnceIsNotTwice DEF OverlayInv
  <1>3. OverlayInv => ConfigInTime
    BY DEF OverlayInv, ConfigInv, ConfigAt, ConfigInTime
  <1>4. OverlayInv => HandledInTime
    BY <1>1, <1>2, <1>3 DEF HandledInTime
  <1> QED
    BY <1>4, OverlayInvariant, PTL


=============================================================================
