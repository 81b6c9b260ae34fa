------------------------ MODULE OverlayUniqueProofs -------------------------
(***************************************************************************)
(* Overlay: no handler returns with the lock of the pending trees, and a   *)
(* message is in one place, once.                                          *)
(***************************************************************************)
EXTENDS OverlayInstanceProofs

\* Leaves are for Zenon; those with arithmetic, and a few others, cite SMTT.
USE ZenonT(60)

-----------------------------------------------------------------------------
(* The inductive invariants. *)

\* A roster is only asked for by, and only on its way to, a server where a tree that
\* is made of it waits.
RosterInv ==
    \A d \in Servers \ failed :
        /\ ~treeLocked[d]
        /\ \A x \in Servers, m \in Message :
              \/ m.kind = "reqRoster" /\ In(m, net[<<d, x>>])
              \/ m.kind = "roster" /\ m.id # Nothing /\ In(m, net[<<x, d>>])
              => \E t \in pendingTree[d] : RosterOf[t] = m.id

\* The places where a message for d can be.
Places == {"wire", "list", "router", "pending", "got"}
At(d, p) ==
    {m \in Proto : CASE p = "wire" -> In(m, net[<<m.from, d>>])
                     [] p = "list" -> In(m, pendingMsg[d])
                     [] p = "router" -> Held(d, "router", m)
                     [] p = "pending" -> Held(d, "pending", m)
                     [] p = "got" -> In(m, got[d])}

\* A message is in one place only, and was sent.
Apart(d) ==
    /\ \A p, q \in Places : p # q => At(d, p) \cap At(d, q) = {}
    /\ \A p \in Places : \A m \in At(d, p) :
          <<m.id, m.from, d>> \in DOMAIN Sends /\ m.nr <= sent[<<m.id, m.from, d>>]

\* It is there once, and on the network on the way from its sender.
OnceInv ==
    /\ \A s, d \in Servers : /\ Once(net[<<s, d>>])
                             /\ \A m \in Proto : In(m, net[<<s, d>>]) => m.from = s
    /\ \A d \in Servers : Once(pendingMsg[d]) /\ Once(got[d])

UniqueInv == OnceInv /\ \A d \in Servers : Apart(d)

-----------------------------------------------------------------------------
(* Rosters. *)

LEMMA RosterFrame ==
    ASSUME OverlayTypeOK, RosterInv, failed \subseteq failed',
           \A d \in Servers \ failed' : /\ ~treeLocked'[d]
                                        /\ pendingTree[d] \subseteq pendingTree'[d],
           \A d \in Servers \ failed', x \in Servers, m \in Message :
              m.kind = "reqRoster" /\ In(m, net'[<<d, x>>]) =>
                 In(m, net[<<d, x>>]) \/ \E t \in pendingTree'[d] : RosterOf[t] = m.id,
           \A d \in Servers \ failed', x \in Servers, m \in Message :
              m.kind = "roster" /\ m.id # Nothing /\ In(m, net'[<<x, d>>]) =>
                 In(m, net[<<x, d>>]) \/ \E t \in pendingTree'[d] : RosterOf[t] = m.id
    PROVE  RosterInv'
  <1>1. ASSUME NEW d \in Servers \ failed', NEW x \in Servers, NEW m \in Message,
               \/ m.kind = "reqRoster" /\ In(m, net'[<<d, x>>])
               \/ m.kind = "roster" /\ m.id # Nothing /\ In(m, net'[<<x, d>>])
        PROVE  \E t \in pendingTree'[d] : RosterOf[t] = m.id
    <2>1. d \in Servers \ failed
      OBVIOUS
    <2>2. \/ \E t \in pendingTree'[d] : RosterOf[t] = m.id
          \/ m.kind = "reqRoster" /\ In(m, net[<<d, x>>])
          \/ m.kind = "roster" /\ m.id # Nothing /\ In(m, net[<<x, d>>])
      BY <1>1
    <2>3. \/ \E t \in pendingTree'[d] : RosterOf[t] = m.id
          \/ \E t \in pendingTree[d] : RosterOf[t] = m.id
      BY <2>1, <2>2 DEF RosterInv
    <2> QED
      BY <2>3
  <1> QED
    BY <1>1 DEF RosterInv, In

\* Steps that put no roster and no request for one on the network.
LEMMA OtherRoster ==
    ASSUME OverlayTypeOK, RosterInv, failed \subseteq failed', UNCHANGED <<treeLocked, pendingTree>>,
           \A l \in Links, m \in Message :
              m.kind \in {"reqRoster", "roster"} /\ In(m, net'[l]) => In(m, net[l])
    PROVE  RosterInv'
  <1>1. \A d \in Servers \ failed' : ~treeLocked'[d]
    BY DEF RosterInv
  <1>2. \A d, x \in Servers : <<d, x>> \in Links
    BY DEF Links
  <1> QED
    BY <1>1, <1>2, RosterFrame

LEMMA SendToRoster ==
    ASSUME OverlayTypeOK, RosterInv, NEW t \in Trees, NEW s \in Servers, NEW d \in Servers,
           <<t, s, d>> \in DOMAIN Sends, SendTo(t, s, d)
    PROVE  RosterInv'
  <1>1. PICK m \in Message : m = Msg("proto", t, s, sent[<<t, s, d>>] + 1) /\ m.kind = "proto"
    <2>1. sent[<<t, s, d>>] + 1 \in Nat
      BY SMTT(60) DEF OverlayTypeOK
    <2> QED
      BY <2>1, MessageTypes DEF Msg
  <1>2. PICK c \in Message : c = Msg("config", t, s, 0) /\ c.kind = "config"
    BY MessageTypes DEF Msg
  <1>3. <<s, d>> \in Links /\ net[<<s, d>>] \o <<m>> = Append(net[<<s, d>>], m)
    BY AppendBoth, SMTT(60) DEF Links, OverlayTypeOK
  <1>4. \A l \in Links : \A y : In(y, net'[l]) => In(y, net[l]) \/ y \in {c, m}
    <2>1. CASE net' = [net EXCEPT ![<<s, d>>] = @ \o <<c, m>>]
      BY <1>2, <1>3, <2>1, ConfigAppendedNet
    <2>2. CASE net' = [net EXCEPT ![<<s, d>>] = Append(@, m)]
      BY <1>3, <2>2, AppendedNet
    <2> QED
      BY <1>1, <1>2, <1>3, <2>1, <2>2 DEF SendTo, ConfigFirst
  <1>5. \A l \in Links, y \in Message :
           y.kind \in {"reqRoster", "roster"} /\ In(y, net'[l]) => In(y, net[l])
    BY <1>1, <1>2, <1>4
  <1>6. UNCHANGED <<treeLocked, pendingTree, failed>>
    BY DEF SendTo, local
  <1> QED
    BY <1>5, <1>6, OtherRoster

LEMMA TakenRoster ==
    ASSUME OverlayTypeOK, RosterInv, NEW s \in Servers, NEW d \in Servers,
           handleConfigMessage(s, d) \/ ProcessMsg(s, d)
    PROVE  RosterInv'
  <1>1. /\ net[<<s, d>>] # <<>> /\ net' = Taken(s, d)
        /\ UNCHANGED <<treeLocked, pendingTree, failed>>
    BY DEF handleConfigMessage, ProcessMsg, Received, local
  <1>2. \A l \in Links : \A m : In(m, net'[l]) => In(m, net[l])
    BY <1>1, TakenNet
  <1> QED
    BY <1>1, <1>2, OtherRoster

LEMMA HandleRequestTreeRoster ==
    ASSUME OverlayTypeOK, RosterInv, NEW s \in Servers, NEW d \in Servers,
           handleRequestTree(s, d)
    PROVE  RosterInv'
  <1>1. net[<<s, d>>] # <<>> /\ Head(net[<<s, d>>]).id \in Trees
        /\ UNCHANGED <<treeLocked, pendingTree, failed>>
    BY HeadMessage, KindTypes DEF handleRequestTree, local
  <1>2. PICK x \in Message : x.kind = "tree" /\ net' = Answered(s, d, x)
    <2>1. PICK u \in Trees \cup {Nothing} : net' = Answered(s, d, Msg("tree", u, d, 0))
      BY <1>1 DEF handleRequestTree
    <2>2. Msg("tree", u, d, 0) \in Message /\ Msg("tree", u, d, 0).kind = "tree"
      BY <1>1, MessageTypes DEF Msg
    <2> QED
      BY <2>1, <2>2
  <1>3. \A l \in Links : \A m : In(m, net'[l]) => In(m, net[l]) \/ m = x
    BY <1>1, <1>2, AnsweredNet
  <1>4. \A l \in Links, m \in Message :
           m.kind \in {"reqRoster", "roster"} /\ In(m, net'[l]) => In(m, net[l])
    BY <1>2, <1>3
  <1> QED
    BY <1>1, <1>4, OtherRoster

LEMMA HandleRequestRosterRoster ==
    ASSUME OverlayTypeOK, RosterInv, NEW s \in Servers, NEW d \in Servers,
           handleRequestRoster(s, d)
    PROVE  RosterInv'
  <1>1. PICK h \in Message : h = Head(net[<<s, d>>]) /\ h.kind = "reqRoster" /\ h.id \in Rosters
                             /\ In(h, net[<<s, d>>])
    BY HeadMessage, KindTypes DEF handleRequestRoster
  <1>2. net[<<s, d>>] # <<>> /\ UNCHANGED <<treeLocked, pendingTree, failed>>
    BY HeadMessage DEF handleRequestRoster, local
  <1>3. PICK x \in Message :
           x.kind = "roster" /\ x.id \in {h.id, Nothing} /\ net' = Answered(s, d, x)
    <2>1. PICK r \in {h.id, Nothing} : net' = Answered(s, d, Msg("roster", r, d, 0))
      BY <1>1 DEF handleRequestRoster
    <2>2. PICK t \in Trees : TRUE
      BY <1>1 DEF Rosters
    <2>3. Msg("roster", r, d, 0) \in Message
      BY <1>1, <2>2, MessageTypes
    <2>4. Msg("roster", r, d, 0).kind = "roster" /\ Msg("roster", r, d, 0).id = r
      BY DEF Msg
    <2> QED
      BY <2>1, <2>3, <2>4
  <1>4. \A l \in Links : \A m : In(m, net'[l]) => In(m, net[l]) \/ (l = <<d, s>> /\ m = x)
    BY <1>2, <1>3, AnsweredNet
  <1>5. \A e \in Servers \ failed' : ~treeLocked'[e] /\ pendingTree[e] \subseteq pendingTree'[e]
    BY <1>2 DEF RosterInv
  <1>6. ASSUME NEW e \in Servers \ failed', NEW y \in Servers, NEW m \in Message,
               m.kind = "reqRoster", In(m, net'[<<e, y>>])
        PROVE  In(m, net[<<e, y>>])
    BY <1>3, <1>4, <1>6 DEF Links
  <1>7. ASSUME NEW e \in Servers \ failed', NEW y \in Servers, NEW m \in Message,
               m.kind = "roster", m.id # Nothing, In(m, net'[<<y, e>>]), ~In(m, net[<<y, e>>])
        PROVE  \E t \in pendingTree'[e] : RosterOf[t] = m.id
    <2>1. <<y, e>> = <<d, s>> /\ m = x
      BY <1>4, <1>7 DEF Links
    <2>2. e = s /\ m.id = h.id /\ e \in Servers \ failed
      BY <1>2, <1>3, <1>7, <2>1
    <2>3. \E t \in pendingTree[s] : RosterOf[t] = h.id
      BY <1>1, <2>2 DEF RosterInv
    <2> QED
      BY <1>2, <2>2, <2>3
  <1> QED
    BY <1>2, <1>5, <1>6, <1>7, RosterFrame, SMTT(60)

LEMMA HandleSendTreeRoster ==
    ASSUME OverlayTypeOK, RosterInv, NEW s \in Servers, NEW d \in Servers, handleSendTree(s, d)
    PROVE  RosterInv'
  <1>1. PICK t \in Trees \cup {Nothing} : t = Head(net[<<s, d>>]).id
    BY HeadMessage, KindTypes DEF handleSendTree
  <1>2. net[<<s, d>>] # <<>> /\ UNCHANGED <<treeLocked, failed>>
    BY HeadMessage DEF handleSendTree
  <1>3. CASE net' = Taken(s, d) /\ UNCHANGED pendingTree
    <2>1. \A l \in Links : \A m : In(m, net'[l]) => In(m, net[l])
      BY <1>2, <1>3, TakenNet
    <2> QED
      BY <1>2, <1>3, <2>1, OtherRoster
  <1>4. CASE /\ t # Nothing
             /\ net' = Answered(s, d, Msg("reqRoster", RosterOf[t], d, 0))
             /\ pendingTree' = IF treeLocked[d] THEN pendingTree ELSE Add(pendingTree, d, t)
    <2>1. PICK x \in Message :
             x.kind = "reqRoster" /\ x.id = RosterOf[t] /\ net' = Answered(s, d, x)
      BY <1>4, MessageTypes DEF Msg
    <2>2. \A l \in Links : \A m : In(m, net'[l]) => In(m, net[l]) \/ (l = <<d, s>> /\ m = x)
      BY <1>2, <2>1, AnsweredNet
    <2>3. \A e \in Servers : pendingTree[e] \subseteq pendingTree'[e]
      BY <1>4 DEF Add, OverlayTypeOK
    <2>4. ~treeLocked[d] => t \in pendingTree'[d]
      BY <1>4 DEF Add, OverlayTypeOK
    <2>5. \A e \in Servers \ failed' : ~treeLocked'[e] /\ pendingTree[e] \subseteq pendingTree'[e]
      BY <1>2, <2>3 DEF RosterInv
    <2>6. ASSUME NEW e \in Servers \ failed', NEW y \in Servers, NEW m \in Message,
                 m.kind = "roster", In(m, net'[<<y, e>>])
          PROVE  In(m, net[<<y, e>>])
      BY <2>1, <2>2, <2>6 DEF Links
    <2>7. ASSUME NEW e \in Servers \ failed', NEW y \in Servers, NEW m \in Message,
                 m.kind = "reqRoster", In(m, net'[<<e, y>>]), ~In(m, net[<<e, y>>])
          PROVE  \E u \in pendingTree'[e] : RosterOf[u] = m.id
      <3>1. e = d /\ m = x
        BY <2>2, <2>7, SMTT(60) DEF Links
      <3>2. t \in pendingTree'[e]
        BY <1>2, <2>4, <3>1 DEF RosterInv
      <3> QED
        BY <2>1, <3>1, <3>2
    <2> QED
      BY <1>2, <2>5, <2>6, <2>7, RosterFrame, SMTT(60)
  <1> QED
    BY <1>1, <1>3, <1>4 DEF handleSendTree

\* A roster that arrives finds a tree that waits for it: the lock is released.
LEMMA HandleSendRosterRoster ==
    ASSUME OverlayTypeOK, RosterInv, NEW s \in Servers, NEW d \in Servers, handleSendRoster(s, d)
    PROVE  RosterInv'
  <1>1. PICK h \in Message : h = Head(net[<<s, d>>]) /\ h.kind = "roster" /\ In(h, net[<<s, d>>])
    BY HeadMessage, KindTypes DEF handleSendRoster
  <1>2. net[<<s, d>>] # <<>> /\ UNCHANGED failed /\ net' = Taken(s, d)
    BY HeadMessage DEF handleSendRoster
  <1>3. \A l \in Links : \A m : In(m, net'[l]) => In(m, net[l])
    BY <1>2, TakenNet
  <1>4. CASE h.id = Nothing \/ treeLocked[d]
    BY <1>1, <1>2, <1>3, <1>4, OtherRoster DEF handleSendRoster, checkPendingTreeMarshal
  <1>5. CASE h.id # Nothing /\ ~treeLocked[d]
    <2>1. checkPendingTreeMarshal(d, h.id)
      BY <1>1, <1>5 DEF handleSendRoster
    <2>2. pendingTree' = pendingTree
      BY <1>5, <2>1 DEF checkPendingTreeMarshal, StillPending, OverlayTypeOK
    <2>3. d \notin failed => {t \in pendingTree[d] : RosterOf[t] = h.id} # {}
      BY <1>1, <1>5 DEF RosterInv
    <2>4. \A e \in Servers \ failed' : ~treeLocked'[e]
      <3>1. treeLocked' = [treeLocked EXCEPT ![d] = {t \in pendingTree[d] : RosterOf[t] = h.id} = {}]
        BY <1>5, <2>1 DEF checkPendingTreeMarshal
      <3>2. \A e \in Servers \ {d} : treeLocked'[e] = treeLocked[e]
        BY <3>1 DEF OverlayTypeOK
      <3>3. d \notin failed => ~treeLocked'[d]
        BY <2>3, <3>1 DEF OverlayTypeOK
      <3> QED
        BY <1>2, <3>2, <3>3 DEF RosterInv
    <2> QED
      BY <1>2, <1>3, <2>2, <2>4, RosterFrame DEF Links
  <1> QED
    BY <1>4, <1>5

LEMMA RestartRoster ==
    ASSUME OverlayTypeOK, RosterInv, NEW s \in Servers, Restart(s)
    PROVE  RosterInv'
  <1>1. \A x, y \in Servers, m \in Message : In(m, net'[<<x, y>>]) => In(m, net[<<x, y>>])
    BY RestartLoses, SMTT(60) DEF In
  <1>2. \A d \in Servers \ failed' : ~treeLocked'[d] /\ pendingTree[d] \subseteq pendingTree'[d]
    BY RestartLoses DEF RosterInv
  <1>3. failed \subseteq failed'
    BY RestartLoses
  <1> QED
    BY <1>1, <1>2, <1>3, RosterFrame

LEMMA RosterStep ==
    ASSUME OverlayTypeOK, RosterInv, [Next]_vars
    PROVE  RosterInv'
  <1>1. ASSUME failed \subseteq failed', UNCHANGED <<treeLocked, pendingTree, net>>
        PROVE  RosterInv'
    BY <1>1, OtherRoster
  <1>2. ASSUME NEW s \in Servers, requestTree(s)
        PROVE  RosterInv'
    <2>1. PICK m \in Proto, q \in Message :
             /\ q.kind = "reqTree" /\ <<s, m.from>> \in Links
             /\ net' = [net EXCEPT ![<<s, m.from>>] = Append(@, q)]
             /\ UNCHANGED <<treeLocked, pendingTree, failed>>
      BY <1>2, RequestTreeMoves
    <2>2. \A l \in Links : \A y : In(y, net'[l]) => In(y, net[l]) \/ y = q
      BY <2>1, AppendedNet
    <2> QED
      BY <2>1, <2>2, OtherRoster
  <1>3. ASSUME NEW s \in Servers, NextPending(s) PROVE RosterInv'
    BY <1>1, <1>3, NextPendingMoves
  <1>4. ASSUME NEW s \in Servers, NEW t \in Trees, checkPendingMessages(s, t) PROVE RosterInv'
    BY <1>1, <1>4, CheckPendingMoves
  <1>5. ASSUME NEW s \in Servers, NEW w \in Workers,
               TransmitMsg(s, w) \/ CreateInstance(s, w) \/ RegisterProtocolInstance(s, w)
        PROVE  RosterInv'
    BY <1>1, <1>5, TransmitKeeps
  <1>6. ASSUME NEW s \in Servers, NEW t \in Trees, Node(s, t) \/ DoneInstance(s, t)
        PROVE  RosterInv'
    BY <1>1, <1>6 DEF Node, DoneInstance, local
  <1>7. ASSUME NEW s \in Servers, CloseOverlay(s) PROVE RosterInv'
    BY <1>1, <1>7 DEF CloseOverlay, local
  <1>8. ASSUME NEW t \in Trees, CreateProtocol(t) PROVE RosterInv'
    BY <1>1, <1>8 DEF CreateProtocol
  <1>9. CASE UNCHANGED vars
    BY <1>1, <1>9 DEF vars, local
  <1> QED
    BY OverlayCases, SendToRoster, TakenRoster, HandleRequestTreeRoster, HandleRequestRosterRoster,
       HandleSendTreeRoster, HandleSendRosterRoster, RestartRoster,
       <1>2, <1>3, <1>4, <1>5, <1>6, <1>7, <1>8, <1>9

LEMMA RosterInit ==
    ASSUME Init
    PROVE  RosterInv
  <1>1. /\ \A d \in Servers : ~treeLocked[d]
        /\ \A x, y \in Servers : net[<<x, y>>] = <<>>
    BY DEF Init
  <1>2. \A m : ~In(m, <<>>)
    BY SMTT(60) DEF In
  <1> QED
    BY <1>1, <1>2 DEF RosterInv

-----------------------------------------------------------------------------
(* A message is in one place. *)

LEMMA AtEach ==
    ASSUME NEW d \in Servers, NEW m \in Proto
    PROVE  /\ m \in At(d, "wire") <=> In(m, net[<<m.from, d>>])
           /\ m \in At(d, "list") <=> In(m, pendingMsg[d])
           /\ m \in At(d, "router") <=> Held(d, "router", m)
           /\ m \in At(d, "pending") <=> Held(d, "pending", m)
           /\ m \in At(d, "got") <=> In(m, got[d])
  BY DEF At

LEMMA AtEachNext ==
    ASSUME NEW d \in Servers, NEW m \in Proto
    PROVE  /\ m \in At(d, "wire")' <=> In(m, net'[<<m.from, d>>])
           /\ m \in At(d, "list")' <=> In(m, pendingMsg'[d])
           /\ m \in At(d, "router")' <=>
                 worker'[d]["router"].pc \in Holding /\ worker'[d]["router"].msg = m
           /\ m \in At(d, "pending")' <=>
                 worker'[d]["pending"].pc \in Holding /\ worker'[d]["pending"].msg = m
           /\ m \in At(d, "got")' <=> In(m, got'[d])
  BY DEF At, Held, In

LEMMA AtTypes ==
    ASSUME NEW d, NEW p
    PROVE  At(d, p) \subseteq Proto /\ At(d, p)' \subseteq Proto
  BY DEF At

\* Nothing comes to a place.
LEMMA Staying ==
    ASSUME NEW d \in Servers, Apart(d), UNCHANGED sent,
           \A p \in Places : At(d, p)' \subseteq At(d, p)
    PROVE  Apart(d)'
  <1>1. \A p, q \in Places : p # q => At(d, p)' \cap At(d, q)' = {}
    BY DEF Apart
  <1>2. \A p \in Places : \A m \in At(d, p)' :
           <<m.id, m.from, d>> \in DOMAIN Sends /\ m.nr <= sent'[<<m.id, m.from, d>>]
    BY DEF Apart
  <1> QED
    BY <1>1, <1>2 DEF Apart

\* One message goes from place p to place q.
LEMMA Moving ==
    ASSUME NEW d \in Servers, Apart(d), UNCHANGED sent,
           NEW m \in Proto, NEW p \in Places, NEW q \in Places,
           m \in At(d, p), p # q => m \notin At(d, p)',
           At(d, q)' \subseteq At(d, q) \cup {m},
           \A r \in Places \ {q} : At(d, r)' \subseteq At(d, r)
    PROVE  Apart(d)'
  <1>1. \A r \in Places \ {q} : m \notin At(d, r)'
    BY DEF Apart
  <1>2. \A r, u \in Places : r # u => At(d, r)' \cap At(d, u)' = {}
    BY <1>1, SMTT(60) DEF Apart
  <1>3. \A r \in Places : \A x \in At(d, r)' :
           <<x.id, x.from, d>> \in DOMAIN Sends /\ x.nr <= sent'[<<x.id, x.from, d>>]
    BY SMTT(60) DEF Apart
  <1> QED
    BY <1>2, <1>3 DEF Apart

\* What a server keeps where it is.
KeepsWire(d) == \A x \in Servers, m \in Proto : In(m, net'[<<x, d>>]) => In(m, net[<<x, d>>])
KeepsList(d) == \A m \in Proto : In(m, pendingMsg'[d]) => In(m, pendingMsg[d])
KeepsGot(d) == \A m \in Proto : In(m, got'[d]) => In(m, got[d])
KeepsHeld(d, w) ==
    worker'[d][w].pc \in Holding =>
        worker[d][w].pc \in Holding /\ worker'[d][w].msg = worker[d][w].msg

LEMMA KeptPlaces ==
    ASSUME NEW d \in Servers
    PROVE  /\ KeepsWire(d) => At(d, "wire")' \subseteq At(d, "wire")
           /\ KeepsList(d) => At(d, "list")' \subseteq At(d, "list")
           /\ KeepsGot(d) => At(d, "got")' \subseteq At(d, "got")
           /\ KeepsHeld(d, "router") => At(d, "router")' \subseteq At(d, "router")
           /\ KeepsHeld(d, "pending") => At(d, "pending")' \subseteq At(d, "pending")
  <1>1. \A m \in Proto : m.from \in Servers
    BY DEF Proto
  <1>2. KeepsWire(d) => At(d, "wire")' \subseteq At(d, "wire")
    BY <1>1, AtTypes, AtEach, AtEachNext DEF KeepsWire
  <1>3. KeepsList(d) => At(d, "list")' \subseteq At(d, "list")
    BY AtTypes, AtEach, AtEachNext DEF KeepsList
  <1>4. KeepsGot(d) => At(d, "got")' \subseteq At(d, "got")
    BY AtTypes, AtEach, AtEachNext DEF KeepsGot
  <1>5. ASSUME KeepsHeld(d, "router"), NEW m \in At(d, "router")'
        PROVE  m \in At(d, "router")
    <2>1. m \in Proto
      BY AtTypes
    <2>2. worker'[d]["router"].pc \in Holding /\ worker'[d]["router"].msg = m
      BY <2>1, AtEachNext
    <2> QED
      BY <1>5, <2>1, <2>2, AtEach DEF KeepsHeld, Held
  <1>6. ASSUME KeepsHeld(d, "pending"), NEW m \in At(d, "pending")'
        PROVE  m \in At(d, "pending")
    <2>1. m \in Proto
      BY AtTypes
    <2>2. worker'[d]["pending"].pc \in Holding /\ worker'[d]["pending"].msg = m
      BY <2>1, AtEachNext
    <2> QED
      BY <1>6, <2>1, <2>2, AtEach DEF KeepsHeld, Held
  <1> QED
    BY <1>2, <1>3, <1>4, <1>5, <1>6

LEMMA Elsewhere ==
    ASSUME NEW d \in Servers, Apart(d), UNCHANGED sent,
           KeepsWire(d), KeepsList(d), KeepsGot(d), \A w \in Workers : KeepsHeld(d, w)
    PROVE  Apart(d)'
  <1>1. \A p \in Places : At(d, p)' \subseteq At(d, p)
    BY KeptPlaces DEF Places, Workers
  <1> QED
    BY <1>1, Staying

LEMMA OnceNext ==
    ASSUME \A x, y \in Servers : Once(net'[<<x, y>>]),
           \A x, y \in Servers, m \in Proto : In(m, net'[<<x, y>>]) => m.from = x,
           \A y \in Servers : Once(pendingMsg'[y]) /\ Once(got'[y])
    PROVE  OnceInv'
  BY DEF OnceInv, Once, In

LEMMA HandlersUnique ==
    ASSUME OverlayTypeOK, UniqueInv, NEW s \in Servers, NEW d \in Servers, Unnoticed(s, d)
    PROVE  UniqueInv'
  <1>1. \A x, y \in Servers : <<x, y>> \in Links
    BY DEF Links
  <1>2. OnceInv'
    <2>1. ASSUME NEW x \in Servers, NEW y \in Servers
          PROVE  Once(net'[<<x, y>>]) /\ \A m \in Proto : In(m, net'[<<x, y>>]) => m.from = x
      BY <1>1, SMTT(60) DEF Unnoticed, UniqueInv, OnceInv
    <2>2. \A y \in Servers : Once(pendingMsg'[y]) /\ Once(got'[y])
      BY DEF Unnoticed, UniqueInv, OnceInv
    <2> QED
      BY <2>1, <2>2, OnceNext
  <1>3. ASSUME NEW e \in Servers
        PROVE  Apart(e)'
    <2>1. KeepsWire(e) /\ KeepsList(e) /\ KeepsGot(e) /\ \A w \in Workers : KeepsHeld(e, w)
      BY <1>1 DEF Unnoticed, KeepsWire, KeepsList, KeepsGot, KeepsHeld, Holding
    <2> QED
      BY <2>1, Elsewhere DEF UniqueInv, Unnoticed
  <1> QED
    BY <1>2, <1>3 DEF UniqueInv

\* The steps that leave the network and the lists alone.
LEMMA QuietUnique ==
    ASSUME OverlayTypeOK, UniqueInv, UNCHANGED <<net, pendingMsg, got, sent>>,
           \A e \in Servers, w \in Workers : KeepsHeld(e, w)
    PROVE  UniqueInv'
  <1>1. OnceInv'
    BY DEF UniqueInv, OnceInv, Once, In
  <1>2. ASSUME NEW e \in Servers
        PROVE  Apart(e)'
    <2>1. KeepsWire(e) /\ KeepsList(e) /\ KeepsGot(e)
      BY DEF KeepsWire, KeepsList, KeepsGot
    <2> QED
      BY <2>1, Elsewhere DEF UniqueInv
  <1> QED
    BY <1>1, <1>2 DEF UniqueInv

LEMMA ProcessMsgUnique ==
    ASSUME OverlayTypeOK, UniqueInv, NEW s \in Servers, NEW d \in Servers, ProcessMsg(s, d)
    PROVE  UniqueInv'
  <1>1. PICK m \in Proto :
              /\ net[<<s, d>>] # <<>> /\ m = Head(net[<<s, d>>]) /\ In(m, net[<<s, d>>])
              /\ net' = Taken(s, d)
              /\ worker[d]["router"].pc = "idle"
              /\ worker'[d]["router"].msg = m
              /\ \A x \in Servers, v \in Workers :
                    <<x, v>> # <<d, "router">> => worker'[x][v] = worker[x][v]
              /\ UNCHANGED <<pendingMsg, sent, got>>
    BY ProcessMsgMoves DEF local
  <1>2. /\ \A x, y \in Servers : <<x, y>> \in Links
        /\ \A x, y \in Servers : Once(net'[<<x, y>>])
        /\ \A x, y \in Servers : \A z : In(z, net'[<<x, y>>]) => In(z, net[<<x, y>>])
        /\ net'[<<s, d>>] = Tail(net[<<s, d>>])
    BY <1>1, TakenNet DEF Links, UniqueInv, OnceInv
  <1>3. m.from = s /\ m.kind = "proto" /\ ~In(m, net'[<<s, d>>])
    <2>1. m.from = s /\ m.kind = "proto" /\ Once(net[<<s, d>>]) /\ net[<<s, d>>] \in Seq(Message)
      BY <1>1, <1>2, SMTT(60) DEF UniqueInv, OnceInv, Proto, OverlayTypeOK
    <2> QED
      BY <1>1, <1>2, <2>1, TailElements
  <1>4. OnceInv'
    <2>1. \A x, y \in Servers, z \in Proto : In(z, net'[<<x, y>>]) => z.from = x
      BY <1>2 DEF UniqueInv, OnceInv
    <2>2. \A y \in Servers : Once(pendingMsg'[y]) /\ Once(got'[y])
      BY <1>1 DEF UniqueInv, OnceInv
    <2> QED
      BY <1>2, <2>1, <2>2, OnceNext
  <1>5. \A e \in Servers : KeepsWire(e) /\ KeepsList(e) /\ KeepsGot(e)
    BY <1>1, <1>2 DEF KeepsWire, KeepsList, KeepsGot
  <1>6. ASSUME NEW e \in Servers, e # d
        PROVE  Apart(e)'
    <2>1. \A w \in Workers : KeepsHeld(e, w)
      BY <1>1, <1>6 DEF KeepsHeld
    <2> QED
      BY <1>1, <1>5, <2>1, Elsewhere DEF UniqueInv
  <1>7. Apart(d)'
    <2>1. m \in At(d, "wire") /\ m \notin At(d, "wire")'
      BY <1>1, <1>3, AtEach, AtEachNext
    <2>2. At(d, "router")' \subseteq At(d, "router") \cup {m}
      BY <1>1, AtTypes, AtEachNext
    <2>3. KeepsHeld(d, "pending")
      BY <1>1 DEF KeepsHeld, Workers
    <2>4. \A r \in Places \ {"router"} : At(d, r)' \subseteq At(d, r)
      BY <1>5, <2>3, KeptPlaces DEF Places
    <2>5. "wire" \in Places /\ "router" \in Places /\ Apart(d) /\ UNCHANGED sent
      BY <1>1 DEF Places, UniqueInv
    <2> QED
      BY <2>1, <2>2, <2>4, <2>5, Moving
  <1> QED
    BY <1>4, <1>6, <1>7 DEF UniqueInv

LEMMA RequestTreeUnique ==
    ASSUME OverlayTypeOK, UniqueInv, NEW s \in Servers, requestTree(s)
    PROVE  UniqueInv'
  <1>1. PICK m \in Proto, q \in Message :
              /\ Held(s, "router", m)
              /\ worker'[s]["router"].pc = "idle"
              /\ \A y \in Servers, v \in Workers :
                    <<y, v>> # <<s, "router">> => worker'[y][v] = worker[y][v]
              /\ pendingMsg' = [pendingMsg EXCEPT ![s] = Append(@, m)]
              /\ q.kind = "reqTree" /\ <<s, m.from>> \in Links
              /\ net' = [net EXCEPT ![<<s, m.from>>] = Append(@, q)]
              /\ UNCHANGED <<sent, got>>
    BY RequestTreeMoves
  <1>2. /\ \A x, y \in Servers : Once(net'[<<x, y>>])
        /\ \A x, y \in Servers : \A z : In(z, net'[<<x, y>>]) => In(z, net[<<x, y>>]) \/ z = q
    <2>1. \A l \in Links : /\ \A z : In(z, net'[l]) => In(z, net[l]) \/ z = q
                           /\ Once(net[l]) => Once(net'[l])
      BY <1>1, AppendedNet
    <2>2. \A x, y \in Servers : <<x, y>> \in Links /\ Once(net[<<x, y>>])
      BY DEF Links, UniqueInv, OnceInv
    <2> QED
      BY <2>1, <2>2
  <1>3. \A x, y \in Servers, z \in Proto : In(z, net'[<<x, y>>]) => In(z, net[<<x, y>>])
    BY <1>1, <1>2 DEF Proto
  <1>4. /\ pendingMsg[s] \in Seq(Proto) /\ pendingMsg'[s] = Append(pendingMsg[s], m)
        /\ \A x \in Servers \ {s} : pendingMsg'[x] = pendingMsg[x]
    BY <1>1 DEF OverlayTypeOK
  <1>5. m \in At(s, "router") /\ ~In(m, pendingMsg[s])
    <2>1. m \in At(s, "router")
      BY <1>1, AtEach
    <2>2. m \notin At(s, "list")
      BY <2>1 DEF UniqueInv, Apart, Places
    <2> QED
      BY <2>1, <2>2, AtEach
  <1>6. OnceInv'
    <2>1. \A x, y \in Servers, z \in Proto : In(z, net'[<<x, y>>]) => z.from = x
      BY <1>3 DEF UniqueInv, OnceInv
    <2>2. Once(pendingMsg'[s])
      BY <1>4, <1>5, AppendElements, SMTT(60) DEF UniqueInv, OnceInv
    <2>3. \A y \in Servers : Once(pendingMsg'[y]) /\ Once(got'[y])
      BY <1>1, <1>4, <2>2 DEF UniqueInv, OnceInv
    <2> QED
      BY <1>2, <2>1, <2>3, OnceNext
  <1>7. \A e \in Servers : KeepsWire(e) /\ KeepsGot(e)
    BY <1>1, <1>3 DEF KeepsWire, KeepsGot
  <1>8. ASSUME NEW e \in Servers, e # s
        PROVE  Apart(e)'
    <2>1. KeepsList(e) /\ \A w \in Workers : KeepsHeld(e, w)
      BY <1>1, <1>4, <1>8 DEF KeepsHeld, KeepsList
    <2> QED
      BY <1>1, <1>7, <2>1, Elsewhere DEF UniqueInv
  <1>9. Apart(s)'
    <2>1. m \notin At(s, "router")'
      BY <1>1, AtEachNext DEF Holding
    <2>2. At(s, "list")' \subseteq At(s, "list") \cup {m}
      <3>1. \A z : In(z, pendingMsg'[s]) => In(z, pendingMsg[s]) \/ z = m
        BY <1>4, AppendElements
      <3> QED
        BY <3>1, AtTypes, AtEach, AtEachNext
    <2>3. KeepsHeld(s, "pending") /\ KeepsHeld(s, "router")
      BY <1>1 DEF KeepsHeld, Workers, Holding
    <2>4. \A r \in Places \ {"list"} : At(s, r)' \subseteq At(s, r)
      BY <1>7, <2>3, KeptPlaces DEF Places
    <2>5. "list" \in Places /\ "router" \in Places /\ Apart(s) /\ UNCHANGED sent
      BY <1>1 DEF Places, UniqueInv
    <2> QED
      BY <1>5, <2>1, <2>2, <2>4, <2>5, Moving
  <1> QED
    BY <1>6, <1>8, <1>9 DEF UniqueInv

LEMMA NextPendingUnique ==
    ASSUME OverlayTypeOK, UniqueInv, NEW s \in Servers, NextPending(s)
    PROVE  UniqueInv'
  <1>1. /\ worker[s]["pending"].pc = "next"
        /\ \A x \in Servers, v \in Workers :
              <<x, v>> # <<s, "pending">> => worker'[x][v] = worker[x][v]
        /\ UNCHANGED <<net, sent, got>>
    BY NextPendingMoves
  <1>2. CASE worker'[s]["pending"].pc = "idle" /\ UNCHANGED pendingMsg
    <2>1. \A e \in Servers, w \in Workers : KeepsHeld(e, w)
      BY <1>1, <1>2 DEF KeepsHeld, Holding
    <2> QED
      BY <1>1, <1>2, <2>1, QuietUnique
  <1>3. CASE \E i \in 1..Len(pendingMsg[s]) :
                /\ pendingMsg' = [pendingMsg EXCEPT ![s] = Without(@, i)]
                /\ worker'[s]["pending"].pc = "transmit"
                /\ worker'[s]["pending"].msg = pendingMsg[s][i]
    <2>1. PICK i \in 1..Len(pendingMsg[s]) :
                /\ pendingMsg' = [pendingMsg EXCEPT ![s] = Without(@, i)]
                /\ worker'[s]["pending"].msg = pendingMsg[s][i]
      BY <1>3
    <2>2. /\ pendingMsg[s] \in Seq(Proto) /\ pendingMsg'[s] = Without(pendingMsg[s], i)
          /\ \A x \in Servers \ {s} : pendingMsg'[x] = pendingMsg[x]
      BY <2>1 DEF OverlayTypeOK
    <2>3. PICK m \in Proto : m = pendingMsg[s][i] /\ m.kind = "proto" /\ In(m, pendingMsg[s])
      <3>1. pendingMsg[s][i] \in Proto /\ In(pendingMsg[s][i], pendingMsg[s])
        BY <2>2, RemovedElements
      <3> QED
        BY <3>1 DEF Proto
    <2>4. /\ \A y : In(y, pendingMsg'[s]) => In(y, pendingMsg[s])
          /\ Once(pendingMsg'[s]) /\ ~In(m, pendingMsg'[s])
      <3>1. Once(pendingMsg[s])
        BY DEF UniqueInv, OnceInv
      <3> QED
        BY <2>2, <2>3, <3>1, RemovedElements, SMTT(60)
    <2>5. OnceInv'
      <3>1. /\ \A x, y \in Servers : Once(net'[<<x, y>>])
            /\ \A x, y \in Servers, z \in Proto : In(z, net'[<<x, y>>]) => z.from = x
        BY <1>1 DEF UniqueInv, OnceInv
      <3>2. \A y \in Servers : Once(pendingMsg'[y]) /\ Once(got'[y])
        BY <1>1, <2>2, <2>4 DEF UniqueInv, OnceInv
      <3> QED
        BY <3>1, <3>2, OnceNext
    <2>6. \A e \in Servers : KeepsWire(e) /\ KeepsGot(e) /\ KeepsList(e)
      BY <1>1, <2>2, <2>4 DEF KeepsWire, KeepsGot, KeepsList
    <2>7. ASSUME NEW e \in Servers, e # s
          PROVE  Apart(e)'
      <3>1. \A w \in Workers : KeepsHeld(e, w)
        BY <1>1, <2>7 DEF KeepsHeld
      <3> QED
        BY <1>1, <2>6, <3>1, Elsewhere DEF UniqueInv
    <2>8. Apart(s)'
      <3>1. m \in At(s, "list") /\ m \notin At(s, "list")'
        BY <2>3, <2>4, AtEach, AtEachNext
      <3>2. At(s, "pending")' \subseteq At(s, "pending") \cup {m}
        BY <2>1, <2>3, AtTypes, AtEachNext
      <3>3. KeepsHeld(s, "router")
        BY <1>1 DEF KeepsHeld, Workers
      <3>4. \A r \in Places \ {"pending"} : At(s, r)' \subseteq At(s, r)
        BY <2>6, <3>3, KeptPlaces DEF Places
      <3>5. "list" \in Places /\ "pending" \in Places /\ Apart(s) /\ UNCHANGED sent
        BY <1>1 DEF Places, UniqueInv
      <3> QED
        BY <3>1, <3>2, <3>4, <3>5, Moving
    <2> QED
      BY <2>5, <2>7, <2>8 DEF UniqueInv
  <1> QED
    BY <1>2, <1>3, NextPendingMoves

\* A message that is passed to its instance leaves the goroutine that had it.
LEMMA PassedUnique ==
    ASSUME OverlayTypeOK, UniqueInv, NEW s \in Servers, NEW w \in Workers, NEW m \in Proto,
           Held(s, w, m), Ends(s, w), got' = [got EXCEPT ![s] = Append(@, m)],
           UNCHANGED <<net, pendingMsg, sent>>
    PROVE  UniqueInv'
  <1>1. /\ worker'[s][w].pc \in {"idle", "next"}
        /\ \A x \in Servers, v \in Workers : <<x, v>> # <<s, w>> => worker'[x][v] = worker[x][v]
    BY EndsMoves DEF Held
  <1>2. /\ got[s] \in Seq(Proto) /\ got'[s] = Append(got[s], m)
        /\ \A x \in Servers \ {s} : got'[x] = got[x]
    BY DEF OverlayTypeOK
  <1>3. w \in Places /\ "got" \in Places /\ w # "got" /\ Apart(s)
    BY DEF Places, Workers, UniqueInv
  <1>4. m \in At(s, w) /\ m \notin At(s, w)'
    <2>1. worker'[s][w].pc \notin Holding
      BY <1>1 DEF Holding
    <2>2. CASE w = "router"
      BY <2>1, <2>2, AtEach, AtEachNext
    <2>3. CASE w = "pending"
      BY <2>1, <2>3, AtEach, AtEachNext
    <2> QED
      BY <2>2, <2>3 DEF Workers
  <1>5. ~In(m, got[s])
    BY <1>3, <1>4, AtEach DEF Apart
  <1>6. OnceInv'
    <2>1. /\ \A x, y \in Servers : Once(net'[<<x, y>>])
          /\ \A x, y \in Servers, z \in Proto : In(z, net'[<<x, y>>]) => z.from = x
      BY DEF UniqueInv, OnceInv
    <2>2. Once(got'[s])
      <3>1. Once(got[s])
        BY DEF UniqueInv, OnceInv
      <3> QED
        BY <1>2, <1>5, <3>1, AppendElements, SMTT(60)
    <2>3. \A y \in Servers : Once(pendingMsg'[y]) /\ Once(got'[y])
      BY <1>2, <2>2 DEF UniqueInv, OnceInv
    <2> QED
      BY <2>1, <2>3, OnceNext
  <1>7. /\ \A e \in Servers : KeepsWire(e) /\ KeepsList(e)
        /\ \A e \in Servers, v \in Workers : KeepsHeld(e, v)
    BY <1>1 DEF KeepsWire, KeepsList, KeepsHeld, Holding
  <1>8. ASSUME NEW e \in Servers, e # s
        PROVE  Apart(e)'
    <2>1. KeepsGot(e)
      BY <1>2, <1>8 DEF KeepsGot
    <2> QED
      BY <1>7, <2>1, Elsewhere DEF UniqueInv
  <1>9. Apart(s)'
    <2>1. At(s, "got")' \subseteq At(s, "got") \cup {m}
      <3>1. PICK q \in Seq(Proto) : q = got[s] /\ got'[s] = Append(q, m)
        BY <1>2
      <3>2. \A z : In(z, Append(q, m)) <=> In(z, q) \/ z = m
        BY AppendElements, SMTT(60)
      <3>3. \A z : In(z, got'[s]) => In(z, got[s]) \/ z = m
        BY <3>1, <3>2
      <3> QED
        BY <3>3, AtTypes, AtEach, AtEachNext
    <2>2. \A r \in Places \ {"got"} : At(s, r)' \subseteq At(s, r)
      BY <1>7, KeptPlaces DEF Places, Workers
    <2> QED
      BY <1>3, <1>4, <2>1, <2>2, Moving
  <1> QED
    BY <1>6, <1>8, <1>9 DEF UniqueInv

LEMMA TransmitUnique ==
    ASSUME OverlayTypeOK, UniqueInv, NEW s \in Servers, NEW w \in Workers,
           TransmitMsg(s, w) \/ CreateInstance(s, w) \/ RegisterProtocolInstance(s, w)
    PROVE  UniqueInv'
  <1>1. /\ worker[s][w].pc \in Holding
        /\ worker'[s][w].pc \in Holding => worker'[s][w].msg = worker[s][w].msg
        /\ \A x \in Servers, v \in Workers : <<x, v>> # <<s, w>> => worker'[x][v] = worker[x][v]
        /\ UNCHANGED <<net, pendingMsg, sent>>
    BY TransmitKeeps
  <1>2. PICK m \in Proto : m = worker[s][w].msg
    BY <1>1, PlaceTypes
  <1>3. CASE UNCHANGED got
    <2>1. \A e \in Servers, v \in Workers : KeepsHeld(e, v)
      BY <1>1 DEF KeepsHeld
    <2> QED
      BY <1>1, <1>3, <2>1, QuietUnique
  <1>4. CASE Ends(s, w) /\ got' = [got EXCEPT ![s] = Append(@, m)]
    BY <1>1, <1>2, <1>4, PassedUnique DEF Held
  <1> QED
    BY <1>2, <1>3, <1>4 DEF TransmitMsg, CreateInstance, RegisterProtocolInstance

LEMMA RestartUnique ==
    ASSUME OverlayTypeOK, UniqueInv, NEW s \in Servers, Restart(s)
    PROVE  UniqueInv'
  <1>1. UNCHANGED <<got, sent>>
    BY RestartLoses
  <1>2. OnceInv'
    <2>1. /\ \A x, y \in Servers : Once(net'[<<x, y>>])
          /\ \A x, y \in Servers, z \in Proto : In(z, net'[<<x, y>>]) => z.from = x
      BY RestartKeeps DEF UniqueInv, OnceInv
    <2>2. \A y \in Servers : Once(pendingMsg'[y]) /\ Once(got'[y])
      BY <1>1, RestartKeeps DEF UniqueInv, OnceInv
    <2> QED
      BY <2>1, <2>2, OnceNext
  <1>3. ASSUME NEW e \in Servers
        PROVE  KeepsWire(e) /\ KeepsList(e) /\ KeepsGot(e) /\ \A w \in Workers : KeepsHeld(e, w)
    <2>1. KeepsWire(e)
      BY RestartKeeps DEF KeepsWire
    <2>2. KeepsList(e) /\ KeepsGot(e)
      BY <1>1, RestartKeeps DEF KeepsList, KeepsGot
    <2>3. \A w \in Workers : KeepsHeld(e, w)
      BY RestartKeeps DEF KeepsHeld
    <2> QED
      BY <2>1, <2>2, <2>3
  <1>4. ASSUME NEW e \in Servers
        PROVE  Apart(e)'
    BY <1>1, <1>3, Elsewhere DEF UniqueInv
  <1> QED
    BY <1>2, <1>4 DEF UniqueInv

\* SendTo numbers the messages: the new one is nowhere yet.
LEMMA SendToUnique ==
    ASSUME OverlayTypeOK, UniqueInv, NEW t \in Trees, NEW s \in Servers, NEW d \in Servers,
           <<t, s, d>> \in DOMAIN Sends, SendTo(t, s, d)
    PROVE  UniqueInv'
  <1>1. PICK n \in Nat : n = sent[<<t, s, d>>]
    BY DEF OverlayTypeOK
  <1>2. PICK m \in Proto : /\ m = Msg("proto", t, s, n + 1)
                           /\ m.id = t /\ m.from = s /\ m.nr = n + 1 /\ m.kind = "proto"
    <2>1. Msg("proto", t, s, n + 1) \in Proto
      BY MessageTypes, SMTT(60)
    <2> QED
      BY <2>1 DEF Msg
  <1>3. PICK c \in Message : c = Msg("config", t, s, 0) /\ c.kind = "config"
    BY MessageTypes DEF Msg
  <1>4. m \in Message /\ c # m /\ <<s, d>> \in Links
    BY <1>2, <1>3, MessageTypes DEF Links
  <1>5. \A p \in Places : m \notin At(d, p)
    <2>1. \A p \in Places : m \in At(d, p) => m.nr <= n
      BY <1>1, <1>2 DEF UniqueInv, Apart
    <2>2. ~(m.nr <= n)
      BY <1>2, SMTT(60)
    <2> QED
      BY <2>1, <2>2
  <1>6. ~In(m, net[<<s, d>>])
    BY <1>2, <1>5, AtEach DEF Places
  <1>7. /\ \A l \in Links \ {<<s, d>>} : net'[l] = net[l]
        /\ Once(net'[<<s, d>>])
        /\ \A y : In(y, net'[<<s, d>>]) => In(y, net[<<s, d>>]) \/ y \in {c, m}
    <2>1. Once(net[<<s, d>>]) /\ net[<<s, d>>] \o <<m>> = Append(net[<<s, d>>], m)
      <3>1. net[<<s, d>>] \in Seq(Message)
        BY <1>4 DEF OverlayTypeOK
      <3>2. net[<<s, d>>] \o <<m>> = Append(net[<<s, d>>], m)
        BY <1>4, <3>1, AppendBoth
      <3> QED
        BY <3>2 DEF UniqueInv, OnceInv
    <2>2. CASE net' = [net EXCEPT ![<<s, d>>] = @ \o <<c, m>>]
      BY <1>3, <1>4, <1>6, <2>1, <2>2, ConfigAppendedNet
    <2>3. CASE net' = [net EXCEPT ![<<s, d>>] = Append(@, m)]
      BY <1>4, <1>6, <2>1, <2>3, AppendedNet
    <2> QED
      BY <1>1, <1>2, <1>3, <2>1, <2>2, <2>3 DEF SendTo, ConfigFirst
  <1>8. \A y \in Proto : In(y, net'[<<s, d>>]) => In(y, net[<<s, d>>]) \/ y = m
    BY <1>3, <1>7 DEF Proto
  <1>9. /\ \A k \in DOMAIN Sends : k # <<t, s, d>> => sent'[k] = sent[k]
        /\ sent'[<<t, s, d>>] = n + 1
        /\ UNCHANGED <<pendingMsg, got, worker>>
    BY <1>1 DEF SendTo, OverlayTypeOK, local
  <1>10. ASSUME NEW k \in DOMAIN Sends
         PROVE  sent[k] \in Nat /\ sent'[k] \in Nat /\ sent[k] <= sent'[k]
    <2>1. PICK a \in Nat : a = sent[k]
      BY DEF OverlayTypeOK
    <2>2. sent'[k] = a \/ sent'[k] = a + 1
      BY <1>1, <1>9, <2>1
    <2> QED
      BY <2>1, <2>2, NumbersGrow
  <1>11. OnceInv'
    <2>1. ASSUME NEW x \in Servers, NEW y \in Servers
          PROVE  Once(net'[<<x, y>>]) /\ \A z \in Proto : In(z, net'[<<x, y>>]) => z.from = x
      <3>1. CASE x = s /\ y = d
        BY <1>2, <1>7, <1>8, <3>1 DEF UniqueInv, OnceInv
      <3>2. CASE ~(x = s /\ y = d)
        <4>1. net'[<<x, y>>] = net[<<x, y>>]
          BY <1>7, <3>2 DEF Links
        <4> QED
          BY <4>1 DEF UniqueInv, OnceInv
      <3> QED
        BY <3>1, <3>2
    <2>2. \A y \in Servers : Once(pendingMsg'[y]) /\ Once(got'[y])
      BY <1>9 DEF UniqueInv, OnceInv
    <2> QED
      BY <2>1, <2>2, OnceNext
  <1>12. ASSUME NEW e \in Servers
         PROVE  /\ \A p \in Places : At(e, p)' \subseteq At(e, p) \cup {m}
                /\ \A p \in Places \ {"wire"} : At(e, p)' \subseteq At(e, p)
                /\ e # d => At(e, "wire")' \subseteq At(e, "wire")
    <2>1. KeepsList(e) /\ KeepsGot(e) /\ \A v \in Workers : KeepsHeld(e, v)
      BY <1>9 DEF KeepsList, KeepsGot, KeepsHeld
    <2>2. \A p \in Places \ {"wire"} : At(e, p)' \subseteq At(e, p)
      BY <2>1, KeptPlaces DEF Places, Workers
    <2>3. CASE e # d
      <3>1. KeepsWire(e)
        BY <1>7, <2>3 DEF KeepsWire, Links
      <3> QED
        BY <2>2, <3>1, KeptPlaces
    <2>4. CASE e = d
      <3>1. \A x \in Servers, z \in Proto :
               In(z, net'[<<x, d>>]) => In(z, net[<<x, d>>]) \/ z = m
        BY <1>7, <1>8 DEF Links
      <3>2. \A z \in Proto : z.from \in Servers
        BY DEF Proto
      <3>3. At(d, "wire")' \subseteq At(d, "wire") \cup {m}
        BY <3>1, <3>2, AtTypes, AtEach, AtEachNext
      <3> QED
        BY <2>2, <2>4, <3>3
    <2> QED
      BY <2>3, <2>4
  <1>13. ASSUME NEW e \in Servers
         PROVE  Apart(e)'
    <2>1. \A p, q \in Places : p # q => At(e, p)' \cap At(e, q)' = {}
      <3>1. CASE e # d
        BY <1>12, <3>1, SMTT(60) DEF UniqueInv, Apart
      <3>2. CASE e = d
        BY <1>5, <1>12, <3>2, SMTT(60) DEF UniqueInv, Apart
      <3> QED
        BY <3>1, <3>2
    <2>2. ASSUME NEW p \in Places, NEW x \in At(e, p)'
          PROVE  <<x.id, x.from, e>> \in DOMAIN Sends /\ x.nr <= sent'[<<x.id, x.from, e>>]
      <3>1. CASE x \in At(e, p)
        <4>1. <<x.id, x.from, e>> \in DOMAIN Sends /\ x.nr <= sent[<<x.id, x.from, e>>]
          BY <3>1 DEF UniqueInv, Apart
        <4>2. x.nr \in Nat
          BY <3>1, AtTypes, SMTT(60) DEF Proto
        <4> QED
          BY <1>10, <4>1, <4>2, SMTT(60)
      <3>2. CASE e = d /\ x = m
        BY <1>2, <1>9, <3>2, SMTT(60)
      <3> QED
        BY <1>12, <3>1, <3>2
    <2> QED
      BY <2>1, <2>2 DEF Apart
  <1> QED
    BY <1>11, <1>13 DEF UniqueInv

LEMMA UniqueStep ==
    ASSUME OverlayTypeOK, UniqueInv, [Next]_vars
    PROVE  UniqueInv'
  <1>1. ASSUME UNCHANGED <<net, pendingMsg, got, sent, worker>>
        PROVE  UniqueInv'
    BY <1>1, QuietUnique DEF KeepsHeld
  <1>2. ASSUME NEW s \in Servers, NEW t \in Trees, checkPendingMessages(s, t) PROVE UniqueInv'
    <2>1. /\ worker'[s]["pending"].pc = "next" /\ UNCHANGED <<net, pendingMsg, got, sent>>
          /\ \A x \in Servers, v \in Workers :
                <<x, v>> # <<s, "pending">> => worker'[x][v] = worker[x][v]
      BY <1>2, CheckPendingMoves
    <2>2. \A e \in Servers, w \in Workers : KeepsHeld(e, w)
      BY <2>1 DEF KeepsHeld, Holding
    <2> QED
      BY <2>1, <2>2, QuietUnique
  <1>3. ASSUME NEW s \in Servers, NEW t \in Trees, Node(s, t) \/ DoneInstance(s, t)
        PROVE  UniqueInv'
    BY <1>1, <1>3 DEF Node, DoneInstance, local
  <1>4. ASSUME NEW s \in Servers, CloseOverlay(s) PROVE UniqueInv'
    BY <1>1, <1>4 DEF CloseOverlay, local
  <1>5. ASSUME NEW t \in Trees, CreateProtocol(t) PROVE UniqueInv'
    BY <1>1, <1>5 DEF CreateProtocol
  <1>6. CASE UNCHANGED vars
    BY <1>1, <1>6 DEF vars, local
  <1> QED
    BY OverlayCases, HandlersKeep, HandlersUnique, ProcessMsgUnique, RequestTreeUnique,
       NextPendingUnique, TransmitUnique, SendToUnique, RestartUnique,
       <1>2, <1>3, <1>4, <1>5, <1>6

LEMMA UniqueInit ==
    ASSUME Init
    PROVE  UniqueInv
  <1>1. /\ \A x, y \in Servers : net[<<x, y>>] = <<>>
        /\ \A s \in Servers : pendingMsg[s] = <<>> /\ got[s] = <<>>
        /\ \A s \in Servers, w \in Workers : worker[s][w].pc = "idle"
    BY DEF Init, Idle
  <1>2. Once(<<>>) /\ \A m : ~In(m, <<>>)
    BY SMTT(60) DEF Once, In
  <1>3. ASSUME NEW d \in Servers, NEW p \in Places, NEW m \in Proto
        PROVE  m \notin At(d, p)
    <2>1. m.from \in Servers /\ \A w \in Workers : ~Held(d, w, m)
      BY <1>1 DEF Proto, Held, Holding
    <2>2. /\ m \notin At(d, "wire") /\ m \notin At(d, "list") /\ m \notin At(d, "got")
          /\ m \notin At(d, "router") /\ m \notin At(d, "pending")
      <3>1. ~In(m, net[<<m.from, d>>]) /\ ~In(m, pendingMsg[d]) /\ ~In(m, got[d])
        BY <1>1, <1>2, <2>1
      <3>2. ~Held(d, "router", m) /\ ~Held(d, "pending", m)
        BY <2>1 DEF Workers
      <3> QED
        BY <3>1, <3>2, AtEach
    <2> QED
      BY <2>2 DEF Places
  <1>4. \A d \in Servers, p \in Places : At(d, p) = {}
    BY <1>3, AtTypes
  <1>5. \A d \in Servers : Apart(d)
    BY <1>4 DEF Apart
  <1> QED
    BY <1>1, <1>2, <1>5 DEF UniqueInv, OnceInv

=============================================================================
