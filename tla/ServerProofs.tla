---------------------------- MODULE ServerProofs ----------------------------
(***************************************************************************)
(* Theorems about what runs within one server of onet.  Those about a      *)
(* TreeNodeInstance hold for every number of children, every set of        *)
(* message types and registrations, and every pattern of messages; those   *)
(* about Services for any services, message types and protocols.           *)
(***************************************************************************)
EXTENDS TreeNodeInstance, Services, FiniteSetTheorems, TLAPS

\* Leaves are for Zenon; those with arithmetic, and a few others, cite SMTT.
USE ZenonT(60)

-----------------------------------------------------------------------------
(* Types.  The reader holds messages only between ReaderTakes and the step *)
(* that passes them on, and they are never from a line the protocol has    *)
(* not got.                                                                *)

LEMMA MessageFields ==
    ASSUME NEW m \in Messages
    PROVE  /\ m.from \in Senders /\ m.type \in Types
           /\ <<m.from, m.type>> \in DOMAIN Deliveries
           /\ LineOf(m) \in Lines
  <1>1. PICK st \in DOMAIN Deliveries :
            \E n \in 1..Deliveries[st] : m = [type |-> st[2], from |-> st[1], nr |-> n]
    BY DEF Messages
  <1>2. m.type = st[2] /\ m.from = st[1]
    BY <1>1, SMTT(60)
  <1>3. st \in Senders \X Types
    BY SendsAssumption
  <1>4. (m.from = Parent) \in BOOLEAN
    OBVIOUS
  <1>5. m.from \in Senders /\ m.type \in Types /\ st = <<m.from, m.type>>
    BY <1>2, <1>3, SMTT(60)
  <1>6. LineOf(m) \in Lines
    BY <1>4, <1>5 DEF LineOf, Lines
  <1> QED
    BY <1>5, <1>6

LEMMA NextMessage ==
    ASSUME NEW s, NEW t, <<s, t>> \in DOMAIN Deliveries,
           NEW n \in Nat, n < Deliveries[<<s, t>>]
    PROVE  [type |-> t, from |-> s, nr |-> n + 1] \in Messages
  <1>1. n + 1 \in 1..Deliveries[<<s, t>>]
    BY SendsAssumption, SMTT(60)
  <1>2. <<s, t>>[1] = s /\ <<s, t>>[2] = t
    OBVIOUS
  <1> QED
    BY <1>1, <1>2, SMTT(60) DEF Messages

\* Every step of an instance is one of these.
LEMMA InstanceCases ==
    ASSUME [InstanceNext]_instance_vars
    PROVE  \/ \E s, t : <<s, t>> \in DOMAIN Deliveries /\ ProcessProtocolMsg(s, t)
           \/ ReaderCloses \/ ReaderTakes \/ ReaderWaits \/ ReaderWakes \/ Aggregate
           \/ \E t \in Types : dispatchChannel(t) \/ dispatchHandler(t) \/ NotHandled(t)
           \/ HandlerReturns
           \/ \E t \in OnChannel : Receive(t)
           \/ \E where \in {"inDispatch", "inHandler"} : Done(where)
           \/ nodeDone \/ Close
           \/ UNCHANGED instance_vars
  <1>1. ASSUME NEW st \in DOMAIN Deliveries, ProcessProtocolMsg(st[1], st[2])
        PROVE  \E s, t : <<s, t>> \in DOMAIN Deliveries /\ ProcessProtocolMsg(s, t)
    <2>1. st = <<st[1], st[2]>>
      BY SendsAssumption, SMTT(60)
    <2> QED
      BY <1>1, <2>1
  <1> QED
    BY <1>1 DEF InstanceNext, Reader, Protocol

LEMMA TypeStep ==
    ASSUME InstanceTypeOK, [InstanceNext]_instance_vars
    PROVE  InstanceTypeOK'
  <1> USE DEF InstanceTypeOK
  <1>1. ASSUME NEW s, NEW t, <<s, t>> \in DOMAIN Deliveries, ProcessProtocolMsg(s, t)
        PROVE  InstanceTypeOK'
    <2>1. [type |-> t, from |-> s, nr |-> delivered[<<s, t>>] + 1] \in Messages
      BY <1>1, NextMessage DEF ProcessProtocolMsg
    <2>2. queue' \in Seq(Messages)
      BY <1>1, <2>1, SMTT(60) DEF ProcessProtocolMsg
    <2>3. delivered' \in [DOMAIN Deliveries -> Nat]
      BY <1>1, SMTT(60) DEF ProcessProtocolMsg
    <2>4. wait' \in BOOLEAN
      BY <1>1 DEF ProcessProtocolMsg, Signals
    <2> QED
      BY <1>1, <2>2, <2>3, <2>4 DEF ProcessProtocolMsg
  <1>2. CASE ReaderCloses \/ ReaderWaits \/ ReaderWakes \/ HandlerReturns
    BY <1>2 DEF ReaderCloses, ReaderWaits, ReaderWakes, HandlerReturns
  <1>3. CASE ReaderTakes
    <2>1. Head(queue) \in Messages /\ Tail(queue) \in Seq(Messages)
      BY <1>3, SMTT(60) DEF ReaderTakes
    <2>2. msg' \in Seq(Messages) /\ msg' # <<>>
      BY <1>3, <2>1, SMTT(60) DEF ReaderTakes
    <2> QED
      BY <1>3, <2>1, <2>2 DEF ReaderTakes
  <1>4. CASE Aggregate
    <2> DEFINE m == Head(msg)
               msgs == Append(msgQueue[m.type], m)
    <2>1. m \in Messages /\ m.type \in Aggregated
      BY <1>4, SMTT(60) DEF Aggregate, Direct
    <2>2. msgs \in Seq(Messages)
      BY <2>1, SMTT(60)
    <2>3. <<>> \in Seq(Messages)
      BY SMTT(60)
    <2>4. StillWaiting(msgs) \in Seq(Messages)
      BY <2>2, <2>3 DEF StillWaiting
    <2>5. aggregate(m)
      BY <1>4 DEF Aggregate
    <2> HIDE DEF m, msgs
    <2>6. msgQueue' \in [Aggregated -> Seq(Messages)] /\ msg' \in Seq(Messages)
      BY <2>1, <2>2, <2>3, <2>4, <2>5 DEF aggregate, msgs
    <2>7. reader' \in {"loop", "pass"} /\ (reader' = "pass" => msg' # <<>>)
      BY <1>4 DEF Aggregate
    <2> QED
      BY <1>4, <2>6, <2>7 DEF Aggregate
  <1>5. ASSUME NEW t \in Types, Ready(t), Passed
        PROVE  given' \in [Lines -> Seq(Messages)]
    <2>1. msg # <<>> /\ msg[1] \in Messages
      BY <1>5, SMTT(60) DEF Ready
    <2>2. LineOf(msg[1]) \in Lines
      BY <2>1, MessageFields
    <2> QED
      BY <1>5, <2>2, SMTT(60) DEF Passed
  <1>6. ASSUME NEW t \in Types, dispatchChannel(t) PROVE InstanceTypeOK'
    <2>1. given' \in [Lines -> Seq(Messages)]
      BY <1>5, <1>6 DEF dispatchChannel
    <2>2. ASSUME HasRoom(t), channel' = [channel EXCEPT ![t] = Append(@, msg)]
          PROVE  /\ channel' \in [OnChannel -> Seq(Seq(Messages))]
                 /\ \A u \in OnChannel : Len(channel'[u]) <= ChannelLength
      <3>1. t \in OnChannel
        BY <1>6 DEF dispatchChannel
      <3>2. channel[t] \in Seq(Seq(Messages)) /\ Len(channel[t]) < ChannelLength
        BY <2>2, <3>1 DEF HasRoom
      <3>3. Append(channel[t], msg) \in Seq(Seq(Messages))
        BY <3>2, SMTT(60)
      <3>4. Len(Append(channel[t], msg)) <= ChannelLength
        BY <3>2, InstanceAssumption, SMTT(60)
      <3> QED
        BY <2>2, <3>1, <3>3, <3>4
    <2>3. /\ channel' \in [OnChannel -> Seq(Seq(Messages))]
          /\ \A u \in OnChannel : Len(channel'[u]) <= ChannelLength
      BY <1>6, <2>2 DEF dispatchChannel
    <2> QED
      BY <1>6, <2>1, <2>3, SMTT(60) DEF dispatchChannel
  <1>7. ASSUME NEW t \in Types, dispatchHandler(t) \/ NotHandled(t) PROVE InstanceTypeOK'
    <2>1. given' \in [Lines -> Seq(Messages)]
      BY <1>5, <1>7 DEF dispatchHandler, NotHandled
    <2>2. /\ reader' \in {"handler", "loop"}
          /\ msg' = <<>>
          /\ UNCHANGED <<queue, wait, closing, msgQueue, channel, delivered, finish, registered>>
      BY <1>7 DEF dispatchHandler, NotHandled
    <2>3. <<>> \in Seq(Messages)
      BY SMTT(60)
    <2> QED
      BY <2>1, <2>2, <2>3
  <1>8. ASSUME NEW t \in OnChannel, Receive(t) PROVE InstanceTypeOK'
    <2>1. /\ Tail(channel[t]) \in Seq(Seq(Messages))
          /\ Len(Tail(channel[t])) <= ChannelLength
      BY <1>8, InstanceAssumption, SMTT(60) DEF Receive
    <2>2. /\ channel' \in [OnChannel -> Seq(Seq(Messages))]
          /\ \A u \in OnChannel : Len(channel'[u]) <= ChannelLength
      BY <1>8, <2>1 DEF Receive
    <2> QED
      BY <1>8, <2>2 DEF Receive
  <1>9. ASSUME NEW where \in {"inDispatch", "inHandler"}, Done(where) PROVE InstanceTypeOK'
    BY <1>9 DEF Done, closeDispatch
  <1>10. CASE nodeDone \/ Close
    BY <1>10 DEF nodeDone, Close, closeDispatch
  <1>11. CASE UNCHANGED instance_vars
    BY <1>11 DEF instance_vars
  <1> QED
    BY <1>1, <1>2, <1>3, <1>4, <1>6, <1>7, <1>8, <1>9, <1>10, <1>11, InstanceCases

LEMMA TypeInit == InstanceInit => InstanceTypeOK
  <1> SUFFICES ASSUME InstanceInit PROVE InstanceTypeOK
    OBVIOUS
  <1>1. <<>> \in Seq(Messages) /\ <<>> \in Seq(Seq(Messages)) /\ Len(<<>>) = 0
    BY SMTT(60)
  <1>2. /\ \A t \in OnChannel : channel[t] = <<>>
        /\ channel \in [OnChannel -> Seq(Seq(Messages))]
    BY <1>1 DEF InstanceInit
  <1>3. \A t \in OnChannel : Len(channel[t]) <= ChannelLength
    BY <1>1, <1>2, InstanceAssumption, SMTT(60)
  <1>4. /\ given \in [Lines -> Seq(Messages)]
        /\ msgQueue \in [Aggregated -> Seq(Messages)]
        /\ delivered \in [DOMAIN Deliveries -> Nat]
    BY <1>1 DEF InstanceInit
  <1> QED
    BY <1>1, <1>2, <1>3, <1>4 DEF InstanceInit, InstanceTypeOK

\* Whatever is registered for the message types and whoever closes the instance: the
\* reader never dispatches nothing, and no channel takes more than it can hold.
THEOREM InstanceTypeCorrect == InstanceSpec => []InstanceTypeOK
  BY TypeInit, TypeStep, PTL DEF InstanceSpec

-----------------------------------------------------------------------------
(* Wake-up.                                                                *)

LEMMA WakeupStep ==
    ASSUME InstanceTypeOK, NoLostWakeup, [InstanceNext]_instance_vars
    PROVE  NoLostWakeup'
  <1> USE DEF InstanceTypeOK, NoLostWakeup
  <1>1. ASSUME NEW s, NEW t, ProcessProtocolMsg(s, t) PROVE NoLostWakeup'
    <2>1. CASE queue = <<>>
      <3>1. Len(queue') = 1
        BY <1>1, <2>1, SMTT(60) DEF ProcessProtocolMsg
      <3> QED
        BY <1>1, <3>1 DEF ProcessProtocolMsg, Signals
    <2>2. CASE queue # <<>>
      BY <1>1, <2>2 DEF ProcessProtocolMsg, Signals
    <2> QED
      BY <2>1, <2>2
  <1>2. CASE ReaderCloses \/ ReaderTakes \/ ReaderWaits \/ ReaderWakes \/ Aggregate \/ HandlerReturns
    BY <1>2 DEF ReaderCloses, ReaderTakes, ReaderWaits, ReaderWakes, Aggregate, HandlerReturns
  <1>3. ASSUME NEW t, dispatchChannel(t) \/ dispatchHandler(t) \/ NotHandled(t)
        PROVE  NoLostWakeup'
    BY <1>3 DEF dispatchChannel, dispatchHandler, NotHandled
  <1>4. ASSUME NEW t, Receive(t) PROVE NoLostWakeup'
    BY <1>4 DEF Receive
  <1>5. ASSUME NEW where, Done(where) PROVE NoLostWakeup'
    BY <1>5 DEF Done, closeDispatch
  <1>6. CASE nodeDone \/ Close
    BY <1>6 DEF nodeDone, Close, closeDispatch
  <1>7. CASE UNCHANGED instance_vars
    BY <1>7 DEF instance_vars
  <1> QED
    BY <1>1, <1>2, <1>3, <1>4, <1>5, <1>6, <1>7, InstanceCases

\* dispatchMsgReader never sleeps on a message or on a closed instance without a token
\* in the wait channel, however puts, closes and its own wake-ups interleave.
THEOREM ReaderIsWoken == InstanceSpec => []NoLostWakeup
  <1>1. InstanceInit => NoLostWakeup
    BY DEF InstanceInit, NoLostWakeup
  <1> QED
    BY <1>1, TypeInit, TypeStep, WakeupStep, PTL DEF InstanceSpec

-----------------------------------------------------------------------------
(* Rounds.  aggregate only counts: that a full count has one message of    *)
(* each child follows from what is under way.  No child has two messages   *)
(* of an aggregated type between the overlay and the protocol (Once,       *)
(* Apart), since a child with one there has sent more than the protocol    *)
(* was given (Due) and so is not in turn.                                  *)

Width == Cardinality(Children)

\* The message waits for those of the other children.
Kid(m) == m.type \in Aggregated /\ m.from \in Children

Same(m, n) == m.type = n.type /\ m.from = n.from

Once(q) == \A i, j \in 1..Len(q) : Kid(q[i]) /\ Same(q[i], q[j]) => i = j

Apart(q, r) == \A i \in 1..Len(q), j \in 1..Len(r) : Kid(q[i]) => ~Same(q[i], r[j])

InRound(q, t) == \A i \in 1..Len(q) : q[i].type = t /\ q[i].from \in Children

\* The round of the message was not given to the protocol yet.
Due(m, g, d) == Len(g[<<m.type, FALSE>>]) + Width <= d[<<m.from, m.type>>] * Width

AllDue(q, g, d) == \A i \in 1..Len(q) : Kid(q[i]) => Due(q[i], g, d)

\* Every child has sent its message of every round that was given.
GivenWasSent ==
    \A t \in Aggregated, s \in Children :
        <<s, t>> \in DOMAIN Deliveries =>
            Len(given[<<t, FALSE>>]) <= delivered[<<s, t>>] * Width

RoundInv ==
    /\ reader = "dispatch" => Len(msg) = 1
    /\ reader = "pass" => Len(msg) = Width /\ \E t \in Aggregated : InRound(msg, t)
    /\ reader \notin {"dispatch", "pass"} => msg = <<>>
    /\ Once(queue) /\ Once(msg) /\ Apart(queue, msg)
    /\ AllDue(queue, given, delivered) /\ AllDue(msg, given, delivered)
    /\ \A t \in Aggregated :
        /\ InRound(msgQueue[t], t) /\ Len(msgQueue[t]) < Width
        /\ Once(msgQueue[t]) /\ Apart(queue, msgQueue[t]) /\ Apart(msg, msgQueue[t])
        /\ AllDue(msgQueue[t], given, delivered)
    /\ GivenWasSent

LEMMA WidthIsPositive == Width \in Nat /\ Width > 0
  BY InstanceAssumption, FS_CardinalityType, FS_EmptySet, SMTT(60) DEF Width

LEMMA OneMoreRound == \A d \in Nat : d * Width \in Nat /\ (d + 1) * Width = d * Width + Width
  BY WidthIsPositive, SMTT(60)

\* As many messages as children, no child twice: one of each.
LEMMA FullRound ==
    ASSUME NEW q \in Seq(Messages), NEW t \in Aggregated,
           InRound(q, t), Once(q), Len(q) = Width
    PROVE  {q[i].from : i \in 1..Len(q)} = Children
  <1> DEFINE f == [i \in 1..Width |-> q[i].from]
  <1>1. f \in [1..Width -> Children]
    BY DEF InRound
  <1>2. ASSUME NEW i \in 1..Width, NEW j \in 1..Width, f[i] = f[j]
        PROVE  i = j
    <2>1. /\ q[i].type = t /\ q[j].type = t
          /\ q[i].from \in Children /\ q[i].from = q[j].from
      BY <1>2 DEF InRound
    <2> QED
      BY <2>1 DEF Once, Kid, Same
  <1>3. f \in Injection(1..Width, Children)
    BY <1>1, <1>2 DEF Injection, IsInjective
  <1>4. Cardinality(1..Width) = Width
    BY FS_Interval, WidthIsPositive, SMTT(60)
  <1>5. f \in Surjection(1..Width, Children)
    BY <1>3, <1>4, FS_Injection, InstanceAssumption DEF Width
  <1>6. \A s \in Children : \E i \in 1..Width : f[i] = s
    BY <1>5 DEF Surjection
  <1> QED
    BY <1>1, <1>6

LEMMA RoundSend ==
    ASSUME InstanceTypeOK, RoundInv, NEW s, NEW t,
           <<s, t>> \in DOMAIN Deliveries, ProcessProtocolMsg(s, t)
    PROVE  RoundInv'
  <1>1. /\ delivered \in [DOMAIN Deliveries -> Nat]
        /\ queue \in Seq(Messages)
        /\ given \in [Lines -> Seq(Messages)]
    BY DEF InstanceTypeOK
  <1>2. /\ InTurn(s, t)
        /\ delivered' = [delivered EXCEPT ![<<s, t>>] = @ + 1]
        /\ UNCHANGED <<reader, msg, msgQueue, given>>
    BY DEF ProcessProtocolMsg
  <1>3. [type |-> t, from |-> s, nr |-> delivered[<<s, t>>] + 1] \in Messages
    BY <1>1, NextMessage DEF ProcessProtocolMsg
  <1>4. PICK m \in Messages : m.type = t /\ m.from = s /\ queue' = Append(queue, m)
    BY <1>3 DEF ProcessProtocolMsg
  <1>5. \A n \in Messages : <<n.type, FALSE>> \in Lines
    BY MessageFields DEF Lines
  <1>6. ASSUME NEW n \in Messages, Due(n, given, delivered) PROVE Due(n, given', delivered')
    <2>1. <<n.from, n.type>> \in DOMAIN Deliveries
      BY MessageFields
    <2>2. Len(given[<<n.type, FALSE>>]) \in Nat
      BY <1>1, <1>5, SMTT(60)
    <2>3. PICK d \in Nat : d = delivered[<<n.from, n.type>>]
      BY <1>1, <2>1
    <2>4. PICK e \in {d, d + 1} : e = delivered'[<<n.from, n.type>>]
      BY <1>1, <1>2, <2>1, <2>3
    <2>5. d * Width <= e * Width /\ d * Width \in Nat /\ e * Width \in Nat
      BY OneMoreRound, WidthIsPositive, SMTT(60)
    <2> QED
      BY <1>2, <1>6, <2>2, <2>3, <2>4, <2>5, WidthIsPositive, SMTT(60) DEF Due
  <1>7. ASSUME Kid(m) PROVE Due(m, given', delivered')
    <2>1. t \in Aggregated /\ s \in Children
      BY <1>4, <1>7 DEF Kid
    <2>2. Len(given[<<t, FALSE>>]) <= delivered[<<s, t>>] * Width
      BY <2>1 DEF RoundInv, GivenWasSent
    <2>3. PICK d \in Nat : d = delivered[<<s, t>>] /\ delivered'[<<s, t>>] = d + 1
      BY <1>1, <1>2
    <2>4. Len(given[<<t, FALSE>>]) \in Nat
      BY <1>1, <1>4, <1>5, SMTT(60)
    <2>5. d * Width \in Nat /\ (d + 1) * Width = d * Width + Width
      BY OneMoreRound
    <2> QED
      BY <1>2, <1>4, <2>2, <2>3, <2>4, <2>5, WidthIsPositive, SMTT(60) DEF Due
  <1>8. ASSUME Kid(m), NEW n \in Messages, Same(m, n) PROVE ~Due(n, given, delivered)
    <2>1. delivered[<<s, t>>] * Width <= Len(given[<<t, FALSE>>])
      BY <1>2, <1>4, <1>8 DEF Kid, InTurn, Width
    <2>2. n.type = t /\ n.from = s
      BY <1>4, <1>8 DEF Same
    <2>3. Len(given[<<t, FALSE>>]) \in Nat /\ delivered[<<s, t>>] \in Nat
      BY <1>1, <1>4, <1>5, SMTT(60)
    <2>4. delivered[<<s, t>>] * Width \in Nat
      BY <2>3, OneMoreRound
    <2> QED
      BY <2>1, <2>2, <2>3, <2>4, WidthIsPositive, SMTT(60) DEF Due
  <1>9. ASSUME NEW q \in Seq(Messages), AllDue(q, given, delivered)
        PROVE  /\ \A i \in 1..Len(q) : Kid(m) => ~Same(m, q[i])
               /\ \A i \in 1..Len(q) : Kid(q[i]) => ~Same(q[i], m)
               /\ \A i \in 1..Len(q) : Kid(q[i]) => Due(q[i], given', delivered')
    <2>1. \A i \in 1..Len(q) : q[i] \in Messages
      BY SMTT(60)
    <2>2. \A i \in 1..Len(q) : Same(m, q[i]) => (Kid(m) <=> Kid(q[i])) /\ Same(q[i], m)
      BY DEF Same, Kid
    <2>3. \A i \in 1..Len(q) : Same(q[i], m) => Same(m, q[i])
      BY DEF Same
    <2> QED
      BY <1>6, <1>8, <1>9, <2>1, <2>2, <2>3 DEF AllDue
  <1>10. /\ Len(queue') = Len(queue) + 1 /\ Len(queue) \in Nat
         /\ queue'[Len(queue) + 1] = m
         /\ \A i \in 1..Len(queue) : queue'[i] = queue[i]
    BY <1>1, <1>4, SMTT(60)
  <1>11. Once(queue) /\ AllDue(queue, given, delivered)
    BY DEF RoundInv
  <1>12. \A i \in 1..Len(queue') : i \in 1..Len(queue) \/ i = Len(queue) + 1
    BY <1>10, SMTT(60)
  <1>13. Once(queue')
    BY <1>1, <1>9, <1>10, <1>11, <1>12 DEF Once
  <1>14. AllDue(queue', given', delivered')
    BY <1>1, <1>7, <1>9, <1>10, <1>11, <1>12 DEF AllDue
  <1>15. ASSUME NEW q \in Seq(Messages), AllDue(q, given, delivered), Apart(queue, q)
         PROVE  Apart(queue', q)
    BY <1>9, <1>10, <1>12, <1>15 DEF Apart
  <1>16. ASSUME NEW q \in Seq(Messages), AllDue(q, given, delivered)
         PROVE  AllDue(q, given', delivered')
    BY <1>9, <1>16 DEF AllDue
  <1>17. GivenWasSent'
    <2> SUFFICES ASSUME NEW u \in Aggregated, NEW c \in Children, <<c, u>> \in DOMAIN Deliveries
                 PROVE  Len(given[<<u, FALSE>>]) <= delivered'[<<c, u>>] * Width
      BY <1>2 DEF GivenWasSent
    <2>1. Len(given[<<u, FALSE>>]) <= delivered[<<c, u>>] * Width
      BY DEF RoundInv, GivenWasSent
    <2>2. delivered'[<<c, u>>] \in {delivered[<<c, u>>], delivered[<<c, u>>] + 1}
      BY <1>1, <1>2
    <2>3. <<u, FALSE>> \in Lines
      BY InstanceAssumption DEF Lines
    <2>4. Len(given[<<u, FALSE>>]) \in Nat /\ delivered[<<c, u>>] \in Nat
      BY <1>1, <2>3, SMTT(60)
    <2> QED
      BY <2>1, <2>2, <2>4, OneMoreRound, WidthIsPositive, SMTT(60)
  <1>18. Apart(queue', msg') /\ Once(msg') /\ AllDue(msg', given', delivered')
    BY <1>2, <1>15, <1>16 DEF RoundInv, InstanceTypeOK
  <1>19. ASSUME NEW u \in Aggregated
         PROVE  /\ InRound(msgQueue'[u], u) /\ Len(msgQueue'[u]) < Width
                /\ Once(msgQueue'[u]) /\ Apart(queue', msgQueue'[u]) /\ Apart(msg', msgQueue'[u])
                /\ AllDue(msgQueue'[u], given', delivered')
    <2>1. msgQueue[u] \in Seq(Messages)
      BY DEF InstanceTypeOK
    <2> QED
      BY <1>2, <2>1, <1>15, <1>16 DEF RoundInv
  <1> QED
    BY <1>2, <1>13, <1>14, <1>17, <1>18, <1>19 DEF RoundInv

LEMMA RoundTakes ==
    ASSUME InstanceTypeOK, RoundInv, ReaderTakes
    PROVE  RoundInv'
  <1>1. /\ queue \in Seq(Messages) /\ queue # <<>>
        /\ msg = <<>> /\ msg' = <<Head(queue)>> /\ queue' = Tail(queue)
        /\ reader' = "dispatch"
        /\ UNCHANGED <<msgQueue, given, delivered>>
    BY DEF InstanceTypeOK, RoundInv, ReaderTakes
  <1>2. /\ Len(msg') = 1 /\ msg'[1] = queue[1]
        /\ 1 \in 1..Len(queue)
        /\ \A i \in 1..Len(queue') : i + 1 \in 1..Len(queue) /\ queue'[i] = queue[i + 1] /\ i + 1 # 1
        /\ \A i, j \in 1..Len(queue') : i + 1 = j + 1 => i = j
    BY <1>1, SMTT(60)
  <1>3. Once(queue') /\ Once(msg') /\ Apart(queue', msg')
    <2>1. Once(queue')
      BY <1>2 DEF RoundInv, Once
    <2>2. Once(msg')
      BY <1>2, SMTT(60) DEF Once
    <2>3. Apart(queue', msg')
      BY <1>2, SMTT(60) DEF RoundInv, Once, Apart
    <2> QED
      BY <2>1, <2>2, <2>3
  <1>4. AllDue(queue', given', delivered') /\ AllDue(msg', given', delivered')
    BY <1>1, <1>2, SMTT(60) DEF RoundInv, AllDue
  <1>5. ASSUME NEW u \in Aggregated
        PROVE  Apart(queue', msgQueue[u]) /\ Apart(msg', msgQueue[u])
    BY <1>1, <1>2, SMTT(60) DEF RoundInv, Apart
  <1>6. GivenWasSent'
    BY <1>1 DEF RoundInv, GivenWasSent
  <1> QED
    BY <1>1, <1>2, <1>3, <1>4, <1>5, <1>6 DEF RoundInv

LEMMA RoundAggregates ==
    ASSUME InstanceTypeOK, RoundInv, Aggregate
    PROVE  RoundInv'
  <1>1. PICK m \in Messages : m = Head(msg)
    BY SMTT(60) DEF InstanceTypeOK, Aggregate
  <1>2. PICK t \in Aggregated : m.type = t
    BY <1>1 DEF Aggregate, Direct
  <1>3. m.from \in Children
    BY <1>1, MessageFields DEF Aggregate, Direct, Senders
  <1>4. Len(msg) = 1 /\ msg[1] = m
    BY <1>1, SMTT(60) DEF Aggregate, RoundInv, InstanceTypeOK
  <1>5. PICK msgs \in Seq(Messages) : msgs = Append(msgQueue[t], m)
    <2>1. msgQueue[t] \in Seq(Messages)
      BY DEF InstanceTypeOK
    <2>2. Append(msgQueue[t], m) \in Seq(Messages)
      BY <2>1, SMTT(60)
    <2> QED
      BY <2>2
  <1>6. /\ msgQueue' = [msgQueue EXCEPT ![t] = StillWaiting(msgs)]
        /\ msg' = IF Complete(msgs) THEN msgs ELSE <<>>
        /\ UNCHANGED <<queue, given, delivered>>
    BY <1>1, <1>2, <1>5 DEF Aggregate, aggregate
  <1>7. /\ msgQueue[t] \in Seq(Messages) /\ Len(msgQueue[t]) \in Nat
        /\ Len(msgs) = Len(msgQueue[t]) + 1
        /\ msgs[Len(msgQueue[t]) + 1] = m
        /\ \A i \in 1..Len(msgQueue[t]) : msgs[i] = msgQueue[t][i]
        /\ \A i \in 1..Len(msgs) : i \in 1..Len(msgQueue[t]) \/ i = Len(msgQueue[t]) + 1
    BY <1>5, SMTT(60) DEF InstanceTypeOK
  <1>8. 1 \in 1..Len(msg) /\ 1 \in 1..Len(msgs)
    BY <1>4, <1>7, SMTT(60)
  <1>9. Kid(m)
    BY <1>2, <1>3 DEF Kid
  <1>10. InRound(msgs, t) /\ Len(msgs) <= Width
    BY <1>2, <1>3, <1>7, WidthIsPositive, SMTT(60) DEF RoundInv, InRound
  <1>11. \A i \in 1..Len(msgQueue[t]) : ~Same(m, msgQueue[t][i]) /\ ~Same(msgQueue[t][i], m)
    BY <1>4, <1>8, <1>9 DEF RoundInv, Apart, Same
  <1>12. Once(msgs)
    BY <1>7, <1>11 DEF RoundInv, Once
  <1>13. Apart(queue, msgs)
    BY <1>4, <1>7, <1>8 DEF RoundInv, Apart
  <1>14. \A i \in 1..Len(msgs) : Kid(msgs[i]) => Due(msgs[i], given, delivered)
    BY <1>4, <1>7, <1>8 DEF RoundInv, AllDue
  <1>15. GivenWasSent' /\ AllDue(queue', given', delivered') /\ Once(queue')
    BY <1>6 DEF RoundInv, GivenWasSent
  <1>16. \A u \in Aggregated \ {t} : msgQueue'[u] = msgQueue[u]
    BY <1>6 DEF InstanceTypeOK
  <1>17. /\ Len(<<>>) = 0
         /\ \A q : Apart(q, <<>>) /\ Apart(<<>>, q)
         /\ Once(<<>>) /\ InRound(<<>>, t)
    BY SMTT(60) DEF Apart, Once, InRound
  <1>18. ASSUME NEW u \in Aggregated \ {t}
         PROVE  AllDue(msgQueue'[u], given', delivered')
    BY <1>6, <1>16 DEF RoundInv
  <1>19. CASE Complete(msgs)
    <2>1. msg' = msgs /\ msgQueue'[t] = <<>> /\ reader' = "pass" /\ Len(msgs) = Width
      BY <1>6, <1>8, <1>19, SMTT(60) DEF Complete, StillWaiting, InstanceTypeOK, Aggregate, Width
    <2>2. AllDue(msg', given', delivered') /\ AllDue(msgQueue'[t], given', delivered')
      BY <1>6, <1>14, <1>17, <2>1, SMTT(60) DEF AllDue
    <2>3. ASSUME NEW u \in Aggregated \ {t} PROVE Apart(msgs, msgQueue[u])
      BY <1>10, SMTT(60) DEF RoundInv, InRound, Apart, Same
    <2> QED
      BY <1>6, <1>10, <1>12, <1>13, <1>15, <1>16, <1>17, <1>18, <2>1, <2>2, <2>3, WidthIsPositive
      DEF RoundInv
  <1>20. CASE ~Complete(msgs)
    <2>1. msg' = <<>> /\ msgQueue'[t] = msgs /\ reader' = "loop" /\ Len(msgs) # Width
      BY <1>6, <1>20 DEF Complete, StillWaiting, InstanceTypeOK, Aggregate, Width
    <2>2. AllDue(msg', given', delivered') /\ AllDue(msgQueue'[t], given', delivered')
      BY <1>6, <1>14, <1>17, <2>1, SMTT(60) DEF AllDue
    <2>3. Len(msgs) < Width
      BY <1>10, <2>1, <1>7, WidthIsPositive, SMTT(60)
    <2> QED
      BY <1>6, <1>10, <1>12, <1>13, <1>15, <1>16, <1>17, <1>18, <2>1, <2>2, <2>3
      DEF RoundInv
  <1> QED
    BY <1>19, <1>20

\* The part that dispatchChannel, dispatchHandler and the default case have in common.
LEMMA RoundPasses ==
    ASSUME InstanceTypeOK, RoundInv, NEW t, Ready(t), Passed,
           msg' = <<>>, reader' \in {"loop", "handler"},
           UNCHANGED <<queue, msgQueue, delivered>>
    PROVE  RoundInv'
  <1>1. msg \in Seq(Messages) /\ msg # <<>> /\ msg[1] \in Messages
    BY SMTT(60) DEF InstanceTypeOK, Ready
  <1>2. LineOf(msg[1]) \in Lines
    BY <1>1, MessageFields
  <1>3. given' = [given EXCEPT ![LineOf(msg[1])] = @ \o msg]
    BY DEF Passed
  <1>4. /\ Len(<<>>) = 0
        /\ \A q : Apart(q, <<>>) /\ Apart(<<>>, q)
        /\ Once(<<>>)
    BY SMTT(60) DEF Apart, Once
  <1>5. SUFFICES /\ AllDue(queue', given', delivered')
                 /\ \A u \in Aggregated : AllDue(msgQueue'[u], given', delivered')
                 /\ GivenWasSent'
    <2>1. AllDue(msg', given', delivered')
      BY <1>4, SMTT(60) DEF AllDue
    <2> QED
      BY <1>4, <1>5, <2>1 DEF RoundInv
  <1>6. CASE reader = "dispatch" /\ Direct(Head(msg))
    <2>1. \A u \in Aggregated : <<u, FALSE>> # LineOf(msg[1])
      <3>1. Head(msg) = msg[1]
        BY <1>1, SMTT(60)
      <3>2. msg[1].from = Parent \/ msg[1].type \notin Aggregated
        BY <1>6, <3>1 DEF Direct
      <3>3. \A u, x, y : <<u, FALSE>> = <<x, y>> => u = x /\ ~y
        OBVIOUS
      <3> QED
        BY <3>2, <3>3 DEF LineOf
    <2>2. \A u \in Aggregated : given'[<<u, FALSE>>] = given[<<u, FALSE>>]
      BY <1>3, <2>1, InstanceAssumption DEF InstanceTypeOK, Lines
    <2> QED
      BY <2>2 DEF RoundInv, AllDue, Due, Kid, GivenWasSent
  <1>7. CASE reader = "pass"
    <2>1. PICK v \in Aggregated : InRound(msg, v)
      BY <1>7 DEF RoundInv
    <2>2. {msg[i].from : i \in 1..Len(msg)} = Children
      BY <1>1, <1>7, <2>1, FullRound DEF RoundInv
    <2>3. LineOf(msg[1]) = <<v, FALSE>>
      <3>1. msg[1].type = v /\ msg[1].from # Parent
        BY <1>1, <2>1, InstanceAssumption, SMTT(60) DEF InRound
      <3> QED
        BY <3>1 DEF LineOf
    <2>4. /\ Len(given'[<<v, FALSE>>]) = Len(given[<<v, FALSE>>]) + Width
          /\ \A u \in Aggregated \ {v} : given'[<<u, FALSE>>] = given[<<u, FALSE>>]
      <3>1. given \in [Lines -> Seq(Messages)] /\ Len(msg) = Width
        BY <1>7 DEF InstanceTypeOK, RoundInv
      <3>2. \A u \in Aggregated : <<u, FALSE>> \in Lines
        BY InstanceAssumption DEF Lines
      <3>3. given'[<<v, FALSE>>] = given[<<v, FALSE>>] \o msg
        BY <1>3, <2>3, <3>1, <3>2
      <3>4. given[<<v, FALSE>>] \in Seq(Messages)
        BY <3>1, <3>2
      <3>5. Len(given'[<<v, FALSE>>]) = Len(given[<<v, FALSE>>]) + Width
        BY <1>1, <3>1, <3>3, <3>4, SMTT(60)
      <3>6. \A u \in Aggregated \ {v} : given'[<<u, FALSE>>] = given[<<u, FALSE>>]
        BY <1>3, <2>3, <3>1, <3>2, SMTT(60)
      <3> QED
        BY <3>5, <3>6
    <2>5. ASSUME NEW s \in Children
          PROVE  \E i \in 1..Len(msg) : msg[i].from = s /\ msg[i].type = v
      BY <2>1, <2>2 DEF InRound
    <2>6. ASSUME NEW n, Kid(n), n.type = v
          PROVE  \E i \in 1..Len(msg) : Kid(msg[i]) /\ Same(n, msg[i]) /\ Same(msg[i], n)
      BY <2>5, <2>6 DEF Kid, Same
    <2>7. ASSUME NEW n, Kid(n), n.type # v, Due(n, given, delivered)
          PROVE  Due(n, given', delivered')
      BY <2>4, <2>7 DEF Due, Kid
    <2>8. AllDue(queue', given', delivered')
      <3>1. \A i \in 1..Len(queue) : Kid(queue[i]) => queue[i].type # v
        BY <2>6, SMTT(60) DEF RoundInv, Apart
      <3> QED
        BY <2>7, <3>1 DEF RoundInv, AllDue
    <2>9. ASSUME NEW u \in Aggregated PROVE AllDue(msgQueue'[u], given', delivered')
      <3>1. \A i \in 1..Len(msgQueue[u]) : Kid(msgQueue[u][i]) => msgQueue[u][i].type # v
        BY <2>6, SMTT(60) DEF RoundInv, Apart
      <3> QED
        BY <2>7, <3>1 DEF RoundInv, AllDue
    <2>10. ASSUME NEW u \in Aggregated, NEW s \in Children, <<s, u>> \in DOMAIN Deliveries
          PROVE  Len(given'[<<u, FALSE>>]) <= delivered[<<s, u>>] * Width
      <3>1. CASE u = v
        <4>1. PICK i \in 1..Len(msg) : msg[i].from = s /\ msg[i].type = v
          BY <2>5
        <4>2. Due(msg[i], given, delivered)
          BY <4>1 DEF RoundInv, AllDue, Kid
        <4> QED
          BY <2>4, <3>1, <4>1, <4>2 DEF Due
      <3>2. CASE u # v
        <4>1. given'[<<u, FALSE>>] = given[<<u, FALSE>>]
          BY <2>4, <3>2
        <4> QED
          BY <4>1, <2>10 DEF RoundInv, GivenWasSent
      <3> QED
        BY <3>1, <3>2
    <2> QED
      BY <2>8, <2>9, <2>10 DEF GivenWasSent
  <1> QED
    BY <1>6, <1>7 DEF Ready

LEMMA RoundStep ==
    ASSUME InstanceTypeOK, RoundInv, [InstanceNext]_instance_vars
    PROVE  RoundInv'
  <1>1. ASSUME UNCHANGED <<queue, msg, msgQueue, given, delivered>>,
               \/ reader' = reader
               \/ reader \notin {"dispatch", "pass"} /\ reader' \notin {"dispatch", "pass"}
        PROVE  RoundInv'
    BY <1>1 DEF RoundInv, GivenWasSent
  <1>2. CASE ReaderCloses \/ ReaderWaits \/ ReaderWakes \/ HandlerReturns
    BY <1>1, <1>2 DEF ReaderCloses, ReaderWaits, ReaderWakes, HandlerReturns
  <1>3. ASSUME NEW t \in Types, dispatchChannel(t) \/ dispatchHandler(t) \/ NotHandled(t)
        PROVE  RoundInv'
    <2>1. /\ Ready(t) /\ Passed /\ msg' = <<>> /\ reader' \in {"loop", "handler"}
          /\ UNCHANGED <<queue, msgQueue, delivered>>
      BY <1>3 DEF dispatchChannel, dispatchHandler, NotHandled
    <2> QED
      BY <2>1, RoundPasses
  <1>4. ASSUME NEW t, Receive(t) PROVE RoundInv'
    BY <1>1, <1>4 DEF Receive
  <1>5. ASSUME NEW where, Done(where) PROVE RoundInv'
    BY <1>1, <1>5 DEF Done
  <1>6. CASE nodeDone \/ Close
    BY <1>1, <1>6 DEF nodeDone, Close
  <1>7. CASE UNCHANGED instance_vars
    BY <1>1, <1>7 DEF instance_vars
  <1> QED
    BY <1>2, <1>3, <1>4, <1>5, <1>6, <1>7, InstanceCases, RoundSend, RoundTakes, RoundAggregates

LEMMA RoundInit == InstanceInit => RoundInv
  <1> SUFFICES ASSUME InstanceInit PROVE RoundInv
    OBVIOUS
  <1>1. /\ queue = <<>> /\ msg = <<>> /\ reader = "loop" /\ Len(<<>>) = 0
        /\ \A t \in Aggregated : msgQueue[t] = <<>>
        /\ \A t \in Aggregated : given[<<t, FALSE>>] = <<>>
        /\ \A st \in DOMAIN Deliveries : delivered[st] = 0
    BY InstanceAssumption DEF InstanceInit, Lines
  <1>2. /\ Once(<<>>) /\ Apart(<<>>, <<>>) /\ AllDue(<<>>, given, delivered)
        /\ \A t : InRound(<<>>, t)
    BY SMTT(60) DEF Once, Apart, AllDue, InRound
  <1>3. GivenWasSent
    <2>1. 0 * Width = 0
      BY WidthIsPositive, SMTT(60)
    <2> QED
      <3> SUFFICES ASSUME NEW t \in Aggregated, NEW s \in Children, <<s, t>> \in DOMAIN Deliveries
                   PROVE  Len(given[<<t, FALSE>>]) <= delivered[<<s, t>>] * Width
        BY DEF GivenWasSent
      <3>1. Len(given[<<t, FALSE>>]) = 0 /\ delivered[<<s, t>>] = 0
        BY <1>1
      <3> QED
        BY <2>1, <3>1, SMTT(60)
  <1> QED
    BY <1>1, <1>2, <1>3, WidthIsPositive DEF RoundInv

\* aggregate compares a number of messages with the number of children and looks at no
\* sender.  For every tree and every order of arrival: if children answer in turn, what
\* the protocol is given at once is one message of each of them.
THEOREM RoundsAreComplete == InstanceSpec => OneFromEachChild
  <1> DEFINE Step == reader = "pass" /\ reader' # "pass" =>
                        {msg[i].from : i \in 1..Len(msg)} = Children
  <1>1. InstanceTypeOK /\ RoundInv => Step
    <2> SUFFICES ASSUME InstanceTypeOK, RoundInv, reader = "pass"
                 PROVE  {msg[i].from : i \in 1..Len(msg)} = Children
      OBVIOUS
    <2>1. PICK t \in Aggregated : InRound(msg, t)
      BY DEF RoundInv
    <2> QED
      BY <2>1, FullRound DEF RoundInv, InstanceTypeOK
  <1>2. InstanceSpec => [](InstanceTypeOK /\ RoundInv)
    BY TypeInit, TypeStep, RoundInit, RoundStep, PTL DEF InstanceSpec
  <1> QED
    BY <1>1, <1>2, PTL DEF OneFromEachChild

-----------------------------------------------------------------------------
(* The services of a server.  The four parts of the invariant are about    *)
(* the start, the messages, the data and the protocols; only the second    *)
(* and the third stand by themselves, as the others follow what has been   *)
(* started.                                                                *)

\* What is started and what is still to be started make up what was registered.
StartInv ==
    /\ constructors \in Seq(Names) /\ services \in Seq(Names) /\ toStart \in Seq(Names)
    /\ IsInjective(constructors)
    /\ server \in {"off", "starting", "running"}
    /\ server = "off" => services = <<>> /\ toStart = <<>>
    /\ server = "running" => toStart = <<>>
    /\ server # "off" =>
        /\ Len(constructors) = Len(services) + Len(toStart)
        /\ \A i \in 1..Len(services) : services[i] = constructors[i]
        /\ \A i \in 1..Len(toStart) : toStart[i] = constructors[Len(services) + i]

\* The two dispatchers know of everyone who has registered, also while another service
\* is between the two steps of its registration.
HandlerInv ==
    /\ procs \in [MsgTypes -> Names \cup {Nobody}]
    /\ wanted \in [MsgTypes -> Seq(Names)]
    /\ late # <<>> => late \in Names \X MsgTypes /\ late[2] \in toManager
    /\ \A t \in MsgTypes : wanted[t] # <<>> =>
        t \in toManager /\ procs[t] = wanted[t][Len(wanted[t])]
    /\ missed = {}

\* A file has the last completed save of its service, or is cut.
FileInv ==
    /\ files \in [Names \cup {Nobody} -> Nat]
    /\ loaded \in [Names -> Nat] /\ lastSaved \in [Names -> Nat]
    /\ saves \in Nat
    /\ \A s \in Names : files[s] = lastSaved[s] \/ files[s] = Cut

\* A started service that ties a protocol has it in the server's table, unless another
\* service was first; the global protocols come after all services.
TiedInv ==
    /\ instantiators \in [Protos -> Names \cup {Nobody, Global}]
    /\ server # "running" => made = {} /\ \A p \in Protos : instantiators[p] # Global
    /\ \A s \in Range(services) : \A p \in Tied[s] : instantiators[p] \in Names

ServicesInv == StartInv /\ HandlerInv /\ FileInv /\ TiedInv /\ LoadedIsSaved /\ TiedIsKept

LEMMA ServicesInitially == ServicesInit => ServicesInv
<1> SUFFICES ASSUME ServicesInit PROVE ServicesInv
  OBVIOUS
<1>1. StartInv
  BY SMTT(60) DEF ServicesInit, StartInv, IsInjective
<1>2. HandlerInv
  BY SMTT(60) DEF ServicesInit, HandlerInv, NoProcs, NoneWanted
<1>3. FileInv
  BY DEF ServicesInit, FileInv, Absent
<1>4. Range(services) = {}
  BY SMTT(60) DEF ServicesInit, Range
<1>5. TiedInv /\ TiedIsKept
  BY <1>4 DEF ServicesInit, TiedInv, TiedIsKept, NoProtocols, Nobody, Global
<1>6. LoadedIsSaved
  BY DEF ServicesInit, LoadedIsSaved
<1>7. QED BY <1>1, <1>2, <1>3, <1>5, <1>6 DEF ServicesInv

\* A name that is appended, or one that is taken out, leaves the others different.
LEMMA AppendIsInjective ==
  ASSUME NEW c \in Seq(Names), NEW n \in Names, IsInjective(c), n \notin Range(c)
  PROVE  Append(c, n) \in Seq(Names) /\ IsInjective(Append(c, n))
<1>1. \A i \in 1..Len(c) : c[i] # n
  BY SMTT(60) DEF Range
<1>2. \A i, j \in 1..Len(c) : c[i] = c[j] => i = j
  BY SMTT(60) DEF IsInjective
<1>3. \A i \in 1..(Len(c) + 1) : Append(c, n)[i] = IF i <= Len(c) THEN c[i] ELSE n
  BY SMTT(60)
<1>4. DOMAIN Append(c, n) = 1..(Len(c) + 1)
  BY SMTT(60)
<1>5. QED BY <1>1, <1>2, <1>3, <1>4, SMTT(60) DEF IsInjective

LEMMA RemoveIsInjective ==
  ASSUME NEW c \in Seq(Names), IsInjective(c), NEW i \in 1..Len(c), NEW d,
         d = [j \in 1..(Len(c) - 1) |-> c[IF j < i THEN j ELSE j + 1]]
  PROVE  d \in Seq(Names) /\ IsInjective(d)
<1>1. Len(c) - 1 \in Nat
  BY SMTT(60)
<1>2. \A j \in 1..(Len(c) - 1) : (IF j < i THEN j ELSE j + 1) \in 1..Len(c)
  BY SMTT(60)
<1>3. \A j \in 1..(Len(c) - 1) : d[j] \in Names
  BY <1>2, SMTT(60)
<1>4. d \in Seq(Names)
  BY <1>1, <1>3, SMTT(60)
<1>5. IsInjective(d)
  <2> SUFFICES ASSUME NEW j \in 1..(Len(c) - 1), NEW k \in 1..(Len(c) - 1), d[j] = d[k]
               PROVE  j = k
    BY DEF IsInjective
  <2>1. c[IF j < i THEN j ELSE j + 1] = c[IF k < i THEN k ELSE k + 1]
    OBVIOUS
  <2>2. (IF j < i THEN j ELSE j + 1) = (IF k < i THEN k ELSE k + 1)
    BY <1>2, <2>1, SMTT(60) DEF IsInjective
  <2>3. QED BY <2>2, SMTT(60)
<1>6. QED BY <1>4, <1>5

LEMMA HeadIsService ==
  ASSUME StartInv, startService
  PROVE  Head(toStart) \in Names /\ toStart # <<>> /\ server = "starting"
<1>1. toStart \in Seq(Names) /\ toStart # <<>> /\ server = "starting"
  BY DEF StartInv, startService
<1>2. QED BY <1>1, SMTT(60)

LEMMA StartStep == StartInv /\ [ServicesNext]_service_vars => StartInv'
<1> SUFFICES ASSUME StartInv, [ServicesNext]_service_vars PROVE StartInv'
  OBVIOUS
<1>1. CASE UNCHANGED <<constructors, startVars>>
  BY <1>1 DEF StartInv, startVars
<1>2. ASSUME NEW n \in Names, Register(n) PROVE StartInv'
  <2>1. constructors' \in Seq(Names) /\ IsInjective(constructors')
    BY <1>2, AppendIsInjective DEF Register, NotRegistered, StartInv
  <2>2. QED BY <1>2, <2>1 DEF Register, StartInv, startVars
<1>3. ASSUME NEW n \in Names, Unregister(n) PROVE StartInv'
  <2>1. constructors' \in Seq(Names) /\ IsInjective(constructors')
    <3>1. PICK i \in DOMAIN constructors :
            constructors' = [j \in 1..(Len(constructors) - 1) |->
                               constructors[IF j < i THEN j ELSE j + 1]]
      BY <1>3 DEF Unregister
    <3>2. i \in 1..Len(constructors)
      BY SMTT(60) DEF StartInv
    <3>3. QED BY <3>1, <3>2, RemoveIsInjective DEF StartInv
  <2>2. QED BY <1>3, <2>1 DEF Unregister, StartInv, startVars
<1>4. CASE NewServer
  BY <1>4, SMTT(60) DEF NewServer, StartInv, regVars
<1>5. CASE startService
  <2>1. /\ toStart \in Seq(Names) /\ toStart # <<>> /\ services \in Seq(Names)
        /\ toStart' = Tail(toStart) /\ services' = Append(services, Head(toStart))
        /\ UNCHANGED <<constructors, server>> /\ server = "starting"
    BY <1>5 DEF startService, StartInv, regVars
  <2>2. /\ Head(toStart) = toStart[1] /\ Head(toStart) \in Names /\ Len(toStart) > 0
        /\ Tail(toStart) \in Seq(Names) /\ Len(Tail(toStart)) = Len(toStart) - 1
        /\ \A i \in 1..(Len(toStart) - 1) : Tail(toStart)[i] = toStart[i + 1]
    BY <2>1, SMTT(60)
  <2>3. /\ services' \in Seq(Names) /\ Len(services') = Len(services) + 1
        /\ \A i \in 1..Len(services) : services'[i] = services[i]
        /\ services'[Len(services) + 1] = toStart[1]
    BY <2>1, <2>2, SMTT(60)
  <2>4. /\ Len(constructors) = Len(services) + Len(toStart)
        /\ \A i \in 1..Len(services) : services[i] = constructors[i]
        /\ \A i \in 1..Len(toStart) : toStart[i] = constructors[Len(services) + i]
    BY <2>1 DEF StartInv
  <2>5. Len(constructors') = Len(services') + Len(toStart')
    <3>1. Len(constructors') = Len(constructors) /\ Len(toStart') = Len(toStart) - 1
      BY <2>1, <2>2
    <3>2. Len(services) \in Nat /\ Len(toStart) \in Nat
      BY <2>1, SMTT(60)
    <3>3. Len(constructors) = Len(services) + Len(toStart) /\ Len(services') = Len(services) + 1
      BY <2>3, <2>4
    <3>4. QED BY <3>1, <3>2, <3>3, SMTT(60)
  <2>6. \A i \in 1..Len(services') : services'[i] = constructors'[i]
    BY <2>1, <2>2, <2>3, <2>4, SMTT(60)
  <2>7. \A i \in 1..Len(toStart') : toStart'[i] = constructors'[Len(services') + i]
    BY <2>1, <2>2, <2>3, <2>4, SMTT(60)
  <2>8. QED BY <2>1, <2>2, <2>3, <2>5, <2>6, <2>7 DEF StartInv
<1>6. CASE AllStarted
  BY <1>6 DEF AllStarted, StartInv, regVars
<1>7. CASE Crash
  BY <1>7, SMTT(60) DEF Crash, StartInv, regVars
<1>8. ASSUME NEW n \in Names, Save(n) \/ SaveReturns(n) PROVE UNCHANGED <<constructors, startVars>>
  BY <1>8 DEF Save, SaveReturns, regVars
<1>9. ASSUME NEW q \in Protos, GlobalProtocolRegister(q) PROVE UNCHANGED <<constructors, startVars>>
  BY <1>9 DEF GlobalProtocolRegister
<1>10. ASSUME NEW n \in Names, NEW t \in MsgTypes, LateRegister(n, t)
       PROVE UNCHANGED <<constructors, startVars>>
  BY <1>10 DEF LateRegister, regVars
<1>11. CASE LateRegistered
  BY <1>1, <1>11 DEF LateRegistered, regVars
<1>12. ASSUME NEW t \in MsgTypes, Dispatch(t) PROVE UNCHANGED <<constructors, startVars>>
  BY <1>12 DEF Dispatch, regVars
<1>13. ASSUME NEW n \in Names \cup {Nobody}, NEW q \in Protos, newProtocol(n, q)
       PROVE UNCHANGED <<constructors, startVars>>
  BY <1>13 DEF newProtocol, regVars
<1>14. CASE UNCHANGED service_vars
  BY <1>1, <1>14 DEF service_vars, regVars
<1>15. QED
  BY <1>1, <1>2, <1>3, <1>4, <1>5, <1>6, <1>7, <1>8, <1>9, <1>10, <1>11, <1>12, <1>13, <1>14
     DEF ServicesNext

LEMMA HandlerStep ==
  StartInv /\ HandlerInv /\ [ServicesNext]_service_vars => HandlerInv'
<1> SUFFICES ASSUME StartInv, HandlerInv, [ServicesNext]_service_vars PROVE HandlerInv'
  OBVIOUS
<1>1. CASE UNCHANGED msgVars
  BY <1>1 DEF HandlerInv, msgVars
<1>2. CASE startService
  <2>1. PICK n \in Names :
          /\ toManager' = toManager \cup Handles[n]
          /\ procs' = [t \in MsgTypes |-> IF t \in Handles[n] THEN n ELSE procs[t]]
          /\ wanted' = [t \in MsgTypes |->
                          IF t \in Handles[n] THEN Append(wanted[t], n) ELSE wanted[t]]
          /\ UNCHANGED <<late, missed>>
    <3>1. Head(toStart) \in Names
      BY <1>2, HeadIsService
    <3>2. QED BY <1>2, <3>1 DEF startService, RegisterProcessor
  <2>2. procs' \in [MsgTypes -> Names \cup {Nobody}] /\ wanted' \in [MsgTypes -> Seq(Names)]
    BY <2>1, SMTT(60) DEF HandlerInv
  <2>3. ASSUME NEW t \in MsgTypes, wanted'[t] # <<>>
        PROVE  t \in toManager' /\ procs'[t] = wanted'[t][Len(wanted'[t])]
    <3>1. CASE t \in Handles[n]
      <4>1. wanted[t] \in Seq(Names)
        BY DEF HandlerInv
      <4>2. wanted'[t] = Append(wanted[t], n) /\ procs'[t] = n
        BY <2>1, <3>1
      <4>3. Append(wanted[t], n)[Len(Append(wanted[t], n))] = n
        BY <4>1, SMTT(60)
      <4>4. QED BY <2>1, <3>1, <4>2, <4>3
    <3>2. CASE t \notin Handles[n]
      BY <2>1, <2>3, <3>2 DEF HandlerInv
    <3>3. QED BY <3>1, <3>2
  <2>4. QED BY <2>1, <2>2, <2>3 DEF HandlerInv
<1>3. CASE Crash
  BY <1>3, SMTT(60) DEF Crash, HandlerInv, NoProcs, NoneWanted
<1>4. ASSUME NEW n \in Names, NEW t \in MsgTypes, LateRegister(n, t) PROVE HandlerInv'
  BY <1>4 DEF LateRegister, HandlerInv
<1>5. CASE LateRegistered
  <2>1. PICK n \in Names, t \in MsgTypes : late = <<n, t>> /\ t \in toManager
    BY <1>5, SMTT(60) DEF LateRegistered, HandlerInv
  <2>2. /\ procs' = [procs EXCEPT ![t] = n]
        /\ wanted' = [wanted EXCEPT ![t] = Append(wanted[t], n)]
        /\ late' = <<>> /\ UNCHANGED <<toManager, missed>>
    BY <1>5, <2>1 DEF LateRegistered, RegisterProcessor
  <2>3. Append(wanted[t], n) \in Seq(Names) /\ Append(wanted[t], n)[Len(Append(wanted[t], n))] = n
    BY SMTT(60) DEF HandlerInv
  <2>4. procs' \in [MsgTypes -> Names \cup {Nobody}] /\ wanted' \in [MsgTypes -> Seq(Names)]
    BY <2>2, <2>3 DEF HandlerInv
  <2>5. \A u \in MsgTypes : wanted'[u] # <<>> =>
            u \in toManager' /\ procs'[u] = wanted'[u][Len(wanted'[u])]
    BY <2>1, <2>2, <2>3 DEF HandlerInv
  <2>6. QED BY <2>2, <2>4, <2>5 DEF HandlerInv
<1>6. ASSUME NEW t \in MsgTypes, Dispatch(t) PROVE HandlerInv'
  <2>1. missed' = {}
    BY <1>6 DEF Dispatch, HandlerInv
  <2>2. QED BY <1>6, <2>1 DEF Dispatch, HandlerInv
<1>7. ASSUME NEW n \in Names, Register(n) \/ Unregister(n) \/ Save(n) \/ SaveReturns(n)
      PROVE  UNCHANGED msgVars
  BY <1>7 DEF Register, Unregister, Save, SaveReturns
<1>8. ASSUME NEW q \in Protos, GlobalProtocolRegister(q) PROVE UNCHANGED msgVars
  BY <1>8 DEF GlobalProtocolRegister
<1>9. CASE NewServer \/ AllStarted
  BY <1>1, <1>9 DEF NewServer, AllStarted
<1>10. ASSUME NEW n \in Names \cup {Nobody}, NEW q \in Protos, newProtocol(n, q)
       PROVE UNCHANGED msgVars
  BY <1>10 DEF newProtocol
<1>11. CASE UNCHANGED service_vars
  BY <1>1, <1>11 DEF service_vars
<1>12. QED
  BY <1>1, <1>2, <1>3, <1>4, <1>5, <1>6, <1>7, <1>8, <1>9, <1>10, <1>11 DEF ServicesNext

\* Nothing is saved while a server starts: what a constructor has loaded stays what its
\* service saved last until the server runs.
LEMMA FileStep ==
  StartInv /\ FileInv /\ LoadedIsSaved /\ [ServicesNext]_service_vars
      => FileInv' /\ LoadedIsSaved'
<1> SUFFICES ASSUME StartInv, FileInv, LoadedIsSaved, [ServicesNext]_service_vars
             PROVE  FileInv' /\ LoadedIsSaved'
  OBVIOUS
<1> USE DEF absFilename
<1>1. CASE UNCHANGED <<server, services, dataVars>>
  BY <1>1 DEF FileInv, LoadedIsSaved, dataVars, Cut
<1>2. ASSUME NEW n \in Names, Save(n) PROVE FileInv' /\ LoadedIsSaved'
  <2>1. /\ files' = [files EXCEPT ![n] = Cut] /\ saves' = saves + 1
        /\ UNCHANGED <<loaded, lastSaved>> /\ server' # "starting"
    BY <1>2 DEF Save, Runs, startVars
  <2>2. Cut \in Nat /\ Cut' = Cut
    BY ServicesAssumption, SMTT(60) DEF Cut
  <2>3. FileInv'
    BY <2>1, <2>2, SMTT(60) DEF FileInv
  <2>4. QED BY <2>1, <2>3 DEF LoadedIsSaved
<1>3. ASSUME NEW n \in Names, SaveReturns(n) PROVE FileInv' /\ LoadedIsSaved'
  <2>1. /\ files' = [files EXCEPT ![n] = saves] /\ lastSaved' = [lastSaved EXCEPT ![n] = saves]
        /\ UNCHANGED <<loaded, saves>> /\ server' # "starting"
    BY <1>3 DEF SaveReturns, Runs, startVars
  <2>2. Cut' = Cut
    BY DEF Cut
  <2>3. FileInv'
    BY <2>1, <2>2 DEF FileInv
  <2>4. QED BY <2>1, <2>3 DEF LoadedIsSaved
<1>4. CASE startService
  <2>1. PICK n \in Names :
          /\ services' = Append(services, n)
          /\ loaded' = [loaded EXCEPT ![n] = files[n]]
          /\ server = "starting" /\ UNCHANGED <<files, saves, lastSaved>>
    <3>1. Head(toStart) \in Names
      BY <1>4, HeadIsService
    <3>2. Load(Head(toStart)) = files[Head(toStart)]
      BY DEF Load, DataAvailable
    <3>3. QED BY <1>4, <3>1, <3>2 DEF startService
  <2>2. Cut' = Cut
    BY DEF Cut
  <2>3. FileInv'
    BY <2>1, <2>2 DEF FileInv
  <2>4. \A m \in Range(services') : m = n \/ m \in Range(services)
    BY <2>1, SMTT(60) DEF Range, StartInv
  <2>5. \A m \in Range(services') : m \in Names
    BY <2>1, SMTT(60) DEF Range, StartInv
  <2>6. ASSUME NEW m \in Range(services')
        PROVE  loaded'[m] = lastSaved'[m] \/ (loaded'[m] = Cut /\ files'[m] = Cut)
    <3>1. CASE m = n
      BY <2>1, <3>1 DEF FileInv
    <3>2. CASE m # n
      BY <2>1, <2>4, <2>5, <3>2 DEF FileInv, LoadedIsSaved
    <3>3. QED BY <3>1, <3>2
  <2>7. QED BY <2>2, <2>3, <2>6 DEF LoadedIsSaved
<1>5. CASE NewServer
  <2>1. Range(services') = {}
    BY <1>5, SMTT(60) DEF NewServer, StartInv, Range
  <2>2. FileInv'
    BY <1>5 DEF NewServer, FileInv, dataVars, Cut
  <2>3. QED BY <2>1, <2>2 DEF LoadedIsSaved
<1>6. CASE AllStarted \/ Crash
  BY <1>6 DEF AllStarted, Crash, FileInv, LoadedIsSaved, dataVars, Cut
<1>7. ASSUME NEW n \in Names, Register(n) \/ Unregister(n)
      PROVE  UNCHANGED <<server, services, dataVars>>
  BY <1>7 DEF Register, Unregister, startVars
<1>8. ASSUME NEW q \in Protos, GlobalProtocolRegister(q)
      PROVE  UNCHANGED <<server, services, dataVars>>
  BY <1>8 DEF GlobalProtocolRegister, startVars
<1>9. ASSUME NEW n \in Names, NEW t \in MsgTypes, LateRegister(n, t)
      PROVE  UNCHANGED <<server, services, dataVars>>
  BY <1>9 DEF LateRegister, startVars
<1>10. CASE LateRegistered
  BY <1>1, <1>10 DEF LateRegistered, startVars
<1>11. ASSUME NEW t \in MsgTypes, Dispatch(t) PROVE UNCHANGED <<server, services, dataVars>>
  BY <1>11 DEF Dispatch, startVars
<1>12. ASSUME NEW n \in Names \cup {Nobody}, NEW q \in Protos, newProtocol(n, q)
       PROVE UNCHANGED <<server, services, dataVars>>
  BY <1>12 DEF newProtocol, startVars
<1>13. CASE UNCHANGED service_vars
  BY <1>1, <1>13 DEF service_vars, startVars
<1>14. QED
  BY <1>1, <1>2, <1>3, <1>4, <1>5, <1>6, <1>7, <1>8, <1>9, <1>10, <1>11, <1>12, <1>13
     DEF ServicesNext

LEMMA TiedStep ==
  StartInv /\ TiedInv /\ TiedIsKept /\ [ServicesNext]_service_vars => TiedInv' /\ TiedIsKept'
<1> SUFFICES ASSUME StartInv, TiedInv, TiedIsKept, [ServicesNext]_service_vars
             PROVE  TiedInv' /\ TiedIsKept'
  OBVIOUS
<1>1. CASE UNCHANGED <<server, services, protoVars>>
  BY <1>1 DEF TiedInv, TiedIsKept, protoVars
<1>2. Range(services) \subseteq Names
  BY SMTT(60) DEF Range, StartInv
<1>3. CASE startService
  <2>1. PICK n \in Names :
          /\ services' = Append(services, n)
          /\ instantiators' = [q \in Protos |-> IF q \in Tied[n] /\ instantiators[q] = Nobody
                                                  THEN n ELSE instantiators[q]]
          /\ server = "starting" /\ UNCHANGED <<server, made>>
    <3>1. Head(toStart) \in Names
      BY <1>3, HeadIsService
    <3>2. QED BY <1>3, <3>1 DEF startService, ProtocolRegister
  <2>2. instantiators' \in [Protos -> Names \cup {Nobody, Global}]
    BY <2>1 DEF TiedInv
  <2>3. made' = {} /\ \A q \in Protos : instantiators'[q] # Global
    BY <2>1, ServicesAssumption DEF TiedInv
  <2>4. \A m \in Range(services') : m = n \/ m \in Range(services)
    BY <2>1, SMTT(60) DEF Range, StartInv
  <2>5. ASSUME NEW m \in Range(services'), NEW q \in Tied[m] PROVE instantiators'[q] \in Names
    <3>1. q \in Protos
      BY <1>2, <2>4, ServicesAssumption
    <3>2. CASE m = n
      BY <2>1, <3>1, <3>2, <2>3, <2>2, ServicesAssumption
    <3>3. CASE m \in Range(services)
      <4>1. instantiators[q] \in Names
        BY <3>3 DEF TiedInv
      <4>2. QED BY <2>1, <3>1, <4>1
    <3>4. QED BY <2>4, <3>2, <3>3
  <2>6. QED BY <2>1, <2>2, <2>3, <2>5 DEF TiedInv, TiedIsKept
<1>4. CASE AllStarted
  <2>1. /\ instantiators' = [q \in Protos |-> IF q \in globals /\ instantiators[q] = Nobody
                                                THEN Global ELSE instantiators[q]]
        /\ server = "starting" /\ server' = "running" /\ UNCHANGED <<services, made>>
    BY <1>4 DEF AllStarted, ProtocolRegister
  <2>2. instantiators' \in [Protos -> Names \cup {Nobody, Global}]
    BY <2>1 DEF TiedInv
  <2>3. made' = {}
    BY <2>1 DEF TiedInv
  <2>4. ASSUME NEW m \in Range(services), NEW q \in Tied[m] PROVE instantiators'[q] \in Names
    <3>1. q \in Protos /\ instantiators[q] \in Names
      BY <1>2, ServicesAssumption DEF TiedInv
    <3>2. QED BY <2>1, <3>1, ServicesAssumption
  <2>5. QED BY <2>1, <2>2, <2>3, <2>4 DEF TiedInv, TiedIsKept
<1>5. CASE Crash
  <2>1. Range(services') = {}
    BY <1>5, SMTT(60) DEF Crash, Range
  <2>2. QED BY <1>5, <2>1 DEF Crash, TiedInv, TiedIsKept, NoProtocols, Nobody, Global
<1>6. ASSUME NEW n \in Names \cup {Nobody}, NEW q \in Protos, newProtocol(n, q)
      PROVE  TiedInv' /\ TiedIsKept'
  <2>1. PICK by :
          /\ made' = made \cup {<<q, by>>}
          /\ by = instantiators[q] \/ by \in Range(services)
    BY <1>6 DEF newProtocol
  <2>2. UNCHANGED <<server, services, instantiators>> /\ server = "running"
    BY <1>6 DEF newProtocol, startVars
  <2>3. by = Global => \A m \in Range(services) : q \notin Tied[m]
    BY <1>2, <2>1, ServicesAssumption DEF TiedInv
  <2>4. \A i \in made' : i[2] = Global => \A m \in Range(services) : i[1] \notin Tied[m]
    BY <2>1, <2>3, SMTT(60) DEF TiedIsKept
  <2>5. QED BY <2>2, <2>4 DEF TiedInv, TiedIsKept
<1>7. ASSUME NEW n \in Names, Register(n) \/ Unregister(n) \/ Save(n) \/ SaveReturns(n)
      PROVE  UNCHANGED <<server, services, protoVars>>
  BY <1>7 DEF Register, Unregister, Save, SaveReturns, startVars
<1>8. ASSUME NEW q \in Protos, GlobalProtocolRegister(q)
      PROVE  UNCHANGED <<server, services, protoVars>>
  BY <1>8 DEF GlobalProtocolRegister, startVars
<1>9. CASE NewServer
  BY <1>9 DEF NewServer, TiedInv, TiedIsKept, protoVars
<1>10. ASSUME NEW n \in Names, NEW t \in MsgTypes, LateRegister(n, t)
       PROVE  UNCHANGED <<server, services, protoVars>>
  BY <1>10 DEF LateRegister, startVars
<1>11. CASE LateRegistered
  BY <1>1, <1>11 DEF LateRegistered, startVars
<1>12. ASSUME NEW t \in MsgTypes, Dispatch(t) PROVE UNCHANGED <<server, services, protoVars>>
  BY <1>12 DEF Dispatch, startVars
<1>13. CASE UNCHANGED service_vars
  BY <1>1, <1>13 DEF service_vars, startVars
<1>14. QED
  BY <1>1, <1>3, <1>4, <1>5, <1>6, <1>7, <1>8, <1>9, <1>10, <1>11, <1>12, <1>13
     DEF ServicesNext

\* Services, handlers, protocols and saved data stay those of the service that they
\* belong to: serviceFactory, the two dispatchers, the files of Context.Save and the
\* server's protocols, for any services, message types and protocols, in whatever order
\* services register, start, save and crash.
THEOREM ServicesStayApart == ServicesSpec => []ServicesAreKept
<1>1. ServicesInv /\ [ServicesNext]_service_vars => ServicesInv'
  BY StartStep, HandlerStep, FileStep, TiedStep DEF ServicesInv
<1>2. ServicesInv => ServicesAreKept
  <2> SUFFICES ASSUME ServicesInv PROVE ServicesAreKept
    OBVIOUS
  <2>1. StartedOnce
    <3> SUFFICES ASSUME server = "running" PROVE services = constructors /\ IsInjective(services)
      BY DEF StartedOnce
    <3>1. /\ services \in Seq(Names) /\ constructors \in Seq(Names) /\ toStart = <<>>
          /\ Len(constructors) = Len(services) + Len(toStart)
          /\ \A i \in 1..Len(services) : services[i] = constructors[i]
      BY DEF ServicesInv, StartInv
    <3>2. Len(services) = Len(constructors)
      BY <3>1, SMTT(60)
    <3>3. services = constructors
      BY <3>1, <3>2, SMTT(60)
    <3>4. QED BY <3>3 DEF ServicesInv, StartInv
  <2>2. QED BY <2>1 DEF ServicesInv, HandlerInv, ReachesLast, ServicesAreKept
<1>3. QED BY <1>1, <1>2, ServicesInitially, PTL DEF ServicesSpec

=============================================================================
