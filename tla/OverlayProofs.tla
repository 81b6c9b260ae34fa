--------------------------- MODULE OverlayProofs ---------------------------
(***************************************************************************)
(* Theorems about Overlay, for every set of servers, trees and rosters,    *)
(* every pattern of messages and every set of servers that may fail.       *)
(***************************************************************************)
EXTENDS Overlay, TLAPS

\* Leaves are for Zenon; those with arithmetic, and a few others, cite SMTT.
USE ZenonT(60)

-----------------------------------------------------------------------------
(* Types. *)

Rosters == {RosterOf[t] : t \in Trees}
Proto == [kind : {"proto"}, id : Trees, from : Servers, nr : Nat]
Message ==
    Proto \cup [kind : {"config", "reqTree"}, id : Trees, from : Servers, nr : Nat]
          \cup [kind : {"tree"}, id : Trees \cup {Nothing}, from : Servers, nr : Nat]
          \cup [kind : {"reqRoster"}, id : Rosters, from : Servers, nr : Nat]
          \cup [kind : {"roster"}, id : Rosters \cup {Nothing}, from : Servers, nr : Nat]

\* Where TransmitMsg is at work on a message.
Holding == {"request", "transmit", "create", "register"}
Place ==
    [pc : {"idle", "blocked"}, msg : {Nothing}] \cup [pc : {"next"}, msg : Message]
        \cup [pc : Holding, msg : Proto]

Links == Servers \X Servers

\* The types of what the overlay keeps, and of what goes over the network.
OverlayTypeOK ==
    /\ net \in [Links -> Seq(Message)]
    /\ trees \in [Servers -> SUBSET Trees]
    /\ rosters \in [Servers -> SUBSET Rosters]
    /\ pendingMsg \in [Servers -> Seq(Proto)]
    /\ pendingTree \in [Servers -> SUBSET Trees]
    /\ treeLocked \in [Servers -> BOOLEAN]
    /\ checks \in [Servers -> SUBSET Trees]
    /\ configs \in [Servers -> SUBSET Trees]
    /\ instances \in [Servers -> SUBSET Trees]
    /\ protocols \in [Servers -> SUBSET Trees]
    /\ finished \in [Servers -> SUBSET Trees]
    /\ started \in [Servers -> [Trees -> Nat]]
    /\ firstFrom \in [Servers -> [Trees -> Servers \cup {Nothing}]]
    /\ configured \in [Servers -> SUBSET Trees]
    /\ worker \in [Servers -> [Workers -> Place]]
    /\ sent \in [DOMAIN Sends -> Nat]
    /\ got \in [Servers -> Seq(Proto)]
    /\ failed \in SUBSET Servers

-----------------------------------------------------------------------------
(* Words on sequences of messages. *)

\* m is an element of the sequence q, and a protocol message is there only once.
In(m, q) == \E i \in 1..Len(q) : q[i] = m
Once(q) == \A i, j \in 1..Len(q) : q[i] = q[j] /\ q[i].kind = "proto" => i = j

IsConfig(m, t) == m.kind = "config" /\ m.id = t
IsProto(m, t) == m.kind = "proto" /\ m.id = t

\* In q there is a config for t, and one comes before each message for t.
HasConfig(q, t) == \E i \in 1..Len(q) : IsConfig(q[i], t)
ConfigLeads(q, t) ==
    \A i \in 1..Len(q) : IsProto(q[i], t) => \E j \in 1..Len(q) : j < i /\ IsConfig(q[j], t)

-----------------------------------------------------------------------------
(* Sequences of messages. *)

LEMMA NumbersGrow == \A b \in Nat : b + 1 \in Nat /\ b <= b /\ b <= b + 1
  BY SMTT(60)

LEMMA NothingInEmpty == Once(<<>>) /\ \A m : ~In(m, <<>>)
  BY SMTT(60) DEF Once, In

LEMMA TailElements ==
    ASSUME NEW S, NEW q \in Seq(S), q # <<>>
    PROVE  /\ Head(q) \in S /\ Head(q) = q[1] /\ In(Head(q), q)
           /\ Tail(q) \in Seq(S)
           /\ Len(Tail(q)) = Len(q) - 1
           /\ \A i \in 1..Len(q) - 1 : Tail(q)[i] = q[i + 1]
           /\ \A m : In(m, Tail(q)) => In(m, q)
           /\ \A m : In(m, q) => m = Head(q) \/ In(m, Tail(q))
           /\ Once(q) => Once(Tail(q))
           /\ Once(q) /\ Head(q).kind = "proto" => ~In(Head(q), Tail(q))
  <1>1. Len(q) \in Nat /\ Len(q) >= 1 /\ Head(q) = q[1] /\ Head(q) \in S
    BY SMTT(60)
  <1>2. Tail(q) \in Seq(S) /\ Len(Tail(q)) = Len(q) - 1
    BY SMTT(60)
  <1>3. \A i \in 1..Len(q) - 1 : Tail(q)[i] = q[i + 1]
    BY SMTT(60)
  <1>4. \A i \in 1..Len(q) - 1 : i + 1 \in 1..Len(q)
    BY <1>1, SMTT(60)
  <1>5. \A m : In(m, Tail(q)) => In(m, q)
    BY <1>2, <1>3, <1>4 DEF In
  <1>6. \A m : In(m, q) => m = Head(q) \/ In(m, Tail(q))
    <2>1. ASSUME NEW i \in 1..Len(q), i # 1
          PROVE  i - 1 \in 1..Len(q) - 1 /\ q[i] = Tail(q)[i - 1]
      BY <1>1, <1>3, <2>1, SMTT(60)
    <2> QED
      BY <1>1, <1>2, <2>1 DEF In
  <1>7. Once(q) => Once(Tail(q))
    <2>1. ASSUME Once(q), NEW i \in 1..Len(q) - 1, NEW j \in 1..Len(q) - 1,
                 Tail(q)[i] = Tail(q)[j], Tail(q)[i].kind = "proto"
          PROVE  i = j
      <3>1. q[i + 1] = q[j + 1] /\ q[i + 1].kind = "proto"
        BY <1>3, <2>1
      <3>2. i + 1 = j + 1
        BY <1>4, <2>1, <3>1 DEF Once
      <3> QED
        BY <3>2, SMTT(60)
    <2> QED
      BY <1>2, <2>1 DEF Once
  <1>8. ASSUME Once(q), Head(q).kind = "proto", In(Head(q), Tail(q))
        PROVE  FALSE
    <2>1. PICK i \in 1..Len(q) - 1 : q[i + 1] = q[1]
      BY <1>1, <1>2, <1>3, <1>8 DEF In
    <2>2. 1 \in 1..Len(q) /\ i + 1 \in 1..Len(q)
      BY <1>1, SMTT(60)
    <2>3. i + 1 = 1
      BY <1>1, <1>8, <2>1, <2>2 DEF Once
    <2> QED
      BY <2>3, SMTT(60)
  <1>9. In(Head(q), q)
    BY <1>1, SMTT(60) DEF In
  <1> QED
    BY <1>1, <1>2, <1>3, <1>5, <1>6, <1>7, <1>8, <1>9

LEMMA AppendElements ==
    ASSUME NEW S, NEW q \in Seq(S), NEW x \in S
    PROVE  /\ Append(q, x) \in Seq(S)
           /\ Len(Append(q, x)) = Len(q) + 1
           /\ \A i \in 1..Len(q) : Append(q, x)[i] = q[i]
           /\ Append(q, x)[Len(q) + 1] = x
           /\ \A m : In(m, Append(q, x)) <=> In(m, q) \/ m = x
           /\ Once(q) /\ ~In(x, q) => Once(Append(q, x))
           /\ Once(q) /\ x.kind # "proto" => Once(Append(q, x))
  <1>1. Len(q) \in Nat /\ Append(q, x) \in Seq(S) /\ Len(Append(q, x)) = Len(q) + 1
    BY SMTT(60)
  <1>2. \A i \in 1..Len(q) : Append(q, x)[i] = q[i]
    BY SMTT(60)
  <1>3. Append(q, x)[Len(q) + 1] = x
    BY SMTT(60)
  <1>4. /\ 1..Len(q) + 1 = (1..Len(q)) \cup {Len(q) + 1}
        /\ Len(q) + 1 \notin 1..Len(q)
    BY <1>1, SMTT(60)
  <1>5. \A m : In(m, Append(q, x)) <=> In(m, q) \/ m = x
    BY <1>1, <1>2, <1>3, <1>4 DEF In
  <1>6. ASSUME Once(q), ~In(x, q) \/ x.kind # "proto"
        PROVE  Once(Append(q, x))
    <2> DEFINE a == Append(q, x)
    <2> SUFFICES ASSUME NEW i \in (1..Len(q)) \cup {Len(q) + 1},
                        NEW j \in (1..Len(q)) \cup {Len(q) + 1},
                        a[i] = a[j], a[i].kind = "proto"
                 PROVE  i = j
      BY <1>1, <1>4 DEF Once
    <2>1. CASE i \in 1..Len(q) /\ j \in 1..Len(q)
      BY <1>2, <1>6, <2>1 DEF Once
    <2>2. CASE i = Len(q) + 1 /\ j = Len(q) + 1
      BY <2>2
    <2>3. CASE i \in 1..Len(q) /\ j = Len(q) + 1
      BY <1>2, <1>3, <1>6, <2>3 DEF In
    <2>4. CASE i = Len(q) + 1 /\ j \in 1..Len(q)
      BY <1>2, <1>3, <1>6, <2>4 DEF In
    <2> QED
      BY <2>1, <2>2, <2>3, <2>4
  <1> QED
    BY <1>1, <1>2, <1>3, <1>5, <1>6

\* The order of the messages on a link: what is taken leaves the config where it is,
\* unless it is the config, and what comes later comes after it.
LEMMA ConfigTail ==
    ASSUME NEW S, NEW q \in Seq(S), q # <<>>, NEW t, ~IsConfig(Head(q), t)
    PROVE  /\ ConfigLeads(q, t) => ConfigLeads(Tail(q), t) /\ ~IsProto(Head(q), t)
           /\ HasConfig(q, t) => HasConfig(Tail(q), t)
  <1>1. Len(q) \in Nat /\ Len(q) >= 1 /\ Head(q) = q[1]
    BY SMTT(60)
  <1>2. /\ Tail(q) \in Seq(S) /\ Len(Tail(q)) = Len(q) - 1
        /\ \A i \in 1..Len(q) - 1 : Tail(q)[i] = q[i + 1]
    BY TailElements
  <1>3. \A i \in 1..Len(q) - 1 : i + 1 \in 1..Len(q)
    BY <1>1, SMTT(60)
  <1>4. ASSUME NEW j \in 1..Len(q), IsConfig(q[j], t)
        PROVE  \E k \in 1..Len(q) - 1 : j = k + 1 /\ IsConfig(Tail(q)[k], t)
    <2>1. j # 1
      BY <1>1, <1>4
    <2>2. j - 1 \in 1..Len(q) - 1 /\ j = (j - 1) + 1
      BY <1>1, <2>1, SMTT(60)
    <2> QED
      BY <1>2, <1>4, <2>2
  <1>5. ASSUME ConfigLeads(q, t), NEW i \in 1..Len(q) - 1, IsProto(Tail(q)[i], t)
        PROVE  \E k \in 1..Len(q) - 1 : k < i /\ IsConfig(Tail(q)[k], t)
    <2>1. PICK j \in 1..Len(q) : j < i + 1 /\ IsConfig(q[j], t)
      BY <1>2, <1>3, <1>5 DEF ConfigLeads
    <2>2. PICK k \in 1..Len(q) - 1 : j = k + 1 /\ IsConfig(Tail(q)[k], t)
      BY <1>4, <2>1
    <2> QED
      BY <2>1, <2>2, SMTT(60)
  <1>6. ConfigLeads(q, t) => ConfigLeads(Tail(q), t)
    BY <1>2, <1>5 DEF ConfigLeads
  <1>7. ConfigLeads(q, t) => ~IsProto(Head(q), t)
    <2>1. 1 \in 1..Len(q) /\ \A j \in 1..Len(q) : ~(j < 1)
      BY <1>1, SMTT(60)
    <2> QED
      BY <1>1, <2>1 DEF ConfigLeads
  <1>8. HasConfig(q, t) => HasConfig(Tail(q), t)
    BY <1>2, <1>4 DEF HasConfig
  <1> QED
    BY <1>6, <1>7, <1>8

LEMMA ConfigAppend ==
    ASSUME NEW S, NEW q \in Seq(S), NEW x \in S, NEW t
    PROVE  /\ ConfigLeads(q, t) /\ (IsProto(x, t) => HasConfig(q, t))
                 => ConfigLeads(Append(q, x), t)
           /\ HasConfig(q, t) \/ IsConfig(x, t) => HasConfig(Append(q, x), t)
  <1> DEFINE a == Append(q, x)
  <1>1. /\ Len(q) \in Nat /\ Len(a) = Len(q) + 1 /\ a[Len(q) + 1] = x
        /\ \A i \in 1..Len(q) : a[i] = q[i]
    BY SMTT(60)
  <1>2. /\ 1..Len(q) + 1 = (1..Len(q)) \cup {Len(q) + 1}
        /\ \A i \in 1..Len(q) : i < Len(q) + 1
    BY <1>1, SMTT(60)
  <1> HIDE DEF a
  <1>3. HasConfig(q, t) \/ IsConfig(x, t) => HasConfig(a, t)
    BY <1>1, <1>2 DEF HasConfig
  <1>4. ASSUME ConfigLeads(q, t), IsProto(x, t) => HasConfig(q, t),
               NEW i \in 1..Len(a), IsProto(a[i], t)
        PROVE  \E j \in 1..Len(a) : j < i /\ IsConfig(a[j], t)
    <2>1. CASE i \in 1..Len(q)
      BY <1>1, <1>2, <1>4, <2>1 DEF ConfigLeads
    <2>2. CASE i = Len(q) + 1
      BY <1>1, <1>2, <1>4, <2>2 DEF HasConfig
    <2> QED
      BY <1>1, <1>2, <2>1, <2>2, SMTT(60)
  <1>5. ConfigLeads(q, t) /\ (IsProto(x, t) => HasConfig(q, t)) => ConfigLeads(a, t)
    BY <1>4 DEF ConfigLeads
  <1> QED
    BY <1>3, <1>5 DEF a

\* The config and the first message after it.
LEMMA AppendBoth ==
    ASSUME NEW S, NEW q \in Seq(S), NEW x \in S, NEW y \in S
    PROVE  /\ q \o <<x>> = Append(q, x)
           /\ q \o <<x, y>> = Append(Append(q, x), y)
  BY SMTT(60)

LEMMA SecondPart ==
    ASSUME NEW S, NEW a \in Seq(S), NEW b \in Seq(S), NEW k \in 1..Len(b)
    PROVE  (a \o b)[Len(a) + k] = b[k]
  BY SMTT(60)

LEMMA RemovedElements ==
    ASSUME NEW S, NEW q \in Seq(S), NEW i \in 1..Len(q)
    PROVE  /\ Without(q, i) \in Seq(S)
           /\ \A m : In(m, Without(q, i)) => In(m, q)
           /\ In(q[i], q) /\ q[i] \in S
           /\ Once(q) => Once(Without(q, i))
           /\ Once(q) /\ q[i].kind = "proto" => ~In(q[i], Without(q, i))
  <1> DEFINE r == Without(q, i)
             Old(j) == IF j < i THEN j ELSE j + 1
  <1>1. Len(q) \in Nat /\ q[i] \in S
    BY SMTT(60)
  <1>2. PICK a \in Seq(S), b \in Seq(S) :
            /\ r = a \o b
            /\ Len(a) = i - 1 /\ \A j \in 1..i - 1 : a[j] = q[j]
            /\ Len(b) = Len(q) - i /\ \A j \in 1..Len(q) - i : b[j] = q[i + j]
    <2>1. SubSeq(q, 1, i - 1) \in Seq(S) /\ SubSeq(q, i + 1, Len(q)) \in Seq(S)
      BY SMTT(60)
    <2>2. Len(SubSeq(q, 1, i - 1)) = i - 1 /\ Len(SubSeq(q, i + 1, Len(q))) = Len(q) - i
      BY SMTT(60)
    <2>3. /\ \A j \in 1..i - 1 : SubSeq(q, 1, i - 1)[j] = q[j]
          /\ \A j \in 1..Len(q) - i : SubSeq(q, i + 1, Len(q))[j] = q[i + j]
      BY SMTT(60)
    <2>4. r = SubSeq(q, 1, i - 1) \o SubSeq(q, i + 1, Len(q))
      BY DEF Without
    <2> QED
      BY <2>1, <2>2, <2>3, <2>4
  <1> HIDE DEF r
  <1>4. r \in Seq(S) /\ Len(r) = Len(q) - 1
    BY <1>1, <1>2, SMTT(60)
  <1>5. ASSUME NEW j \in 1..Len(q) - 1
        PROVE  r[j] = q[Old(j)]
    <2>1. CASE j < i
      BY <1>2, <2>1, SMTT(60)
    <2>2. CASE j >= i
      <3>1. PICK k \in 1..Len(q) - i : j = (i - 1) + k
        <4>1. j - (i - 1) \in 1..Len(q) - i /\ j = (i - 1) + (j - (i - 1))
          BY <1>1, <2>2, SMTT(60)
        <4> QED
          BY <4>1
      <3>2. r[j] = b[k]
        <4>1. k \in 1..Len(b) /\ j = Len(a) + k
          BY <1>2, <3>1
        <4>2. (a \o b)[Len(a) + k] = b[k]
          BY <4>1, SecondPart
        <4>3. r = a \o b
          BY <1>2
        <4> QED
          BY <4>1, <4>2, <4>3
      <3>3. j + 1 = i + k /\ ~(j < i)
        BY <2>2, <3>1, SMTT(60)
      <3>4. b[k] = q[i + k]
        BY <1>2
      <3> QED
        BY <3>2, <3>3, <3>4
    <2> QED
      BY <2>1, <2>2, SMTT(60)
  <1>6. \A j \in 1..Len(q) - 1 : Old(j) \in 1..Len(q) /\ Old(j) # i
    BY <1>1, SMTT(60)
  <1>7. \A j, k \in 1..Len(q) - 1 : Old(j) = Old(k) => j = k
    BY <1>1, SMTT(60)
  <1> HIDE DEF Old
  <1>8. \A m : In(m, r) => In(m, q)
    BY <1>4, <1>5, <1>6 DEF In
  <1>9. Once(q) => Once(r)
    <2>1. ASSUME Once(q), NEW j \in 1..Len(q) - 1, NEW k \in 1..Len(q) - 1,
                 r[j] = r[k], r[j].kind = "proto"
          PROVE  j = k
      <3>1. q[Old(j)] = q[Old(k)] /\ q[Old(j)].kind = "proto"
        BY <1>5, <2>1
      <3>2. Old(j) = Old(k)
        BY <1>6, <2>1, <3>1 DEF Once
      <3> QED
        BY <1>7, <3>2
    <2> QED
      BY <1>4, <2>1 DEF Once
  <1>10. Once(q) /\ q[i].kind = "proto" => ~In(q[i], r)
    BY <1>4, <1>5, <1>6 DEF Once, In
  <1>11. In(q[i], q)
    BY DEF In
  <1> QED
    BY <1>1, <1>4, <1>8, <1>9, <1>10, <1>11 DEF r

-----------------------------------------------------------------------------
(* What a handler does to the network. *)

LEMMA HeadMessage ==
    ASSUME OverlayTypeOK, NEW s \in Servers, NEW d \in Servers, NEW kind, Received(s, d, kind)
    PROVE  LET h == Head(net[<<s, d>>]) IN
           /\ net[<<s, d>>] # <<>> /\ h.kind = kind
           /\ h \in Message /\ In(h, net[<<s, d>>])
  <1>1. net[<<s, d>>] \in Seq(Message) /\ net[<<s, d>>] # <<>> /\ Head(net[<<s, d>>]).kind = kind
    BY DEF OverlayTypeOK, Received, Links
  <1> QED
    BY <1>1, TailElements

LEMMA TakenNet ==
    ASSUME OverlayTypeOK, NEW s \in Servers, NEW d \in Servers,
           net[<<s, d>>] # <<>>, net' = Taken(s, d)
    PROVE  /\ net' \in [Links -> Seq(Message)]
           /\ net'[<<s, d>>] = Tail(net[<<s, d>>])
           /\ \A l \in Links \ {<<s, d>>} : net'[l] = net[l]
           /\ \A l \in Links : /\ \A m : In(m, net'[l]) => In(m, net[l])
                               /\ Once(net[l]) => Once(net'[l])
  <1> DEFINE sd == <<s, d>>
  <1>1. sd \in Links /\ net \in [Links -> Seq(Message)] /\ net[sd] \in Seq(Message)
    BY DEF OverlayTypeOK, Links
  <1>2. net' = [net EXCEPT ![sd] = Tail(net[sd])]
    BY DEF Taken
  <1> HIDE DEF sd
  <1>3. Tail(net[sd]) \in Seq(Message)
    BY <1>1, TailElements DEF sd
  <1>4. net' \in [Links -> Seq(Message)] /\ net'[sd] = Tail(net[sd])
    BY <1>1, <1>2, <1>3
  <1>5. \A l \in Links \ {sd} : net'[l] = net[l]
    BY <1>1, <1>2
  <1>6. /\ \A m : In(m, net'[sd]) => In(m, net[sd])
        /\ Once(net[sd]) => Once(net'[sd])
    BY <1>1, <1>4, TailElements DEF sd
  <1> QED
    BY <1>4, <1>5, <1>6 DEF sd

LEMMA AppendedNet ==
    ASSUME OverlayTypeOK, NEW k \in Links, NEW x \in Message,
           net' = [net EXCEPT ![k] = Append(@, x)]
    PROVE  /\ net' \in [Links -> Seq(Message)]
           /\ net'[k] = Append(net[k], x)
           /\ \A l \in Links \ {k} : net'[l] = net[l]
           /\ \A l \in Links :
                 /\ \A m : In(m, net'[l]) => In(m, net[l]) \/ (l = k /\ m = x)
                 /\ Once(net[l]) /\ (x.kind # "proto" \/ ~In(x, net[l])) => Once(net'[l])
  <1>1. net \in [Links -> Seq(Message)] /\ net[k] \in Seq(Message)
    BY DEF OverlayTypeOK
  <1>2. Append(net[k], x) \in Seq(Message)
    BY <1>1, AppendElements
  <1>3. net' \in [Links -> Seq(Message)] /\ net'[k] = Append(net[k], x)
    BY <1>1, <1>2
  <1>4. \A l \in Links \ {k} : net'[l] = net[l]
    BY <1>1
  <1>5. /\ \A m : In(m, net'[k]) => In(m, net[k]) \/ m = x
        /\ Once(net[k]) /\ (x.kind # "proto" \/ ~In(x, net[k])) => Once(net'[k])
    BY <1>1, <1>3, AppendElements, SMTT(60)
  <1> QED
    BY <1>3, <1>4, <1>5

\* A message with the config before it.
LEMMA ConfigAppendedNet ==
    ASSUME OverlayTypeOK, NEW k \in Links, NEW c \in Message, NEW x \in Message,
           c.kind # "proto", net' = [net EXCEPT ![k] = @ \o <<c, x>>]
    PROVE  /\ net' \in [Links -> Seq(Message)]
           /\ net'[k] = Append(Append(net[k], c), x)
           /\ \A l \in Links \ {k} : net'[l] = net[l]
           /\ \A l \in Links :
                 /\ \A m : In(m, net'[l]) => In(m, net[l]) \/ (l = k /\ m \in {c, x})
                 /\ Once(net[l]) /\ ~In(x, net[l]) /\ c # x => Once(net'[l])
  <1>1. net \in [Links -> Seq(Message)] /\ net[k] \in Seq(Message)
    BY DEF OverlayTypeOK
  <1>2. PICK mid \in Seq(Message) : mid = Append(net[k], c)
    BY <1>1, AppendElements
  <1>3. Append(mid, x) \in Seq(Message)
    BY AppendElements
  <1>4. net[k] \o <<c, x>> = Append(mid, x)
    BY <1>1, <1>2, AppendBoth, SMTT(60)
  <1>5. net' = [net EXCEPT ![k] = Append(mid, x)]
    BY <1>4
  <1>6. net' \in [Links -> Seq(Message)] /\ net'[k] = Append(mid, x)
    BY <1>1, <1>3, <1>5
  <1>7. \A l \in Links \ {k} : net'[l] = net[l]
    BY <1>1, <1>5
  <1>8. /\ \A m : In(m, mid) <=> In(m, net[k]) \/ m = c
        /\ Once(net[k]) => Once(mid)
    BY <1>1, <1>2, AppendElements, SMTT(60)
  <1>9. /\ \A m : In(m, net'[k]) => In(m, mid) \/ m = x
        /\ Once(mid) /\ ~In(x, mid) => Once(net'[k])
    <2>1. /\ \A m : In(m, Append(mid, x)) => In(m, mid) \/ m = x
          /\ Once(mid) /\ ~In(x, mid) => Once(Append(mid, x))
      BY AppendElements, SMTT(60)
    <2> QED
      BY <1>6, <2>1
  <1> QED
    BY <1>2, <1>6, <1>7, <1>8, <1>9

LEMMA AnsweredLinks ==
    ASSUME OverlayTypeOK, NEW s \in Servers, NEW d \in Servers, NEW x \in Message,
           net[<<s, d>>] # <<>>, net' = Answered(s, d, x)
    PROVE  /\ net' \in [Links -> Seq(Message)]
           /\ s = d => net'[<<s, d>>] = Append(Tail(net[<<s, d>>]), x)
           /\ s # d => /\ net'[<<s, d>>] = Tail(net[<<s, d>>])
                       /\ net'[<<d, s>>] = Append(net[<<d, s>>], x)
           /\ \A l \in Links : l # <<s, d>> /\ l # <<d, s>> => net'[l] = net[l]
  <1> DEFINE sd == <<s, d>>
             ds == <<d, s>>
             mid == [net EXCEPT ![sd] = Tail(@)]
  <1>1. /\ sd \in Links /\ ds \in Links /\ (sd = ds <=> s = d)
        /\ net \in [Links -> Seq(Message)] /\ net[sd] \in Seq(Message)
    BY DEF OverlayTypeOK, Links
  <1>2. net' = [mid EXCEPT ![ds] = Append(@, x)]
    BY DEF Answered, Taken
  <1> HIDE DEF sd, ds
  <1>3. Tail(net[sd]) \in Seq(Message)
    BY <1>1, TailElements DEF sd
  <1>4. /\ mid \in [Links -> Seq(Message)] /\ mid[sd] = Tail(net[sd])
        /\ \A l \in Links \ {sd} : mid[l] = net[l]
    BY <1>1, <1>3
  <1> HIDE DEF mid
  <1>5. Append(mid[ds], x) \in Seq(Message)
    BY <1>1, <1>4, AppendElements
  <1>6. /\ net' \in [Links -> Seq(Message)] /\ net'[ds] = Append(mid[ds], x)
        /\ \A l \in Links \ {ds} : net'[l] = mid[l]
    BY <1>1, <1>2, <1>4, <1>5
  <1>7. /\ s = d => net'[sd] = Append(Tail(net[sd]), x)
        /\ s # d => net'[sd] = Tail(net[sd]) /\ net'[ds] = Append(net[ds], x)
        /\ \A l \in Links : l # sd /\ l # ds => net'[l] = net[l]
    BY <1>1, <1>4, <1>6
  <1> QED
    BY <1>6, <1>7 DEF sd, ds

LEMMA AnsweredNet ==
    ASSUME OverlayTypeOK, NEW s \in Servers, NEW d \in Servers, NEW x \in Message,
           net[<<s, d>>] # <<>>, net' = Answered(s, d, x), NEW l \in Links
    PROVE  /\ \A m : In(m, net'[l]) => In(m, net[l]) \/ (l = <<d, s>> /\ m = x)
           /\ Once(net[l]) /\ x.kind # "proto" => Once(net'[l])
  <1>1. net[<<s, d>>] \in Seq(Message) /\ net[<<d, s>>] \in Seq(Message)
    BY DEF OverlayTypeOK, Links
  <1>2. PICK q \in Seq(Message) : q = Tail(net[<<s, d>>])
    BY <1>1, TailElements
  <1>3. /\ \A m : In(m, q) => In(m, net[<<s, d>>])
        /\ Once(net[<<s, d>>]) => Once(q)
    BY <1>1, <1>2, TailElements
  <1>4. CASE l = <<s, d>> /\ s = d
    <2>1. net'[l] = Append(q, x)
      BY <1>2, <1>4, AnsweredLinks
    <2>2. /\ \A m : In(m, Append(q, x)) => In(m, q) \/ m = x
          /\ Once(q) /\ x.kind # "proto" => Once(Append(q, x))
      BY AppendElements, SMTT(60)
    <2> QED
      BY <1>3, <1>4, <2>1, <2>2
  <1>5. CASE l = <<s, d>> /\ s # d
    BY <1>2, <1>3, <1>5, AnsweredLinks
  <1>6. CASE l = <<d, s>> /\ s # d
    <2>1. net'[l] = Append(net[<<d, s>>], x)
      BY <1>6, AnsweredLinks
    <2>2. LET r == net[<<d, s>>] IN
          /\ \A m : In(m, Append(r, x)) => In(m, r) \/ m = x
          /\ Once(r) /\ x.kind # "proto" => Once(Append(r, x))
      BY <1>1, AppendElements, SMTT(60)
    <2> QED
      BY <1>6, <2>1, <2>2
  <1>7. CASE l # <<s, d>> /\ l # <<d, s>>
    BY <1>7, AnsweredLinks
  <1> QED
    BY <1>4, <1>5, <1>6, <1>7

-----------------------------------------------------------------------------
(* Type correctness. *)

LEMMA MessageTypes ==
    ASSUME NEW s \in Servers, NEW t \in Trees, NEW n \in Nat
    PROVE  /\ Msg("proto", t, s, n) \in Proto
           /\ Proto \subseteq Message
           /\ Msg("config", t, s, 0) \in Message
           /\ Msg("reqTree", t, s, 0) \in Message
           /\ Msg("reqRoster", RosterOf[t], s, 0) \in Message
           /\ \A x \in Trees \cup {Nothing} : Msg("tree", x, s, 0) \in Message
           /\ \A x \in Rosters \cup {Nothing} : Msg("roster", x, s, 0) \in Message
  <1>1. RosterOf[t] \in Rosters
    BY DEF Rosters
  <1> QED
    BY <1>1 DEF Msg, Proto, Message

LEMMA KindTypes ==
    ASSUME NEW m \in Message
    PROVE  /\ m.kind = "proto" => m \in Proto
           /\ m.kind \in {"config", "reqTree"} => m.id \in Trees
           /\ m.kind = "tree" => m.id \in Trees \cup {Nothing}
           /\ m.kind = "reqRoster" => m.id \in Rosters
           /\ m.kind = "roster" => m.id \in Rosters \cup {Nothing}
  BY DEF Message, Proto

LEMMA PlaceTypes ==
    ASSUME OverlayTypeOK, NEW s \in Servers, NEW w \in Workers
    PROVE  /\ worker[s][w] \in Place
           /\ worker[s][w].pc \in Holding => worker[s][w].msg \in Proto
           /\ worker[s][w].pc = "next" => worker[s][w].msg \in Message
  <1>1. worker[s][w] \in Place
    BY SMTT(60) DEF OverlayTypeOK
  <1> QED
    BY <1>1 DEF Place, Holding

\* Goes and Returns change the place of one goroutine.
LEMMA WorkerMoves ==
    ASSUME OverlayTypeOK, NEW s \in Servers, NEW w \in Workers, NEW pc, NEW m,
           [pc |-> pc, msg |-> m] \in Place, Goes(s, w, pc, m)
    PROVE  /\ worker' \in [Servers -> [Workers -> Place]]
           /\ worker'[s][w].pc = pc /\ worker'[s][w].msg = m
           /\ \A x \in Servers, v \in Workers : <<x, v>> # <<s, w>> => worker'[x][v] = worker[x][v]
  <1> DEFINE place == [pc |-> pc, msg |-> m]
  <1>1. place.pc = pc /\ place.msg = m
    OBVIOUS
  <1>2. worker' = [worker EXCEPT ![s] = [worker[s] EXCEPT ![w] = place]]
    BY DEF Goes
  <1> HIDE DEF place
  <1>3. worker \in [Servers -> [Workers -> Place]] /\ place \in Place
    BY DEF OverlayTypeOK, place
  <1>4. worker' \in [Servers -> [Workers -> Place]]
    BY <1>2, <1>3
  <1>5. worker'[s][w] = place
    BY <1>2, <1>3
  <1>6. \A x \in Servers, v \in Workers : <<x, v>> # <<s, w>> => worker'[x][v] = worker[x][v]
    BY <1>2, <1>3
  <1> QED
    BY <1>1, <1>4, <1>5, <1>6

LEMMA TypeInit == Init => OverlayTypeOK
  <1> SUFFICES ASSUME Init PROVE OverlayTypeOK
    OBVIOUS
  <1>1. Idle \in Place
    BY DEF Idle, Place
  <1>2. worker \in [Servers -> [Workers -> Place]]
    BY <1>1 DEF Init
  <1>3. net \in [Links -> Seq(Message)] /\ pendingMsg \in [Servers -> Seq(Proto)]
        /\ got \in [Servers -> Seq(Proto)]
    BY SMTT(60) DEF Init, Links
  <1>4. started \in [Servers -> [Trees -> Nat]] /\ sent \in [DOMAIN Sends -> Nat]
        /\ firstFrom \in [Servers -> [Trees -> Servers \cup {Nothing}]]
    BY DEF Init
  <1> QED
    BY <1>2, <1>3, <1>4 DEF Init, OverlayTypeOK

\* RegisterTree, which starts a goroutine.
LEMMA RegisterTypes ==
    ASSUME OverlayTypeOK, NEW s \in Servers, NEW ts \in SUBSET Trees, RegisterTrees(s, ts)
    PROVE  trees' \in [Servers -> SUBSET Trees] /\ checks' \in [Servers -> SUBSET Trees]
  BY DEF OverlayTypeOK, RegisterTrees, ToCheck

\* The end of TransmitMsg.
LEMMA EndsMoves ==
    ASSUME OverlayTypeOK, NEW s \in Servers, NEW w \in Workers, Ends(s, w),
           worker[s][w].pc \in Holding
    PROVE  /\ worker' \in [Servers -> [Workers -> Place]]
           /\ worker'[s][w].pc \in {"idle", "next"}
           /\ \A x \in Servers, v \in Workers : <<x, v>> # <<s, w>> => worker'[x][v] = worker[x][v]
  <1>1. worker[s][w].msg \in Message
    BY PlaceTypes DEF Message
  <1>2. CASE w = "router"
    <2>1. Goes(s, w, "idle", Nothing) /\ [pc |-> "idle", msg |-> Nothing] \in Place
      BY <1>2 DEF Ends, Returns, Goes, Idle, Place
    <2> QED
      BY <2>1, WorkerMoves
  <1>3. CASE w # "router"
    <2>1. /\ Goes(s, w, "next", worker[s][w].msg)
          /\ [pc |-> "next", msg |-> worker[s][w].msg] \in Place
      BY <1>1, <1>3 DEF Ends, Place
    <2> QED
      BY <2>1, WorkerMoves, SMTT(60)
  <1> QED
    BY <1>2, <1>3

LEMMA BlockedTypes ==
    ASSUME OverlayTypeOK, NEW d \in Servers, NEW needed, WaitsForLock(d, needed)
    PROVE  /\ worker' \in [Servers -> [Workers -> Place]]
           /\ \A x \in Servers, v \in Workers :
                 worker'[x][v] = worker[x][v] \/ worker'[x][v].pc = "blocked"
  <1>1. CASE needed /\ treeLocked[d]
    <2>1. /\ Goes(d, "router", "blocked", Nothing) /\ "router" \in Workers
          /\ [pc |-> "blocked", msg |-> Nothing] \in Place
      BY <1>1 DEF WaitsForLock, Place, Workers
    <2>2. /\ worker' \in [Servers -> [Workers -> Place]]
          /\ worker'[d]["router"].pc = "blocked"
          /\ \A x \in Servers, v \in Workers :
                <<x, v>> # <<d, "router">> => worker'[x][v] = worker[x][v]
      BY <2>1, WorkerMoves
    <2> QED
      BY <2>2
  <1>2. CASE ~(needed /\ treeLocked[d])
    BY <1>2 DEF WaitsForLock, OverlayTypeOK
  <1> QED
    BY <1>1, <1>2

\* Every step of the overlays is one of these.
LEMMA OverlayCases ==
    ASSUME [Next]_vars
    PROVE  \/ \E t \in Trees : CreateProtocol(t)
           \/ \E s \in Servers, t \in Trees : Node(s, t)
           \/ \E s \in Servers, t \in Trees : DoneInstance(s, t)
           \/ \E t \in Trees, s, d \in Servers : <<t, s, d>> \in DOMAIN Sends /\ SendTo(t, s, d)
           \/ \E s, d \in Servers : handleConfigMessage(s, d)
           \/ \E s, d \in Servers : handleRequestTree(s, d)
           \/ \E s, d \in Servers : handleRequestRoster(s, d)
           \/ \E s, d \in Servers : handleSendTree(s, d)
           \/ \E s, d \in Servers : handleSendRoster(s, d)
           \/ \E s, d \in Servers : ProcessMsg(s, d)
           \/ \E s \in Servers : requestTree(s)
           \/ \E s \in Servers : NextPending(s)
           \/ \E s \in Servers, t \in Trees : checkPendingMessages(s, t)
           \/ \E s \in Servers, w \in Workers : TransmitMsg(s, w)
           \/ \E s \in Servers, w \in Workers : CreateInstance(s, w)
           \/ \E s \in Servers, w \in Workers : RegisterProtocolInstance(s, w)
           \/ \E s \in Servers : CloseOverlay(s)
           \/ \E s \in Servers : Restart(s)
           \/ UNCHANGED vars
  <1>1. ASSUME NEW l \in DOMAIN Sends, SendTo(l[1], l[2], l[3])
        PROVE  \E t \in Trees, s, d \in Servers : <<t, s, d>> \in DOMAIN Sends /\ SendTo(t, s, d)
    <2>1. l \in Trees \X Servers \X Servers
      BY OverlayAssumption
    <2>2. /\ l[1] \in Trees /\ l[2] \in Servers /\ l[3] \in Servers
          /\ l = <<l[1], l[2], l[3]>>
      BY <2>1, SMTT(60)
    <2> QED
      BY <1>1, <2>2
  <1> QED
    BY <1>1 DEF Next, Handle, Pending, Transmit

LEMMA CreateProtocolTypes ==
    ASSUME OverlayTypeOK, NEW t \in Trees, CreateProtocol(t)
    PROVE  OverlayTypeOK'
  <1>1. PICK s \in Servers, r \in Rosters : s = Root[t] /\ r = RosterOf[t]
    BY OverlayAssumption DEF Rosters
  <1>2. trees' \in [Servers -> SUBSET Trees] /\ checks' \in [Servers -> SUBSET Trees]
    BY <1>1, RegisterTypes DEF CreateProtocol
  <1>3. started' \in [Servers -> [Trees -> Nat]]
    <2>1. started' = [started EXCEPT ![s] = [started[s] EXCEPT ![t] = 1]]
      BY <1>1 DEF CreateProtocol
    <2> QED
      BY <2>1 DEF OverlayTypeOK
  <1>4. /\ rosters' \in [Servers -> SUBSET Rosters]
        /\ instances' \in [Servers -> SUBSET Trees] /\ protocols' \in [Servers -> SUBSET Trees]
    BY <1>1, SMTT(60) DEF CreateProtocol, OverlayTypeOK, Add
  <1> QED
    BY <1>2, <1>3, <1>4 DEF OverlayTypeOK, CreateProtocol

LEMMA NodeTypes ==
    ASSUME OverlayTypeOK, NEW s \in Servers, NEW t \in Trees, Node(s, t)
    PROVE  OverlayTypeOK'
  <1>1. RosterOf[t] \in Rosters
    BY DEF Rosters
  <1>2. trees' \in [Servers -> SUBSET Trees] /\ checks' \in [Servers -> SUBSET Trees]
    BY RegisterTypes DEF Node
  <1> QED
    BY <1>1, <1>2 DEF OverlayTypeOK, Node, Add, tokens

LEMMA DoneInstanceTypes ==
    ASSUME OverlayTypeOK, NEW s \in Servers, NEW t \in Trees, DoneInstance(s, t)
    PROVE  OverlayTypeOK'
  BY DEF OverlayTypeOK, DoneInstance, nodeDelete, local

LEMMA SendToTypes ==
    ASSUME OverlayTypeOK, NEW t \in Trees, NEW s \in Servers, NEW d \in Servers,
           <<t, s, d>> \in DOMAIN Sends, SendTo(t, s, d)
    PROVE  OverlayTypeOK'
  <1>1. sent[<<t, s, d>>] \in Nat
    BY DEF OverlayTypeOK
  <1>2. PICK m \in Message, c \in Message :
            m = Msg("proto", t, s, sent[<<t, s, d>>] + 1) /\ c = Msg("config", t, s, 0)
    BY <1>1, MessageTypes, SMTT(60)
  <1>3. net[<<s, d>>] \in Seq(Message) /\ net \in [Links -> Seq(Message)] /\ <<s, d>> \in Links
    BY DEF OverlayTypeOK, Links
  <1>4. <<c, m>> \in Seq(Message) /\ <<m>> \in Seq(Message)
    BY SMTT(60)
  <1>5. PICK q \in Seq(Message) : net' = [net EXCEPT ![<<s, d>>] = net[<<s, d>>] \o q]
    BY <1>2, <1>4 DEF SendTo, ConfigFirst
  <1>6. net' \in [Links -> Seq(Message)]
    BY <1>3, <1>5, SMTT(60)
  <1>7. sent' \in [DOMAIN Sends -> Nat]
    BY <1>1, SMTT(60) DEF SendTo, OverlayTypeOK
  <1> QED
    BY <1>6, <1>7 DEF OverlayTypeOK, SendTo, local, tokens

LEMMA HandleConfigMessageTypes ==
    ASSUME OverlayTypeOK, NEW s \in Servers, NEW d \in Servers, handleConfigMessage(s, d)
    PROVE  OverlayTypeOK'
  <1>1. Head(net[<<s, d>>]).id \in Trees /\ net[<<s, d>>] # <<>>
    BY HeadMessage, KindTypes DEF handleConfigMessage
  <1>2. net' \in [Links -> Seq(Message)]
    BY <1>1, TakenNet DEF handleConfigMessage
  <1> QED
    BY <1>1, <1>2 DEF OverlayTypeOK, handleConfigMessage, Add, tokens

LEMMA HandleRequestTreeTypes ==
    ASSUME OverlayTypeOK, NEW s \in Servers, NEW d \in Servers, handleRequestTree(s, d)
    PROVE  OverlayTypeOK'
  <1>1. Head(net[<<s, d>>]).id \in Trees /\ net[<<s, d>>] # <<>>
    BY HeadMessage, KindTypes DEF handleRequestTree
  <1>2. PICK x \in Message : net' = Answered(s, d, x)
    BY <1>1, MessageTypes DEF handleRequestTree
  <1>3. net' \in [Links -> Seq(Message)]
    BY <1>1, <1>2, AnsweredLinks
  <1> QED
    BY <1>3 DEF OverlayTypeOK, handleRequestTree, local, tokens

LEMMA HandleRequestRosterTypes ==
    ASSUME OverlayTypeOK, NEW s \in Servers, NEW d \in Servers, handleRequestRoster(s, d)
    PROVE  OverlayTypeOK'
  <1>1. Head(net[<<s, d>>]).id \in Rosters /\ net[<<s, d>>] # <<>>
    BY HeadMessage, KindTypes DEF handleRequestRoster
  <1>2. PICK x \in Message : net' = Answered(s, d, x)
    BY <1>1, MessageTypes DEF handleRequestRoster, Rosters
  <1>3. net' \in [Links -> Seq(Message)]
    BY <1>1, <1>2, AnsweredLinks
  <1> QED
    BY <1>3 DEF OverlayTypeOK, handleRequestRoster, local, tokens

LEMMA HandleSendTreeTypes ==
    ASSUME OverlayTypeOK, NEW s \in Servers, NEW d \in Servers, handleSendTree(s, d)
    PROVE  OverlayTypeOK'
  <1> DEFINE t == Head(net[<<s, d>>]).id
  <1>1. t \in Trees \cup {Nothing} /\ net[<<s, d>>] # <<>>
    BY HeadMessage, KindTypes DEF handleSendTree
  <1>2. worker' \in [Servers -> [Workers -> Place]]
    BY BlockedTypes DEF handleSendTree
  <1> HIDE DEF t
  <1>3. /\ net' \in [Links -> Seq(Message)]
        /\ trees' \in [Servers -> SUBSET Trees] /\ checks' \in [Servers -> SUBSET Trees]
        /\ pendingTree' \in [Servers -> SUBSET Trees]
    <2>1. CASE t = Nothing /\ net' = Taken(s, d) /\ UNCHANGED <<trees, checks, pendingTree>>
      BY <1>1, <2>1, TakenNet DEF OverlayTypeOK
    <2>2. CASE /\ t # Nothing
               /\ net' = Answered(s, d, Msg("reqRoster", RosterOf[t], d, 0))
               /\ pendingTree' = IF treeLocked[d] THEN pendingTree ELSE Add(pendingTree, d, t)
               /\ UNCHANGED <<trees, checks>>
      <3>1. t \in Trees /\ Msg("reqRoster", RosterOf[t], d, 0) \in Message
        BY <1>1, <2>2, MessageTypes
      <3>2. net' \in [Links -> Seq(Message)]
        BY <1>1, <2>2, <3>1, AnsweredLinks
      <3> QED
        BY <2>2, <3>1, <3>2 DEF OverlayTypeOK, Add
    <2>3. CASE /\ t # Nothing /\ net' = Taken(s, d) /\ RegisterTrees(d, {t})
               /\ UNCHANGED pendingTree
      <3>1. {t} \in SUBSET Trees
        BY <1>1, <2>3
      <3> QED
        BY <1>1, <2>3, <3>1, TakenNet, RegisterTypes DEF OverlayTypeOK
    <2> QED
      BY <2>1, <2>2, <2>3 DEF handleSendTree, t
  <1> QED
    BY <1>2, <1>3 DEF OverlayTypeOK, handleSendTree, tokens

LEMMA HandleSendRosterTypes ==
    ASSUME OverlayTypeOK, NEW s \in Servers, NEW d \in Servers, handleSendRoster(s, d)
    PROVE  OverlayTypeOK'
  <1> DEFINE r == Head(net[<<s, d>>]).id
  <1>1. r \in Rosters \cup {Nothing} /\ net[<<s, d>>] # <<>>
    BY HeadMessage, KindTypes DEF handleSendRoster
  <1>2. worker' \in [Servers -> [Workers -> Place]]
    BY BlockedTypes DEF handleSendRoster
  <1>3. net' \in [Links -> Seq(Message)]
    BY <1>1, TakenNet DEF handleSendRoster
  <1> HIDE DEF r
  <1>4. /\ trees' \in [Servers -> SUBSET Trees] /\ checks' \in [Servers -> SUBSET Trees]
        /\ pendingTree' \in [Servers -> SUBSET Trees]
        /\ treeLocked' \in [Servers -> BOOLEAN] /\ rosters' \in [Servers -> SUBSET Rosters]
    <2>1. CASE UNCHANGED <<rosters, trees, checks, pendingTree, treeLocked>>
      BY <2>1 DEF OverlayTypeOK
    <2>2. CASE r # Nothing /\ rosters' = Add(rosters, d, r) /\ checkPendingTreeMarshal(d, r)
      <3>1. rosters' \in [Servers -> SUBSET Rosters]
        BY <1>1, <2>2 DEF OverlayTypeOK, Add
      <3>2. CASE treeLocked[d]
        BY <2>2, <3>1, <3>2 DEF checkPendingTreeMarshal, OverlayTypeOK
      <3>3. CASE ~treeLocked[d]
        <4>1. PICK ready \in SUBSET Trees :
                  RegisterTrees(d, ready) /\ treeLocked' = [treeLocked EXCEPT ![d] = ready = {}]
          BY <2>2, <3>3 DEF checkPendingTreeMarshal, OverlayTypeOK
        <4>2. trees' \in [Servers -> SUBSET Trees] /\ checks' \in [Servers -> SUBSET Trees]
          BY <4>1, RegisterTypes
        <4>3. (ready = {}) \in BOOLEAN
          OBVIOUS
        <4>4. treeLocked' \in [Servers -> BOOLEAN]
          BY <4>1, <4>3 DEF OverlayTypeOK
        <4>5. pendingTree' \in [Servers -> SUBSET Trees]
          <5>1. pendingTree' = [pendingTree EXCEPT ![d] = pendingTree[d]]
            BY <2>2, <3>3 DEF checkPendingTreeMarshal, StillPending
          <5> QED
            BY <5>1 DEF OverlayTypeOK
        <4> QED
          BY <3>1, <4>2, <4>4, <4>5
      <3> QED
        BY <3>2, <3>3
    <2> QED
      BY <2>1, <2>2 DEF handleSendRoster, r
  <1> QED
    BY <1>2, <1>3, <1>4 DEF OverlayTypeOK, handleSendRoster, tokens

LEMMA ProcessMsgTypes ==
    ASSUME OverlayTypeOK, NEW s \in Servers, NEW d \in Servers, ProcessMsg(s, d)
    PROVE  OverlayTypeOK'
  <1> DEFINE m == Head(net[<<s, d>>])
  <1>1. m \in Proto /\ net[<<s, d>>] # <<>>
    BY HeadMessage, KindTypes DEF ProcessMsg
  <1>2. net' \in [Links -> Seq(Message)]
    BY <1>1, TakenNet DEF ProcessMsg
  <1>3. PICK pc \in {"transmit", "request"} : Goes(d, "router", pc, m)
    BY DEF ProcessMsg
  <1> HIDE DEF m
  <1>4. "router" \in Workers /\ [pc |-> pc, msg |-> m] \in Place
    BY <1>1 DEF Workers, Place, Holding
  <1>5. worker' \in [Servers -> [Workers -> Place]]
    BY <1>3, <1>4, WorkerMoves
  <1> QED
    BY <1>2, <1>5 DEF OverlayTypeOK, ProcessMsg, local, tokens

LEMMA RequestTreeTypes ==
    ASSUME OverlayTypeOK, NEW s \in Servers, requestTree(s)
    PROVE  OverlayTypeOK'
  <1>1. "router" \in Workers /\ worker[s]["router"].pc \in Holding
    BY DEF requestTree, Holding, Workers
  <1>2. PICK m \in Proto : m = worker[s]["router"].msg
    BY <1>1, PlaceTypes
  <1>3. m.from \in Servers /\ m.id \in Trees
    BY DEF Proto
  <1>4. <<s, m.from>> \in Links /\ Msg("reqTree", m.id, s, 0) \in Message
    BY <1>3, MessageTypes DEF Links
  <1>5. net' = [net EXCEPT ![<<s, m.from>>] = Append(@, Msg("reqTree", m.id, s, 0))]
    BY <1>2 DEF requestTree
  <1>6. net' \in [Links -> Seq(Message)]
    BY <1>4, <1>5, AppendedNet
  <1>7. pendingMsg[s] \in Seq(Proto)
    BY DEF OverlayTypeOK
  <1>8. Append(pendingMsg[s], m) \in Seq(Proto)
    BY <1>7, AppendElements
  <1>9. pendingMsg' \in [Servers -> Seq(Proto)]
    BY <1>2, <1>8 DEF OverlayTypeOK, requestTree
  <1>10. Goes(s, "router", "idle", Nothing) /\ [pc |-> "idle", msg |-> Nothing] \in Place
    BY DEF requestTree, Returns, Goes, Idle, Place
  <1>11. worker' \in [Servers -> [Workers -> Place]]
    BY <1>1, <1>10, WorkerMoves
  <1> QED
    BY <1>6, <1>9, <1>11 DEF OverlayTypeOK, requestTree, tokens

LEMMA NextPendingTypes ==
    ASSUME OverlayTypeOK, NEW s \in Servers, NextPending(s)
    PROVE  OverlayTypeOK'
  <1>0. \A q \in Seq(Proto) : DOMAIN q = 1..Len(q)
    BY SMTT(60)
  <1>1. pendingMsg[s] \in Seq(Proto) /\ "pending" \in Workers
    BY DEF OverlayTypeOK, Workers
  <1>2. CASE \E i \in DOMAIN pendingMsg[s] :
                /\ pendingMsg' = [pendingMsg EXCEPT ![s] = Without(@, i)]
                /\ Goes(s, "pending", "transmit", pendingMsg[s][i])
    <2>1. PICK i \in 1..Len(pendingMsg[s]) :
              /\ pendingMsg' = [pendingMsg EXCEPT ![s] = Without(@, i)]
              /\ Goes(s, "pending", "transmit", pendingMsg[s][i])
      BY <1>0, <1>1, <1>2
    <2>2. Without(pendingMsg[s], i) \in Seq(Proto) /\ pendingMsg[s][i] \in Proto
      BY <1>1, RemovedElements
    <2>3. pendingMsg' \in [Servers -> Seq(Proto)]
      BY <2>1, <2>2 DEF OverlayTypeOK
    <2>4. [pc |-> "transmit", msg |-> pendingMsg[s][i]] \in Place
      BY <2>2 DEF Place, Holding
    <2>5. worker' \in [Servers -> [Workers -> Place]]
      BY <1>1, <2>1, <2>4, WorkerMoves
    <2> QED
      BY <2>3, <2>5 DEF OverlayTypeOK, NextPending, tokens
  <1>3. CASE Returns(s, "pending") /\ UNCHANGED pendingMsg
    <2>1. Goes(s, "pending", "idle", Nothing) /\ [pc |-> "idle", msg |-> Nothing] \in Place
      BY <1>3 DEF Returns, Goes, Idle, Place
    <2>2. worker' \in [Servers -> [Workers -> Place]]
      BY <1>1, <2>1, WorkerMoves
    <2> QED
      BY <1>3, <2>2 DEF OverlayTypeOK, NextPending, tokens
  <1> QED
    BY <1>2, <1>3 DEF NextPending, FirstPending

LEMMA CheckPendingMessagesTypes ==
    ASSUME OverlayTypeOK, NEW s \in Servers, NEW t \in Trees, checkPendingMessages(s, t)
    PROVE  OverlayTypeOK'
  <1>1. Msg("tree", t, s, 0) \in Message /\ "pending" \in Workers
    BY MessageTypes DEF Workers
  <1>2. [pc |-> "next", msg |-> Msg("tree", t, s, 0)] \in Place
    BY <1>1 DEF Place
  <1>3. worker' \in [Servers -> [Workers -> Place]]
    BY <1>1, <1>2, WorkerMoves DEF checkPendingMessages
  <1> QED
    BY <1>3 DEF OverlayTypeOK, checkPendingMessages, tokens

LEMMA TransmitMsgTypes ==
    ASSUME OverlayTypeOK, NEW s \in Servers, NEW w \in Workers, TransmitMsg(s, w)
    PROVE  OverlayTypeOK'
  <1>1. worker[s][w].pc \in Holding
    BY DEF TransmitMsg, Holding
  <1>2. PICK m \in Proto : m = worker[s][w].msg
    BY <1>1, PlaceTypes
  <1>3. worker' \in [Servers -> [Workers -> Place]]
    <2>1. [pc |-> "create", msg |-> m] \in Place
      BY DEF Place, Holding
    <2>2. Ends(s, w) \/ Goes(s, w, "create", m)
      BY <1>2 DEF TransmitMsg
    <2> QED
      BY <1>1, <2>1, <2>2, EndsMoves, WorkerMoves
  <1>4. got' \in [Servers -> Seq(Proto)]
    <2>1. got[s] \in Seq(Proto)
      BY DEF OverlayTypeOK
    <2>2. Append(got[s], m) \in Seq(Proto)
      BY <2>1, AppendElements
    <2> QED
      BY <1>2, <2>2 DEF OverlayTypeOK, TransmitMsg
  <1> QED
    BY <1>3, <1>4 DEF OverlayTypeOK, TransmitMsg, local, tokens

LEMMA CreateInstanceTypes ==
    ASSUME OverlayTypeOK, NEW s \in Servers, NEW w \in Workers, CreateInstance(s, w)
    PROVE  OverlayTypeOK'
  <1>1. worker[s][w].pc \in Holding
    BY DEF CreateInstance, Holding
  <1>2. PICK m \in Proto : m = worker[s][w].msg
    BY <1>1, PlaceTypes
  <1>3. m.id \in Trees /\ m.from \in Servers
    BY DEF Proto
  <1>4. worker' \in [Servers -> [Workers -> Place]]
    <2>1. [pc |-> "register", msg |-> m] \in Place
      BY DEF Place, Holding
    <2>2. Ends(s, w) \/ Goes(s, w, "register", m)
      BY <1>2 DEF CreateInstance
    <2> QED
      BY <1>1, <2>1, <2>2, EndsMoves, WorkerMoves
  <1>5. instances' \in [Servers -> SUBSET Trees] /\ configs' \in [Servers -> SUBSET Trees]
    <2>1. /\ instances' = [instances EXCEPT ![s] = instances[s] \cup {m.id}]
          /\ configs' = [configs EXCEPT ![s] = configs[s] \ {m.id}]
      BY <1>2 DEF CreateInstance, Add
    <2> QED
      BY <1>3, <2>1 DEF OverlayTypeOK
  <1>6. /\ started' \in [Servers -> [Trees -> Nat]]
        /\ firstFrom' \in [Servers -> [Trees -> Servers \cup {Nothing}]]
        /\ configured' \in [Servers -> SUBSET Trees]
    <2>1. CASE UNCHANGED <<started, firstFrom, configured>>
      BY <2>1 DEF OverlayTypeOK
    <2>2. CASE /\ started' = [started EXCEPT ![s][m.id] = @ + 1]
               /\ firstFrom' = [firstFrom EXCEPT ![s][m.id] = m.from]
               /\ configured' = IF m.id \in configs[s] THEN Add(configured, s, m.id)
                                ELSE configured
      <3>1. /\ started' = [started EXCEPT ![s] = [started[s] EXCEPT ![m.id] = started[s][m.id] + 1]]
            /\ firstFrom' = [firstFrom EXCEPT ![s] = [firstFrom[s] EXCEPT ![m.id] = m.from]]
        BY <2>2
      <3>2. started[s][m.id] + 1 \in Nat
        BY <1>3, SMTT(60) DEF OverlayTypeOK
      <3>3. started' \in [Servers -> [Trees -> Nat]]
        BY <1>3, <3>1, <3>2 DEF OverlayTypeOK
      <3>4. firstFrom' \in [Servers -> [Trees -> Servers \cup {Nothing}]]
        BY <1>3, <3>1 DEF OverlayTypeOK
      <3> QED
        BY <1>3, <2>2, <3>3, <3>4, SMTT(60) DEF OverlayTypeOK, Add
    <2> QED
      BY <1>2, <2>1, <2>2 DEF CreateInstance
  <1> QED
    BY <1>4, <1>5, <1>6 DEF OverlayTypeOK, CreateInstance

LEMMA RegisterProtocolInstanceTypes ==
    ASSUME OverlayTypeOK, NEW s \in Servers, NEW w \in Workers, RegisterProtocolInstance(s, w)
    PROVE  OverlayTypeOK'
  <1>1. worker[s][w].pc \in Holding
    BY DEF RegisterProtocolInstance, Holding
  <1>2. PICK m \in Proto : m = worker[s][w].msg
    BY <1>1, PlaceTypes
  <1>3. m.id \in Trees
    BY DEF Proto
  <1>4. worker' \in [Servers -> [Workers -> Place]]
    BY <1>1, EndsMoves DEF RegisterProtocolInstance
  <1>5. got[s] \in Seq(Proto)
    BY DEF OverlayTypeOK
  <1>6. Append(got[s], m) \in Seq(Proto)
    BY <1>5, AppendElements
  <1>7. got' \in [Servers -> Seq(Proto)] /\ protocols' \in [Servers -> SUBSET Trees]
    <2>1. \/ UNCHANGED <<protocols, got>>
          \/ /\ protocols' = [protocols EXCEPT ![s] = protocols[s] \cup {m.id}]
             /\ got' = [got EXCEPT ![s] = Append(got[s], m)]
      BY <1>2 DEF RegisterProtocolInstance, Add
    <2>2. CASE UNCHANGED <<protocols, got>>
      BY <2>2 DEF OverlayTypeOK
    <2>3. CASE /\ protocols' = [protocols EXCEPT ![s] = protocols[s] \cup {m.id}]
               /\ got' = [got EXCEPT ![s] = Append(got[s], m)]
      BY <1>3, <1>6, <2>3 DEF OverlayTypeOK
    <2> QED
      BY <2>1, <2>2, <2>3
  <1> QED
    BY <1>4, <1>7 DEF OverlayTypeOK, RegisterProtocolInstance, local

LEMMA CloseOverlayTypes ==
    ASSUME OverlayTypeOK, NEW s \in Servers, CloseOverlay(s)
    PROVE  OverlayTypeOK'
  BY OverlayAssumption DEF OverlayTypeOK, CloseOverlay, nodeDelete, local

LEMMA RestartTypes ==
    ASSUME OverlayTypeOK, NEW s \in Servers, Restart(s)
    PROVE  OverlayTypeOK'
  <1>1. net' \in [Links -> Seq(Message)]
    BY SMTT(60) DEF OverlayTypeOK, Restart, Links
  <1>2. Idle \in Place
    BY DEF Idle, Place
  <1>3. worker' \in [Servers -> [Workers -> Place]]
    BY <1>2 DEF OverlayTypeOK, Restart
  <1>4. pendingMsg' \in [Servers -> Seq(Proto)] /\ treeLocked' \in [Servers -> BOOLEAN]
    BY SMTT(60) DEF OverlayTypeOK, Restart
  <1>5. /\ started' \in [Servers -> [Trees -> Nat]]
        /\ firstFrom' \in [Servers -> [Trees -> Servers \cup {Nothing}]]
    BY DEF OverlayTypeOK, Restart
  <1>6. /\ trees' \in [Servers -> SUBSET Trees] /\ rosters' \in [Servers -> SUBSET Rosters]
        /\ pendingTree' \in [Servers -> SUBSET Trees] /\ checks' \in [Servers -> SUBSET Trees]
        /\ configs' \in [Servers -> SUBSET Trees]
    BY DEF OverlayTypeOK, Restart
  <1>7. /\ instances' \in [Servers -> SUBSET Trees] /\ protocols' \in [Servers -> SUBSET Trees]
        /\ finished' \in [Servers -> SUBSET Trees] /\ configured' \in [Servers -> SUBSET Trees]
        /\ failed' \in SUBSET Servers
    BY OverlayAssumption DEF OverlayTypeOK, Restart
  <1> QED
    BY <1>1, <1>3, <1>4, <1>5, <1>6, <1>7 DEF OverlayTypeOK, Restart

LEMMA TypeStep == OverlayTypeOK /\ [Next]_vars => OverlayTypeOK'
  <1> SUFFICES ASSUME OverlayTypeOK, [Next]_vars PROVE OverlayTypeOK'
    OBVIOUS
  <1>1. CASE UNCHANGED vars
    BY <1>1 DEF OverlayTypeOK, vars, local, tokens
  <1> QED
    BY OverlayCases, CreateProtocolTypes, NodeTypes, DoneInstanceTypes, SendToTypes,
       HandleConfigMessageTypes, HandleRequestTreeTypes, HandleRequestRosterTypes,
       HandleSendTreeTypes, HandleSendRosterTypes, ProcessMsgTypes, RequestTreeTypes,
       NextPendingTypes, CheckPendingMessagesTypes, TransmitMsgTypes, CreateInstanceTypes,
       RegisterProtocolInstanceTypes, CloseOverlayTypes, RestartTypes, <1>1

\* The types of OverlayTypeOK, for whatever servers, trees and messages there are.
THEOREM OverlayTypeCorrect == Spec => []OverlayTypeOK
  BY TypeInit, TypeStep, PTL DEF Spec

=============================================================================
