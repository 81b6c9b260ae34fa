-------------------------- MODULE TreeNodeInstance --------------------------
(***************************************************************************)
(* One TreeNodeInstance of onet: the queue between the overlay, which puts *)
(* protocol messages, and the protocol, which gets them one by one or, for *)
(* the types registered with a slice, one from each child at once.         *)
(*                                                                         *)
(* Four goroutines meet here: the one that delivers messages (one at a     *)
(* time, as the overlay holds transmitMux), dispatchMsgReader, the         *)
(* protocol's Dispatch, and a server that shuts down.  Each critical       *)
(* section of msgDispatchQueueMutex is one step.                           *)
(***************************************************************************)
EXTENDS Naturals, Sequences, FiniteSets

CONSTANTS
    Children,       \* the tree nodes below this one
    Parent,         \* the tree node above
    IsRoot,         \* whether there is none
    Types,          \* the message types
    Aggregated,     \* those with the flag AggregateMessages
    OnChannel,      \* those registered with a channel
    OnHandler,      \* those registered with a handler function
    ChannelLength,  \* the capacity of the channels
    Deliveries,     \* bound: how many messages of a type a node sends, if any
    MaxQueue        \* bound: the length of the queue

ASSUME InstanceAssumption ==
    /\ IsFiniteSet(Children) /\ Children # {} /\ Parent \notin Children
    /\ IsRoot \in BOOLEAN
    /\ Aggregated \subseteq Types
    /\ OnChannel \subseteq Types /\ OnHandler \subseteq Types
    /\ ChannelLength \in Nat \ {0}
    /\ MaxQueue \in Nat

Senders == Children \cup (IF IsRoot THEN {} ELSE {Parent})

ASSUME SendsAssumption ==
    /\ DOMAIN Deliveries \subseteq Senders \X Types
    /\ Deliveries \in [DOMAIN Deliveries -> Nat]

Messages ==
    UNION {{[type |-> st[2], from |-> st[1], nr |-> n] : n \in 1..Deliveries[st]} :
             st \in DOMAIN Deliveries}

Lines == Types \X BOOLEAN
LineOf(m) == <<m.type, m.from = Parent>>

VARIABLES
    queue,      \* msgDispatchQueue
    wait,       \* whether msgDispatchQueueWait, of capacity 1, is full
    closing,    \* the flag of the same name
    reader,     \* where dispatchMsgReader is
    msg,        \* the messages it has taken from the queue and not yet passed on
    msgQueue,   \* the messages of each aggregated type that wait for others
    channel,    \* the contents of the channels of the protocol, slice by slice
    given,      \* history: what left each line, in that order
    delivered,  \* how many messages of a type a node has sent
    finish,     \* how far the protocol's call of Done is
    registered  \* whether the overlay still has the instance

instance_vars == <<queue, wait, closing, reader, msg, msgQueue, channel, given, delivered, finish, registered>>

InstanceInit ==
    /\ queue = <<>>
    /\ wait = FALSE
    /\ closing = FALSE
    /\ reader = "loop"
    /\ msg = <<>>
    /\ msgQueue = [t \in Aggregated |-> <<>>]
    /\ channel = [t \in OnChannel |-> <<>>]
    /\ given = [k \in Lines |-> <<>>]
    /\ delivered = [st \in DOMAIN Deliveries |-> 0]
    /\ finish = "running"
    /\ registered = TRUE

-----------------------------------------------------------------------------
\* A child answers requests of the protocol: it sends the next message of an
\* aggregated type when the protocol was given the previous ones of all children.
InTurn(s, t) ==
    t \in Aggregated /\ s \in Children =>
        delivered[<<s, t>>] * Cardinality(Children) <= Len(given[<<t, FALSE>>])

\* Mutation: the length is compared before the message is appended.
SignalsLate(q) == wait \/ Len(q) = 2

\* The first message of a queue fills the wait channel.
Signals(q) == wait \/ Len(q) = 1

\* Also possible after Done: TransmitMsg may have looked at instancesInfo before.
ProcessProtocolMsg(s, t) ==
    LET m == [type |-> t, from |-> s, nr |-> delivered[<<s, t>>] + 1] IN
    /\ delivered[<<s, t>>] < Deliveries[<<s, t>>] /\ Len(queue) < MaxQueue
    /\ InTurn(s, t)
    /\ delivered' = [delivered EXCEPT ![<<s, t>>] = @ + 1]
    /\ queue' = Append(queue, m)
    /\ wait' = Signals(queue')
    /\ UNCHANGED <<closing, reader, msg, msgQueue, channel, given, finish, registered>>

-----------------------------------------------------------------------------
ReaderCloses ==
    /\ reader = "loop" /\ closing
    /\ reader' = "closed"
    /\ UNCHANGED <<queue, wait, closing, msg, msgQueue, channel, given, delivered, finish, registered>>

ReaderTakes ==
    /\ reader = "loop" /\ ~closing
    /\ queue # <<>>
    /\ msg' = <<Head(queue)>>
    /\ queue' = Tail(queue)
    /\ reader' = "dispatch"
    /\ UNCHANGED <<wait, closing, msgQueue, channel, given, delivered, finish, registered>>

ReaderWaits ==
    /\ reader = "loop" /\ ~closing
    /\ queue = <<>>
    /\ reader' = "wait"
    /\ UNCHANGED <<queue, wait, closing, msg, msgQueue, channel, given, delivered, finish, registered>>

ReaderWakes ==
    /\ reader = "wait" /\ wait
    /\ wait' = FALSE
    /\ reader' = "loop"
    /\ UNCHANGED <<queue, closing, msg, msgQueue, channel, given, delivered, finish, registered>>

\* Messages from the parent and types without the flag are not aggregated.
Direct(m) == m.from = Parent \/ m.type \notin Aggregated

\* Mutation: a round is complete one message too early.
CompleteEarly(msgs) == Len(msgs) + 1 >= Cardinality(Children)

Complete(msgs) == Len(msgs) = Cardinality(Children)

\* Mutation: the messages of a complete round are not erased.
NotErased(msgs) == msgs

StillWaiting(msgs) == IF Complete(msgs) THEN <<>> ELSE msgs

aggregate(m) ==
    LET msgs == Append(msgQueue[m.type], m) IN
    /\ msgQueue' = [msgQueue EXCEPT ![m.type] = StillWaiting(msgs)]
    /\ msg' = IF Complete(msgs) THEN msgs ELSE <<>>

\* A message that completes no round is kept for later.
Aggregate ==
    /\ reader = "dispatch"
    /\ ~Direct(Head(msg))
    /\ aggregate(Head(msg))
    /\ reader' = IF msg' = <<>> THEN "loop" ELSE "pass"
    /\ UNCHANGED <<queue, wait, closing, channel, given, delivered, finish, registered>>

Passed == given' = [given EXCEPT ![LineOf(msg[1])] = @ \o msg]

\* The messages `msg` are ready for the protocol.
Ready(t) ==
    /\ \/ reader = "pass"
       \/ reader = "dispatch" /\ Direct(Head(msg))
    /\ msg[1].type = t

HasRoom(t) == Len(channel[t]) < ChannelLength

\* A slice waits for a free place in the channel; a plain message that finds none is
\* turned away with an error.
dispatchChannel(t) ==
    /\ Ready(t) /\ t \in OnChannel
    /\ HasRoom(t) \/ t \notin Aggregated
    /\ channel' = IF HasRoom(t) THEN [channel EXCEPT ![t] = Append(@, msg)] ELSE channel
    /\ Passed
    /\ msg' = <<>>
    /\ reader' = "loop"
    /\ UNCHANGED <<queue, wait, closing, msgQueue, delivered, finish, registered>>

\* The handler runs in the reader's goroutine.
dispatchHandler(t) ==
    /\ Ready(t) /\ t \in OnHandler \ OnChannel
    /\ Passed
    /\ msg' = <<>>
    /\ reader' = "handler"
    /\ UNCHANGED <<queue, wait, closing, msgQueue, channel, delivered, finish, registered>>

HandlerReturns ==
    /\ reader = "handler"
    /\ finish # "inHandler"
    /\ reader' = "loop"
    /\ UNCHANGED <<queue, wait, closing, msg, msgQueue, channel, given, delivered, finish, registered>>

NotHandled(t) ==
    /\ Ready(t) /\ t \notin OnChannel \cup OnHandler
    /\ Passed
    /\ msg' = <<>>
    /\ reader' = "loop"
    /\ UNCHANGED <<queue, wait, closing, msgQueue, channel, delivered, finish, registered>>

-----------------------------------------------------------------------------
\* The protocol's Dispatch reads a channel.
Receive(t) ==
    /\ finish = "running"
    /\ channel[t] # <<>>
    /\ channel' = [channel EXCEPT ![t] = Tail(@)]
    /\ UNCHANGED <<queue, wait, closing, reader, msg, msgQueue, given, delivered, finish, registered>>

closeDispatch ==
    /\ closing' = TRUE
    /\ wait' = TRUE

\* Done, called by Dispatch or by a handler: closeDispatch, and once more in nodeDone
\* if no Close was faster.
Done(where) ==
    /\ finish = "running"
    /\ where = "inHandler" => reader = "handler"
    /\ closeDispatch
    /\ finish' = where
    /\ UNCHANGED <<queue, reader, msg, msgQueue, channel, given, delivered, registered>>

DoneClosed == finish \in {"inDispatch", "inHandler"}

nodeDone ==
    /\ DoneClosed
    /\ finish' = "done"
    /\ IF registered THEN closeDispatch ELSE UNCHANGED <<closing, wait>>
    /\ registered' = FALSE
    /\ UNCHANGED <<queue, reader, msg, msgQueue, channel, given, delivered>>

\* Overlay.Close of a server that shuts down.
Close ==
    /\ registered
    /\ closeDispatch
    /\ registered' = FALSE
    /\ UNCHANGED <<queue, reader, msg, msgQueue, channel, given, delivered, finish>>

-----------------------------------------------------------------------------
Reader ==
    \/ ReaderCloses \/ ReaderTakes \/ ReaderWaits \/ ReaderWakes \/ Aggregate
    \/ \E t \in Types : dispatchChannel(t) \/ dispatchHandler(t) \/ NotHandled(t)
    \/ HandlerReturns

Protocol ==
    \/ \E t \in OnChannel : Receive(t)
    \/ \E where \in {"inDispatch", "inHandler"} : Done(where)
    \/ nodeDone

InstanceNext ==
    \/ \E st \in DOMAIN Deliveries : ProcessProtocolMsg(st[1], st[2])
    \/ Reader
    \/ Protocol
    \/ Close

InstanceSpec == InstanceInit /\ [][InstanceNext]_instance_vars

\* The reader's goroutine runs, and the protocol goes on reading its channels and
\* returns from Done.
InstanceFairSpec ==
    /\ InstanceSpec
    /\ WF_instance_vars(Reader)
    /\ \A t \in OnChannel : WF_instance_vars(Receive(t))
    /\ WF_instance_vars(nodeDone)

-----------------------------------------------------------------------------
\* The type of every variable; no channel holds more than its capacity.
InstanceTypeOK ==
    /\ queue \in Seq(Messages)
    /\ wait \in BOOLEAN /\ closing \in BOOLEAN /\ registered \in BOOLEAN
    /\ reader \in {"loop", "wait", "dispatch", "pass", "handler", "closed"}
    /\ msg \in Seq(Messages)
    /\ reader \in {"dispatch", "pass"} => msg # <<>>
    /\ msgQueue \in [Aggregated -> Seq(Messages)]
    /\ channel \in [OnChannel -> Seq(Seq(Messages))]
    /\ \A t \in OnChannel : Len(channel[t]) <= ChannelLength
    /\ given \in [Lines -> Seq(Messages)]
    /\ delivered \in [DOMAIN Deliveries -> Nat]
    /\ finish \in {"running", "inDispatch", "inHandler", "done"}

\* ProcessProtocolMsg and closeDispatch signal only when the wait channel is empty,
\* and the reader drops a signal it did not need: still it never sleeps on a message
\* or on a closed instance without a signal being there to wake it up.
NoLostWakeup ==
    reader = "wait" /\ (queue # <<>> \/ closing) => wait

\* aggregate counts messages, not children: as long as the children answer the
\* protocol in turn, what it hands over has one message of each child.
OneFromEachChild ==
    [][reader = "pass" /\ reader' # "pass" =>
        {msg[i].from : i \in 1..Len(msg)} = Children]_instance_vars

\* The queue, the message being dispatched, and those that wait for other children
\* are one line of a mailbox for each type and direction.
OfLine(s, k) == SelectSeq(s, LAMBDA m : LineOf(m) = k)
Box == INSTANCE Mailbox WITH
    line <- [k \in Lines |->
        (IF k[2] \/ k[1] \notin Aggregated THEN <<>> ELSE msgQueue[k[1]])
            \o OfLine(msg, k) \o OfLine(queue, k)],
    given <- given,
    open <- reader # "closed"

\* Nothing the overlay puts is lost, duplicated or overtaken by another message of its
\* type and direction on the way to the protocol.
ImplementsMailbox == Box!BoxSpec

\* Every message reaches the protocol, or its round, unless the instance is closed.
QueueDrains == []<>(queue = <<>> \/ closing)

\* Done ends the reader, except for one that waits to put a slice into a channel the
\* protocol no longer reads.
ReaderStops ==
    []<>(closing => \/ reader = "closed"
                    \/ \E t \in OnChannel : Ready(t) /\ ~HasRoom(t))

(* An instance is the mailbox that the protocols rely on, and its reader goes on: it   *)
(* comes to every message as long as the channels are read, and ends with the instance. *)
InstanceIsMailbox == ImplementsMailbox /\ QueueDrains /\ ReaderStops

=============================================================================
