--------------------------------- MODULE Tcp ---------------------------------
(***************************************************************************)
(* TCPConn and TCPListener of onet/network/tcp.go: messages sent as a size *)
(* followed by their bytes over a stream that is written and read in       *)
(* pieces, by several senders, until one end closes; and the listener's    *)
(* meeting of listen and Stop, with the dialler that retries.              *)
(*                                                                         *)
(* The unit of the stream is a word as long as a size: a message is a      *)
(* whole number of words, and a word of a message that is read where a     *)
(* size is expected gives any size.                                        *)
(***************************************************************************)
EXTENDS Integers, Sequences, SequencesExt

CONSTANTS
    Senders,         \* goroutines that send on the connection
    Lengths,         \* the lengths of the messages, in words
    MaxPacketSize,   \* maxPacketSize, in words
    MaxSent,         \* bound: messages sent
    MaxDials, \* dials of NewTCPConn
    MaxStops         \* bound: calls to Stop

ASSUME TcpAssumption ==
    /\ Lengths \subseteq Nat \ {0}
    /\ MaxPacketSize \in Nat /\ MaxSent \in Nat
    /\ MaxDials \in Nat /\ MaxStops \in Nat

VARIABLES
    stream,      \* the words written and not yet read
    writing,   \* for each sender, the message in sendRaw and the words to write
    sendMutex, \* the senders that hold sendMutex
    begun,     \* the lengths of the messages whose size is written, in order
    receiving,   \* receiveRaw: its place, the total announced and what was read
    returned,  \* the numbers of the messages returned by Receive
    closedBy,      \* which end has closed the connection
    listen,    \* where listen is
    stopping,      \* where Stop is
    dial,      \* NewTCPConn: its place and the dials made
    tcp        \* the fields of TCPListener, the socket and its backlog

tcp_conn == <<stream, writing, sendMutex, begun, receiving, returned, closedBy>>
tcp_listener == <<listen, stopping, dial, tcp>>
tcp_vars == <<tcp_conn, tcp_listener>>

Silent == [nr |-> 0, left |-> 0]
AtSize == [at |-> "size", total |-> 0, got |-> <<>>]

TcpInit ==
    /\ stream = <<>> /\ begun = <<>> /\ returned = <<>> /\ closedBy = "no"
    /\ writing = [s \in Senders |-> Silent] /\ sendMutex = {}
    /\ receiving = AtSize
    /\ listen = "new" /\ stopping = [at |-> "idle", calls |-> 0]
    /\ dial = [at |-> "idle", tries |-> 0]
    /\ tcp = [listening |-> FALSE, closed |-> FALSE, quit |-> FALSE,
              open |-> FALSE, backlog |-> 0]

-------------------------------------------------------------------------------
(* Send and sendRaw. *)

MessageWord(nr) == [nr |-> nr, size |-> 0]
SizeWord(n) == [nr |-> 0, size |-> n]

MayWrite(s) == sendMutex = {}

\* Send takes the mutex and sendRaw writes the size of the message.
WriteSize(s, len) ==
    /\ writing[s] = Silent /\ MayWrite(s) /\ Len(begun) < MaxSent
    /\ closedBy = "no"
    /\ begun' = Append(begun, len)
    /\ sendMutex' = sendMutex \cup {s}
    /\ writing' = [writing EXCEPT ![s] = [nr |-> Len(begun'), left |-> len]]
    /\ stream' = Append(stream, SizeWord(len))
    /\ UNCHANGED <<receiving, returned, closedBy, tcp_listener>>

\* One Write puts n words on the stream; the last one returns from Send.
WriteWords(s, n) ==
    LET w == writing[s] IN
    /\ n \in 1..w.left /\ closedBy = "no"
    /\ stream' = stream \o [i \in 1..n |-> MessageWord(w.nr)]
    /\ IF n = w.left
       THEN writing' = [writing EXCEPT ![s] = Silent] /\ sendMutex' = sendMutex \ {s}
       ELSE writing' = [writing EXCEPT ![s].left = @ - n] /\ UNCHANGED sendMutex
    /\ UNCHANGED <<begun, receiving, returned, closedBy, tcp_listener>>

\* Write fails on the closed connection: Send returns the error.
WriteFails(s) ==
    /\ writing[s] # Silent /\ closedBy # "no"
    /\ writing' = [writing EXCEPT ![s] = Silent] /\ sendMutex' = sendMutex \ {s}
    /\ UNCHANGED <<stream, begun, receiving, returned, closedBy, tcp_listener>>

-------------------------------------------------------------------------------
(* Receive in the loop of handleConn, which goes on after every error that
   is neither a timeout nor the end of the connection. *)

Sizes(word) == IF word.nr = 0 THEN {word.size} ELSE 0..(MaxPacketSize + 1)

TooBig(total) == total > MaxPacketSize

\* Unmarshal recognises the words of one whole message only.
Unmarshals(words) ==
    /\ words # <<>> /\ words[1].nr # 0
    /\ words = [i \in 1..begun[words[1].nr] |-> words[1]]

\* Receive returns the message, or an error for what is not one.
Returns(words) ==
    /\ returned' = IF Unmarshals(words) THEN Append(returned, words[1].nr) ELSE returned
    /\ receiving' = AtSize

\* The size is read: "too big packet" returns before the words of the
\* message are read.
ReadSize(total) ==
    /\ receiving.at = "size" /\ stream # <<>> /\ closedBy # "receiver"
    /\ total \in Sizes(Head(stream))
    /\ stream' = Tail(stream)
    /\ CASE TooBig(total) -> UNCHANGED <<receiving, returned>>
         [] total = 0 -> Returns(<<>>)
         [] OTHER -> /\ receiving' = [at |-> "words", total |-> total, got |-> <<>>]
                     /\ UNCHANGED returned
    /\ UNCHANGED <<writing, sendMutex, begun, closedBy, tcp_listener>>

\* The room left in the buffer that is handed to Read.
Buffer(r) == r.total - Len(r.got)

AllRead(got, total) == Len(got) >= total

\* One Read returns n words; receiveRaw returns when all have come.
ReadWords(n) ==
    LET got == receiving.got \o SubSeq(stream, 1, n) IN
    /\ receiving.at = "words" /\ closedBy # "receiver"
    /\ n \in 1..Buffer(receiving) /\ n <= Len(stream)
    /\ stream' = SubSeq(stream, n + 1, Len(stream))
    /\ IF AllRead(got, receiving.total)
       THEN Returns(got)
       ELSE receiving' = [receiving EXCEPT !.got = got] /\ UNCHANGED returned
    /\ UNCHANGED <<writing, sendMutex, begun, closedBy, tcp_listener>>

\* ErrTimeout when nothing comes, ErrEOF at the end of what the other end
\* sent, ErrClosed once this end is closed: handleConn returns.
ReadEnds ==
    /\ receiving.at # "ended" /\ (stream = <<>> \/ closedBy = "receiver")
    /\ receiving' = [AtSize EXCEPT !.at = "ended"]
    /\ UNCHANGED <<stream, writing, sendMutex, begun, returned, closedBy, tcp_listener>>

\* The connection is reset: what was not read is lost, ErrUnknown makes
\* handleConn receive again.
Reset ==
    /\ closedBy = "no" /\ receiving.at # "ended"
    /\ closedBy' = "sender" /\ stream' = <<>> /\ receiving' = AtSize
    /\ UNCHANGED <<writing, sendMutex, begun, returned, tcp_listener>>

\* Close at one of the ends, once.
CloseTcp(end) ==
    /\ closedBy = "no" /\ closedBy' = end
    /\ UNCHANGED <<stream, writing, sendMutex, begun, receiving, returned, tcp_listener>>

ConnNext ==
    \/ \E s \in Senders : \/ \E len \in Lengths : WriteSize(s, len)
                          \/ \E n \in Lengths : WriteWords(s, n)
                          \/ WriteFails(s)
    \/ \E n \in 0..(MaxPacketSize + 1) \cup Lengths : ReadSize(n)
    \/ \E n \in Lengths : ReadWords(n)
    \/ ReadEnds \/ Reset
    \/ \E end \in {"sender", "receiver"} : CloseTcp(end)

-------------------------------------------------------------------------------
(* TCPListener. *)

\* NewTCPListener binds the address and the backlog fills from then on.
NewTCPListener ==
    /\ listen = "new" /\ listen' = "made"
    /\ tcp' = [tcp EXCEPT !.open = TRUE]
    /\ UNCHANGED <<stopping, dial, tcp_conn>>

Unlocked == stopping.at = "idle"

WasClosed(t) == t.closed

\* listen, up to its loop.
ListenTcp ==
    /\ listen = "made" /\ Unlocked
    /\ listen' = IF WasClosed(tcp) THEN "returned" ELSE "accept"
    /\ tcp' = IF WasClosed(tcp) THEN tcp ELSE [tcp EXCEPT !.listening = TRUE]
    /\ UNCHANGED <<stopping, dial, tcp_conn>>

\* Accept returns a connection, which is given to a goroutine of its own.
AcceptConn ==
    /\ listen = "accept" /\ tcp.backlog > 0 /\ tcp.open
    /\ tcp' = [tcp EXCEPT !.backlog = @ - 1]
    /\ UNCHANGED <<listen, stopping, dial, tcp_conn>>

\* Accept fails, for once or because the socket is closed: listen leaves
\* its loop if quit is closed.
AcceptFails ==
    /\ listen = "accept"
    /\ tcp.quit
    /\ listen' = "leaving"
    /\ UNCHANGED <<stopping, dial, tcp, tcp_conn>>

\* Stop takes the lock and closes quit and the socket.
\* Mutation: quit is closed only when Stop has waited.
QuitLater(t) == [t EXCEPT !.open = FALSE, !.backlog = 0]
QuitFirst(t) == [t EXCEPT !.quit = TRUE, !.open = FALSE, !.backlog = 0]

StopListener ==
    /\ listen # "new" /\ stopping.at = "idle" /\ stopping.calls < MaxStops
    /\ stopping' = [at |-> "waiting", calls |-> stopping.calls + 1]
    /\ tcp' = QuitFirst(tcp)
    /\ UNCHANGED <<listen, dial, tcp_conn>>

\* Stop meets listen on quitListener, or does not wait for it.
StopReturn ==
    /\ stopping.at = "waiting"
    /\ tcp.listening => listen = "leaving"
    /\ listen' = IF tcp.listening THEN "returned" ELSE listen
    /\ stopping' = [stopping EXCEPT !.at = "idle"]
    /\ tcp' = [tcp EXCEPT !.quit = FALSE, !.listening = FALSE, !.closed = TRUE]
    /\ UNCHANGED <<dial, tcp_conn>>

\* NewTCPConn dials until it is connected, MaxRetryConnect times.
Dial ==
    /\ dial.at = "idle" /\ dial.tries < MaxDials
    /\ dial' = [at |-> IF tcp.open THEN "connected" ELSE "idle", tries |-> dial.tries + 1]
    /\ tcp' = IF tcp.open THEN [tcp EXCEPT !.backlog = @ + 1] ELSE tcp
    /\ UNCHANGED <<listen, stopping, tcp_conn>>

ListenerNext ==
    NewTCPListener \/ ListenTcp \/ AcceptConn \/ AcceptFails \/ StopListener \/ StopReturn \/ Dial

\* What runs on by itself: the sender that has the mutex, the receiver when something
\* has come, the goroutine in listen.
Writing(s) == WriteFails(s) \/ \E n \in Lengths : WriteWords(s, n)
Receiving == \E n \in 0..(MaxPacketSize + 1) \cup Lengths : ReadSize(n) \/ ReadWords(n)
Listening == AcceptConn \/ AcceptFails

-------------------------------------------------------------------------------
(* What Receive returns is what was sent, in the order of sendMutex, each  *)
(* message at most once, however the stream is cut into pieces and         *)
(* wherever it ends.  After a message that is too big - which sendRaw does *)
(* not refuse - the words of messages are taken for sizes, and messages    *)
(* may be lost, but none is invented; before it none is lost.              *)
ReceivedInOrder ==
    /\ \A i, j \in 1..Len(returned) : i < j => returned[i] < returned[j]
    /\ \A i \in 1..Len(returned) :
          returned[i] > i => \E k \in 1..(returned[i] - 1) : begun[k] > MaxPacketSize

(* As long as the connection is up, a Send that began is received or the   *)
(* receiver has given the connection up; only a message that is too big    *)
(* can keep the later ones from being received.                            *)
EverythingArrives ==
    []<>(\/ receiving.at = "ended" \/ closedBy # "no"
         \/ \E i \in 1..Len(begun) : begun[i] > MaxPacketSize
         \/ Len(returned) = Len(begun))

(* Once Stop has returned nobody accepts any more: listen has returned, or *)
(* will return without accepting if it is called later ("Stop() should     *)
(* return when the Listener really has stopped listening").                *)
StoppedListening ==
    tcp.closed /\ stopping.at = "idle" => ~tcp.listening /\ listen \in {"made", "returned"}

(* Stop does not wait for ever, whenever it is called and however often,   *)
(* although it keeps the lock that listen takes.                           *)
StopMeetsListen == []<>(stopping.at = "idle")

(* What TCP connections and listeners promise: messages arrive whole and in order, and *)
(* Stop returns when the listener has stopped.                                         *)
TcpPromise == []ReceivedInOrder /\ []StoppedListening /\ EverythingArrives /\ StopMeetsListen

=============================================================================
