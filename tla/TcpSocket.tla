----------------------------- MODULE TcpSocket -----------------------------
(***************************************************************************)
(* asio_tcp_socket: the library's TCP socket, driven by the callbacks of a *)
(* single-threaded boost io_service.                                       *)
(*                                                                         *)
(* Every listener callback of asio_tcp_socket is the last thing its        *)
(* handler does, so an API call made from inside a callback behaves like a *)
(* call made just after the handler: API calls and completion handlers are *)
(* the atomic steps.  The operations started on the native socket and the  *)
(* io_service's FIFO of completed operations are external (boost.asio).    *)
(*                                                                         *)
(* A buffer handed to send_n is [conn, n]: the n-th buffer accepted while  *)
(* the socket worked on its conn-th connection.                            *)
(***************************************************************************)
EXTENDS Integers, Sequences

CONSTANTS
    MaxConnects,    \* bound: connections made with one socket object
    MaxSends,       \* bound: buffers accepted on one connection
    QueueLimits,    \* arguments of set_max_sending_queue_size
    DefaultLimit,   \* m_max_sending_queue_size after do_init (16 in the code)
    CarefulCaller   \* TRUE: sends and reads only while is_connected(), and
                    \* connects again only after the handlers of the earlier
                    \* connection have run (a new object or a posted call)

ASSUME TcpSocketAssumption ==
    /\ MaxConnects \in Nat /\ MaxSends \in Nat
    /\ QueueLimits \subseteq Nat
    /\ DefaultLimit \in Nat \ {0}
    /\ CarefulCaller \in BOOLEAN

VARIABLES
    m_connected,               \* is_connected()
    m_receiving,               \* is_receiving()
    m_sending_queue,           \* buffers not yet reported sent, oldest first
    m_max_sending_queue_size,
    listening,                 \* a listener is attached (not the dummy one)
    native,                    \* state of the boost socket
    inflight,                  \* started native operations, by kind
    ready,                     \* completed operations whose handler has not run
    conn,                      \* connections started so far
    accepted,                  \* send_n calls that returned true on this conn
    wire,                      \* buffers written to the current connection
    reported                   \* on_socket_send callbacks on this conn

vars == <<m_connected, m_receiving, m_sending_queue, m_max_sending_queue_size,
          listening, native, inflight, ready, conn, accepted, wire, reported>>
member == <<m_connected, m_receiving, m_sending_queue,
            m_max_sending_queue_size, listening>>
history == <<conn, accepted, wire, reported>>

Kinds == {"connect", "recv", "send"}
NativeStates == {"closed", "connecting", "established", "failed"}
Buffer == [conn : Nat, n : Nat]
NoBuffer == [conn |-> 0, n |-> 0]     \* tag of operations without a buffer
Results == {"ok", "error"}
Completion == [kind : Kinds, res : Results, buf : Buffer]

is_open == native # "closed"

----------------------------------------------------------------------------
(* The native socket and the io_service queue (boost.asio, external).      *)

\* The queue entry of an operation of kind k on buffer b.
Done(k, res, b) == [kind |-> k, res |-> res, buf |-> b]

\* native.close() completes everything in flight with operation_aborted,
\* reads first; operations already completed keep their result.
Aborted(k) == [i \in DOMAIN inflight[k] |-> Done(k, "error", inflight[k][i])]
AllAborted == Aborted("recv") \o Aborted("send") \o Aborted("connect")
NothingInFlight == [k \in Kinds |-> <<>>]
OnlyConnect == [k \in Kinds |-> IF k = "connect" THEN <<NoBuffer>> ELSE <<>>]

\* An operation of kind k has been started and its handler has not run.
Outstanding(k) ==
    inflight[k] # <<>> \/ \E i \in DOMAIN ready : ready[i].kind = k
Drained == \A k \in Kinds : ~Outstanding(k)

\* Starting an operation on a closed native socket completes it with an error.
Start(k, b) ==
    IF is_open
    THEN /\ inflight' = [inflight EXCEPT ![k] = Append(@, b)]
         /\ UNCHANGED ready
    ELSE /\ ready' = Append(ready, Done(k, "error", b))
         /\ UNCHANGED inflight

\* The oldest operation of kind k ends with result res.
Finish(k, res) ==
    /\ inflight[k] # <<>>
    /\ inflight' = [inflight EXCEPT ![k] = Tail(@)]
    /\ ready' = Append(ready, Done(k, res, Head(inflight[k])))

NativeConnect ==
    /\ \E res \in Results :
         /\ Finish("connect", res)
         /\ native' = IF res = "ok" THEN "established" ELSE "failed"
    /\ UNCHANGED <<member, history>>

NativeReceive ==
    /\ \E res \in Results :
         /\ res = "ok" => native = "established"
         /\ Finish("recv", res)
    /\ UNCHANGED <<member, native, history>>

NativeWrite ==
    /\ \E res \in Results :
         /\ res = "ok" => native = "established"
         /\ Finish("send", res)
         /\ wire' = IF res = "ok" THEN Append(wire, Head(inflight["send"])) ELSE wire
    /\ UNCHANGED <<member, native, conn, accepted, reported>>

----------------------------------------------------------------------------
(* The socket's own code.                                                  *)

\* Mutant: the next buffer stays queued without a write (a lost wake-up).
process_sending_queue_stalls(q) ==
    /\ m_sending_queue' = q
    /\ UNCHANGED inflight

\* process_sending_queue on the updated queue q: writes its first buffer, or
\* clears the queue of a closed socket.
process_sending_queue(q) ==
    /\ m_sending_queue' = IF is_open THEN q ELSE <<>>
    /\ inflight' = IF is_open /\ q # <<>>
                   THEN [inflight EXCEPT !["send"] = Append(@, Head(q))]
                   ELSE inflight

\* What close() does to the native socket; m_sending_queue is not cleared.
do_close ==
    /\ m_connected' = FALSE
    /\ native' = "closed"
    /\ inflight' = NothingInFlight
    /\ ready' = ready \o AllAborted

close ==
    /\ is_open \/ m_connected
    /\ do_close
    /\ UNCHANGED <<m_receiving, m_sending_queue, m_max_sending_queue_size,
                   listening, history>>

destroy ==
    /\ listening
    /\ listening' = FALSE
    /\ do_close
    /\ UNCHANGED <<m_receiving, m_sending_queue, m_max_sending_queue_size,
                   history>>

\* Mutant: the flag of the connection that was open is left set.
connect_keeps_flag ==
    /\ conn < MaxConnects
    /\ CarefulCaller => Drained
    /\ native' = "connecting"
    /\ inflight' = OnlyConnect
    /\ ready' = ready \o AllAborted
    /\ conn' = conn + 1
    /\ accepted' = 0 /\ wire' = <<>> /\ reported' = 0
    /\ UNCHANGED member

\* connect(): close(), then async_connect, which opens the native socket.
connect ==
    /\ conn < MaxConnects
    /\ CarefulCaller => Drained
    /\ m_connected' = FALSE
    /\ native' = "connecting"
    /\ inflight' = OnlyConnect
    /\ ready' = ready \o AllAborted
    /\ conn' = conn + 1
    /\ accepted' = 0 /\ wire' = <<>> /\ reported' = 0
    /\ UNCHANGED <<m_receiving, m_sending_queue, m_max_sending_queue_size,
                   listening>>

\* Mutant: starts a write for every buffer, ignoring the one in flight.
send_n_unqueued ==
    /\ accepted < MaxSends
    /\ CarefulCaller => m_connected
    /\ Len(m_sending_queue) < m_max_sending_queue_size
    /\ accepted' = accepted + 1
    /\ process_sending_queue(Append(m_sending_queue,
                                    [conn |-> conn, n |-> accepted + 1]))
    /\ UNCHANGED <<m_connected, m_receiving, m_max_sending_queue_size,
                   listening, native, ready, conn, wire, reported>>

\* send() and send_n(): a full queue rejects the buffer and nothing changes.
send_n ==
    /\ accepted < MaxSends
    /\ CarefulCaller => m_connected
    /\ Len(m_sending_queue) < m_max_sending_queue_size
    /\ accepted' = accepted + 1
    /\ LET q == Append(m_sending_queue, [conn |-> conn, n |-> accepted + 1])
       IN  IF Len(q) = 1
           THEN process_sending_queue(q)
           ELSE m_sending_queue' = q /\ UNCHANGED inflight
    /\ UNCHANGED <<m_connected, m_receiving, m_max_sending_queue_size,
                   listening, native, ready, conn, wire, reported>>

\* Mutant: the flag is not raised, so a second read may be started.
receive_unmarked ==
    /\ ~m_receiving /\ m_connected
    /\ Start("recv", NoBuffer)
    /\ UNCHANGED <<member, native, history>>

\* receive(): asserts that no read is running and that the socket is connected.
receive ==
    /\ ~m_receiving /\ m_connected
    /\ m_receiving' = TRUE
    /\ Start("recv", NoBuffer)
    /\ UNCHANGED <<m_connected, m_sending_queue, m_max_sending_queue_size,
                   listening, native, history>>

\* receive_n() does not assert m_connected.
receive_n ==
    /\ ~m_receiving
    /\ CarefulCaller => m_connected
    /\ m_receiving' = TRUE
    /\ Start("recv", NoBuffer)
    /\ UNCHANGED <<m_connected, m_sending_queue, m_max_sending_queue_size,
                   listening, native, history>>

\* Mutant: the check for 0 is dropped.
set_max_sending_queue_size_unchecked ==
    /\ m_max_sending_queue_size' \in QueueLimits
    /\ UNCHANGED <<m_connected, m_receiving, m_sending_queue, listening,
                   native, inflight, ready, history>>

\* A limit of 0 is refused.
set_max_sending_queue_size ==
    /\ m_max_sending_queue_size' \in QueueLimits \ {0}
    /\ UNCHANGED <<m_connected, m_receiving, m_sending_queue, listening,
                   native, inflight, ready, history>>

\* The io_service takes the first completed operation, which is of kind k.
Dispatch(k) ==
    /\ ready # <<>>
    /\ Head(ready).kind = k
    /\ ready' = Tail(ready)

on_connect ==
    /\ Dispatch("connect")
    /\ m_sending_queue' = <<>>
    /\ m_connected' = (Head(ready).res = "ok")
    /\ m_receiving' = FALSE
    /\ UNCHANGED <<m_max_sending_queue_size, listening, native, inflight,
                   history>>

\* An error gives up the connection and everything queued for it.
on_receive ==
    /\ Dispatch("recv")
    /\ m_receiving' = FALSE
    /\ m_connected' = (m_connected /\ Head(ready).res = "ok")
    /\ m_sending_queue' = IF Head(ready).res = "ok" THEN m_sending_queue ELSE <<>>
    /\ UNCHANGED <<m_max_sending_queue_size, listening, native, inflight,
                   history>>

\* Mutant: the front is written again instead of being popped.
PopAndContinue_keeps_front ==
    /\ process_sending_queue(m_sending_queue)
    /\ reported' = IF listening THEN reported + 1 ELSE reported

\* The handler's state changes when it pops the queue's front.
PopAndContinue ==
    /\ process_sending_queue(Tail(m_sending_queue))
    /\ reported' = IF listening THEN reported + 1 ELSE reported

\* Mutant: returns before the callback when the queue has become empty.
on_send_silent_at_end ==
    /\ Dispatch("send")
    /\ m_connected' = (m_connected /\ Head(ready).res = "ok")
    /\ IF Head(ready).res # "ok" \/ Len(m_sending_queue) <= 1
       THEN m_sending_queue' = <<>> /\ UNCHANGED <<inflight, reported>>
       ELSE PopAndContinue
    /\ UNCHANGED <<m_receiving, m_max_sending_queue_size, listening, native,
                   conn, accepted, wire>>

\* An error gives up the connection and the queue; success on a queue that
\* another handler has cleared is ignored; otherwise the front is popped, the
\* next buffer is written and the listener is called.
on_send ==
    /\ Dispatch("send")
    /\ m_connected' = (m_connected /\ Head(ready).res = "ok")
    /\ IF Head(ready).res # "ok" \/ m_sending_queue = <<>>
       THEN m_sending_queue' = <<>> /\ UNCHANGED <<inflight, reported>>
       ELSE PopAndContinue
    /\ UNCHANGED <<m_receiving, m_max_sending_queue_size, listening, native,
                   conn, accepted, wire>>

----------------------------------------------------------------------------
\* A new socket, or one the acceptor made for an established connection.
Init ==
    /\ \/ m_connected = FALSE /\ native = "closed" /\ conn = 0
       \/ m_connected = TRUE /\ native = "established" /\ conn = 1
    /\ m_receiving = FALSE
    /\ m_sending_queue = <<>>
    /\ m_max_sending_queue_size = DefaultLimit
    /\ listening = TRUE
    /\ inflight = NothingInFlight
    /\ ready = <<>>
    /\ accepted = 0 /\ wire = <<>> /\ reported = 0

UserCall == \/ close \/ destroy \/ connect \/ send_n \/ receive \/ receive_n
            \/ set_max_sending_queue_size
Handler == on_connect \/ on_receive \/ on_send
Native == NativeConnect \/ NativeReceive \/ NativeWrite

Next == UserCall \/ Handler \/ Native

\* The io_service thread keeps running handlers; an attempt to connect and a
\* write end, well or badly (the peer reads, resets or times out).  Nothing
\* obliges the caller, or the peer of a read.
Fairness == WF_vars(Handler) /\ WF_vars(NativeConnect) /\ WF_vars(NativeWrite)

Spec == Init /\ [][Next]_vars /\ Fairness

----------------------------------------------------------------------------
(* Properties.                                                             *)

\* The socket's fields, and what boost.asio holds for it, keep their types; a
\* queue limit of 0 is never installed.
TypeOK ==
    /\ m_connected \in BOOLEAN /\ m_receiving \in BOOLEAN
    /\ m_sending_queue \in Seq(Buffer)
    /\ m_max_sending_queue_size \in Nat \ {0}
    /\ listening \in BOOLEAN
    /\ native \in NativeStates
    /\ inflight \in [Kinds -> Seq(Buffer)]
    /\ ready \in Seq(Completion)
    /\ conn \in Nat /\ accepted \in Nat /\ reported \in Nat
    /\ wire \in Seq(Buffer)

\* At most one operation of each kind is outstanding: two async_writes on one
\* stream would interleave their bytes, two async_reads would split the input.
OnePerKind ==
    \A k \in Kinds :
      /\ Len(inflight[k]) <= 1
      /\ \A i \in DOMAIN ready : ready[i].kind = k => inflight[k] = <<>>
      /\ \A i, j \in DOMAIN ready : ready[i].kind = k /\ ready[j].kind = k => i = j

\* The i-th buffer that reaches a connection is the i-th one send_n accepted
\* for that connection: nothing is lost, repeated, reordered or left over from
\* an earlier connection.
WireInOrder ==
    \A i \in DOMAIN wire : wire[i] = [conn |-> conn, n |-> i]

\* is_receiving() is true exactly while a read is outstanding.
ReceivingFlag == m_receiving <=> Outstanding("recv")

\* While connected, every buffer that was written has been reported with
\* on_socket_send or its completion waits in the io_service queue.
WritesReported ==
    m_connected /\ listening =>
      Len(wire) = reported
        + (IF \E i \in DOMAIN ready : ready[i].kind = "send" /\ ready[i].res = "ok"
           THEN 1 ELSE 0)

\* on_connect's assert(!m_connected).
ConnectAssert ==
    ready # <<>> /\ Head(ready).kind = "connect" => ~m_connected

\* Every queued buffer leaves the queue: written, or given up on an error or
\* after close().
QueueDrains ==
    \A c \in 1 .. MaxConnects, n \in 1 .. MaxSends :
      LET b == [conn |-> c, n |-> n]
      IN  (\E i \in DOMAIN m_sending_queue : m_sending_queue[i] = b)
            ~> ~(\E i \in DOMAIN m_sending_queue : m_sending_queue[i] = b)
=============================================================================
