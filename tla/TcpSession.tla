----------------------------- MODULE TcpSession -----------------------------
(***************************************************************************)
(* tcp_session with its line_message_decoder, in its two uses: tcp_client, *)
(* which resolves, connects and replaces its socket, and the session that  *)
(* tcp_server_impl creates for an accepted socket.                         *)
(*                                                                         *)
(* The bytes are "cr", "lf" (the delimiter, in this order) and others.  A  *)
(* handler is cut where it calls the session's listener (pc): the listener *)
(* may call the session there.  Sockets, resolvers and the peer are        *)
(* external; the completions that can no longer reach the session, those   *)
(* of a destroyed socket or resolver, are dropped when it is destroyed.    *)
(***************************************************************************)
EXTENDS Integers, Sequences, FiniteSets, FiniteSetsExt

CONSTANTS
    Streams,             \* what the peer may send on a connection
    MaxConnects,         \* bound: calls of connect
    ReceiveSize,         \* m_receive_buffer_size
    m_max_buffer_size,   \* of the decoder
    CarefulListener      \* TRUE: does not close in on_session_open, closes or
                         \* connects in on_session_error, and connects by name
                         \* only while no other name is being resolved

ASSUME TcpSessionAssumption ==
    /\ \A s \in Streams : s \in Seq({s[i] : i \in DOMAIN s})
    /\ MaxConnects \in Nat
    /\ ReceiveSize \in Nat \ {0}
    /\ m_max_buffer_size \in Nat /\ ReceiveSize <= m_max_buffer_size
    /\ CarefulListener \in BOOLEAN

VARIABLES
    role,                \* "client" or "server"
    registered,          \* server: "no", "yes", "refused", "destroyed"
    m_aborted, m_pause_receive,
    m_resolver,          \* the resolver tcp_client holds, or 0
    resolving,           \* resolvers that will call on_resolver_address
    native,              \* "closed", "connecting", "connected", "failed"
    receiving, writing,
    ready,               \* completions of m_socket
    m_buffer, m_abort,   \* the decoder
    pc, src, rest,       \* inside feed: where the bytes are, those not decoded
    stream,              \* bytes of the connection not yet read
    input,               \* bytes of the connection fed to the decoder
    delivered, count,    \* bytes and number of the messages delivered
    connects,            \* calls of connect
    wanted,              \* connect was called, and close was not called since
    cut                  \* server: close() found nothing in flight

control == <<pc, src, rest>>
session == <<m_aborted, m_pause_receive>>
decoder == <<m_buffer, m_abort>>
socket == <<native, receiving, writing, ready>>
resolver == <<m_resolver, resolving>>
flow == <<input, delivered, count>>
vars == <<role, registered, session, resolver, socket, decoder, control, stream,
          flow, connects, wanted, cut>>

Event(k, res, d) == [kind |-> k, res |-> res, data |-> d]
Queued(k) == \E i \in DOMAIN ready : ready[i].kind = k

----------------------------------------------------------------------------
(* The network (external).                                                 *)

NativeConnect ==
    /\ native = "connecting" /\ ~Queued("connect")
    /\ \/ /\ ready' = Append(ready, Event("connect", "ok", <<>>))
          /\ stream' \in Streams
       \/ /\ ready' = Append(ready, Event("connect", "error", <<>>))
          /\ UNCHANGED stream
    /\ UNCHANGED <<role, registered, session, resolver, native, receiving,
                   writing, decoder, control, flow, connects, wanted, cut>>

NativeReceive ==
    /\ native # "closed" /\ receiving /\ ~Queued("recv")
    /\ \/ \E n \in 1 .. Min({ReceiveSize, Len(stream)}) :
            /\ ready' = Append(ready, Event("recv", "ok", SubSeq(stream, 1, n)))
            /\ stream' = SubSeq(stream, n + 1, Len(stream))
       \/ /\ ready' = Append(ready, Event("recv", "error", <<>>))
          /\ UNCHANGED stream
    /\ UNCHANGED <<role, registered, session, resolver, native, receiving,
                   writing, decoder, control, flow, connects, wanted, cut>>

NativeWrite ==
    /\ native # "closed" /\ writing /\ ~Queued("send")
    /\ \E res \in {"ok", "error"} : ready' = Append(ready, Event("send", res, <<>>))
    /\ UNCHANGED <<role, registered, session, resolver, native, receiving,
                   writing, decoder, control, stream, flow, connects, wanted, cut>>

\* What tcp_socket::close() does to the operations in flight.
Aborted ==
    (IF receiving /\ ~Queued("recv") THEN <<Event("recv", "error", <<>>)>> ELSE <<>>)
    \o (IF writing /\ ~Queued("send") THEN <<Event("send", "error", <<>>)>> ELSE <<>>)

----------------------------------------------------------------------------
(* Calls of the application, between handlers or inside a callback.        *)

Callbacks == {"on_session_open", "on_session_receive", "on_session_error"}
Allowed == /\ pc \in Callbacks \cup {"idle"}
           /\ role = "client" \/ registered = "yes" \/ pc = "on_session_open"
Careful(b) == CarefulListener => b

\* Mutant: the decoder is reset, and goes on with what is left of the data.
abort_resets ==
    /\ m_abort' = FALSE
    /\ m_buffer' = <<>>
    /\ UNCHANGED m_aborted

\* abort(): the decoder forgets what it holds and decodes nothing more.
abort ==
    /\ m_aborted' = TRUE
    /\ m_abort' = TRUE
    /\ m_buffer' = <<>>

\* Mutant: the resolver is released but may still call back.
ClientClose_keeps_resolver ==
    /\ abort
    /\ m_resolver' = 0
    /\ native' = "closed" /\ receiving' = FALSE /\ writing' = FALSE
    /\ ready' = IF native = "closed" THEN ready ELSE <<>>
    /\ UNCHANGED resolving

\* tcp_client::close: drops the resolver it holds and replaces an open socket.
ClientClose ==
    /\ abort
    /\ m_resolver' = 0
    /\ resolving' = resolving \ {m_resolver}
    /\ native' = "closed" /\ receiving' = FALSE /\ writing' = FALSE
    /\ ready' = IF native = "closed" THEN ready ELSE <<>>

\* tcp_session::close of a server's session: the socket is closed in place.
SessionClose ==
    /\ abort
    /\ native' = "closed"
    /\ ready' = IF native = "closed" THEN ready ELSE ready \o Aborted
    /\ UNCHANGED <<resolver, receiving, writing>>

close ==
    /\ Allowed
    /\ Careful(pc # "on_session_open")
    /\ IF role = "client" THEN wanted /\ ClientClose ELSE native # "closed" /\ SessionClose
    /\ wanted' = FALSE
    /\ cut' = (role = "server" /\ Aborted = <<>>)
    /\ UNCHANGED <<role, registered, m_pause_receive, control, stream, flow, connects>>

\* do_connect: close(), then the new socket connects; answered is the resolver
\* that called, or 0.
do_connect(answered) ==
    /\ abort
    /\ m_resolver' = 0
    /\ resolving' = resolving \ {m_resolver, answered}
    /\ native' = "connecting" /\ receiving' = FALSE /\ writing' = FALSE
    /\ ready' = <<>>

\* connect to an address.
connect_address ==
    /\ Allowed /\ role = "client" /\ connects < MaxConnects
    /\ Careful(pc # "on_session_open")
    /\ connects' = connects + 1 /\ wanted' = TRUE
    /\ do_connect(0)
    /\ UNCHANGED <<role, registered, m_pause_receive, control, stream, flow, cut>>

\* asio_name_resolver::async_resolve: resolver r will call back once.
async_resolve(r) == resolving' = resolving \cup {r}

\* connect to a name: asserts that the session is not open, and replaces the
\* resolver it holds without destroying it.
connect_host ==
    /\ Allowed /\ role = "client" /\ connects < MaxConnects
    /\ native # "connected"
    /\ Careful(pc # "on_session_open" /\ resolving = {})
    /\ connects' = connects + 1 /\ wanted' = TRUE
    /\ m_resolver' = connects + 1
    /\ async_resolve(connects + 1)
    /\ UNCHANGED <<role, registered, session, socket, decoder, control, stream,
                   flow, cut>>

pause_receive ==
    /\ Allowed /\ ~m_pause_receive
    /\ m_pause_receive' = TRUE
    /\ UNCHANGED <<role, registered, m_aborted, resolver, socket, decoder,
                   control, stream, flow, connects, wanted, cut>>

\* Mutant: only the flag is reset.
resume_receive_without_read ==
    /\ Allowed /\ m_pause_receive
    /\ m_pause_receive' = FALSE
    /\ UNCHANGED <<role, registered, m_aborted, resolver, socket, decoder,
                   control, stream, flow, connects, wanted, cut>>

resume_receive ==
    /\ Allowed /\ m_pause_receive
    /\ m_pause_receive' = FALSE
    /\ receiving' = (receiving \/ native = "connected")
    /\ UNCHANGED <<role, registered, m_aborted, resolver, native, writing, ready,
                   decoder, control, stream, flow, connects, wanted, cut>>

write ==
    /\ Allowed /\ native = "connected" /\ ~writing
    /\ writing' = TRUE
    /\ UNCHANGED <<role, registered, session, resolver, native, receiving, ready,
                   decoder, control, stream, flow, connects, wanted, cut>>

Api == \/ close \/ connect_address \/ connect_host \/ pause_receive
       \/ resume_receive \/ write

----------------------------------------------------------------------------
(* Handlers.                                                               *)

Dispatch(k, res) ==
    pc = "idle" /\ ready # <<>> /\ Head(ready).kind = k /\ Head(ready).res = res

\* Mutant: the decoder keeps what the last connection left.
open_session_keeps_decoder ==
    /\ m_aborted' = FALSE /\ m_pause_receive' = FALSE
    /\ m_abort' = FALSE
    /\ input' = <<>> /\ delivered' = <<>> /\ count' = 0
    /\ pc' = "on_session_open"
    /\ UNCHANGED m_buffer

\* open_session up to on_session_open; the decoder is reset.
open_session ==
    /\ m_aborted' = FALSE /\ m_pause_receive' = FALSE
    /\ m_buffer' = <<>> /\ m_abort' = FALSE
    /\ input' = <<>> /\ delivered' = <<>> /\ count' = 0
    /\ pc' = "on_session_open"

\* tcp_client::on_socket_connect.
on_socket_connect ==
    /\ Dispatch("connect", "ok")
    /\ native' = "connected"
    /\ ready' = Tail(ready)
    /\ open_session
    /\ UNCHANGED <<role, registered, resolver, receiving, writing, src, rest,
                   stream, connects, wanted, cut>>

\* tcp_server_impl::on_acceptor_client: the listener may refuse the session.
on_acceptor_client ==
    /\ role = "server" /\ registered = "no" /\ pc = "idle"
    /\ \/ /\ registered' = "refused" /\ native' = "closed"
          /\ UNCHANGED <<session, decoder, flow, pc>>
       \/ open_session /\ UNCHANGED <<registered, native>>
    /\ UNCHANGED <<role, resolver, receiving, writing, ready, src, rest, stream,
                   connects, wanted, cut>>

\* After on_session_open the session reads; a server's session is then kept.
session_opened ==
    /\ pc = "on_session_open"
    /\ receiving' = TRUE
    /\ registered' = IF role = "server" THEN "yes" ELSE registered
    /\ ready' = IF native = "closed" /\ ~receiving
                THEN Append(ready, Event("recv", "error", <<>>)) ELSE ready
    /\ pc' = "idle"
    /\ UNCHANGED <<role, session, resolver, native, writing, decoder, src, rest,
                   stream, flow, connects, wanted, cut>>

\* How a resolver answers: with addresses, its own or, when it failed or found
\* none, those of the dns backup; with an error when that has none either.
handle_resolve == {"addresses", "error"}

\* tcp_client::on_resolver_address, whichever resolver it was that answered.
on_resolver_address ==
    /\ pc = "idle"
    /\ \E r \in resolving, answer \in handle_resolve :
         \/ /\ answer = "addresses"
            /\ do_connect(r)
            /\ UNCHANGED pc
         \/ /\ answer = "error"
            /\ resolving' = resolving \ {r}
            /\ pc' = "on_session_error"
            /\ UNCHANGED <<m_resolver, socket, decoder, m_aborted>>
    /\ UNCHANGED <<role, registered, m_pause_receive, src, rest, stream, flow,
                   connects, wanted, cut>>

\* on_socket_connect_failed, on_socket_receive_failed, on_socket_send_failed.
on_socket_failed ==
    /\ pc = "idle" /\ ready # <<>> /\ Head(ready).res = "error"
    /\ native' = IF native = "closed" THEN "closed" ELSE "failed"
    /\ receiving' = (receiving /\ Head(ready).kind # "recv")
    /\ writing' = (writing /\ Head(ready).kind # "send")
    /\ ready' = Tail(ready)
    /\ pc' = "on_session_error"
    /\ UNCHANGED <<role, registered, session, resolver, decoder, src, rest,
                   stream, flow, connects, wanted, cut>>

on_socket_send ==
    /\ Dispatch("send", "ok")
    /\ writing' = FALSE
    /\ ready' = Tail(ready)
    /\ UNCHANGED <<role, registered, session, resolver, native, receiving,
                   decoder, control, stream, flow, connects, wanted, cut>>

\* Mutant: the server closes the session but keeps it.
session_failed_kept ==
    /\ pc = "on_session_error"
    /\ IF role = "server" /\ registered = "yes"
       THEN /\ abort
            /\ native' = "closed" /\ receiving' = FALSE /\ writing' = FALSE
            /\ ready' = <<>>
       ELSE UNCHANGED <<m_aborted, decoder, socket>>
    /\ pc' = "idle"
    /\ src' = "none" /\ rest' = <<>>
    /\ UNCHANGED <<role, registered, m_pause_receive, resolver, stream, flow,
                   connects, wanted, cut>>

\* After on_session_error: a server destroys and forgets the session, whose
\* socket no longer reaches it.
session_failed ==
    /\ pc = "on_session_error"
    /\ Careful(role = "client" => native # "failed" /\ ~(m_abort /\ native = "connected"))
    /\ IF role = "server" /\ registered = "yes"
       THEN /\ registered' = "destroyed"
            /\ abort
            /\ native' = "closed" /\ receiving' = FALSE /\ writing' = FALSE
            /\ ready' = <<>>
       ELSE UNCHANGED <<registered, m_aborted, decoder, socket>>
    /\ pc' = "idle"
    /\ src' = "none" /\ rest' = <<>>
    /\ UNCHANGED <<role, m_pause_receive, resolver, stream, flow, connects,
                   wanted, cut>>

----------------------------------------------------------------------------
(* on_socket_receive: buffered_message_decoder::feed, then the next read.  *)

\* feed up to the decoding: from the data itself, or from m_buffer with the
\* data appended.  Too much for the buffer aborts the decoder.
feed ==
    LET data == Head(ready).data
    IN  IF m_buffer # <<>> /\ Len(m_buffer) + Len(data) > m_max_buffer_size
        THEN /\ m_buffer' = <<>> /\ m_abort' = TRUE
             /\ pc' = "on_session_error"
             /\ UNCHANGED <<src, rest>>
        ELSE /\ m_buffer' = IF m_buffer = <<>> THEN <<>> ELSE m_buffer \o data
             /\ src' = IF m_buffer = <<>> THEN "data" ELSE "buffer"
             /\ rest' = m_buffer \o data
             /\ pc' = "decode"
             /\ UNCHANGED m_abort

on_socket_receive ==
    /\ Dispatch("recv", "ok")
    /\ receiving' = FALSE
    /\ ready' = Tail(ready)
    /\ input' = input \o Head(ready).data
    /\ feed
    /\ UNCHANGED <<role, registered, session, resolver, native, writing, stream,
                   delivered, count, connects, wanted, cut>>

\* The positions where a delimiter ends.
Ends(s) == {i \in 2 .. Len(s) : s[i - 1] = "cr" /\ s[i] = "lf"}

\* line_message_decoder::do_decode: the length of the first line, 0 without one.
LineLength(s) == IF Ends(s) = {} THEN 0 ELSE Min(Ends(s))

\* One round of decode_buffer that finds a message.
do_decode ==
    /\ pc = "decode" /\ ~m_abort /\ LineLength(rest) > 0
    /\ delivered' = delivered \o SubSeq(rest, 1, LineLength(rest))
    /\ count' = count + 1
    /\ rest' = SubSeq(rest, LineLength(rest) + 1, Len(rest))
    /\ pc' = "on_session_receive"
    /\ UNCHANGED <<role, registered, session, resolver, socket, decoder, src,
                   stream, input, connects, wanted, cut>>

message_handled ==
    /\ pc = "on_session_receive"
    /\ pc' = "decode"
    /\ UNCHANGED <<role, registered, session, resolver, socket, decoder, src,
                   rest, stream, flow, connects, wanted, cut>>

\* What feed leaves in m_buffer: the bytes not decoded, appended to it when
\* they are in the data; a decoder aborted meanwhile has emptied its buffer.
feed_end ==
    m_buffer' = IF src = "data" THEN m_buffer \o rest
                ELSE IF m_abort THEN m_buffer ELSE rest

\* The rest of on_socket_receive: reads again unless aborted or paused.
receive_end ==
    /\ pc = "decode" /\ (m_abort \/ LineLength(rest) = 0)
    /\ feed_end
    /\ receiving' = (receiving \/ ~(m_aborted \/ m_abort \/ m_pause_receive))
    /\ pc' = "idle" /\ src' = "none" /\ rest' = <<>>
    /\ UNCHANGED <<role, registered, session, resolver, native, writing, ready,
                   m_abort, stream, flow, connects, wanted, cut>>

----------------------------------------------------------------------------
Init ==
    /\ \/ role = "client" /\ native = "closed" /\ stream = <<>>
       \/ role = "server" /\ native = "connected" /\ stream \in Streams
    /\ registered = "no"
    /\ m_aborted = FALSE /\ m_pause_receive = FALSE
    /\ m_resolver = 0 /\ resolving = {}
    /\ receiving = FALSE /\ writing = FALSE /\ ready = <<>>
    /\ m_buffer = <<>> /\ m_abort = FALSE
    /\ pc = "idle" /\ src = "none" /\ rest = <<>>
    /\ input = <<>> /\ delivered = <<>> /\ count = 0
    /\ connects = 0 /\ wanted = FALSE /\ cut = FALSE

Handler ==
    \/ on_socket_connect \/ on_acceptor_client \/ session_opened
    \/ on_resolver_address \/ on_socket_failed \/ on_socket_send \/ session_failed
    \/ on_socket_receive \/ do_decode \/ message_handled \/ receive_end
Native == NativeConnect \/ NativeReceive \/ NativeWrite
Next == Api \/ Handler \/ Native

Spec == Init /\ [][Next]_vars

----------------------------------------------------------------------------
(* Properties.                                                             *)

\* However the stream is cut into reads, even inside a delimiter, and whatever
\* the last connection left behind: between two handlers the messages delivered
\* are exactly the complete lines of what this connection has received.
LinesDelivered ==
    pc = "idle" /\ ~m_abort =>
      /\ delivered = SubSeq(input, 1, Max(Ends(input) \cup {0}))
      /\ count = Cardinality(Ends(input))
      /\ delivered \o m_buffer = input

\* The assertions the session relies on: feed's bound on m_buffer, and
\* do_receive's assert(m_connected) where on_session_open and feed are followed
\* by a read.
AssertsHold ==
    /\ Len(m_buffer) <= m_max_buffer_size
    /\ (\/ pc = "on_session_open"
        \/ pc = "decode" /\ ~(m_aborted \/ m_abort \/ m_pause_receive))
       => native = "connected"

\* A session that is open is being read, unless it was paused or aborted.
SessionRead ==
    pc = "idle" /\ native = "connected" /\ ~m_aborted /\ ~m_abort /\ (role = "client" \/ registered = "yes") =>
      receiving \/ m_pause_receive

\* After close() a client has no socket, no resolver and no completion that
\* could open the session again.
ClosedStaysClosed ==
    role = "client" /\ ~wanted => native = "closed" /\ resolving = {} /\ ready = <<>>

\* The server learns that a session's connection is gone: until it has forgotten
\* the session a failure is queued, unless the listener closed the session while
\* neither a read nor a write was in flight.
FailureNoticed ==
    role = "server" /\ registered = "yes" /\ pc = "idle" /\ native # "connected" =>
      ready # <<>> \/ cut
=============================================================================
