----------------------------- MODULE HttpServer -----------------------------
(***************************************************************************)
(* http_server_impl serving one connection: http_server_client, its        *)
(* url_session_impl and the url_handler the application supplies.          *)
(*                                                                         *)
(* The peer's byte stream is a sequence of tokens: the pieces of a request *)
(* header, its end (which carries the Content-Length) and the units of the *)
(* body.  A read delivers any non-empty prefix of what has arrived.  The   *)
(* parts of on_socket_receive between two calls of the application's       *)
(* handler are one step (pc); the native socket, the peer and the handler  *)
(* are external.                                                           *)
(***************************************************************************)
EXTENDS Integers, Sequences

CONSTANTS
    MaxRequests,           \* bound: requests the peer sends
    Lengths,               \* their Content-Length: -1 (none), or a length
    HeaderPieces,          \* tokens of a header before its end
    max_header_size,       \* in tokens
    max_keep_alive_requests, \* 100 in the code
    MaxPieces,             \* bound: pieces of one response
    Pipelining,            \* FALSE: the peer waits for the whole response and
                           \* goes on only where the connection is kept alive
    CarefulHandlers        \* TRUE: a handler that keeps the connection alive
                           \* answers after the whole body, finishes when it
                           \* sends the last piece or is told it was sent, and
                           \* does not close() after that

ASSUME HttpServerAssumption ==
    /\ MaxRequests \in Nat /\ MaxPieces \in Nat
    /\ Lengths \subseteq Nat \cup {-1}
    /\ HeaderPieces \subseteq Nat
    /\ max_header_size \in Nat /\ max_keep_alive_requests \in Nat \ {0}
    /\ Pipelining \in BOOLEAN /\ CarefulHandlers \in BOOLEAN

VARIABLES
    \* http_server_client
    registered,            \* in m_clients: "no", "yes", "removed", "stopped"
    m_receiving_header, m_header_buffer,
    m_handler,             \* the request whose handler is attached, or 0
    m_content_length, m_received_body_size, m_handled_requests,
    \* url_session_impl
    m_finished, m_keep_alive,
    \* control of on_socket_receive
    pc, data,
    \* the socket
    open, receiving, queue, ready,
    \* the peer
    sent,                  \* requests sent
    stream,                \* tokens not yet read
    wire,                  \* response pieces written
    \* history
    complete,              \* the current response's last piece was sent
    bodies,                \* bodies[r]: body units given to the handler of r
    handled,               \* requests given to a handler, in order
    finals,                \* finals[r]: handle_request_finished and handle_error
    closed,                \* why this side closed: "", "finish", "reject", "error"
    cut                    \* that close found no native read in flight

client == <<m_receiving_header, m_header_buffer, m_handler, m_content_length,
            m_received_body_size, m_handled_requests>>
session == <<m_finished, m_keep_alive>>
socket == <<open, receiving, queue, ready>>
peer == <<sent, stream>>
history == <<complete, bodies, handled, finals, closed, cut>>
vars == <<registered, client, session, pc, data, socket, peer, wire, history>>

Requests == 1 .. MaxRequests
Token(r, part, v) == [req |-> r, part |-> part, v |-> v]
Bad == -2                  \* Content-Length of a header that does not parse

----------------------------------------------------------------------------
(* The peer and the native socket (external).                              *)

Answered(r) == \E i \in DOMAIN wire : wire[i].req = r /\ wire[i].last = "yes"

PeerRequest ==
    /\ registered = "yes" /\ sent < MaxRequests
    /\ Pipelining \/ sent = 0 \/ (m_keep_alive /\ Answered(sent))
    /\ \E len \in Lengths \cup {Bad}, k \in HeaderPieces :
         stream' = stream \o [i \in 1 .. k |-> Token(sent + 1, "head", i)]
                          \o <<Token(sent + 1, "end", len)>>
                          \o [i \in 1 .. len |-> Token(sent + 1, "body", i)]
    /\ sent' = sent + 1
    /\ UNCHANGED <<registered, client, session, pc, data, socket, wire, history>>

Completed(k) == \E i \in DOMAIN ready : ready[i].kind = k
Reading == open /\ receiving /\ ~Completed("recv")
Writing == open /\ queue # <<>> /\ ~Completed("send")
Event(k, res, d) == [kind |-> k, res |-> res, data |-> d]

NativeReceive ==
    /\ Reading
    /\ \/ /\ stream # <<>>
          /\ \E n \in 1 .. Len(stream) :
               /\ ready' = Append(ready, Event("recv", "ok", SubSeq(stream, 1, n)))
               /\ stream' = SubSeq(stream, n + 1, Len(stream))
       \/ /\ ready' = Append(ready, Event("recv", "error", <<>>))
          /\ UNCHANGED stream
    /\ UNCHANGED <<registered, client, session, pc, data, open, receiving,
                   queue, sent, wire, history>>

NativeWrite ==
    /\ Writing
    /\ \E res \in {"ok", "error"} :
         /\ ready' = Append(ready, Event("send", res, <<>>))
         /\ wire' = IF res = "ok" THEN Append(wire, Head(queue)) ELSE wire
    /\ UNCHANGED <<registered, client, session, pc, data, open, receiving,
                   queue, peer, history>>

\* asio_tcp_socket::close(): what is in flight completes with an error.
Aborted == (IF Reading THEN <<Event("recv", "error", <<>>)>> ELSE <<>>)
           \o (IF Writing THEN <<Event("send", "error", <<>>)>> ELSE <<>>)

----------------------------------------------------------------------------
(* url_session_impl and the application's handler.                         *)

Sent(r) == SelectSeq(wire \o (IF Completed("send") THEN Tail(queue) ELSE queue),
                     LAMBDA p : p.req = r)
Piece(last) == [req |-> m_handler, last |-> last]

\* The handler's callbacks end here; pc names the code that follows.
After == [request |-> "after_request", body_data |-> "after_body",
          data_sent |-> "after_sent", idle |-> "idle"]
InCallback == pc \in DOMAIN After

HandlerActive == m_handler # 0 /\ ~m_finished /\ open

\* What CarefulHandlers asks of a handler that keeps the connection alive.
WholeBody == m_content_length <= m_received_body_size \/ m_receiving_header
MustFinish == CarefulHandlers /\ m_keep_alive /\ HandlerActive
                /\ pc = "data_sent" /\ complete = "yes" /\ queue = <<>>
MayComplete == CarefulHandlers /\ m_keep_alive => WholeBody
MayFinish == CarefulHandlers /\ m_keep_alive => pc = "data_sent" \/ queue # <<>>

handler_waits ==
    /\ InCallback /\ pc # "idle" /\ ~MustFinish
    /\ pc' = After[pc]
    /\ UNCHANGED <<registered, client, session, data, socket, peer, wire, history>>

\* send_header() and send_data(); the last piece completes the response.
send_data ==
    /\ InCallback /\ HandlerActive /\ complete = "no"
    /\ \/ /\ Len(Sent(m_handler)) + 1 < MaxPieces
          /\ queue' = Append(queue, Piece("no"))
          /\ UNCHANGED complete
       \/ /\ MayComplete
          /\ queue' = Append(queue, Piece("yes"))
          /\ complete' = "yes"
    /\ pc' = After[pc]
    /\ UNCHANGED <<registered, client, session, data, open, receiving, ready,
                   peer, wire, bodies, handled, finals, closed, cut>>

\* finish() of a chunked response, or right after the last send_data().
send_and_finish ==
    /\ InCallback /\ HandlerActive /\ complete = "no" /\ MayComplete
    /\ queue' = Append(queue, Piece("yes"))
    /\ complete' = "yes"
    /\ m_finished' = TRUE
    /\ pc' = After[pc]
    /\ UNCHANGED <<registered, client, m_keep_alive, data, open, receiving,
                   ready, peer, wire, bodies, handled, finals, closed, cut>>

\* The connection is closed from a handler's callback or after it.
CloseConnection(why) ==
    /\ open' = FALSE
    /\ ready' = ready \o Aborted
    /\ closed' = why
    /\ cut' = ~Reading

\* finish() when every piece has been handed to the socket before: with
\* nothing left to write it closes the connection unless it is kept alive.
finish ==
    /\ InCallback /\ HandlerActive /\ complete = "yes" /\ MayFinish
    /\ m_finished' = TRUE
    /\ IF queue = <<>> /\ ~m_keep_alive
       THEN CloseConnection("finish")
       ELSE UNCHANGED <<open, ready, closed, cut>>
    /\ pc' = After[pc]
    /\ UNCHANGED <<registered, client, m_keep_alive, data, receiving, queue,
                   peer, wire, complete, bodies, handled, finals>>

\* url_session_impl::close(), as url_handler_adapter does by default.
session_close ==
    /\ InCallback /\ HandlerActive
    /\ CarefulHandlers /\ m_keep_alive => complete = "no"
    /\ CloseConnection("reject")
    /\ pc' = After[pc]
    /\ UNCHANGED <<registered, client, session, data, receiving, queue, peer,
                   wire, complete, bodies, handled, finals>>

Handler == handler_waits \/ send_data \/ send_and_finish \/ finish \/ session_close

----------------------------------------------------------------------------
(* http_server_client.                                                     *)

\* http_server_impl::on_acceptor_client and http_server_client::start.
on_acceptor_client ==
    /\ registered = "no"
    /\ registered' = "yes"
    /\ receiving' = TRUE
    /\ UNCHANGED <<client, session, pc, data, open, queue, ready, peer, wire,
                   history>>

reset_state ==
    /\ m_header_buffer' = <<>>
    /\ m_receiving_header' = TRUE
    /\ m_content_length' = 0
    /\ m_received_body_size' = 0

\* on_client_error: the client is closed, erased and deleted, and its listener
\* no longer reaches it.
on_client_error(why) ==
    /\ registered' = "removed"
    /\ open' = FALSE /\ receiving' = FALSE /\ ready' = <<>>
    /\ pc' = "idle" /\ data' = <<>>
    /\ closed' = why

on_socket_receive ==
    /\ pc = "idle" /\ ready # <<>>
    /\ Head(ready).kind = "recv" /\ Head(ready).res = "ok"
    /\ ready' = Tail(ready)
    /\ receiving' = FALSE
    /\ data' = Head(ready).data
    /\ pc' = IF m_receiving_header THEN "header" ELSE "body"
    /\ UNCHANGED <<registered, client, session, open, queue, peer, wire, history>>

\* on_socket_receive_failed and on_socket_send_failed.
on_socket_failed ==
    /\ pc = "idle" /\ ready # <<>> /\ Head(ready).res = "error"
    /\ reset_state
    /\ finals' = IF m_handler = 0 THEN finals
                 ELSE [finals EXCEPT ![m_handler] = @ + 1]
    /\ on_client_error(IF closed = "" THEN "error" ELSE closed)
    /\ UNCHANGED <<m_handler, m_handled_requests, session, queue, peer, wire,
                   complete, bodies, handled, cut>>

\* parse_header_data without the end of the header in the buffer: it asks for
\* more without looking whether the socket is open, and a read of a closed
\* socket fails.
header_incomplete ==
    /\ pc = "header"
    /\ LET buf == m_header_buffer \o data
       IN  /\ \A i \in DOMAIN buf : buf[i].part # "end"
           /\ \/ /\ Len(buf) > max_header_size
                 /\ reset_state
                 /\ on_client_error("error")
              \/ /\ Len(buf) <= max_header_size
                 /\ m_header_buffer' = buf
                 /\ receiving' = TRUE
                 /\ ready' = IF open THEN ready
                             ELSE Append(ready, Event("recv", "error", <<>>))
                 /\ pc' = "idle" /\ data' = <<>>
                 /\ UNCHANGED <<registered, m_receiving_header, m_content_length,
                                m_received_body_size, open, closed>>
    /\ UNCHANGED <<m_handler, m_handled_requests, session, queue, peer, wire,
                   complete, bodies, handled, finals, cut>>

HeaderEnd(buf) == CHOOSE i \in DOMAIN buf :
    buf[i].part = "end" /\ \A j \in 1 .. i - 1 : buf[j].part # "end"

\* parse_header_data with a whole header, up to the call of the handler.
header_found ==
    /\ pc = "header"
    /\ LET buf == m_header_buffer \o data
           end == HeaderEnd(buf)
       IN  /\ \E i \in DOMAIN buf : buf[i].part = "end"
           /\ IF buf[end].v = Bad
              THEN /\ reset_state
                   /\ on_client_error("error")
                   /\ UNCHANGED <<m_handler, m_handled_requests, session,
                                  complete, handled>>
              ELSE /\ m_receiving_header' = FALSE
                   /\ m_content_length' = buf[end].v
                   /\ m_header_buffer' = IF m_header_buffer = <<>> THEN <<>> ELSE buf
                   /\ data' = SubSeq(buf, end + 1, Len(buf))
                   /\ m_handled_requests' = m_handled_requests + 1
                   /\ m_finished' = FALSE
                   /\ m_keep_alive' \in BOOLEAN
                   /\ m_handler' = buf[end].req
                   /\ handled' = Append(handled, buf[end].req)
                   /\ complete' = "no"
                   /\ pc' = "request"
                   /\ UNCHANGED <<registered, m_received_body_size, open,
                                  receiving, ready, closed>>
    /\ UNCHANGED <<queue, peer, wire, bodies, finals, cut>>

\* Mutant: what follows the header in the buffer is dropped.
after_request_drops_rest ==
    /\ pc = "after_request"
    /\ receiving' = open
    /\ pc' = "idle" /\ data' = <<>>
    /\ UNCHANGED <<registered, client, session, open, queue, ready, peer, wire,
                   history>>

\* parse_header_data after handle_request: the rest of the buffer is the next
\* header, or the body.
after_request ==
    /\ pc = "after_request"
    /\ IF data # <<>>
       THEN /\ UNCHANGED <<data, receiving>>
            /\ IF m_content_length = 0
               THEN reset_state /\ pc' = "header"
               ELSE /\ pc' = "body"
                    /\ UNCHANGED <<m_header_buffer, m_receiving_header,
                                   m_content_length, m_received_body_size>>
       ELSE /\ receiving' = open
            /\ pc' = "idle"
            /\ UNCHANGED <<data, m_header_buffer, m_receiving_header,
                           m_content_length, m_received_body_size>>
    /\ UNCHANGED <<registered, m_handler, m_handled_requests, session, open,
                   queue, ready, peer, wire, history>>

ReadSize == LET remaining == m_content_length - m_received_body_size
            IN  IF remaining < Len(data) THEN remaining ELSE Len(data)

\* handle_body_data up to the handler; the code asserts ReadSize > 0.
handle_body_data ==
    /\ pc = "body"
    /\ \/ /\ m_handler = 0
          /\ reset_state
          /\ on_client_error("error")
          /\ UNCHANGED bodies
       \/ /\ m_handler # 0 /\ ReadSize > 0
          /\ m_received_body_size' = m_received_body_size + ReadSize
          /\ bodies' = [bodies EXCEPT ![m_handler] = @ \o SubSeq(data, 1, ReadSize)]
          /\ data' = SubSeq(data, ReadSize + 1, Len(data))
          /\ pc' = "body_data"
          /\ UNCHANGED <<registered, m_receiving_header, m_header_buffer,
                         m_content_length, open, receiving, ready, closed>>
    /\ UNCHANGED <<m_handler, m_handled_requests, session, queue, peer, wire,
                   complete, handled, finals, cut>>

\* Mutant: waits for more data only while the body is incomplete.
after_body_stops_reading ==
    /\ pc = "after_body"
    /\ IF data # <<>> \/ m_received_body_size = m_content_length
       THEN reset_state
       ELSE UNCHANGED <<m_header_buffer, m_receiving_header, m_content_length,
                        m_received_body_size>>
    /\ pc' = IF data # <<>> THEN "header" ELSE "idle"
    /\ receiving' = (data = <<>> /\ open /\ m_received_body_size < m_content_length)
    /\ UNCHANGED <<registered, m_handler, m_handled_requests, session, data,
                   open, queue, ready, peer, wire, history>>

\* handle_body_data after the handler.
after_body ==
    /\ pc = "after_body"
    /\ IF data # <<>> \/ m_received_body_size = m_content_length
       THEN reset_state
       ELSE UNCHANGED <<m_header_buffer, m_receiving_header, m_content_length,
                        m_received_body_size>>
    /\ pc' = IF data # <<>> THEN "header" ELSE "idle"
    /\ receiving' = (data = <<>> /\ open)
    /\ UNCHANGED <<registered, m_handler, m_handled_requests, session, data,
                   open, queue, ready, peer, wire, history>>

\* Mutant: returns when the queue has become empty.
on_socket_send_ignores_last ==
    /\ pc = "idle" /\ ready # <<>>
    /\ Head(ready).kind = "send" /\ Head(ready).res = "ok"
    /\ ready' = Tail(ready)
    /\ queue' = Tail(queue)
    /\ pc' = IF m_handler = 0 \/ Tail(queue) = <<>> THEN "idle" ELSE "data_sent"
    /\ UNCHANGED <<registered, client, session, data, open, receiving, peer,
                   wire, history>>

\* on_socket_send up to the handler; the socket has popped its queue.
on_socket_send ==
    /\ pc = "idle" /\ ready # <<>>
    /\ Head(ready).kind = "send" /\ Head(ready).res = "ok"
    /\ ready' = Tail(ready)
    /\ queue' = Tail(queue)
    /\ pc' = IF m_handler = 0 THEN "idle" ELSE "data_sent"
    /\ UNCHANGED <<registered, client, session, data, open, receiving, peer,
                   wire, history>>

\* Mutant: the handler stays attached after its final call.
RequestFinished_keeps_handler ==
    /\ finals' = [finals EXCEPT ![m_handler] = @ + 1]
    /\ UNCHANGED m_handler

\* handle_request_finished, and the handler is let go.
RequestFinished ==
    /\ finals' = [finals EXCEPT ![m_handler] = @ + 1]
    /\ m_handler' = 0

LastKeptAlive == ~m_keep_alive \/ m_handled_requests >= max_keep_alive_requests

KeepState == UNCHANGED <<m_header_buffer, m_receiving_header, m_content_length,
                         m_received_body_size>>

\* The connection is prepared for the next request.
NextRequest == reset_state

\* Mutant: the finished request does not wait for the socket's queue.
ResponseWritten_ignores_queue == m_finished

ResponseWritten == m_finished /\ queue = <<>>

\* on_socket_send after the handler: a finished response that has been written
\* ends the request; the connection is closed or prepared for the next one.
after_sent ==
    /\ pc = "after_sent"
    /\ pc' = "idle"
    /\ IF ResponseWritten
       THEN /\ RequestFinished
            /\ IF LastKeptAlive
               THEN /\ KeepState
                    /\ IF open THEN CloseConnection("finish")
                       ELSE UNCHANGED <<open, ready, closed, cut>>
               ELSE NextRequest /\ UNCHANGED <<open, ready, closed, cut>>
       ELSE KeepState /\ UNCHANGED <<m_handler, finals, open, ready, closed, cut>>
    /\ UNCHANGED <<registered, m_handled_requests, session, data, receiving,
                   queue, peer, wire, complete, bodies, handled>>

\* http_server_impl::stop(): clients are closed and deleted.
stop ==
    /\ pc = "idle" /\ registered = "yes"
    /\ registered' = "stopped"
    /\ open' = FALSE /\ receiving' = FALSE /\ ready' = <<>>
    /\ UNCHANGED <<client, session, pc, data, queue, peer, wire, history>>

----------------------------------------------------------------------------
Init ==
    /\ registered = "no"
    /\ m_receiving_header = TRUE /\ m_header_buffer = <<>>
    /\ m_handler = 0 /\ m_content_length = 0 /\ m_received_body_size = 0
    /\ m_handled_requests = 0
    /\ m_finished = FALSE /\ m_keep_alive = FALSE
    /\ pc = "idle" /\ data = <<>>
    /\ open = TRUE /\ receiving = FALSE /\ queue = <<>> /\ ready = <<>>
    /\ sent = 0 /\ stream = <<>> /\ wire = <<>>
    /\ complete = "no"
    /\ bodies = [r \in Requests |-> <<>>]
    /\ handled = <<>>
    /\ finals = [r \in Requests |-> 0]
    /\ closed = "" /\ cut = FALSE

Client ==
    \/ on_socket_receive \/ on_socket_failed \/ on_socket_send
    \/ header_incomplete \/ header_found \/ after_request
    \/ handle_body_data \/ after_body \/ after_sent

Next == \/ on_acceptor_client \/ Client \/ stop
        \/ Handler
        \/ PeerRequest \/ NativeReceive \/ NativeWrite

\* The io_service thread finishes what it began and runs queued completions,
\* callbacks return, a write ends well or badly.  Nothing obliges the peer to
\* send or a handler to answer.
Fairness ==
    /\ WF_vars(Client) /\ WF_vars(NativeWrite)
    /\ WF_vars(pc # "idle" /\ Handler)

Spec == Init /\ [][Next]_vars /\ Fairness

----------------------------------------------------------------------------
(* Properties.                                                             *)

\* handle_body_data's assert(readSize > 0): data is taken for a body only while
\* the current request still expects some.
ReadSizeAssert == pc = "body" /\ m_handler # 0 => ReadSize > 0

\* Requests reach handlers once each and in order, and a request's handler gets
\* that request's body, in order, whatever the reads' boundaries are: what comes
\* after a request is never taken for more of its body.
InputInOrder ==
    /\ ReadSizeAssert
    /\ \A i \in DOMAIN handled : handled[i] = i
    /\ \A r \in Requests : \A i \in DOMAIN bodies[r] :
         bodies[r][i] = Token(r, "body", i)

\* When the server closes the connection because the response is finished, the
\* peer has been sent all of it; a connection answers no more than
\* max_keep_alive_requests requests.  (One more may reach a handler when its data
\* was read before the close.)
ResponseNotTruncated ==
    /\ closed = "finish" => /\ queue = <<>>
                            /\ wire # <<>> /\ wire[Len(wire)].last = "yes"
    /\ m_handled_requests > max_keep_alive_requests => ~open
    /\ \A i \in DOMAIN wire : wire[i].req <= max_keep_alive_requests

\* A handler gets exactly one final call, handle_request_finished or
\* handle_error: never two, and one at the latest when its client is removed.
OneFinalCall ==
    \A i \in DOMAIN handled :
      /\ finals[handled[i]] <= 1
      /\ registered = "removed" => finals[handled[i]] = 1

\* A registered client always has an operation outstanding whose completion
\* will serve or remove it, unless the connection was closed from a callback
\* while no read was in flight: nothing reports such a close, and
\* get_session_count() may go on counting the client until stop().  What that
\* operation reads on an open connection is never refused for want of a handler:
\* after a response that keeps the connection alive, the next data is a header.
ClientNotStranded ==
    /\ registered = "yes" /\ pc = "idle" /\ ~cut => receiving \/ ready # <<>>
    /\ pc = "body" /\ open => m_handler # 0

\* A finished response is followed by its final call or the client's end.
FinishCompletes ==
    (m_finished /\ m_handler # 0)
      ~> (m_handler = 0 \/ registered # "yes" \/ cut)
=============================================================================
