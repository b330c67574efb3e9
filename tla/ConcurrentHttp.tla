--------------------------- MODULE ConcurrentHttp ---------------------------
(***************************************************************************)
(* concurrent_http_connection_impl: requests are queued, and those for the *)
(* connected site are written without waiting for the answers before them. *)
(* A site is a host and a port.  A response is its header's end, carrying  *)
(* the Content-Length or a redirection, and the units of its body; a read  *)
(* delivers any non-empty prefix of what has arrived.  Answers come in the *)
(* order of the requests on the wire.  The socket, the resolver and the    *)
(* server are external.                                                    *)
(***************************************************************************)
EXTENDS Integers, Sequences

CONSTANTS
    MaxRequests,   \* bound: calls of request() and download()
    Sites,         \* <<host, port>> pairs
    NamedHosts,    \* the hosts that have to be resolved
    BodySizes      \* Content-Length of the responses; Redirect for a redirection

VARIABLES
    m_requests,    \* queue of request numbers
    m_site,        \* m_host and m_port, or NoSite
    m_socket,      \* "new", "connecting" or "connected"
    m_receiving,   \* m_socket->is_receiving()
    m_resolving,   \* m_name_resolver is at work
    paused,        \* m_state.pause_receive
    info,          \* info[r]: the http_connection_request_info of r
    requests,      \* requests made so far
    events,        \* completions in the io_service's queue
    onwire,        \* requests written and not yet answered
    arriving,      \* response tokens not yet read
    step, data,    \* control of on_socket_receive and its unread tokens
    got,           \* got[r]: body tokens delivered while r was at the front
    failed         \* history: an error, a redirection or a failed assertion

conn == <<m_site, m_socket, m_receiving, m_resolving, paused>>
net == <<events, onwire, arriving>>
vars == <<m_requests, conn, info, requests, net, step, data, got, failed>>

NoSite == <<"", 0>>
Redirect == -2
Requests == 1 .. MaxRequests
Token(r, part, v) == [req |-> r, part |-> part, v |-> v]
Event(k, res, d) == [kind |-> k, res |-> res, data |-> d]
Callbacks == {"on_http_complete", "on_http_complete_empty"}
Waiting(k) == \E i \in DOMAIN events : events[i].kind = k

\* [net/http/detail/http_connection_request_info.hpp 196-202 http_connection_request_info::reset_handling_state]
NewInfo(s) == [site |-> s, header_send |-> FALSE, header_finished |-> FALSE,
               content_length |-> -1, received_size |-> 0]

----------------------------------------------------------------------------
(* The operating system and the server.                                    *)

\* [external boost::asio connect, resolve and receive completions]
Native ==
    /\ \/ /\ m_socket = "connecting" /\ ~Waiting("connect")
          /\ \E res \in {"ok", "error"} : events' = Append(events, Event("connect", res, <<>>))
          /\ UNCHANGED arriving
       \/ /\ m_resolving /\ ~Waiting("resolve")
          /\ \E res \in {"ok", "error"} : events' = Append(events, Event("resolve", res, <<>>))
          /\ UNCHANGED arriving
       \/ /\ m_receiving /\ ~Waiting("recv")
          /\ \E n \in 1 .. Len(arriving) :
               /\ events' = Append(events, Event("recv", "ok", SubSeq(arriving, 1, n)))
               /\ arriving' = SubSeq(arriving, n + 1, Len(arriving))
       \/ /\ m_receiving /\ ~Waiting("recv") /\ arriving = <<>>
          /\ \E res \in {"eof", "error"} : events' = Append(events, Event("recv", res, <<>>))
          /\ UNCHANGED arriving
    /\ UNCHANGED <<m_requests, conn, info, requests, onwire, step, data, got, failed>>

\* [external HTTP server]
Respond ==
    /\ onwire # <<>>
    /\ \E len \in BodySizes :
         arriving' = arriving \o <<Token(Head(onwire), "end", len)>>
                       \o [i \in 1 .. len |-> Token(Head(onwire), "body", i)]
    /\ onwire' = Tail(onwire)
    /\ UNCHANGED <<m_requests, conn, info, requests, events, step, data, got, failed>>

----------------------------------------------------------------------------
(* The connection.                                                         *)

\* [net/http/detail/concurrent_http_connection_impl.hpp 365-370 concurrent_http_connection_impl::is_same_host]
is_same_host(s) == s[1] = m_site[1] \/ s[2] = m_site[2]

\* do_close() and init_client(): a new socket without a site; what the old
\* socket and the resolver had under way is never delivered.
\* [net/http/detail/concurrent_http_connection_impl.hpp 128-139 concurrent_http_connection_impl::do_close]
do_close ==
    /\ m_site' = NoSite /\ m_socket' = "new"
    /\ m_receiving' = FALSE /\ m_resolving' = FALSE /\ paused' = FALSE
    /\ events' = <<>> /\ onwire' = <<>> /\ arriving' = <<>>

\* [net/http/detail/concurrent_http_connection_impl.hpp 416-457 concurrent_http_connection_impl::connect_host]
connect_host(s) ==
    /\ m_site' = s
    /\ m_resolving' = (s[1] \in NamedHosts)
    /\ m_socket' = IF s[1] \in NamedHosts THEN "new" ELSE "connecting"
    /\ m_receiving' = FALSE /\ paused' = FALSE
    /\ events' = <<>> /\ onwire' = <<>> /\ arriving' = <<>>

\* Mutant: the written request is queued in front of the others.
do_request_in_front(r, s) ==
    LET sent == [NewInfo(s) EXCEPT !.header_send = TRUE]
    IN  IF m_requests # <<>> /\ m_socket = "connected" /\ is_same_host(s)
        THEN /\ m_requests' = <<r>> \o m_requests
             /\ info' = [info EXCEPT ![r] = sent]
             /\ onwire' = Append(onwire, r)
             /\ UNCHANGED <<conn, events, arriving>>
        ELSE /\ m_requests' = Append(m_requests, r)
             /\ info' = [info EXCEPT ![r] = NewInfo(s)]
             /\ IF m_requests = <<>> THEN connect_host(s) ELSE UNCHANGED <<conn, net>>

\* Queued behind a request that is not written yet; written to the connected
\* site; the first of the queue connects; or queued for another site.
\* [net/http/detail/concurrent_http_connection_impl.hpp 383-414 concurrent_http_connection_impl::do_request]
do_request(r, s) ==
    LET unsent == m_requests # <<>>
                    /\ ~info[m_requests[Len(m_requests)]].header_send
        reuse == ~unsent /\ m_socket = "connected" /\ is_same_host(s)
    IN  /\ m_requests' = Append(m_requests, r)
        /\ info' = [info EXCEPT ![r] = [NewInfo(s) EXCEPT !.header_send = reuse]]
        /\ \/ reuse /\ onwire' = Append(onwire, r) /\ UNCHANGED <<conn, events, arriving>>
           \/ ~reuse /\ m_requests = <<>> /\ connect_host(s)
           \/ ~reuse /\ m_requests # <<>> /\ UNCHANGED <<conn, net>>

\* request() and download(), outside callbacks or from on_http_complete.  (A
\* listener that calls close() there leaves an empty queue to on_complete, which
\* takes its front: not supported by the code.)
\* [net/http/detail/concurrent_http_connection_impl.hpp 61-77 concurrent_http_connection_impl::request]
request ==
    /\ step \in {"idle", "refused"} \cup Callbacks /\ requests < MaxRequests
    /\ requests' = requests + 1
    /\ \E s \in Sites : do_request(requests + 1, s)
    /\ UNCHANGED <<step, data, got, failed>>

\* [net/http/detail/concurrent_http_connection_impl.hpp 122-127 concurrent_http_connection_impl::close]
close ==
    /\ step \in {"idle", "refused"} /\ m_requests # <<>>
    /\ m_requests' = <<>>
    /\ do_close
    /\ step' = "idle"
    /\ UNCHANGED <<info, requests, data, got, failed>>

\* [net/http/detail/concurrent_http_connection_impl.hpp 95-103 concurrent_http_connection_impl::pause]
pause_or_resume ==
    /\ step = "idle"
    /\ paused' = ~paused
    /\ m_receiving' = (m_receiving \/ (paused /\ m_socket = "connected"))
    /\ UNCHANGED <<m_requests, m_site, m_socket, m_resolving, info, requests, net,
                   step, data, got, failed>>

Dispatch(k, res) ==
    step = "idle" /\ events # <<>> /\ Head(events).kind = k /\ Head(events).res = res

\* [net/http/detail/concurrent_http_connection_impl.hpp 458-469 concurrent_http_connection_impl::on_resolver_address]
on_resolver_address ==
    /\ Dispatch("resolve", "ok")
    /\ m_socket' = "connecting" /\ m_resolving' = FALSE
    /\ events' = Tail(events)
    /\ UNCHANGED <<m_requests, m_site, m_receiving, paused, info, requests, onwire,
                   arriving, step, data, got, failed>>

\* The requests that on_socket_connect writes: up to the first for another site.
Writable == {i \in DOMAIN m_requests :
               \A j \in 1 .. i : is_same_host(info[m_requests[j]].site)}

\* The queue may be empty: the end of an earlier connection finished its last
\* request while this one was being made.  The assertion is taken to be compiled
\* out, and the connection closed.
\* [net/http/detail/concurrent_http_connection_impl.hpp 224-243 concurrent_http_connection_impl::on_socket_connect]
on_socket_connect ==
    /\ Dispatch("connect", "ok")
    /\ \/ /\ m_requests = <<>>
          /\ do_close
          /\ failed' = TRUE
          /\ UNCHANGED info
       \/ /\ m_requests # <<>>
          /\ m_socket' = "connected" /\ m_receiving' = TRUE
          /\ info' = [r \in Requests |->
                        IF \E i \in Writable : m_requests[i] = r
                        THEN [info[r] EXCEPT !.header_send = TRUE] ELSE info[r]]
          /\ onwire' = [i \in Writable |-> m_requests[i]]
          /\ events' = Tail(events)
          /\ UNCHANGED <<m_site, m_resolving, paused, arriving, failed>>
    /\ UNCHANGED <<m_requests, requests, step, data, got>>

\* handle_error(): the first request leaves the queue and a connection for the
\* next one is begun; then an end of the connection after the header finishes
\* "the current request", which is the next one by now, and any other error
\* closes the connection just begun.
\* [net/http/detail/concurrent_http_connection_impl.hpp 174-200 concurrent_http_connection_impl::handle_error]
handle_error(eof) ==
    LET r == Head(m_requests)
        rest == Tail(m_requests)
        ends == eof /\ info[r].header_finished
    IN  /\ failed' = TRUE
        /\ IF m_requests = <<>>
           THEN do_close /\ UNCHANGED <<m_requests, info>>
           ELSE /\ info' = [q \in Requests |-> IF \E i \in DOMAIN rest : rest[i] = q
                                               THEN NewInfo(info[q].site) ELSE info[q]]
                /\ m_requests' = IF ends /\ rest # <<>> THEN Tail(rest) ELSE rest
                /\ IF ends /\ rest # <<>> THEN connect_host(info[Head(rest)].site)
                                          ELSE do_close

\* [net/http/detail/concurrent_http_connection_impl.hpp 244-247 concurrent_http_connection_impl::on_socket_connect_failed]
on_socket_connect_failed ==
    /\ Dispatch("connect", "error") \/ Dispatch("resolve", "error")
    /\ handle_error(FALSE)
    /\ UNCHANGED <<requests, step, data, got>>

\* [net/http/detail/concurrent_http_connection_impl.hpp 266-269 concurrent_http_connection_impl::on_socket_receive_failed]
on_socket_receive_failed ==
    /\ Dispatch("recv", "error") \/ Dispatch("recv", "eof")
    /\ handle_error(Head(events).res = "eof")
    /\ UNCHANGED <<requests, step, data, got>>

\* [net/http/detail/concurrent_http_connection_impl.hpp 248-265 concurrent_http_connection_impl::on_socket_receive]
on_socket_receive ==
    /\ Dispatch("recv", "ok")
    /\ IF m_requests = <<>>
       THEN do_close /\ UNCHANGED <<step, data>>
       ELSE /\ data' = Head(events).data
            /\ step' = "process"
            /\ m_receiving' = FALSE
            /\ events' = Tail(events)
            /\ UNCHANGED <<m_site, m_socket, m_resolving, paused, onwire, arriving>>
    /\ UNCHANGED <<m_requests, info, requests, got, failed>>

Front == Head(m_requests)
Stranded == ~info[Front].header_send /\ info[Front].site # m_site
Whole(i) == i.header_finished /\ i.received_size >= i.content_length

\* The response's header: a redirection closes the connection and queues the
\* request once more; a response without content is complete at once, unless the
\* listener refuses it (on_header): the rest of the read is lost then, as in
\* process_body.
\* [net/http/detail/http_connection_request_info.hpp 223-287 http_connection_request_info::process_header_data]
process_header ==
    /\ step = "process" /\ data # <<>> /\ ~info[Front].header_finished
    /\ \/ /\ Head(data).v = Redirect
          /\ do_close
          /\ info' = [info EXCEPT ![Front] = NewInfo(@.site)]
          /\ m_requests' = Append(m_requests, Front)
          /\ step' = "idle" /\ data' = <<>> /\ failed' = TRUE
       \/ /\ Head(data).v # Redirect
          /\ info' = [info EXCEPT ![Front].header_finished = TRUE,
                                  ![Front].content_length = Head(data).v]
          /\ \/ /\ step' = IF Head(data).v = 0 THEN "on_complete_empty" ELSE "process"
                /\ data' = Tail(data)
                /\ UNCHANGED failed
             \/ step' = "refused" /\ data' = <<>> /\ failed' = TRUE
          /\ UNCHANGED <<m_requests, conn, net>>
    /\ UNCHANGED <<requests, got>>

\* One unit of a body for the request at the front; the listener may refuse it,
\* the rest of the read is lost then and the listener has to close.
\* [net/http/detail/http_connection_request_info.hpp 78-93 end_filter::process]
process_body ==
    /\ step = "process" /\ data # <<>> /\ info[Front].header_finished
    /\ got' = [got EXCEPT ![Front] = Append(@, Head(data))]
    /\ info' = [info EXCEPT ![Front].received_size = @ + 1]
    /\ \/ /\ step' = IF Whole(info'[Front]) THEN "on_complete" ELSE "process"
          /\ data' = Tail(data)
          /\ UNCHANGED failed
       \/ step' = "refused" /\ data' = <<>> /\ failed' = TRUE
    /\ UNCHANGED <<m_requests, conn, net, requests>>

\* The front leaves the queue, then the listener is called.
\* [net/http/detail/concurrent_http_connection_impl.hpp 274-285 concurrent_http_connection_impl::on_complete]
on_complete ==
    /\ step \in {"on_complete", "on_complete_empty"}
    /\ m_requests' = Tail(m_requests)
    /\ step' = IF step = "on_complete" THEN "on_http_complete" ELSE "on_http_complete_empty"
    /\ UNCHANGED <<conn, net, info, requests, data, got, failed>>

\* What is left of the read belongs to the next request.  After a response
\* without content the filter of that response gets it instead, which has
\* finished and closes the connection (an assertion before that is taken to be
\* compiled out).
\* [net/http/detail/concurrent_http_connection_impl.hpp 286-296 concurrent_http_connection_impl::on_complete]
complete_returns ==
    /\ step \in Callbacks
    /\ \/ /\ step = "on_http_complete" \/ data = <<>>
          /\ step' = "process"
          /\ UNCHANGED <<conn, net, data, failed>>
       \/ /\ step = "on_http_complete_empty" /\ data # <<>>
          /\ do_close
          /\ step' = "idle" /\ data' = <<>> /\ failed' = TRUE
    /\ UNCHANGED <<m_requests, info, requests, got>>

\* Mutant: the next read is left to the socket.
check_receive_once ==
    /\ step = "process" /\ data = <<>>
    /\ step' = "idle"
    /\ UNCHANGED <<m_requests, conn, info, requests, net, data, got, failed>>

\* check_receive() after the whole read has been processed.
\* [net/http/detail/concurrent_http_connection_impl.hpp 333-339 concurrent_http_connection_impl::check_receive]
check_receive ==
    /\ step = "process" /\ data = <<>>
    /\ m_receiving' = (m_receiving \/ (~paused /\ m_socket = "connected"))
    /\ step' = "idle"
    /\ UNCHANGED <<m_requests, m_site, m_socket, m_resolving, paused, info, requests,
                   net, data, got, failed>>

----------------------------------------------------------------------------
\* [net/http/detail/concurrent_http_connection_impl.hpp 46-60 concurrent_http_connection_impl::concurrent_http_connection_impl]
Init ==
    /\ m_requests = <<>> /\ requests = 0
    /\ m_site = NoSite /\ m_socket = "new" /\ m_receiving = FALSE
    /\ m_resolving = FALSE /\ paused = FALSE
    /\ info = [r \in Requests |-> NewInfo(NoSite)]
    /\ events = <<>> /\ onwire = <<>> /\ arriving = <<>>
    /\ step = "idle" /\ data = <<>>
    /\ got = [r \in Requests |-> <<>>] /\ failed = FALSE

Next ==
    \/ Native \/ Respond
    \/ request \/ close \/ pause_or_resume
    \/ on_resolver_address \/ on_socket_connect \/ on_socket_connect_failed
    \/ on_socket_receive \/ on_socket_receive_failed
    \/ process_header \/ process_body \/ on_complete \/ complete_returns
    \/ check_receive

Spec == Init /\ [][Next]_vars

----------------------------------------------------------------------------
(* Properties.                                                             *)

\* Although answers are not marked with the request they belong to, what is
\* delivered while a request is at the front of the queue is its own response's
\* body, in order, however reads cut the answers, and over reconnections.
PipelinedOwnData ==
    \A r \in Requests : \A i \in DOMAIN got[r] : got[r][i] = Token(r, "body", i)

\* Until something fails the front of the queue is served: a connection is being
\* made, or the front has been written and its answer is being read.  There is one
\* exception, which the code makes by itself: a request for another site that
\* was queued behind answers still to come.  on_complete() makes it the front and
\* does not connect, so that it stays unwritten, on a connection that reads on.
QueueServed ==
    step = "idle" /\ m_requests # <<>> /\ ~failed =>
      \/ m_resolving \/ m_socket = "connecting"
      \/ /\ m_socket = "connected" /\ (m_receiving \/ paused)
         /\ info[Front].header_send \/ Stranded

\* write_request's assertion: a request is written to the host and the port of
\* its URL.
WrittenToItsSite ==
    \A i \in DOMAIN onwire : info[onwire[i]].site = m_site
=============================================================================
