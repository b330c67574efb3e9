--------------------------- MODULE HttpConnection ---------------------------
(***************************************************************************)
(* http_connection_impl with its http_connection_request_info: one request *)
(* at a time over a tcp_socket that is replaced on every close(), with     *)
(* name resolution, redirects, keep-alive and pause/resume.                *)
(*                                                                         *)
(* A response is a sequence of tokens: pieces of its header, the header's  *)
(* end (carrying the status and Content-Length) and the units of its body; *)
(* a read delivers any non-empty prefix of what has arrived.  A step ends  *)
(* where the code calls the listener, which may call back (pc is then one  *)
(* of Callbacks).  The socket, the resolver, the server and the listener   *)
(* are external; chunked and gzip filters are not in the chain.            *)
(***************************************************************************)
EXTENDS Integers, Sequences, FiniteSets

CONSTANTS
    MaxRequests,      \* bound: calls of request() and download()
    Hosts, NamedHosts, \* hosts of URLs; those that have to be resolved
    Lengths,          \* Content-Length of a response: -1 (none), or a length
    max_redirects,
    MaxPosted,        \* bound: calls with an invalid URL
    CarefulListener   \* TRUE: a listener that starts a request from
                      \* on_http_response or on_http_data returns false there,
                      \* and does not resume() a response it refuses

ASSUME HttpConnectionAssumption ==
    /\ MaxRequests \in Nat /\ max_redirects \in Nat /\ MaxPosted \in Nat
    /\ NamedHosts \subseteq Hosts
    /\ Lengths \subseteq Nat \cup {-1}
    /\ CarefulListener \in BOOLEAN

VARIABLES
    keep_alive,        \* the option
    m_request,         \* the current request, or 0
    m_host,            \* the host the socket is for, or NoHost
    pause_receive,
    m_socket,          \* "new", "connecting", "connected" or "failed"
    m_receiving,       \* m_socket->is_receiving()
    m_name_resolver,   \* "none" or "resolving"
    info,              \* info[r]: the http_connection_request_info of r
    requests,          \* requests made so far
    pc, cur, data,     \* control of on_socket_receive: where, for which request
    sender_open,       \* the socket whose handler runs is still open
    restarted,         \* request() was called in the running callback
    ready,             \* completions and posted calls waiting in the io_service
    posted,            \* calls of post_error so far
    onwire,            \* the request the server has to answer, or 0
    stream,            \* response tokens not yet read
    got,               \* got[r]: tokens passed to on_http_data while r was current
    ended              \* ended[r]: the on_http_complete and on_http_error calls of r

control == <<pc, cur, data, sender_open, restarted>>
connection == <<m_request, m_host, pause_receive, m_socket, m_receiving,
                m_name_resolver>>
network == <<ready, onwire, stream>>
vars == <<keep_alive, connection, info, requests, control, network, posted, got,
          ended>>

NoHost == "none"
Requests == 1 .. MaxRequests
Token(r, part, v) == [req |-> r, part |-> part, v |-> v]
Redirect == -2         \* in an end token: a redirection instead of a length

NewInfo(h) == [host |-> h, header_send |-> FALSE,
               response_header_received |-> FALSE, header_finished |-> FALSE,
               content_length |-> -1, received_size |-> 0, finished |-> FALSE,
               redirect_times |-> 0, eof |-> FALSE, refused |-> FALSE]

Callbacks == {"on_http_response", "on_http_data", "on_http_complete",
              "on_http_error"}
ApiAllowed == pc = "idle" \/ pc \in Callbacks

----------------------------------------------------------------------------
(* The socket, the resolver and the server (external).                     *)

Event(k, res, d) == [kind |-> k, res |-> res, data |-> d]
Waiting(k) == \E i \in DOMAIN ready : ready[i].kind = k

NativeConnect ==
    /\ m_socket = "connecting" /\ ~Waiting("connect")
    /\ \E res \in {"ok", "error"} : ready' = Append(ready, Event("connect", res, <<>>))
    /\ UNCHANGED <<keep_alive, connection, info, requests, control, onwire,
                   stream, posted, got, ended>>

NativeResolve ==
    /\ m_name_resolver = "resolving" /\ ~Waiting("resolve")
    /\ \E res \in {"ok", "error"} : ready' = Append(ready, Event("resolve", res, <<>>))
    /\ UNCHANGED <<keep_alive, connection, info, requests, control, onwire,
                   stream, posted, got, ended>>

\* The tokens of a response; without a length its body, one unit here, ends with
\* the connection.
Answer(r, len) ==
    <<Token(r, "head", 0), Token(r, "end", len)>>
      \o [i \in 1 .. (IF len = -1 THEN 1 ELSE len) |-> Token(r, "body", i)]

\* The server sends a response.
ServerRespond ==
    /\ onwire # 0
    /\ \E len \in Lengths \cup {Redirect} : stream' = stream \o Answer(onwire, len)
    /\ onwire' = 0
    /\ UNCHANGED <<keep_alive, connection, info, requests, control, ready,
                   posted, got, ended>>

\* A read returns data, or finds the connection closed or broken.
NativeReceive ==
    /\ m_socket = "connected" /\ m_receiving /\ ~Waiting("recv")
    /\ \/ \E n \in 1 .. Len(stream) :
            /\ ready' = Append(ready, Event("recv", "ok", SubSeq(stream, 1, n)))
            /\ stream' = SubSeq(stream, n + 1, Len(stream))
       \/ /\ \E res \in {"eof", "error"} : ready' = Append(ready, Event("recv", res, <<>>))
          /\ stream' = <<>>
    /\ UNCHANGED <<keep_alive, connection, info, requests, control, onwire,
                   posted, got, ended>>

----------------------------------------------------------------------------
(* The connection.                                                         *)

\* Of the waiting events, the calls post_error bound: they are all alike.
PostedCalls(evs) ==
    [i \in 1 .. Cardinality({j \in DOMAIN evs : evs[j].kind = "posted"}) |->
       Event("posted", "error", <<>>)]

\* close(), and what connect_host does after it: the socket and the resolver
\* are replaced, so that of the waiting events evs only posted calls are
\* delivered.
Replace(evs, r, h, sock, resolver) ==
    /\ m_request' = r /\ m_host' = h
    /\ pause_receive' = FALSE
    /\ m_socket' = sock /\ m_receiving' = FALSE
    /\ m_name_resolver' = resolver
    /\ ready' = PostedCalls(evs)
    /\ onwire' = 0 /\ stream' = <<>>
    /\ sender_open' = FALSE

DoClose(evs) == Replace(evs, 0, NoHost, "new", "none")

connect_host(r, h) ==
    IF h \in NamedHosts THEN Replace(ready, r, h, "new", "resolving")
                        ELSE Replace(ready, r, h, "connecting", "none")

need_reconnect(h) ==
    \/ ~keep_alive
    \/ m_socket # "connected"
    \/ m_host # h
    \/ m_request # 0

\* check_receive() with the current state.
check_receive ==
    m_receiving' = (m_receiving \/ (~pause_receive /\ m_socket = "connected"))

\* request() and download().
request ==
    /\ ApiAllowed /\ requests < MaxRequests
    /\ requests' = requests + 1
    /\ \E h \in Hosts :
         IF need_reconnect(h)
         THEN /\ connect_host(requests + 1, h)
              /\ info' = [info EXCEPT ![requests + 1] = NewInfo(h)]
         ELSE /\ m_request' = requests + 1
              /\ info' = [info EXCEPT ![requests + 1] =
                            [NewInfo(h) EXCEPT !.header_send = TRUE]]
              /\ onwire' = requests + 1
              /\ check_receive
              /\ UNCHANGED <<m_host, pause_receive, m_socket, m_name_resolver,
                             ready, stream, sender_open>>
    /\ restarted' = (pc # "idle")
    /\ UNCHANGED <<keep_alive, pc, cur, data, posted, got, ended>>

\* A call with an invalid URL or range: on_error is posted.
request_invalid ==
    /\ ApiAllowed /\ posted < MaxPosted
    /\ posted' = posted + 1
    /\ ready' = Append(ready, Event("posted", "error", <<>>))
    /\ UNCHANGED <<keep_alive, connection, info, requests, control, onwire,
                   stream, got, ended>>

close ==
    /\ ApiAllowed /\ m_request # 0
    /\ DoClose(ready)
    /\ UNCHANGED <<keep_alive, info, requests, pc, cur, data, restarted, posted,
                   got, ended>>

pause ==
    /\ ApiAllowed /\ ~pause_receive
    /\ pause_receive' = TRUE
    /\ UNCHANGED <<keep_alive, m_request, m_host, m_socket, m_receiving,
                   m_name_resolver, info, requests, control, network, posted,
                   got, ended>>

\* Mutant: does not read again.
resume_without_read ==
    /\ ApiAllowed /\ pause_receive
    /\ pause_receive' = FALSE
    /\ UNCHANGED <<keep_alive, m_request, m_host, m_socket, m_receiving,
                   m_name_resolver, info, requests, control, network, posted,
                   got, ended>>

resume ==
    /\ ApiAllowed /\ pause_receive
    /\ CarefulListener /\ m_request # 0 => ~info[m_request].refused
    /\ pause_receive' = FALSE
    /\ m_receiving' = (m_receiving \/ m_socket = "connected")
    /\ UNCHANGED <<keep_alive, m_request, m_host, m_socket, m_name_resolver,
                   info, requests, control, network, posted, got, ended>>

Api == request \/ request_invalid \/ close \/ pause \/ resume

----------------------------------------------------------------------------
(* Handlers the io_service runs.                                           *)

\* The handler returns; its locals are gone.
Return == pc' = "idle" /\ cur' = 0 /\ data' = <<>> /\ restarted' = FALSE

Dispatch(k) == pc = "idle" /\ ready # <<>> /\ Head(ready).kind = k

\* on_error: abort_handling, then on_http_error.
on_error ==
    /\ DoClose(IF pc = "idle" THEN Tail(ready) ELSE ready)
    /\ ended' = IF m_request = 0 THEN ended
                ELSE [ended EXCEPT ![m_request] = Append(@, "error")]
    /\ pc' = "on_http_error"
    /\ restarted' = FALSE

\* The call post_error bound, for whatever request is current by then.
on_posted_error ==
    /\ Dispatch("posted")
    /\ on_error
    /\ UNCHANGED <<keep_alive, info, requests, cur, data, posted, got>>

\* on_socket_connect_failed and a failed on_resolver_address.
on_connect_failed ==
    /\ Dispatch("connect") \/ Dispatch("resolve")
    /\ Head(ready).res = "error"
    /\ on_error
    /\ UNCHANGED <<keep_alive, info, requests, cur, data, posted, got>>

on_resolver_address ==
    /\ Dispatch("resolve") /\ Head(ready).res = "ok"
    /\ m_name_resolver' = "none"
    /\ m_socket' = "connecting"
    /\ ready' = Tail(ready)
    /\ UNCHANGED <<keep_alive, m_request, m_host, pause_receive, m_receiving,
                   info, requests, control, onwire, stream, posted, got, ended>>

\* on_socket_connect: reads, whether or not paused, and writes the request.
on_socket_connect ==
    /\ Dispatch("connect") /\ Head(ready).res = "ok"
    /\ m_socket' = "connected"
    /\ m_receiving' = TRUE
    /\ info' = [info EXCEPT ![m_request].header_send = TRUE]
    /\ onwire' = m_request
    /\ ready' = Tail(ready)
    /\ UNCHANGED <<keep_alive, m_request, m_host, pause_receive,
                   m_name_resolver, requests, control, stream, posted, got, ended>>

\* on_socket_receive up to http_connection_request_info::process; data on an
\* idle connection closes it.
on_socket_receive ==
    /\ Dispatch("recv") /\ Head(ready).res = "ok"
    /\ IF m_request = 0
       THEN /\ DoClose(ready)
            /\ UNCHANGED <<pc, cur, data>>
       ELSE /\ cur' = m_request
            /\ data' = Head(ready).data
            /\ pc' = IF info[m_request].header_finished THEN "body" ELSE "header"
            /\ sender_open' = TRUE
            /\ m_receiving' = FALSE
            /\ ready' = Tail(ready)
            /\ UNCHANGED <<m_request, m_host, pause_receive, m_socket,
                           m_name_resolver, onwire, stream>>
    /\ UNCHANGED <<keep_alive, info, requests, restarted, posted, got, ended>>

\* Mutant: any end of the connection ends the response.
EofEndsResponse_always(r) == Head(ready).res = "eof"

EofEndsResponse(r) ==
    Head(ready).res = "eof" /\ info[r].response_header_received

\* on_socket_receive_failed: closes an idle connection; the end of the
\* connection ends a response whose header has been received; the rest is an
\* error.
on_socket_receive_failed ==
    /\ Dispatch("recv") /\ Head(ready).res # "ok"
    /\ IF m_request = 0
       THEN DoClose(ready) /\ UNCHANGED <<info, cur, pc, restarted, ended>>
       ELSE IF EofEndsResponse(m_request)
       THEN /\ info' = [info EXCEPT ![m_request].finished = TRUE,
                                    ![m_request].eof = TRUE]
            /\ ended' = [ended EXCEPT ![m_request] = Append(@, "complete")]
            /\ cur' = m_request
            /\ m_request' = 0
            /\ m_socket' = "failed"
            /\ m_receiving' = FALSE
            /\ pc' = "on_http_complete"
            /\ restarted' = FALSE
            /\ sender_open' = TRUE
            /\ ready' = Tail(ready)
            /\ UNCHANGED <<m_host, pause_receive, m_name_resolver, onwire, stream>>
       ELSE on_error /\ UNCHANGED <<info, cur>>
    /\ UNCHANGED <<keep_alive, requests, data, posted, got>>

----------------------------------------------------------------------------
(* http_connection_request_info::process.                                  *)

HeaderEnd == CHOOSE i \in DOMAIN data : data[i].part = "end"
HasEnd == \E i \in DOMAIN data : data[i].part = "end"

header_incomplete ==
    /\ pc = "header" /\ ~HasEnd
    /\ pc' = "tail" /\ data' = <<>>
    /\ UNCHANGED <<keep_alive, connection, info, requests, cur, sender_open,
                   restarted, network, posted, got, ended>>

\* Mutant: the request keeps the marks of its first attempt.
reset_handling_state_forgotten(i, h) ==
    [i EXCEPT !.redirect_times = @ + 1, !.host = h]

\* Mutant: the redirection is not counted.
reset_handling_state_uncounted(i, h) ==
    [NewInfo(h) EXCEPT !.redirect_times = i.redirect_times]

\* The request as redirect() leaves it.
reset_handling_state(i, h) ==
    [NewInfo(h) EXCEPT !.redirect_times = i.redirect_times + 1]

\* A redirection: too many are an error, otherwise the same request goes to
\* the new location over a new connection.
redirect ==
    /\ pc = "header" /\ HasEnd /\ data[HeaderEnd].v = Redirect
    /\ IF info[cur].redirect_times > max_redirects
       THEN on_error /\ cur' = 0 /\ data' = <<>> /\ UNCHANGED info
       ELSE /\ \E h \in Hosts :
                 /\ connect_host(cur, h)
                 /\ info' = [info EXCEPT ![cur] = reset_handling_state(@, h)]
            /\ Return
            /\ UNCHANGED ended
    /\ UNCHANGED <<keep_alive, requests, posted, got>>

\* handle_response_header: the filters are set up and the listener told.
handle_response_header ==
    /\ pc = "header" /\ HasEnd /\ data[HeaderEnd].v # Redirect
    /\ info' = [info EXCEPT ![cur].header_finished = TRUE,
                            ![cur].response_header_received = TRUE,
                            ![cur].content_length = data[HeaderEnd].v]
    /\ data' = SubSeq(data, HeaderEnd + 1, Len(data))
    /\ pc' = "on_http_response"
    /\ restarted' = FALSE
    /\ UNCHANGED <<keep_alive, connection, requests, cur, sender_open, network,
                   posted, got, ended>>

\* end_filter::process up to on_http_data.
process_body_data ==
    /\ pc = "body"
    /\ info' = [info EXCEPT ![cur].received_size = @ + Len(data)]
    /\ got' = [got EXCEPT ![m_request] = @ \o data]
    /\ data' = <<>>
    /\ pc' = "on_http_data"
    /\ restarted' = FALSE
    /\ UNCHANGED <<keep_alive, connection, requests, cur, sender_open, network,
                   posted, ended>>

AllReceived == info[cur].content_length >= 0
                 /\ info[cur].received_size >= info[cur].content_length

\* Mutant: the connection still holds the completed request.
on_complete_keeps_request ==
    /\ ended' = [ended EXCEPT ![m_request] = Append(@, "complete")]
    /\ pc' = "on_http_complete"
    /\ restarted' = FALSE
    /\ UNCHANGED <<m_request, m_host, pause_receive, m_socket, m_receiving,
                   m_name_resolver, sender_open, network>>

\* on_complete: for the request that is current now; after a close() there is
\* none and the connection is closed again.
on_complete ==
    IF m_request = 0
    THEN DoClose(ready) /\ pc' = "tail" /\ UNCHANGED <<ended, restarted>>
    ELSE /\ ended' = [ended EXCEPT ![m_request] = Append(@, "complete")]
         /\ m_request' = 0
         /\ pc' = "on_http_complete"
         /\ restarted' = FALSE
         /\ UNCHANGED <<m_host, pause_receive, m_socket, m_receiving,
                        m_name_resolver, sender_open, network>>

\* The listener returns from on_http_response or on_http_data.  After false
\* nothing more is done; after true check_finish, then what is left of the data.
Refuse ==
    /\ CarefulListener => m_request # cur \/ ~m_receiving
    /\ info' = [info EXCEPT ![cur].refused = TRUE]
    /\ Return /\ sender_open' = FALSE
    /\ UNCHANGED <<connection, network, ended>>

Accept ==
    /\ CarefulListener => ~restarted
    /\ IF AllReceived
       THEN /\ on_complete
            /\ info' = [info EXCEPT ![cur].finished = TRUE]
            /\ data' = <<>>
            /\ UNCHANGED cur
       ELSE IF data # <<>> /\ m_request = 0
       THEN /\ DoClose(ready)
            /\ Return
            /\ UNCHANGED <<info, ended>>
       ELSE /\ pc' = IF data # <<>> THEN "body" ELSE "tail"
            /\ UNCHANGED <<connection, sender_open, restarted, network, info,
                           cur, data, ended>>

listener_returns ==
    /\ pc \in {"on_http_response", "on_http_data"}
    /\ Refuse \/ Accept
    /\ UNCHANGED <<keep_alive, requests, posted, got>>

complete_returns ==
    /\ pc = "on_http_complete"
    /\ pc' = "tail"
    /\ UNCHANGED <<keep_alive, connection, info, requests, cur, data,
                   sender_open, restarted, network, posted, got, ended>>

error_returns ==
    /\ pc = "on_http_error"
    /\ Return
    /\ UNCHANGED <<keep_alive, connection, info, requests, sender_open, network,
                   posted, got, ended>>

\* on_socket_receive after process: reads again if the socket it came from is
\* still open.
receive_tail ==
    /\ pc = "tail"
    /\ IF sender_open THEN check_receive ELSE UNCHANGED m_receiving
    /\ Return /\ sender_open' = FALSE
    /\ UNCHANGED <<keep_alive, m_request, m_host, pause_receive, m_socket,
                   m_name_resolver, info, requests, network, posted, got, ended>>

----------------------------------------------------------------------------
Init ==
    /\ keep_alive \in BOOLEAN
    /\ m_request = 0 /\ m_host = NoHost /\ pause_receive = FALSE
    /\ m_socket = "new" /\ m_receiving = FALSE /\ m_name_resolver = "none"
    /\ info = [r \in Requests |-> NewInfo(NoHost)]
    /\ requests = 0
    /\ pc = "idle" /\ cur = 0 /\ data = <<>>
    /\ sender_open = FALSE /\ restarted = FALSE
    /\ ready = <<>> /\ posted = 0 /\ onwire = 0 /\ stream = <<>>
    /\ got = [r \in Requests |-> <<>>]
    /\ ended = [r \in Requests |-> <<>>]

Handler ==
    \/ on_posted_error \/ on_connect_failed \/ on_resolver_address
    \/ on_socket_connect \/ on_socket_receive \/ on_socket_receive_failed
    \/ header_incomplete \/ redirect \/ handle_response_header
    \/ process_body_data \/ receive_tail
    \/ listener_returns \/ complete_returns \/ error_returns

Native == NativeConnect \/ NativeResolve \/ ServerRespond \/ NativeReceive

Next == Api \/ Handler \/ Native

\* The io_service thread runs what is ready and callbacks return; connecting,
\* resolving and reading end (with an error at the latest when the peer or the
\* network gives up) and the server answers.  Nothing obliges the caller.
Fairness ==
    /\ WF_vars(Handler)
    /\ WF_vars(NativeConnect) /\ WF_vars(NativeResolve)
    /\ WF_vars(ServerRespond) /\ WF_vars(NativeReceive)

Spec == Init /\ [][Next]_vars /\ Fairness

----------------------------------------------------------------------------
(* Properties.                                                             *)

\* The assertions of on_socket_connect and write_request: a socket that becomes
\* connected has a request, that request has not been written before and is for
\* the host the socket was connected to.
WriteAsserts ==
    ready # <<>> /\ Head(ready).kind = "connect" /\ Head(ready).res = "ok" =>
      /\ m_request # 0
      /\ ~info[m_request].header_send
      /\ info[m_request].host = m_host

\* The unit of content that a request's own server sends.
BodyToken(r, i) == Token(r, "body", i)

Exchange == INSTANCE HttpExchange
    WITH current <- m_request, made <- requests, content <- got, outcome <- ended, Body <- BodyToken

\* The connection implements HttpExchange: what its listener sees of it, through
\* sockets, redirections, pauses, stale completions and calls made inside the
\* callbacks, is one request after the other, each with the content of its own
\* response in order and with at most one final call.
ImplementsExchange == Exchange!Spec

\* on_http_complete is called for a request whose whole content has been
\* delivered, or whose connection ended after the response header.
CompleteMeansWhole ==
    \A r \in Requests : \A i \in DOMAIN ended[r] :
      ended[r][i] = "complete" =>
        /\ info[r].response_header_received
        /\ info[r].eof \/ Len(got[r]) = info[r].content_length

\* While a request is current on a connected socket that is not paused, a read
\* is outstanding, unless the listener refused the response: the response is
\* not left unread.
ReadPending ==
    pc = "idle" /\ m_request # 0 /\ m_socket = "connected" /\ ~pause_receive =>
      m_receiving \/ info[m_request].refused

\* Every request ends: completed, failed, closed or replaced by another one,
\* unless the caller has paused it or refused its response.
RequestEnds ==
    \A r \in Requests :
      (m_request = r) ~> (m_request # r \/ pause_receive \/ info[r].refused)
=============================================================================
