----------------------------- MODULE TcpServer -----------------------------
(***************************************************************************)
(* tcp_server_impl with its asio_tcp_acceptor: accepting, stopping and     *)
(* starting again while completions of earlier accepts are queued.         *)
(*                                                                         *)
(* A native socket object made for an accept is a number, and so is the    *)
(* session of the connection it holds.  What a session does until it fails *)
(* is TcpSession's subject.                                                *)
(***************************************************************************)
EXTENDS Integers, Sequences, FiniteSets

CONSTANTS
    MaxSockets,     \* bound: native sockets made for accepts
    MaxStarts       \* bound: calls of start()

VARIABLES
    native,         \* the native acceptor: "closed", "open", "listening"
    m_new_client,   \* the socket object of the latest accept, 0 before any
    accepts,        \* accepts in flight, by their socket object
    ready,          \* accepts completed whose handler has not run
    attached,       \* the acceptor's listener is the server (not after destroy)
    sockets,        \* socket objects made so far
    starts,         \* calls of start()
    careful,        \* so far start() was called only when no accept was in
                    \* flight and the handlers of the cancelled ones had run
    m_sessions,
    failing,        \* sessions whose failure is queued
    connected,      \* socket objects the peer's connections were accepted into
    offered,        \* sockets given to on_session_create, in order
    gone            \* on_session_destroy calls, in order

acceptor == <<native, m_new_client, accepts, ready, sockets>>
server == <<m_sessions, failing>>
history == <<connected, offered, gone>>
vars == <<acceptor, attached, starts, careful, server, history>>

----------------------------------------------------------------------------
(* The native acceptor (external).                                         *)

Done(s, res) == [sock |-> s, res |-> res]

\* A connection arrives, or the accept fails ("again": out of descriptors or
\* a connection aborted by its peer; the code goes on after such an error).
NativeAccept ==
    /\ native = "listening" /\ accepts # <<>>
    /\ \E res \in {"ok", "again"} :
         /\ ready' = Append(ready, Done(Head(accepts), res))
         /\ connected' = IF res = "ok" THEN connected \cup {Head(accepts)}
                         ELSE connected
    /\ accepts' = Tail(accepts)
    /\ UNCHANGED <<native, m_new_client, sockets, attached, starts, careful, server,
                   offered, gone>>

\* Closing the native acceptor aborts the accepts in flight.
Cancelled == [i \in DOMAIN accepts |-> Done(accepts[i], "aborted")]

SessionFails ==
    /\ \E s \in m_sessions \ failing : failing' = failing \cup {s}
    /\ UNCHANGED <<acceptor, attached, starts, careful, m_sessions, history>>

----------------------------------------------------------------------------
(* asio_tcp_acceptor.                                                      *)

\* start_accept on an acceptor in state n with the accepts in flight a and the
\* completions q: nothing on a closed one, a failed accept on one that is bound
\* to nothing.
start_accept(n, a, q) ==
    IF n = "closed"
    THEN /\ accepts' = a /\ ready' = q
         /\ UNCHANGED <<m_new_client, sockets>>
    ELSE /\ sockets < MaxSockets
         /\ sockets' = sockets + 1
         /\ m_new_client' = sockets + 1
         /\ accepts' = IF n = "listening" THEN Append(a, sockets + 1) ELSE a
         /\ ready' = IF n = "open" THEN Append(q, Done(sockets + 1, "invalid")) ELSE q

\* open(): closes, then opens, binds and listens; a failure to open leaves the
\* acceptor closed, a failure to bind or listen leaves it open.
open ==
    /\ native' \in {"closed", "open", "listening"}
    /\ IF native' = "listening"
       THEN start_accept("listening", <<>>, ready \o Cancelled)
       ELSE /\ accepts' = <<>>
            /\ ready' = ready \o Cancelled
            /\ UNCHANGED <<m_new_client, sockets>>

\* tcp_server_impl::start: stop(), then open().
start ==
    /\ attached /\ starts < MaxStarts
    /\ careful' = (careful /\ ready = <<>> /\ accepts = <<>>)
    /\ starts' = starts + 1
    /\ m_sessions' = {} /\ failing' = {}
    /\ open
    /\ UNCHANGED <<attached, history>>

\* stop(): releases the sessions and closes the acceptor.
stop ==
    /\ native' = "closed"
    /\ accepts' = <<>>
    /\ ready' = ready \o Cancelled
    /\ m_sessions' = {} /\ failing' = {}
    /\ UNCHANGED <<m_new_client, sockets>>

stop_server ==
    /\ native # "closed"
    /\ stop
    /\ UNCHANGED <<attached, starts, careful, history>>

\* destroy(): no callback of the acceptor reaches the server any more.
destroy ==
    /\ attached
    /\ attached' = FALSE
    /\ stop
    /\ UNCHANGED <<starts, careful, history>>

\* tcp_server_impl::on_acceptor_client for the socket that m_new_client held:
\* the listener takes the session or not.
on_acceptor_client(s) ==
    IF attached
    THEN /\ offered' = Append(offered, s)
         /\ m_sessions' \in {m_sessions, m_sessions \cup {s}}
    ELSE UNCHANGED <<offered, m_sessions>>

\* feed_client: a socket connected elsewhere is treated as an accepted one.
feed_client ==
    /\ sockets < MaxSockets
    /\ sockets' = sockets + 1
    /\ connected' = connected \cup {sockets + 1}
    /\ on_acceptor_client(sockets + 1)
    /\ UNCHANGED <<native, m_new_client, accepts, ready, attached, starts, careful,
                   failing, gone>>

\* Mutant: the next accept is started first, and m_new_client read after it.
on_accept_reads_late ==
    /\ ready # <<>>
    /\ IF Head(ready).res = "invalid"
       THEN /\ ready' = Tail(ready)
            /\ UNCHANGED <<m_new_client, accepts, sockets, m_sessions, offered>>
       ELSE /\ start_accept(native, accepts, Tail(ready))
            /\ IF Head(ready).res = "ok" THEN on_acceptor_client(m_new_client')
               ELSE UNCHANGED <<m_sessions, offered>>
    /\ UNCHANGED <<native, attached, starts, careful, failing, connected, gone>>

\* on_accept: takes m_new_client, starts the next accept unless the error is
\* invalid_argument or bad_descriptor, then reports the client or the error.
on_accept ==
    /\ ready # <<>>
    /\ IF Head(ready).res = "invalid"
       THEN /\ ready' = Tail(ready)
            /\ UNCHANGED <<m_new_client, accepts, sockets, m_sessions, offered>>
       ELSE /\ start_accept(native, accepts, Tail(ready))
            /\ IF Head(ready).res = "ok" THEN on_acceptor_client(m_new_client)
               ELSE UNCHANGED <<m_sessions, offered>>
    /\ UNCHANGED <<native, attached, starts, careful, failing, connected, gone>>

\* on_session_error: the session is destroyed and removed, and the listener told.
on_session_error ==
    /\ \E s \in failing :
         /\ failing' = failing \ {s}
         /\ m_sessions' = m_sessions \ {s}
         /\ gone' = Append(gone, s)
    /\ UNCHANGED <<acceptor, attached, starts, careful, connected, offered>>

----------------------------------------------------------------------------
Init ==
    /\ native = "closed" /\ m_new_client = 0
    /\ accepts = <<>> /\ ready = <<>> /\ sockets = 0
    /\ attached = TRUE /\ starts = 0 /\ careful = TRUE
    /\ m_sessions = {} /\ failing = {}
    /\ connected = {} /\ offered = <<>> /\ gone = <<>>

Next ==
    \/ start \/ stop_server \/ destroy \/ feed_client
    \/ on_accept \/ on_session_error
    \/ NativeAccept \/ SessionFails

Spec == Init /\ [][Next]_vars

----------------------------------------------------------------------------
(* Properties.                                                             *)

\* As long as the owner has not started the server over cancelled accepts, every
\* connection is offered to the listener at most once, in the socket it was
\* accepted into, and its session ends at most once.
OfferedOnce ==
    careful =>
      /\ \A i \in DOMAIN offered : offered[i] \in connected
      /\ \A i, j \in DOMAIN offered : offered[i] = offered[j] => i = j
      /\ \A i, j \in DOMAIN gone : gone[i] = gone[j] => i = j

\* A listening acceptor never stops accepting: an accept is in flight or its
\* handler is queued.  It is the only one, and m_new_client is its socket, as
\* long as the owner has not started the server over cancelled accepts.
OneAccept ==
    native = "listening" =>
      /\ Len(accepts) + Len(ready) >= 1
      /\ careful =>
           /\ Len(accepts) + Len(ready) = 1
           /\ accepts # <<>> => Head(accepts) = m_new_client
           /\ ready # <<>> => Head(ready).sock = m_new_client
=============================================================================
