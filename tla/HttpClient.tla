----------------------------- MODULE HttpClient -----------------------------
(***************************************************************************)
(* http_client over an http_connection that keeps HttpExchange's promises, *)
(* several of them at once, and background_http_requester_impl, which      *)
(* makes a client per call and keeps it in m_clients until the call's      *)
(* callback.  A handler is the http_handler object of one call.  A call    *)
(* made from a callback is one made right after it.                        *)
(***************************************************************************)
EXTENDS Integers, Sequences, FiniteSets

CONSTANTS
    Clients,        \* http_client objects
    MaxCalls,       \* bound: calls over all clients
    Lengths,        \* Content-Length of responses, -1 for none
    MaxSize         \* maxSize of download_data and post_data

VARIABLES
    m_keepalive,    \* m_keepalive[c]
    m_http_handler, \* m_http_handler[c]: the handler of c's last call
    listening,      \* listening[c]: the connection's listener is that handler
    exchange,       \* exchange[c]: "none", "sent", "header"; of the connection
    length,         \* length[c]: Content-Length the connection works with
    units,          \* units[c]: units of content the connection has passed on
    posted,         \* calls whose callback is posted to the io_service
    calls,          \* the calls so far, as <<client, kind>>
    results,        \* results[k]: the error codes call k's callback was given
    m_clients       \* the requester's clients

vars == <<m_keepalive, m_http_handler, listening, exchange, length, units, posted,
          calls, results, m_clients>>
connection == <<listening, exchange, length, units>>

Kinds == {"get", "head", "post"}
NoHandler == [call |-> 0, kind |-> "none", content_length |-> 0, size |-> 0]
error_general == -1
eof == 2

\* [net/http/http_client.hpp 212-232 http_client::http_client]
Init ==
    /\ m_keepalive \in [Clients -> BOOLEAN]
    /\ m_http_handler = [c \in Clients |-> NoHandler]
    /\ listening = [c \in Clients |-> FALSE]
    /\ exchange = [c \in Clients |-> "none"]
    /\ length = [c \in Clients |-> 0] /\ units = [c \in Clients |-> 0]
    /\ posted = {} /\ calls = <<>>
    /\ results = [k \in 1 .. MaxCalls |-> <<>>]
    /\ m_clients = {}

\* [net/http/http_client.hpp 273-286 http_client::close_connection]
close_connection(c) ==
    /\ listening' = [listening EXCEPT ![c] = FALSE]
    /\ exchange' = [exchange EXCEPT ![c] = "none"]
    /\ UNCHANGED <<length, units>>

\* Mutant: a new call keeps the connection's old listener.
async_download_keeps_listener(c, kind, k) ==
    /\ m_http_handler' = [m_http_handler EXCEPT
         ![c] = [call |-> k, kind |-> kind, content_length |-> 0, size |-> 0]]
    /\ exchange' = [exchange EXCEPT ![c] = "sent"]
    /\ length' = [length EXCEPT ![c] = 0] /\ units' = [units EXCEPT ![c] = 0]
    /\ UNCHANGED listening

\* A new handler becomes the connection's listener; the request replaces one
\* that is under way.
\* [net/http/http_client.hpp 362-372 http_client::async_download]
async_download(c, kind, k) ==
    /\ m_http_handler' = [m_http_handler EXCEPT
         ![c] = [call |-> k, kind |-> kind, content_length |-> 0, size |-> 0]]
    /\ listening' = [listening EXCEPT ![c] = TRUE]
    /\ exchange' = [exchange EXCEPT ![c] = "sent"]
    /\ length' = [length EXCEPT ![c] = 0] /\ units' = [units EXCEPT ![c] = 0]

\* async_download_data, async_query_head and async_post_data of an application
\* that owns the client.
\* [net/http/http_client.hpp 294-358 http_client::download_data]
call(c, kind) ==
    /\ Len(calls) < MaxCalls /\ c \notin m_clients
    /\ calls' = Append(calls, <<c, kind>>)
    /\ async_download(c, kind, Len(calls) + 1)
    /\ UNCHANGED <<m_keepalive, posted, results, m_clients>>

\* download_data with a URL that cannot be parsed: the callback is posted.
\* [net/http/http_client.hpp 299-309 http_client::download_data]
call_invalid(c) ==
    /\ Len(calls) < MaxCalls /\ c \notin m_clients
    /\ calls' = Append(calls, <<c, "invalid">>)
    /\ posted' = posted \cup {Len(calls) + 1}
    /\ UNCHANGED <<m_keepalive, m_http_handler, connection, results, m_clients>>

\* clear() and close().
\* [net/http/http_client.hpp 245-249 http_client::clear]
clear(c) ==
    /\ exchange[c] # "none" /\ c \notin m_clients
    /\ close_connection(c)
    /\ m_http_handler' = [m_http_handler EXCEPT ![c] = NoHandler]
    /\ UNCHANGED <<m_keepalive, posted, calls, results, m_clients>>

----------------------------------------------------------------------------
(* background_http_requester_impl; its clients have no keep-alive.         *)

\* A client that create_client() has just made.
Fresh(c) == ~m_keepalive[c] /\ \A k \in DOMAIN calls : calls[k][1] # c

\* [net/http/detail/background_http_requester_impl.hpp 32-49 background_http_requester_impl::post]
requester_call(c, kind) ==
    /\ Len(calls) < MaxCalls /\ c \notin m_clients /\ Fresh(c)
    /\ m_clients' = m_clients \cup {c}
    /\ calls' = Append(calls, <<c, kind>>)
    /\ async_download(c, kind, Len(calls) + 1)
    /\ UNCHANGED <<m_keepalive, posted, results>>

\* post() with a URL that cannot be parsed returns NULL when the client is
\* already in the table.  No request is made, so no callback will erase it.
\* [net/http/detail/background_http_requester_impl.hpp 34-37 background_http_requester_impl::post]
post_refused(c) ==
    /\ Len(calls) < MaxCalls /\ c \notin m_clients /\ Fresh(c)
    /\ m_clients' = m_clients \cup {c}
    /\ calls' = Append(calls, <<c, "refused">>)
    /\ UNCHANGED <<m_keepalive, m_http_handler, connection, posted, results>>

\* notify() with a URL that cannot be parsed.
\* [net/http/detail/background_http_requester_impl.hpp 57-63 background_http_requester_impl::create_client]
notify_invalid(c) ==
    /\ Len(calls) < MaxCalls /\ c \notin m_clients /\ Fresh(c)
    /\ m_clients' = m_clients \cup {c}
    /\ calls' = Append(calls, <<c, "invalid">>)
    /\ posted' = posted \cup {Len(calls) + 1}
    /\ UNCHANGED <<m_keepalive, m_http_handler, connection, results>>

\* The callback of call k: recorded, and on_callback erases a client of the
\* requester.
\* [net/http/detail/background_http_requester_impl.hpp 51-55 background_http_requester_impl::on_callback]
Callback(c, k, errcode) ==
    /\ results' = [results EXCEPT ![k] = Append(@, errcode)]
    /\ m_clients' = m_clients \ {c}

\* [net/http/http_client.hpp 301-309 http_client::download_data]
run_posted(k) ==
    /\ k \in posted
    /\ posted' = posted \ {k}
    /\ Callback(calls[k][1], k, error_general)
    /\ UNCHANGED <<m_keepalive, m_http_handler, connection, calls>>

----------------------------------------------------------------------------
(* The connection's calls of its listener.                                 *)

Handler(c) == m_http_handler[c]

\* [net/http/http_client.hpp 265-272 http_client::handle_complete]
handle_complete(c) ==
    IF m_keepalive[c] THEN exchange' = exchange /\ UNCHANGED <<listening, length, units>>
                      ELSE close_connection(c)

\* The end of a connection ends a download of unknown length.
\* [net/http/http_client.hpp 139-155 http_download_data_handler::handle_error]
ErrorCode(c, errcode) ==
    IF Handler(c).kind # "head" /\ errcode = eof /\ Handler(c).content_length < 0
    THEN 0 ELSE errcode

\* handle_error of the two kinds of handler.
\* [net/http/http_client.hpp 172-181 http_query_head_handler::handle_error]
handle_error(c, errcode) ==
    /\ IF Handler(c).kind = "head" THEN handle_complete(c) ELSE close_connection(c)
    /\ Callback(c, Handler(c).call, ErrorCode(c, errcode))

\* The header arrives: too much content is an error at once; a head request is
\* answered.
\* [net/http/http_client.hpp 65-72 http_handler::on_http_response]
on_http_response(c) ==
    /\ exchange[c] = "sent" /\ listening[c]
    /\ \E len \in Lengths :
         /\ m_http_handler' = [m_http_handler EXCEPT ![c].content_length = len, ![c].size = 0]
         /\ \/ /\ Handler(c).kind # "head" /\ len > MaxSize
               /\ handle_error(c, error_general)
            \/ /\ Handler(c).kind = "head"
               /\ Callback(c, Handler(c).call, 0)
               /\ IF m_keepalive[c]
                  THEN /\ exchange' = [exchange EXCEPT ![c] = "header"]
                       /\ length' = [length EXCEPT ![c] = len]
                       /\ UNCHANGED <<listening, units>>
                  ELSE close_connection(c)
            \/ /\ Handler(c).kind # "head" /\ len <= MaxSize
               /\ exchange' = [exchange EXCEPT ![c] = "header"]
               /\ length' = [length EXCEPT ![c] = len]
               /\ UNCHANGED <<listening, units, results, m_clients>>
    /\ UNCHANGED <<m_keepalive, posted, calls>>

More(c) == exchange[c] = "header" /\ (length[c] < 0 \/ units[c] < length[c])

\* [net/http/http_client.hpp 124-134 http_download_data_handler::on_http_data]
on_http_data(c) ==
    /\ More(c) /\ listening[c] /\ Handler(c).kind # "head"
    /\ units[c] <= MaxSize
    /\ m_http_handler' = [m_http_handler EXCEPT ![c].size = @ + 1]
    /\ IF Handler(c).size + 1 > MaxSize
       THEN handle_error(c, error_general)
       ELSE /\ units' = [units EXCEPT ![c] = @ + 1]
            /\ UNCHANGED <<listening, exchange, length, results, m_clients>>
    /\ UNCHANGED <<m_keepalive, posted, calls>>

\* All content has been passed on, or the connection ended after the header;
\* the request is over before the listener is called.
\* [net/http/http_client.hpp 135-138 http_download_data_handler::on_http_complete]
on_http_complete(c) ==
    /\ exchange[c] = "header" /\ listening[c]
    /\ exchange' = [exchange EXCEPT ![c] = "none"]
    /\ listening' = [listening EXCEPT ![c] = m_keepalive[c]]
    /\ IF Handler(c).kind = "head" THEN UNCHANGED <<results, m_clients>>
                                   ELSE Callback(c, Handler(c).call, 0)
    /\ UNCHANGED <<m_keepalive, m_http_handler, length, units, posted, calls>>

\* The connection has closed itself; handle_error() also takes the listener away
\* unless it is a head request's on a connection to be kept.
\* [net/http/http_client.hpp 80-85 http_handler::on_http_error]
on_http_error(c) ==
    /\ exchange[c] # "none" /\ listening[c]
    /\ \E errcode \in {error_general, eof} :
         /\ errcode = eof => exchange[c] = "sent"
         /\ Callback(c, Handler(c).call, ErrorCode(c, errcode))
    /\ exchange' = [exchange EXCEPT ![c] = "none"]
    /\ listening' = [listening EXCEPT ![c] = m_keepalive[c] /\ Handler(c).kind = "head"]
    /\ UNCHANGED <<m_keepalive, m_http_handler, length, units, posted, calls>>

Next ==
    \/ \E c \in Clients :
         \/ \E kind \in Kinds : call(c, kind)
         \/ \E kind \in {"get", "post"} : requester_call(c, kind)
         \/ call_invalid(c) \/ notify_invalid(c)
         \/ post_refused(c) \/ clear(c)
         \/ on_http_response(c) \/ on_http_data(c)
         \/ on_http_complete(c) \/ on_http_error(c)
    \/ \E k \in posted : run_posted(k)

Spec == Init /\ [][Next]_vars

----------------------------------------------------------------------------
(* Properties.                                                             *)

Superseded(k) == \E j \in k + 1 .. Len(calls) : calls[j][1] = calls[k][1]

\* A call's callback comes once: never a second time (but for a head request on
\* a connection that is kept alive, which waits for a body that does not come),
\* and as long as it has not come, the connection works for this call or the
\* callback is posted, unless a later call of the client or clear() took over, or
\* the requester's post() returned NULL for it.
CallbackOnce ==
    \A k \in DOMAIN calls :
      LET c == calls[k][1] IN
        /\ Len(results[k]) <= 1 \/ (calls[k][2] = "head" /\ m_keepalive[c])
        /\ results[k] = <<>> =>
             \/ k \in posted
             \/ Handler(c).call = k /\ listening[c] /\ exchange[c] # "none"
             \/ Superseded(k) \/ Handler(c) = NoHandler \/ calls[k][2] = "refused"

\* A download that is reported as good stayed within maxSize, and the requester
\* has let go of a client when its callback has come.
ResultsWithinLimits ==
    /\ \A c \in Clients : Handler(c).call # 0 /\ Handler(c).kind # "head"
         /\ results[Handler(c).call] = <<0>> => Handler(c).size <= MaxSize
    /\ \A c \in m_clients : \E k \in DOMAIN calls : calls[k][1] = c /\ results[k] = <<>>

\* The clients of which the requester never lets go: whatever is called and
\* answered later, one whose post() returned NULL stays in m_clients.
RefusedStay ==
    \A k \in DOMAIN calls : calls[k][2] = "refused" =>
      /\ results[k] = <<>> /\ calls[k][1] \in m_clients
      /\ \A j \in DOMAIN calls : calls[j][1] = calls[k][1] => j = k
=============================================================================
