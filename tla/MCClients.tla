----------------------------- MODULE MCClients ------------------------------
(***************************************************************************)
(* What stands on sockets and connections: the concurrent HTTP connection, *)
(* the HTTP clients with the background requester, the UDP socket and the  *)
(* UPnP service.  A behaviour is one of any of the four; the others keep   *)
(* their initial state.                                                    *)
(***************************************************************************)
EXTENDS Integers, Sequences

CONSTANTS MaxRequests, NamedHosts
CONSTANTS Clients, MaxCalls, MaxSize
CONSTANTS MaxLives, MaxDatagrams, MaxReceives
CONSTANTS MaxSearches, MaxIndex, MaxRetries, MaxAnswers

ASSUME ClientsAssumption == MaxRequests \in Nat /\ MaxCalls \in Nat /\ MaxSize \in Nat

VARIABLES part
VARIABLES m_requests, m_site, m_socket, m_receiving, m_resolving, paused, info, requests, events,
          onwire, arriving, step, data, got, failed
VARIABLES m_keepalive, m_http_handler, listening, exchange, length, units, posted, calls, results,
          m_clients
VARIABLES u_open, u_life, u_listener, u_receives, u_completions, u_net, u_sent, u_log, u_calls
VARIABLES p_finished, p_igd, p_timer, p_searches, p_receives, p_request, p_port, p_times, p_router,
          p_told, p_answers, p_recvFailed

concurrentVars == <<m_requests, m_site, m_socket, m_receiving, m_resolving, paused, info, requests,
                    events, onwire, arriving, step, data, got, failed>>
clientVars == <<m_keepalive, m_http_handler, listening, exchange, length, units, posted, calls,
                results, m_clients>>
udpVars    == <<u_open, u_life, u_listener, u_receives, u_completions, u_net, u_sent, u_log, u_calls>>
upnpVars   == <<p_finished, p_igd, p_timer, p_searches, p_receives, p_request, p_port, p_times,
                p_router, p_told, p_answers, p_recvFailed>>

\* An address and a name, on different ports: is_same_host tells them apart.
Sites == {<<"ip", 80>>, <<"name", 81>>}

\* Two ports of one host: is_same_host takes them for one site.
OneHostSites == {<<"ip", 80>>, <<"ip", 81>>}

\* Responses without content, of two units, and redirections.
BodySizes == {0, 2, -2}

\* Content-Length of a client's responses: none, within MaxSize, and above it.
Lengths == {-1, 1, 2}

Concurrent  == INSTANCE ConcurrentHttp
OneHost     == INSTANCE ConcurrentHttp WITH Sites <- OneHostSites
HttpClients == INSTANCE HttpClient
Udp         == INSTANCE Datagrams
Upnp        == INSTANCE UpnpService

clientsVars == <<part, concurrentVars, clientVars, udpVars, upnpVars>>

InitOf(p) ==
  /\ part = p
  /\ Concurrent!Init /\ HttpClients!Init /\ Udp!UdpInit /\ Upnp!UpnpInit
  /\ part # "http clients" => \A c \in Clients : m_keepalive[c]
  /\ part # "upnp" => p_router = {}

ClientsInit == \E p \in {"concurrent", "http clients", "udp", "upnp"} : InitOf(p)

ClientsNext ==
  \/ part = "concurrent"   /\ Concurrent!Next  /\ UNCHANGED <<part, clientVars, udpVars, upnpVars>>
  \/ part = "http clients" /\ HttpClients!Next /\ UNCHANGED <<part, concurrentVars, udpVars, upnpVars>>
  \/ part = "udp"          /\ Udp!UdpNext      /\ UNCHANGED <<part, concurrentVars, clientVars, upnpVars>>
  \/ part = "upnp"         /\ Upnp!UpnpNext    /\ UNCHANGED <<part, concurrentVars, clientVars, udpVars>>

ClientsSpec == ClientsInit /\ [][ClientsNext]_clientsVars

\* A connection whose requests name two ports of one host.
OneHostSpec ==
  /\ InitOf("one host")
  /\ [][OneHost!Next /\ UNCHANGED <<part, clientVars, udpVars, upnpVars>>]_clientsVars

\* The concurrent connection delivers to the request at the front of its queue
\* the body of that request's own response, in order, however reads cut it.
PipelinedOwnData == Concurrent!PipelinedOwnData

\* Until something fails the front of the concurrent connection's queue is
\* served, unless it is a request for another site, which on_complete() strands.
QueueServed == Concurrent!QueueServed

\* The callback of an http_client's call comes once, also when calls replace
\* each other, and a download reported as good stayed within its size; the
\* background requester holds a client only until its callback, but for ever if
\* post() returned NULL for it.
CallsAnswered ==
  HttpClients!CallbackOnce /\ HttpClients!ResultsWithinLimits /\ HttpClients!RefusedStay

\* Over datagrams that are lost, duplicated and reordered: every receive() of a
\* UDP socket is answered once, through closing and reopening, the UPnP service
\* hears the answer to its searches, and reports only mappings the gateway has.
LossyAnswers == Udp!ReceiveAnsweredOnce /\ Upnp!SearchIsHeard /\ Upnp!ReportedIsMapped

\* write_request asserts that a request is written to the host and the port of
\* its URL.
WrittenToItsSite == OneHost!WrittenToItsSite
=============================================================================
