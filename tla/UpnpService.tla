---------------------------- MODULE UpnpService ----------------------------
(***************************************************************************)
(* upnp_service_impl: searching the gateway with UDP broadcasts, reading   *)
(* its description, walking its list of port mappings and adding one, with *)
(* answers that are lost, duplicated or come from several devices, and     *)
(* HTTP requests that fail.  One http_client serves all requests, so a new *)
(* request replaces the one that is under way.                             *)
(*                                                                         *)
(* Abstracted: SOAP and XML texts, addresses (a device is on the LAN or    *)
(* not), protocol and lease.  map_port is called once.                     *)
(***************************************************************************)
EXTENDS Integers, Sequences, FiniteSets

CONSTANTS MaxSearches,    \* searches before the timer is given up (300 in the code)
          MaxIndex,       \* mappings read before giving up (100 in the code)
          MaxRetries,     \* m_mapping_port_times' limit (5 in the code)
          MaxAnswers      \* bound on search answers that reach the socket

VARIABLES p_finished, p_igd, p_timer, p_searches, p_receives, p_request, p_port,
          p_times, p_router, p_told, p_answers, p_recvFailed

upnpVars == <<p_finished, p_igd, p_timer, p_searches, p_receives, p_request, p_port,
              p_times, p_router, p_told, p_answers, p_recvFailed>>

Idle == [kind |-> "none", arg |-> 0, done |-> FALSE]

\* [net/detail/upnp_service_impl.hpp 41-60 upnp_service_impl::upnp_service_impl]
UpnpInit ==
  /\ p_finished = TRUE /\ p_igd = "" /\ p_timer = FALSE /\ p_searches = 0
  /\ p_receives = 0 /\ p_request = Idle /\ p_port = 0 /\ p_times = 0
  /\ p_router \in {{}, {<<"ours", 7>>}, {<<"other", 0>>}}
  /\ p_told = <<>> /\ p_answers = 0 /\ p_recvFailed = FALSE

\* [net/detail/upnp_service_impl.hpp 132-153 upnp_service_impl::search_root_device]
\* Stops the timer once any device has answered, or after too many searches;
\* whether the interval since the last search has passed is left open.
search_root_device(timer) ==
  IF p_igd # "" THEN p_timer' = FALSE /\ UNCHANGED p_searches
  ELSE \/ p_timer' = timer /\ UNCHANGED p_searches
       \/ /\ p_searches <= MaxSearches
          /\ p_searches' = p_searches + 1
          /\ p_timer' = (timer /\ p_searches < MaxSearches)

\* [net/detail/upnp_service_impl.hpp 75-90 upnp_service_impl::map_port]
map_port ==
  /\ p_finished /\ p_told = <<>> /\ p_receives = 0
  /\ p_finished' = FALSE
  /\ p_receives' = p_receives + 1
  /\ search_root_device(TRUE)
  /\ UNCHANGED <<p_igd, p_request, p_port, p_times, p_router, p_told, p_answers, p_recvFailed>>

\* [net/detail/upnp_service_impl.hpp 97-100 upnp_service_impl::on_tick]
on_tick ==
  /\ p_timer
  /\ search_root_device(TRUE)
  /\ UNCHANGED <<p_finished, p_igd, p_receives, p_request, p_port, p_times, p_router,
                 p_told, p_answers, p_recvFailed>>

\* [net/detail/upnp_service_impl.hpp 375-384 upnp_service_impl::is_lan_ip]
is_lan_ip(device) == device = "lan"

\* [net/detail/upnp_service_impl.hpp 102-122 upnp_service_impl::on_socket_receive]
\* The device is remembered before it is looked at.  The download replaces
\* whatever the client was doing.
on_socket_receive ==
  /\ p_receives > 0 /\ p_searches > 0 /\ p_answers < MaxAnswers
  /\ p_answers' = p_answers + 1
  /\ IF p_finished
     THEN p_receives' = p_receives - 1 /\ UNCHANGED <<p_igd, p_request>>
     ELSE \E device \in {"lan", "wan"} :
            /\ p_igd' = device
            /\ p_request' = IF is_lan_ip(device) THEN [Idle EXCEPT !.kind = "igd"] ELSE p_request
            /\ UNCHANGED p_receives
  /\ UNCHANGED <<p_finished, p_timer, p_searches, p_port, p_times, p_router, p_told, p_recvFailed>>

\* [net/detail/upnp_service_impl.hpp 123-129 upnp_service_impl::on_socket_receive_failed]
\* Receives again only when a device is already known.
on_socket_receive_failed ==
  /\ p_receives > 0 /\ ~p_recvFailed
  /\ p_recvFailed' = TRUE
  /\ p_receives' = IF p_igd = "" THEN p_receives - 1 ELSE p_receives
  /\ UNCHANGED <<p_finished, p_igd, p_timer, p_searches, p_request, p_port, p_times,
                 p_router, p_told, p_answers>>

\* [external gateway]
\* The gateway carries out the request that is under way: it adds a mapping
\* unless the external port is taken, and its answer may still be lost.
gateway ==
  /\ p_request.kind = "add" /\ ~p_request.done
  /\ ~\E m \in p_router : m[2] = p_request.arg /\ m[1] = "other"
  /\ p_router' = p_router \cup {<<"ours", p_request.arg>>}
  /\ p_request' = [p_request EXCEPT !.done = TRUE]
  /\ UNCHANGED <<p_finished, p_igd, p_timer, p_searches, p_receives, p_port, p_times,
                 p_told, p_answers, p_recvFailed>>

\* [net/detail/upnp_service_impl.hpp 219-230 upnp_service_impl::upnp_request]
upnp_request(kind, arg) == [kind |-> kind, arg |-> arg, done |-> FALSE]

\* [net/detail/upnp_service_impl.hpp 231-236 upnp_service_impl::get_mapped_port]
get_mapped_port(index) == upnp_request("get", index)

\* [net/detail/upnp_service_impl.hpp 284-296 upnp_service_impl::add_port_mapping]
add_port_mapping(port) == upnp_request("add", port)

\* [net/detail/upnp_service_impl.hpp 162-218 upnp_service_impl::parse_device_description]
\* A description that names a connection service with a control URL.
parse_device_description(described) == IF described THEN get_mapped_port(0) ELSE Idle

\* [net/detail/upnp_service_impl.hpp 154-161 upnp_service_impl::on_igd]
on_igd ==
  /\ p_request.kind = "igd"
  /\ \E described \in BOOLEAN : p_request' = parse_device_description(described)
  /\ UNCHANGED <<p_finished, p_igd, p_timer, p_searches, p_receives, p_port, p_times,
                 p_router, p_told, p_answers, p_recvFailed>>

\* The caller is told how it ended; p_told keeps what it was told.
Tell(what, port) == p_told' = Append(p_told, <<what, port>>)

\* [net/detail/upnp_service_impl.hpp 342-366 upnp_service_impl::parse_port_mapping_info]
\* What the gateway answers for an index: one of its mappings, or something
\* that cannot be parsed.
parse_port_mapping_info == p_router \cup {<<"unreadable", 0>>}

\* [net/detail/upnp_service_impl.hpp 237-283 upnp_service_impl::on_get_mapped_port]
on_get_mapped_port ==
  /\ p_request.kind = "get"
  /\ \/ \E m \in parse_port_mapping_info :
          \/ /\ m[1] = "ours"
             /\ Tell("mapped", m[2])
             /\ p_timer' = FALSE /\ p_finished' = TRUE /\ p_request' = Idle
          \/ /\ m[1] = "other"
             /\ IF p_request.arg > MaxIndex
                THEN /\ Tell("failed", p_port)
                     /\ p_timer' = FALSE /\ p_finished' = TRUE /\ p_request' = Idle
                ELSE /\ p_request' = get_mapped_port(p_request.arg + 1)
                     /\ UNCHANGED <<p_timer, p_finished, p_told>>
          \/ /\ m[1] = "unreadable"
             /\ Tell("failed", p_port)
             /\ p_timer' = FALSE /\ p_finished' = TRUE /\ p_request' = Idle
     \/ /\ p_request' = add_port_mapping(p_port)
        /\ UNCHANGED <<p_timer, p_finished, p_told>>
  /\ UNCHANGED <<p_igd, p_searches, p_receives, p_port, p_times, p_router, p_answers, p_recvFailed>>

\* Mutant of on_add_mapping: the next port is taken before the answer is read.
on_add_mapping_counts_first ==
  /\ p_request.kind = "add"
  /\ p_times < MaxRetries
  /\ p_times' = p_times + 1 /\ p_port' = p_port + p_times + 1
  /\ IF p_request.done THEN Tell("mapped", p_port') /\ p_request' = Idle
                       ELSE UNCHANGED p_told /\ p_request' = add_port_mapping(p_port')
  /\ UNCHANGED <<p_finished, p_igd, p_timer, p_searches, p_receives, p_router, p_answers, p_recvFailed>>

\* [net/detail/upnp_service_impl.hpp 297-319 upnp_service_impl::on_add_mapping]
\* Success needs the gateway's answer; anything else is tried again with
\* another external port, MaxRetries times over the life of the service.
on_add_mapping ==
  /\ p_request.kind = "add"
  /\ \/ /\ p_request.done
        /\ Tell("mapped", p_port)
        /\ p_request' = Idle
        /\ UNCHANGED <<p_port, p_times>>
     \/ /\ p_times < MaxRetries
        /\ p_times' = p_times + 1
        /\ p_port' = p_port + p_times + 1
        /\ p_request' = add_port_mapping(p_port')
        /\ UNCHANGED p_told
     \/ /\ p_times >= MaxRetries
        /\ p_times' = p_times + 1
        /\ Tell("failed", p_port)
        /\ p_request' = Idle
        /\ UNCHANGED p_port
  /\ UNCHANGED <<p_finished, p_igd, p_timer, p_searches, p_receives, p_router, p_answers, p_recvFailed>>

UpnpNext == \/ map_port \/ on_tick \/ on_socket_receive \/ on_socket_receive_failed
            \/ gateway \/ on_igd \/ on_get_mapped_port \/ on_add_mapping

-----------------------------------------------------------------------------
\* on_upnp_port_mapped is only reported for a mapping the gateway has, with the
\* external port it really has, whatever requests were replaced, retried on
\* another port or lost after the gateway had carried them out.
ReportedIsMapped ==
  \A i \in DOMAIN p_told :
    p_told[i][1] = "mapped" => <<"ours", p_told[i][2]>> \in p_router

\* While a mapping is wanted and no gateway is known, a receive is outstanding
\* for the answer the timer keeps asking for, unless a receive has failed
\* (on_socket_receive_failed then gives up receiving but not searching).
SearchIsHeard == ~p_finished /\ ~p_recvFailed => p_receives > 0
=============================================================================
