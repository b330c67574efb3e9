----------------------------- MODULE Datagrams -----------------------------
(***************************************************************************)
(* asio_udp_socket: opened and closed any number of times while receives   *)
(* of an earlier life are still outstanding or their completions queued,   *)
(* with a network that loses, duplicates and reorders datagrams.           *)
(*                                                                         *)
(* A datagram is <<life, number>>: the life of the socket it was sent to   *)
(* and a number the sender gave it.  External: boost.asio completes the    *)
(* receives of one socket in the order they were started, and those of a   *)
(* closed socket with an error.  Datagrams of no bytes are left out: the   *)
(* assert in on_receive takes them for an error of boost.asio.             *)
(***************************************************************************)
EXTENDS Integers, Sequences

CONSTANTS MaxLives,     \* times the socket is opened
          MaxDatagrams, \* datagrams the peer sends
          MaxReceives   \* calls of receive()

VARIABLES u_open, u_life, u_listener, u_receives, u_completions, u_net, u_sent, u_log, u_calls

udpVars == <<u_open, u_life, u_listener, u_receives, u_completions, u_net, u_sent, u_log, u_calls>>

\* [libs/asio/asio_udp_socket.hpp 38-45 asio_udp_socket::asio_udp_socket]
UdpInit == /\ u_open = FALSE /\ u_life = 0
           /\ u_listener = "dummy"      \* the caller's listener, or the dummy one
           /\ u_receives = <<>>         \* receives boost.asio holds: their life
           /\ u_completions = <<>>      \* completions whose handler has not run
           /\ u_net = {} /\ u_sent = 0 /\ u_log = <<>> /\ u_calls = 0

\* [external boost::asio::ip::udp::socket::close]
\* Every outstanding receive completes with operation_aborted.
native_close ==
  /\ u_open' = FALSE
  /\ u_receives' = <<>>
  /\ u_completions' = u_completions \o [i \in DOMAIN u_receives |-> <<u_receives[i], 0>>]

\* The caller lets go of the socket when it destroys it.
Destroyed == \E i \in DOMAIN u_log : u_log[i][1] = "destroy"

\* [libs/asio/asio_udp_socket.hpp 65-68 asio_udp_socket::set_listener]
set_listener ==
  /\ u_listener = "dummy" /\ ~Destroyed
  /\ u_listener' = "caller"
  /\ UNCHANGED <<u_open, u_life, u_receives, u_completions, u_net, u_sent, u_log, u_calls>>

\* [libs/asio/asio_udp_socket.hpp 75-81 asio_udp_socket::close]
close == /\ u_open
         /\ native_close
         /\ UNCHANGED <<u_life, u_listener, u_net, u_sent, u_log, u_calls>>

\* [libs/asio/asio_udp_socket.hpp 82-86 asio_udp_socket::destroy]
destroy ==
  /\ u_listener = "caller"
  /\ u_listener' = "dummy"
  /\ native_close
  /\ u_log' = Append(u_log, <<"destroy", 0>>)
  /\ UNCHANGED <<u_life, u_net, u_sent, u_calls>>

\* [libs/asio/asio_udp_socket.hpp 101-116 asio_udp_socket::open]
\* Closed first; when the port cannot be bound the new native socket stays open.
open ==
  /\ u_life < MaxLives /\ u_listener = "caller"
  /\ u_life' = u_life + 1
  /\ \E bound \in BOOLEAN :
       /\ u_open' = TRUE
       /\ u_receives' = <<>>
       /\ u_completions' = u_completions \o [i \in DOMAIN u_receives |-> <<u_receives[i], 0>>]
       /\ u_net' = IF bound THEN u_net ELSE {d \in u_net : d[1] # u_life + 1}
  /\ UNCHANGED <<u_listener, u_sent, u_log, u_calls>>

\* [libs/asio/asio_udp_socket.hpp 118-123 asio_udp_socket::receive]
\* On a socket that is not open the receive completes with an error.
receive ==
  /\ u_calls < MaxReceives /\ u_listener = "caller"
  /\ u_calls' = u_calls + 1
  /\ IF u_open THEN /\ u_receives' = Append(u_receives, u_life)
                    /\ UNCHANGED u_completions
               ELSE /\ u_completions' = Append(u_completions, <<u_life, 0>>)
                    /\ UNCHANGED u_receives
  /\ UNCHANGED <<u_open, u_life, u_listener, u_net, u_sent, u_log>>

\* [external peer]
peer_sends ==
  /\ u_open /\ u_sent < MaxDatagrams
  /\ u_sent' = u_sent + 1
  /\ u_net' = u_net \cup {<<u_life, u_sent + 1>>}
  /\ UNCHANGED <<u_open, u_life, u_listener, u_receives, u_completions, u_log, u_calls>>

\* [external network]
\* The oldest receive takes any datagram in flight for this life; the
\* datagram may stay in flight (duplicated).
arrive ==
  /\ u_receives # <<>>
  /\ \E d \in u_net, dup \in BOOLEAN :
       /\ d[1] = u_life
       /\ u_completions' = Append(u_completions, <<u_life, d[2]>>)
       /\ u_net' = IF dup THEN u_net ELSE u_net \ {d}
  /\ u_receives' = Tail(u_receives)
  /\ UNCHANGED <<u_open, u_life, u_listener, u_sent, u_log, u_calls>>

\* [external network]
lose ==
  /\ \E d \in u_net : u_net' = u_net \ {d}
  /\ UNCHANGED <<u_open, u_life, u_listener, u_receives, u_completions, u_sent, u_log, u_calls>>

\* [libs/asio/asio_udp_socket.hpp 161-176 asio_udp_socket::on_receive]
on_receive ==
  /\ u_completions # <<>>
  /\ LET c == Head(u_completions)
     IN  u_log' = IF u_listener = "dummy" THEN u_log
                  ELSE Append(u_log, IF c[2] = 0 THEN <<"receive_failed", c[1]>>
                                                 ELSE <<"receive", c[2]>>)
  /\ u_completions' = Tail(u_completions)
  /\ UNCHANGED <<u_open, u_life, u_listener, u_receives, u_net, u_sent, u_calls>>

UdpNext == \/ set_listener \/ close \/ destroy \/ open \/ receive
           \/ peer_sends \/ arrive \/ lose \/ on_receive

-----------------------------------------------------------------------------
\* Every receive() is answered exactly once: it is outstanding, its completion
\* is queued, or the listener was called for it, through any closes and
\* reopenings; and nothing is reported to the listener after destroy().
ReceiveAnsweredOnce ==
  /\ ~Destroyed => u_calls = Len(u_receives) + Len(u_completions) + Len(u_log)
  /\ \A i \in DOMAIN u_log : u_log[i][1] = "destroy" => i = Len(u_log)
=============================================================================
