---------------------------- MODULE ClientsProofs ----------------------------
(***************************************************************************)
(* Theorems about the clients of MCClients: the concurrent connection, the *)
(* UDP socket, the UPnP service and the HTTP clients, for every value of   *)
(* their bounds.                                                           *)
(***************************************************************************)
EXTENDS MCClients, SequenceTheorems, TLAPS

-----------------------------------------------------------------------------
(* asio_udp_socket.                                                        *)

Answers == {"receive", "receive_failed", "destroy"} \X Nat

UdpType ==
  /\ u_open \in BOOLEAN /\ u_life \in Nat /\ u_listener \in {"dummy", "caller"}
  /\ u_receives \in Seq(Nat) /\ u_completions \in Seq(Nat \X Nat) /\ u_net \subseteq Nat \X Nat
  /\ u_sent \in Nat /\ u_log \in Seq(Answers) /\ u_calls \in Nat

\* No listener means that none was set yet or that the socket was destroyed.
WithoutListener ==
  u_listener = "dummy" /\ ~Udp!Destroyed => u_completions = <<>> /\ u_receives = <<>>
SilentAfterDestroy == Udp!Destroyed => u_listener = "dummy"

UdpInv == UdpType /\ WithoutListener /\ SilentAfterDestroy /\ Udp!ReceiveAnsweredOnce

-----------------------------------------------------------------------------
(* upnp_service_impl.                                                      *)

UpnpType ==
  /\ p_finished \in BOOLEAN /\ p_recvFailed \in BOOLEAN /\ p_receives \in Nat
  /\ p_request \in [kind : {"none", "igd", "get", "add"}, arg : Nat, done : BOOLEAN]
  /\ p_port \in Nat /\ p_times \in Nat /\ p_router \subseteq {"ours", "other"} \X Nat
  /\ p_told \in Seq({"mapped", "failed"} \X Nat)

\* The request to add a mapping is for the port that will be reported, and the
\* gateway has what it has answered.
AddsThePort ==
  p_request.kind = "add" =>
    p_request.arg = p_port /\ (p_request.done => <<"ours", p_port>> \in p_router)

UpnpInv == UpnpType /\ AddsThePort /\ Upnp!ReportedIsMapped /\ Upnp!SearchIsHeard

-----------------------------------------------------------------------------
(* http_client and background_http_requester_impl.                         *)

Handlers == [call : Nat, kind : HttpClients!Kinds \cup {"none"}, content_length : Int, size : Nat]

ClientType ==
  /\ m_keepalive \in [Clients -> BOOLEAN] /\ m_http_handler \in [Clients -> Handlers]
  /\ listening \in [Clients -> BOOLEAN] /\ exchange \in [Clients -> {"none", "sent", "header"}]
  /\ calls \in Seq(Clients \X (HttpClients!Kinds \cup {"invalid", "refused"})) /\ Len(calls) <= MaxCalls
  /\ results \in [1 .. MaxCalls -> Seq(Int)] /\ posted \subseteq DOMAIN calls /\ m_clients \subseteq Clients

\* The handler of a client is that of one of its calls.
HandlersOfCalls ==
  \A c \in Clients :
    m_http_handler[c].call # 0 =>
      /\ m_http_handler[c].call \in DOMAIN calls /\ m_http_handler[c].kind \in HttpClients!Kinds
      /\ calls[m_http_handler[c].call] = <<c, m_http_handler[c].kind>>

\* A posted callback is the only one of its call.
PostedOnce ==
  /\ \A k \in posted : results[k] = <<>> /\ calls[k][2] = "invalid"
  /\ \A k \in 1 .. MaxCalls : k > Len(calls) => results[k] = <<>>

\* A connection that works has its client's handler as the listener, and that
\* handler's callback is still to come; a head request's came with the header.
Working ==
  \A c \in Clients : exchange[c] # "none" =>
    LET h == m_http_handler[c]
    IN  /\ listening[c] /\ h.call # 0
        /\ exchange[c] = "sent" \/ h.kind # "head" => results[h.call] = <<>>
        /\ exchange[c] = "header" /\ h.kind = "head" => results[h.call] # <<>> /\ m_keepalive[c]
        /\ h.size <= MaxSize

ClientInv ==
  /\ ClientType /\ HandlersOfCalls /\ PostedOnce /\ Working
  /\ HttpClients!CallbackOnce /\ HttpClients!ResultsWithinLimits

-----------------------------------------------------------------------------
(* The UDP socket's receives.                                              *)

\* Closing the socket completes every outstanding receive with an error.
LEMMA UdpAborts ==
  ASSUME UdpType
  PROVE  /\ u_completions \o [i \in DOMAIN u_receives |-> <<u_receives[i], 0>>] \in Seq(Nat \X Nat)
         /\ Len(u_completions \o [i \in DOMAIN u_receives |-> <<u_receives[i], 0>>])
              = Len(u_completions) + Len(u_receives)
         /\ u_completions = <<>> /\ u_receives = <<>> =>
              u_completions \o [i \in DOMAIN u_receives |-> <<u_receives[i], 0>>] = <<>>
<1> DEFINE a == [i \in DOMAIN u_receives |-> <<u_receives[i], 0>>]
<1>1. u_receives \in Seq(Nat) /\ u_completions \in Seq(Nat \X Nat)
  BY DEF UdpType
<1>2. /\ Len(u_receives) \in Nat /\ DOMAIN u_receives = 1 .. Len(u_receives)
      /\ \A i \in 1 .. Len(u_receives) : u_receives[i] \in Nat
  BY <1>1, LenProperties, ElementOfSeq
<1>3. a = [i \in 1 .. Len(u_receives) |-> <<u_receives[i], 0>>]
  BY <1>2
<1>4. \A i \in 1 .. Len(u_receives) : <<u_receives[i], 0>> \in Nat \X Nat
  BY <1>2
<1> HIDE DEF a
<1>5. a \in Seq(Nat \X Nat) /\ Len(a) = Len(u_receives)
  BY <1>2, <1>3, <1>4
<1>6. u_completions \o a \in Seq(Nat \X Nat) /\ Len(u_completions \o a) = Len(u_completions) + Len(u_receives)
  <2>1. u_completions \o a \in Seq(Nat \X Nat)
    BY <1>1, <1>5, ConcatProperties
  <2>2. Len(u_completions \o a) = Len(u_completions) + Len(a)
    BY <1>1, <1>5, ConcatProperties
  <2> QED
    BY <1>5, <2>1, <2>2
<1>7. ASSUME u_completions = <<>>, u_receives = <<>> PROVE u_completions \o a = <<>>
  <2>1. Len(u_completions \o a) = 0
    BY <1>6, <1>7, EmptySeq
  <2> QED
    BY <1>6, <2>1, EmptySeq
<1> QED
  BY <1>6, <1>7 DEF a

\* The listener is called, or destroy() is.
LEMMA UdpReports ==
  ASSUME UdpType, NEW e \in Answers, ~Udp!Destroyed, u_log' = Append(u_log, e)
  PROVE  /\ u_log' \in Seq(Answers) /\ Len(u_log') = Len(u_log) + 1 /\ Len(u_log) \in Nat
         /\ Udp!Destroyed' <=> e[1] = "destroy"
         /\ \A i \in DOMAIN u_log' : u_log'[i][1] = "destroy" => i = Len(u_log')
<1>1. u_log \in Seq(Answers)
  BY DEF UdpType
<1>2. /\ u_log' \in Seq(Answers) /\ Len(u_log') = Len(u_log) + 1
      /\ \A i \in 1 .. Len(u_log) : u_log'[i] = u_log[i]
      /\ u_log'[Len(u_log) + 1] = e
  BY <1>1, AppendProperties
<1>3. Len(u_log) \in Nat /\ DOMAIN u_log = 1 .. Len(u_log) /\ DOMAIN u_log' = 1 .. Len(u_log) + 1
  BY <1>1, <1>2, LenProperties
<1>4. \A i \in DOMAIN u_log' : i = Len(u_log) + 1 \/ (i \in DOMAIN u_log /\ u_log'[i] = u_log[i])
  BY <1>2, <1>3
<1>5. \A i \in DOMAIN u_log' : u_log'[i][1] = "destroy" => i = Len(u_log')
  BY <1>2, <1>4 DEF Udp!Destroyed
<1>6. Len(u_log) + 1 \in DOMAIN u_log'
  BY <1>3
<1>7. Udp!Destroyed' <=> e[1] = "destroy"
  BY <1>2, <1>4, <1>6 DEF Udp!Destroyed
<1> QED
  BY <1>2, <1>3, <1>5, <1>7

\* A socket that was never opened.
LEMMA UdpInitially == Udp!UdpInit => UdpInv
<1> SUFFICES ASSUME Udp!UdpInit PROVE UdpInv
  OBVIOUS
<1>1. UdpType
  BY EmptySeq DEF Udp!UdpInit, UdpType
<1>2. ~Udp!Destroyed
  BY DEF Udp!UdpInit, Udp!Destroyed
<1>3. u_calls = Len(u_receives) + Len(u_completions) + Len(u_log)
  BY EmptySeq DEF Udp!UdpInit
<1> QED
  BY <1>1, <1>2, <1>3 DEF Udp!UdpInit, UdpInv, WithoutListener, SilentAfterDestroy, Udp!ReceiveAnsweredOnce

\* Every step of the socket, its caller and the network keeps the invariant.
LEMMA UdpStep ==
  ASSUME UdpInv, Udp!UdpNext
  PROVE  UdpInv'
<1> USE DEF UdpInv
<1>0. /\ Len(u_receives) \in Nat /\ Len(u_completions) \in Nat /\ Len(u_log) \in Nat /\ Len(<<>>) = 0
      /\ <<>> \in Seq(Nat)
  BY LenProperties, EmptySeq DEF UdpType
<1>1. CASE Udp!set_listener
  <2>1. UdpType'
    BY <1>1 DEF Udp!set_listener, UdpType
  <2>2. u_log' = u_log /\ u_listener' = "caller" /\ UNCHANGED <<u_receives, u_completions, u_calls>> /\ ~Udp!Destroyed
    BY <1>1 DEF Udp!set_listener
  <2>3. ~Udp!Destroyed'
    BY <2>2 DEF Udp!Destroyed
  <2> QED
    BY <2>1, <2>2, <2>3 DEF WithoutListener, SilentAfterDestroy, Udp!ReceiveAnsweredOnce
<1>2. CASE Udp!close \/ Udp!open
  <2>1. /\ u_receives' = <<>> /\ UNCHANGED <<u_log, u_calls, u_listener>>
        /\ u_completions' = u_completions \o [i \in DOMAIN u_receives |-> <<u_receives[i], 0>>]
    BY <1>2 DEF Udp!close, Udp!open, Udp!native_close
  <2>2. u_open' \in BOOLEAN /\ u_life' \in Nat /\ u_sent' = u_sent /\ u_net' \subseteq u_net
    <3>1. CASE Udp!close
      BY <3>1 DEF Udp!close, Udp!native_close, UdpType
    <3>2. CASE Udp!open
      <4>1. u_open' = TRUE /\ u_life' = u_life + 1 /\ u_sent' = u_sent
        BY <3>2 DEF Udp!open
      <4>2. u_net' \subseteq u_net
        BY <3>2 DEF Udp!open
      <4>3. u_life \in Nat
        BY DEF UdpType
      <4> QED
        BY <4>1, <4>2, <4>3
    <3> QED
      BY <1>2, <3>1, <3>2
  <2>3. /\ u_completions' \in Seq(Nat \X Nat) /\ Len(u_completions') = Len(u_completions) + Len(u_receives)
        /\ u_completions = <<>> /\ u_receives = <<>> => u_completions' = <<>>
    BY <2>1, UdpAborts
  <2>4. UdpType'
    BY <1>0, <2>1, <2>2, <2>3 DEF UdpType
  <2>5. Udp!Destroyed' <=> Udp!Destroyed
    BY <2>1 DEF Udp!Destroyed
  <2>6. WithoutListener' /\ SilentAfterDestroy'
    BY <2>1, <2>3, <2>5 DEF WithoutListener, SilentAfterDestroy
  <2>7. Udp!ReceiveAnsweredOnce'
    <3>1. ASSUME ~Udp!Destroyed PROVE u_calls' = Len(u_receives') + Len(u_completions') + Len(u_log')
      <4>1. u_calls = Len(u_receives) + Len(u_completions) + Len(u_log)
        BY <3>1 DEF Udp!ReceiveAnsweredOnce
      <4>2. Len(u_receives') = 0 /\ Len(u_log') = Len(u_log) /\ u_calls' = u_calls
        BY <1>0, <2>1
      <4> QED
        BY <1>0, <2>3, <4>1, <4>2
    <3> QED
      BY <2>1, <2>5, <3>1 DEF Udp!ReceiveAnsweredOnce
  <2> QED
    BY <2>4, <2>6, <2>7
<1>3. CASE Udp!destroy
  <2>1. /\ u_receives' = <<>> /\ u_listener = "caller" /\ u_listener' = "dummy" /\ u_open' = FALSE
        /\ u_completions' = u_completions \o [i \in DOMAIN u_receives |-> <<u_receives[i], 0>>]
        /\ u_log' = Append(u_log, <<"destroy", 0>>) /\ UNCHANGED <<u_life, u_net, u_sent, u_calls>>
    BY <1>3 DEF Udp!destroy, Udp!native_close
  <2>2. <<"destroy", 0>> \in Answers /\ <<"destroy", 0>>[1] = "destroy" /\ ~Udp!Destroyed
    BY <2>1 DEF Answers, SilentAfterDestroy
  <2>3. /\ u_log' \in Seq(Answers) /\ Udp!Destroyed'
        /\ \A i \in DOMAIN u_log' : u_log'[i][1] = "destroy" => i = Len(u_log')
    BY <2>1, <2>2, UdpReports
  <2>4. u_completions' \in Seq(Nat \X Nat)
    BY <2>1, UdpAborts
  <2>5. UdpType'
    BY <1>0, <2>1, <2>3, <2>4 DEF UdpType
  <2> QED
    BY <2>1, <2>3, <2>5 DEF WithoutListener, SilentAfterDestroy, Udp!ReceiveAnsweredOnce
<1>4. CASE Udp!receive
  <2>1. /\ u_listener = "caller" /\ u_calls' = u_calls + 1 /\ UNCHANGED <<u_open, u_life, u_listener, u_net, u_sent, u_log>>
        /\ \/ u_receives' = Append(u_receives, u_life) /\ u_completions' = u_completions
           \/ u_completions' = Append(u_completions, <<u_life, 0>>) /\ u_receives' = u_receives
    BY <1>4 DEF Udp!receive
  <2>2. /\ u_receives' \in Seq(Nat) /\ u_completions' \in Seq(Nat \X Nat)
        /\ Len(u_receives') + Len(u_completions') = Len(u_receives) + Len(u_completions) + 1
        /\ Len(u_receives') \in Nat /\ Len(u_completions') \in Nat
    <3>1. u_receives \in Seq(Nat) /\ u_completions \in Seq(Nat \X Nat) /\ u_life \in Nat /\ <<u_life, 0>> \in Nat \X Nat
      BY DEF UdpType
    <3>2. /\ Append(u_receives, u_life) \in Seq(Nat) /\ Len(Append(u_receives, u_life)) = Len(u_receives) + 1
          /\ Append(u_completions, <<u_life, 0>>) \in Seq(Nat \X Nat)
          /\ Len(Append(u_completions, <<u_life, 0>>)) = Len(u_completions) + 1
      BY <3>1, AppendProperties
    <3>3. CASE u_receives' = Append(u_receives, u_life) /\ u_completions' = u_completions
      <4>1. Len(u_receives') = Len(u_receives) + 1 /\ Len(u_completions') = Len(u_completions)
        BY <3>2, <3>3
      <4> QED
        BY <1>0, <3>1, <3>2, <3>3, <4>1
    <3>4. CASE u_completions' = Append(u_completions, <<u_life, 0>>) /\ u_receives' = u_receives
      <4>1. Len(u_completions') = Len(u_completions) + 1 /\ Len(u_receives') = Len(u_receives)
        BY <3>2, <3>4
      <4> QED
        BY <1>0, <3>1, <3>2, <3>4, <4>1
    <3> QED
      BY <2>1, <3>3, <3>4
  <2>3. UdpType'
    <3>1. u_calls \in Nat /\ u_calls + 1 \in Nat
      BY DEF UdpType
    <3> QED
      BY <2>1, <2>2, <3>1 DEF UdpType
  <2>4. Udp!Destroyed' <=> Udp!Destroyed
    BY <2>1 DEF Udp!Destroyed
  <2>5. Udp!ReceiveAnsweredOnce'
    <3>1. ASSUME ~Udp!Destroyed PROVE u_calls' = Len(u_receives') + Len(u_completions') + Len(u_log')
      <4>1. u_calls = Len(u_receives) + Len(u_completions) + Len(u_log)
        BY <3>1 DEF Udp!ReceiveAnsweredOnce
      <4>2. Len(u_log') = Len(u_log) /\ u_calls' = u_calls + 1
        BY <2>1
      <4>3. /\ Len(u_receives') \in Nat /\ Len(u_completions') \in Nat
            /\ Len(u_receives') + Len(u_completions') = Len(u_receives) + Len(u_completions) + 1
        BY <2>2
      <4>4. Len(u_receives) \in Nat /\ Len(u_completions) \in Nat /\ Len(u_log) \in Nat
        BY <1>0
      <4> QED
        BY <4>1, <4>2, <4>3, <4>4
    <3> QED
      BY <2>1, <2>4, <3>1 DEF Udp!ReceiveAnsweredOnce
  <2> QED
    BY <2>1, <2>3, <2>4, <2>5 DEF WithoutListener, SilentAfterDestroy
<1>5. CASE Udp!peer_sends \/ Udp!lose
  <2>1. UNCHANGED <<u_open, u_life, u_listener, u_receives, u_completions, u_log, u_calls>>
    BY <1>5 DEF Udp!peer_sends, Udp!lose
  <2>2. u_net' \subseteq Nat \X Nat /\ u_sent' \in Nat
    BY <1>5 DEF Udp!peer_sends, Udp!lose, UdpType
  <2>3. UdpType'
    BY <2>1, <2>2 DEF UdpType
  <2> QED
    BY <2>1, <2>3 DEF WithoutListener, SilentAfterDestroy, Udp!ReceiveAnsweredOnce, Udp!Destroyed
<1>6. CASE Udp!arrive
  <2>1. /\ u_receives # <<>> /\ u_receives' = Tail(u_receives)
        /\ UNCHANGED <<u_open, u_life, u_listener, u_sent, u_log, u_calls>>
    BY <1>6 DEF Udp!arrive
  <2>2. PICK d \in u_net : u_completions' = Append(u_completions, <<u_life, d[2]>>) /\ u_net' \subseteq u_net
    BY <1>6 DEF Udp!arrive
  <2>3. /\ u_receives' \in Seq(Nat) /\ Len(u_receives') = Len(u_receives) - 1
        /\ u_completions' \in Seq(Nat \X Nat) /\ Len(u_completions') = Len(u_completions) + 1
    <3>1. u_receives \in Seq(Nat) /\ u_completions \in Seq(Nat \X Nat) /\ <<u_life, d[2]>> \in Nat \X Nat
      BY DEF UdpType
    <3> QED
      BY <2>1, <2>2, <3>1, AppendProperties, HeadTailProperties
  <2>4. UdpType'
    BY <2>1, <2>2, <2>3 DEF UdpType
  <2>5. Udp!Destroyed' <=> Udp!Destroyed
    BY <2>1 DEF Udp!Destroyed
  <2>6. Udp!ReceiveAnsweredOnce'
    <3>1. ASSUME ~Udp!Destroyed PROVE u_calls' = Len(u_receives') + Len(u_completions') + Len(u_log')
      <4>1. u_calls = Len(u_receives) + Len(u_completions) + Len(u_log)
        BY <3>1 DEF Udp!ReceiveAnsweredOnce
      <4>2. Len(u_log') = Len(u_log) /\ u_calls' = u_calls
        BY <2>1
      <4> QED
        BY <1>0, <2>3, <4>1, <4>2
    <3> QED
      BY <2>1, <2>5, <3>1 DEF Udp!ReceiveAnsweredOnce
  <2> QED
    BY <2>1, <2>4, <2>5, <2>6 DEF WithoutListener, SilentAfterDestroy
<1>7. CASE Udp!on_receive
  <2>1. /\ u_completions # <<>> /\ u_completions' = Tail(u_completions)
        /\ UNCHANGED <<u_open, u_life, u_listener, u_receives, u_net, u_sent, u_calls>>
    BY <1>7 DEF Udp!on_receive
  <2>2. /\ u_completions' \in Seq(Nat \X Nat) /\ Len(u_completions') = Len(u_completions) - 1
        /\ Head(u_completions) \in Nat \X Nat
    <3>1. u_completions \in Seq(Nat \X Nat)
      BY DEF UdpType
    <3> QED
      BY <2>1, <3>1, HeadTailProperties
  <2>3. CASE u_listener = "dummy"
    <3>1. u_log' = u_log /\ Udp!Destroyed
      BY <1>7, <2>1, <2>3 DEF Udp!on_receive, WithoutListener
    <3>2. Udp!Destroyed'
      BY <3>1 DEF Udp!Destroyed
    <3>3. UdpType'
      BY <2>1, <2>2, <3>1 DEF UdpType
    <3> QED
      BY <2>1, <2>3, <3>1, <3>2, <3>3 DEF WithoutListener, SilentAfterDestroy, Udp!ReceiveAnsweredOnce
  <2>4. CASE u_listener # "dummy"
    <3>1. ~Udp!Destroyed
      BY <2>4 DEF SilentAfterDestroy
    <3>2. PICK e \in Answers : u_log' = Append(u_log, e) /\ e[1] # "destroy"
      <4>1. /\ <<"receive_failed", Head(u_completions)[1]>> \in Answers
            /\ <<"receive", Head(u_completions)[2]>> \in Answers
        BY <2>2 DEF Answers
      <4> QED
        BY <1>7, <2>4, <4>1 DEF Udp!on_receive
    <3>3. u_log' \in Seq(Answers) /\ Len(u_log') = Len(u_log) + 1 /\ ~Udp!Destroyed'
      BY <3>1, <3>2, UdpReports
    <3>4. UdpType'
      BY <2>1, <2>2, <3>3 DEF UdpType
    <3>5. u_calls' = Len(u_receives') + Len(u_completions') + Len(u_log')
      BY <1>0, <2>1, <2>2, <3>1, <3>3 DEF Udp!ReceiveAnsweredOnce, UdpType
    <3> QED
      BY <2>1, <2>4, <3>3, <3>4, <3>5 DEF WithoutListener, SilentAfterDestroy, Udp!ReceiveAnsweredOnce, Udp!Destroyed
  <2> QED
    BY <2>3, <2>4
<1> QED
  BY <1>1, <1>2, <1>3, <1>4, <1>5, <1>6, <1>7 DEF Udp!UdpNext

-----------------------------------------------------------------------------
(* The UPnP service's reports.                                             *)

\* The caller is told something: a mapping only if the gateway has it.
LEMMA UpnpTells ==
  ASSUME UpnpInv, NEW what \in {"mapped", "failed"}, NEW port \in Nat, Upnp!Tell(what, port), p_router' = p_router,
         what = "mapped" => <<"ours", port>> \in p_router
  PROVE  p_told' \in Seq({"mapped", "failed"} \X Nat) /\ Upnp!ReportedIsMapped'
<1>1. p_told \in Seq({"mapped", "failed"} \X Nat) /\ p_told' = Append(p_told, <<what, port>>)
  BY DEF UpnpInv, UpnpType, Upnp!Tell
<1>2. <<what, port>> \in {"mapped", "failed"} \X Nat
  OBVIOUS
<1>3. /\ p_told' \in Seq({"mapped", "failed"} \X Nat) /\ Len(p_told') = Len(p_told) + 1
      /\ \A i \in 1 .. Len(p_told) : p_told'[i] = p_told[i]
      /\ p_told'[Len(p_told) + 1] = <<what, port>>
  BY <1>1, <1>2, AppendProperties
<1>4. Len(p_told) \in Nat /\ DOMAIN p_told = 1 .. Len(p_told) /\ DOMAIN p_told' = 1 .. Len(p_told) + 1
  BY <1>1, <1>3, LenProperties
<1>5. ASSUME NEW i \in DOMAIN p_told', p_told'[i][1] = "mapped"
      PROVE  <<"ours", p_told'[i][2]>> \in p_router'
  <2>1. CASE i = Len(p_told) + 1
    <3>1. p_told'[i] = <<what, port>>
      BY <1>3, <2>1
    <3>2. p_told'[i][1] = what /\ p_told'[i][2] = port
      BY <3>1
    <3> QED
      BY <1>5, <3>2
  <2>2. CASE i # Len(p_told) + 1
    <3>1. i \in DOMAIN p_told /\ p_told'[i] = p_told[i]
      BY <1>3, <1>4, <1>5, <2>2
    <3> QED
      BY <1>5, <3>1 DEF UpnpInv, Upnp!ReportedIsMapped
  <2> QED
    BY <2>1, <2>2
<1> QED
  BY <1>3, <1>5 DEF Upnp!ReportedIsMapped

\* A service that searches nothing yet.
LEMMA UpnpInitially == Upnp!UpnpInit => UpnpInv
<1> SUFFICES ASSUME Upnp!UpnpInit PROVE UpnpInv
  OBVIOUS
<1>1. p_router \subseteq {"ours", "other"} \X Nat
  <2>1. <<"ours", 7>> \in {"ours", "other"} \X Nat /\ <<"other", 0>> \in {"ours", "other"} \X Nat
    OBVIOUS
  <2>2. p_router \in {{}, {<<"ours", 7>>}, {<<"other", 0>>}}
    BY DEF Upnp!UpnpInit
  <2> QED
    BY <2>1, <2>2, Zenon
<1>2. p_request \in [kind : {"none", "igd", "get", "add"}, arg : Nat, done : BOOLEAN]
  BY DEF Upnp!UpnpInit, Upnp!Idle
<1>3. p_told \in Seq({"mapped", "failed"} \X Nat) /\ DOMAIN p_told = {}
  <2>1. p_told = <<>>
    BY DEF Upnp!UpnpInit
  <2> QED
    BY <2>1
<1>4. UpnpType
  BY <1>1, <1>2, <1>3 DEF Upnp!UpnpInit, UpnpType
<1>5. AddsThePort /\ Upnp!SearchIsHeard
  BY DEF Upnp!UpnpInit, Upnp!Idle, AddsThePort, Upnp!SearchIsHeard
<1> QED
  BY <1>3, <1>4, <1>5 DEF UpnpInv, Upnp!ReportedIsMapped

\* Every step of the service, the network and the gateway keeps the invariant.
LEMMA UpnpStep ==
  ASSUME UpnpInv, Upnp!UpnpNext
  PROVE  UpnpInv'
<1> DEFINE Requests == [kind : {"none", "igd", "get", "add"}, arg : Nat, done : BOOLEAN]
<1> USE DEF UpnpInv
<1>0. p_receives \in Nat /\ p_request \in Requests /\ p_port \in Nat /\ p_times \in Nat
  BY DEF UpnpType
<1>1. CASE Upnp!map_port
  <2>1. /\ p_receives' = p_receives + 1 /\ p_finished' = FALSE
        /\ UNCHANGED <<p_request, p_port, p_times, p_router, p_told, p_recvFailed>>
    BY <1>1 DEF Upnp!map_port
  <2>2. p_receives' \in Nat /\ p_receives' > 0
    BY <1>0, <2>1
  <2>3. UpnpType'
    BY <2>1, <2>2 DEF UpnpType
  <2> QED
    BY <2>1, <2>2, <2>3 DEF AddsThePort, Upnp!ReportedIsMapped, Upnp!SearchIsHeard
<1>2. CASE Upnp!on_tick
  <2>1. UNCHANGED <<p_finished, p_receives, p_request, p_port, p_times, p_router, p_told, p_recvFailed>>
    BY <1>2 DEF Upnp!on_tick
  <2> QED
    BY <2>1 DEF UpnpType, AddsThePort, Upnp!ReportedIsMapped, Upnp!SearchIsHeard
<1>3. CASE Upnp!on_socket_receive
  <2>1. p_receives > 0 /\ UNCHANGED <<p_finished, p_port, p_times, p_router, p_told, p_recvFailed>>
    BY <1>3 DEF Upnp!on_socket_receive
  <2>2. \/ p_finished /\ p_receives' = p_receives - 1 /\ p_request' = p_request
        \/ /\ p_receives' = p_receives
           /\ p_request' = p_request \/ p_request' = [kind |-> "igd", arg |-> 0, done |-> FALSE]
    BY <1>3 DEF Upnp!on_socket_receive, Upnp!Idle
  <2>3. p_receives' \in Nat /\ (~p_finished => p_receives' > 0)
    BY <1>0, <2>1, <2>2
  <2>4. p_request' \in Requests /\ AddsThePort'
    <3>1. CASE p_request' = p_request
      BY <1>0, <2>1, <3>1 DEF AddsThePort
    <3>2. CASE p_request' = [kind |-> "igd", arg |-> 0, done |-> FALSE]
      BY <3>2 DEF AddsThePort
    <3> QED
      BY <2>2, <3>1, <3>2
  <2>5. UpnpType'
    BY <2>1, <2>3, <2>4 DEF UpnpType
  <2> QED
    BY <2>1, <2>3, <2>4, <2>5 DEF Upnp!ReportedIsMapped, Upnp!SearchIsHeard
<1>4. CASE Upnp!on_socket_receive_failed
  <2>1. /\ p_receives > 0 /\ p_recvFailed' = TRUE /\ (p_receives' = p_receives - 1 \/ p_receives' = p_receives)
        /\ UNCHANGED <<p_finished, p_request, p_port, p_times, p_router, p_told>>
    BY <1>4 DEF Upnp!on_socket_receive_failed
  <2>2. p_receives' \in Nat
    BY <1>0, <2>1
  <2>3. UpnpType'
    BY <2>1, <2>2 DEF UpnpType
  <2> QED
    BY <2>1, <2>3 DEF AddsThePort, Upnp!ReportedIsMapped, Upnp!SearchIsHeard
<1>5. CASE Upnp!gateway
  <2>1. /\ p_request.kind = "add" /\ p_router' = p_router \cup {<<"ours", p_request.arg>>}
        /\ p_request' = [p_request EXCEPT !.done = TRUE]
        /\ UNCHANGED <<p_finished, p_receives, p_port, p_times, p_told, p_recvFailed>>
    BY <1>5 DEF Upnp!gateway
  <2>2. p_request' \in Requests /\ p_request'.kind = "add" /\ p_request'.arg = p_port
    BY <1>0, <2>1 DEF AddsThePort
  <2>3. p_router' \subseteq {"ours", "other"} \X Nat /\ p_router \subseteq p_router' /\ <<"ours", p_port>> \in p_router'
    BY <1>0, <2>1 DEF UpnpType, AddsThePort
  <2>4. UpnpType'
    BY <2>1, <2>2, <2>3 DEF UpnpType
  <2> QED
    BY <2>1, <2>2, <2>3, <2>4 DEF AddsThePort, Upnp!ReportedIsMapped, Upnp!SearchIsHeard
<1>6. CASE Upnp!on_igd
  <2>1. /\ p_request' \in Requests /\ p_request'.kind # "add"
        /\ UNCHANGED <<p_finished, p_receives, p_port, p_times, p_router, p_told, p_recvFailed>>
    BY <1>6 DEF Upnp!on_igd, Upnp!parse_device_description, Upnp!get_mapped_port, Upnp!upnp_request, Upnp!Idle
  <2>2. UpnpType'
    BY <2>1 DEF UpnpType
  <2> QED
    BY <2>1, <2>2 DEF AddsThePort, Upnp!ReportedIsMapped, Upnp!SearchIsHeard
<1>7. CASE Upnp!on_get_mapped_port
  <2>1. UNCHANGED <<p_receives, p_port, p_times, p_router, p_recvFailed>>
    BY <1>7 DEF Upnp!on_get_mapped_port
  <2>2. /\ p_finished' \in BOOLEAN /\ (p_finished => p_finished')
        /\ p_request' \in Requests /\ (p_request'.kind = "add" => p_request'.arg = p_port /\ ~p_request'.done)
    <3>1. CASE p_request' = Upnp!add_port_mapping(p_port) /\ p_finished' = p_finished
      BY <1>0, <3>1 DEF UpnpType, Upnp!add_port_mapping, Upnp!upnp_request
    <3>2. CASE p_request' = Upnp!get_mapped_port(p_request.arg + 1) /\ p_finished' = p_finished
      <4>1. p_request.arg + 1 \in Nat
        BY <1>0
      <4> QED
        BY <3>2, <4>1 DEF UpnpType, Upnp!get_mapped_port, Upnp!upnp_request
    <3>3. CASE p_request' = Upnp!Idle /\ p_finished' = TRUE
      BY <3>3 DEF Upnp!Idle
    <3> QED
      BY <1>7, <3>1, <3>2, <3>3 DEF Upnp!on_get_mapped_port
  <2>3. p_told' \in Seq({"mapped", "failed"} \X Nat) /\ Upnp!ReportedIsMapped'
    <3>1. CASE p_told' = p_told
      BY <2>1, <3>1 DEF UpnpType, Upnp!ReportedIsMapped
    <3>2. CASE Upnp!Tell("failed", p_port)
      BY <1>0, <2>1, <3>2, UpnpTells
    <3>3. CASE \E m \in Upnp!parse_port_mapping_info : m[1] = "ours" /\ Upnp!Tell("mapped", m[2])
      <4>1. PICK m \in p_router : m[1] = "ours" /\ Upnp!Tell("mapped", m[2])
        BY <3>3 DEF Upnp!parse_port_mapping_info
      <4>2. m = <<"ours", m[2]>> /\ m[2] \in Nat
        BY <4>1 DEF UpnpType
      <4> QED
        BY <2>1, <4>1, <4>2, UpnpTells
    <3> QED
      BY <1>7, <3>1, <3>2, <3>3 DEF Upnp!on_get_mapped_port
  <2>4. UpnpType'
    BY <2>1, <2>2, <2>3 DEF UpnpType
  <2>5. Upnp!SearchIsHeard'
    BY <2>1, <2>2 DEF Upnp!SearchIsHeard
  <2> QED
    BY <2>1, <2>2, <2>3, <2>4, <2>5 DEF AddsThePort
<1>8. CASE Upnp!on_add_mapping
  <2>1. p_request.kind = "add" /\ UNCHANGED <<p_finished, p_receives, p_router, p_recvFailed>>
    BY <1>8 DEF Upnp!on_add_mapping
  <2>2. /\ p_port' \in Nat /\ p_times' \in Nat /\ p_request' \in Requests
        /\ p_request'.kind = "add" => p_request'.arg = p_port' /\ ~p_request'.done
    <3>1. CASE p_request' = Upnp!Idle /\ p_port' = p_port /\ (p_times' = p_times \/ p_times' = p_times + 1)
      BY <1>0, <3>1 DEF Upnp!Idle
    <3>2. CASE p_times' = p_times + 1 /\ p_port' = p_port + p_times + 1 /\ p_request' = Upnp!add_port_mapping(p_port')
      <4>1. p_port' \in Nat /\ p_times' \in Nat
        BY <1>0, <3>2
      <4> QED
        BY <3>2, <4>1 DEF Upnp!add_port_mapping, Upnp!upnp_request
    <3> QED
      BY <1>8, <3>1, <3>2 DEF Upnp!on_add_mapping
  <2>3. p_told' \in Seq({"mapped", "failed"} \X Nat) /\ Upnp!ReportedIsMapped'
    <3>1. CASE p_told' = p_told
      BY <2>1, <3>1 DEF UpnpType, Upnp!ReportedIsMapped
    <3>2. CASE Upnp!Tell("failed", p_port)
      BY <1>0, <2>1, <3>2, UpnpTells
    <3>3. CASE p_request.done /\ Upnp!Tell("mapped", p_port)
      BY <1>0, <2>1, <3>3, UpnpTells DEF AddsThePort
    <3> QED
      BY <1>8, <3>1, <3>2, <3>3 DEF Upnp!on_add_mapping
  <2>4. UpnpType'
    BY <2>1, <2>2, <2>3 DEF UpnpType
  <2> QED
    BY <2>1, <2>2, <2>3, <2>4 DEF AddsThePort, Upnp!SearchIsHeard
<1> QED
  BY <1>1, <1>2, <1>3, <1>4, <1>5, <1>6, <1>7, <1>8 DEF Upnp!UpnpNext

-----------------------------------------------------------------------------
(* The HTTP clients' callbacks.                                            *)

\* The handler of a working connection is that of a call of its client, which
\* no other client's handler belongs to and whose callback is not posted.
LEMMA WorksForItsCall ==
  ASSUME ClientInv, NEW c \in Clients, m_http_handler[c].call # 0
  PROVE  LET k == m_http_handler[c].call
         IN  /\ k \in DOMAIN calls /\ k \in 1 .. MaxCalls /\ k \notin posted
             /\ m_http_handler[c].kind \in HttpClients!Kinds
             /\ calls[k][1] = c /\ calls[k][2] = m_http_handler[c].kind
             /\ \A d \in Clients : d # c => m_http_handler[d].call # k
             /\ m_http_handler[c] # HttpClients!NoHandler
<1> DEFINE k == m_http_handler[c].call
<1>1. /\ k \in DOMAIN calls /\ m_http_handler[c].kind \in HttpClients!Kinds
      /\ calls[k] = <<c, m_http_handler[c].kind>>
  BY DEF ClientInv, HandlersOfCalls
<1>2. calls[k][1] = c /\ calls[k][2] = m_http_handler[c].kind
  BY <1>1
<1>3. k \in 1 .. MaxCalls
  <2>1. Len(calls) \in Nat /\ DOMAIN calls = 1 .. Len(calls) /\ Len(calls) <= MaxCalls
    BY LenProperties DEF ClientInv, ClientType
  <2> QED
    BY <1>1, <2>1, ClientsAssumption
<1>4. m_http_handler[c].kind # "invalid"
  BY <1>1 DEF HttpClients!Kinds
<1>5. k \notin posted
  BY <1>2, <1>4 DEF ClientInv, PostedOnce
<1>6. ASSUME NEW d \in Clients, d # c PROVE m_http_handler[d].call # k
  <2> SUFFICES ASSUME m_http_handler[d].call = k PROVE FALSE
    OBVIOUS
  <2>1. calls[k] = <<d, m_http_handler[d].kind>>
    BY DEF ClientInv, HandlersOfCalls
  <2>2. calls[k][1] = d
    BY <2>1
  <2> QED
    BY <1>2, <1>6, <2>2
<1>7. m_http_handler[c] # HttpClients!NoHandler
  BY DEF HttpClients!NoHandler
<1> QED
  BY <1>1, <1>2, <1>3, <1>5, <1>6, <1>7

\* A call is added to the calls so far; it supersedes those of its client.
LEMMA CallAdded ==
  ASSUME ClientInv, NEW c \in Clients, NEW kind \in HttpClients!Kinds \cup {"invalid", "refused"}, Len(calls) < MaxCalls,
         calls' = Append(calls, <<c, kind>>)
  PROVE  LET n == Len(calls) + 1
         IN  /\ calls' \in Seq(Clients \X (HttpClients!Kinds \cup {"invalid", "refused"})) /\ Len(calls') <= MaxCalls
             /\ n \in Nat \ {0} /\ n \in 1 .. MaxCalls /\ n \in DOMAIN calls' /\ n \notin DOMAIN calls
             /\ calls'[n] = <<c, kind>> /\ calls'[n][1] = c /\ calls'[n][2] = kind
             /\ \A j \in DOMAIN calls' : j = n \/ j \in DOMAIN calls
             /\ \A j \in DOMAIN calls : j \in DOMAIN calls' /\ calls'[j] = calls[j]
             /\ \A j \in DOMAIN calls : HttpClients!Superseded(j) => HttpClients!Superseded(j)'
             /\ \A j \in DOMAIN calls : calls[j][1] = c => HttpClients!Superseded(j)'
             /\ results[n] = <<>>
             /\ \A j \in 1 .. MaxCalls : j > Len(calls') => results[j] = <<>>
<1> DEFINE n == Len(calls) + 1
           C == Clients \X (HttpClients!Kinds \cup {"invalid", "refused"})
<1>1. calls \in Seq(C) /\ <<c, kind>> \in C
  BY DEF ClientInv, ClientType
<1> HIDE DEF C
<1>2. /\ calls' \in Seq(C) /\ Len(calls') = Len(calls) + 1
      /\ \A i \in 1 .. Len(calls) : calls'[i] = calls[i]
      /\ calls'[Len(calls) + 1] = <<c, kind>>
  BY <1>1, AppendProperties
<1>3. Len(calls) \in Nat /\ DOMAIN calls = 1 .. Len(calls) /\ DOMAIN calls' = 1 .. Len(calls) + 1
  BY <1>1, <1>2, LenProperties
<1>4. n \in Nat \ {0} /\ n \in 1 .. MaxCalls /\ n \in DOMAIN calls' /\ n \notin DOMAIN calls /\ Len(calls') <= MaxCalls
  BY <1>2, <1>3, ClientsAssumption
<1>5. calls'[n] = <<c, kind>> /\ calls'[n][1] = c /\ calls'[n][2] = kind
  BY <1>2
<1>6. \A j \in DOMAIN calls' : j = n \/ j \in DOMAIN calls
  BY <1>3
<1>7. \A j \in DOMAIN calls : j \in DOMAIN calls' /\ calls'[j] = calls[j]
  BY <1>2, <1>3
<1>8. ASSUME NEW j \in DOMAIN calls, HttpClients!Superseded(j) PROVE HttpClients!Superseded(j)'
  <2>1. PICK i \in j + 1 .. Len(calls) : calls[i][1] = calls[j][1]
    BY <1>8 DEF HttpClients!Superseded
  <2>2. i \in j + 1 .. Len(calls') /\ i \in DOMAIN calls
    BY <1>2, <1>3
  <2> QED
    BY <1>7, <2>1, <2>2 DEF HttpClients!Superseded
<1>9. ASSUME NEW j \in DOMAIN calls, calls[j][1] = c PROVE HttpClients!Superseded(j)'
  <2>1. n \in j + 1 .. Len(calls')
    BY <1>2, <1>3
  <2> QED
    BY <1>5, <1>7, <1>9, <2>1 DEF HttpClients!Superseded
<1>10. \A j \in 1 .. MaxCalls : j > Len(calls) => results[j] = <<>>
  BY DEF ClientInv, PostedOnce
<1>11. results[n] = <<>> /\ \A j \in 1 .. MaxCalls : j > Len(calls') => results[j] = <<>>
  BY <1>2, <1>3, <1>4, <1>10, ClientsAssumption
<1> QED
  BY <1>2, <1>4, <1>5, <1>6, <1>7, <1>8, <1>9, <1>11 DEF C

\* A call whose request goes to the client's connection.
LEMMA ClientCalls ==
  ASSUME ClientInv, NEW c \in Clients, NEW kind \in HttpClients!Kinds, Len(calls) < MaxCalls,
         calls' = Append(calls, <<c, kind>>), HttpClients!async_download(c, kind, Len(calls) + 1),
         UNCHANGED <<m_keepalive, posted, results>>, m_clients' \subseteq m_clients \cup {c}
  PROVE  ClientInv'
<1> DEFINE n == Len(calls) + 1
<1>1. /\ calls' \in Seq(Clients \X (HttpClients!Kinds \cup {"invalid", "refused"})) /\ Len(calls') <= MaxCalls
      /\ n \in Nat \ {0} /\ n \in 1 .. MaxCalls /\ n \in DOMAIN calls' /\ n \notin DOMAIN calls
      /\ calls'[n] = <<c, kind>> /\ calls'[n][1] = c /\ calls'[n][2] = kind
      /\ \A j \in DOMAIN calls' : j = n \/ j \in DOMAIN calls
      /\ \A j \in DOMAIN calls : j \in DOMAIN calls' /\ calls'[j] = calls[j]
      /\ \A j \in DOMAIN calls : HttpClients!Superseded(j) => HttpClients!Superseded(j)'
      /\ \A j \in DOMAIN calls : calls[j][1] = c => HttpClients!Superseded(j)'
      /\ results[n] = <<>>
      /\ \A j \in 1 .. MaxCalls : j > Len(calls') => results[j] = <<>>
  BY CallAdded
<1> DEFINE h == [call |-> n, kind |-> kind, content_length |-> 0, size |-> 0]
<1>2. /\ m_http_handler' = [m_http_handler EXCEPT ![c] = h]
      /\ listening' = [listening EXCEPT ![c] = TRUE] /\ exchange' = [exchange EXCEPT ![c] = "sent"]
  BY DEF HttpClients!async_download
<1>3. h \in Handlers /\ h.call = n /\ h.kind = kind /\ h.size = 0
  BY <1>1 DEF Handlers
<1> HIDE DEF n, h
<1>4. ClientType
  BY DEF ClientInv
<1>5. /\ m_http_handler'[c] = h /\ listening'[c] = TRUE /\ exchange'[c] = "sent"
      /\ \A d \in Clients : d # c => /\ m_http_handler'[d] = m_http_handler[d] /\ listening'[d] = listening[d]
                                     /\ exchange'[d] = exchange[d]
  BY <1>2, <1>4 DEF ClientType
<1>6. ClientType'
  <2>1. m_http_handler' \in [Clients -> Handlers]
    BY <1>2, <1>3, <1>4 DEF ClientType
  <2>2. listening' \in [Clients -> BOOLEAN] /\ exchange' \in [Clients -> {"none", "sent", "header"}]
    BY <1>2, <1>4 DEF ClientType
  <2>3. posted' \subseteq DOMAIN calls' /\ m_clients' \subseteq Clients
    BY <1>1, <1>4 DEF ClientType
  <2> QED
    BY <1>1, <1>4, <2>1, <2>2, <2>3 DEF ClientType
<1>7. HandlersOfCalls'
  <2> SUFFICES ASSUME NEW d \in Clients, m_http_handler'[d].call # 0
               PROVE  /\ m_http_handler'[d].call \in DOMAIN calls' /\ m_http_handler'[d].kind \in HttpClients!Kinds
                      /\ calls'[m_http_handler'[d].call] = <<d, m_http_handler'[d].kind>>
    BY DEF HandlersOfCalls
  <2>1. CASE d = c
    BY <1>1, <1>3, <1>5, <2>1
  <2>2. CASE d # c
    BY <1>1, <1>5, <2>2 DEF ClientInv, HandlersOfCalls
  <2> QED
    BY <2>1, <2>2
<1>8. PostedOnce'
  <2>1. \A k \in posted' : k \in DOMAIN calls /\ results[k] = <<>> /\ calls[k][2] = "invalid"
    BY <1>4 DEF ClientInv, PostedOnce, ClientType
  <2> QED
    BY <1>1, <2>1 DEF PostedOnce
<1>9. Working'
  <2> SUFFICES ASSUME NEW d \in Clients, exchange'[d] # "none"
               PROVE  /\ listening'[d] /\ m_http_handler'[d].call # 0
                      /\ exchange'[d] = "sent" \/ m_http_handler'[d].kind # "head" => results'[m_http_handler'[d].call] = <<>>
                      /\ exchange'[d] = "header" /\ m_http_handler'[d].kind = "head" =>
                           results'[m_http_handler'[d].call] # <<>> /\ m_keepalive'[d]
                      /\ m_http_handler'[d].size <= MaxSize
    BY DEF Working
  <2>1. CASE d = c
    BY <1>1, <1>3, <1>5, <2>1, ClientsAssumption
  <2>2. CASE d # c
    BY <1>5, <2>2 DEF ClientInv, Working
  <2> QED
    BY <2>1, <2>2
<1>10. HttpClients!CallbackOnce'
  <2> SUFFICES ASSUME NEW k \in DOMAIN calls'
               PROVE  /\ Len(results'[k]) <= 1 \/ (calls'[k][2] = "head" /\ m_keepalive'[calls'[k][1]])
                      /\ results'[k] = <<>> =>
                           \/ k \in posted'
                           \/ /\ m_http_handler'[calls'[k][1]].call = k /\ listening'[calls'[k][1]]
                              /\ exchange'[calls'[k][1]] # "none"
                           \/ HttpClients!Superseded(k)' \/ m_http_handler'[calls'[k][1]] = HttpClients!NoHandler \/ calls'[k][2] = "refused"
    BY DEF HttpClients!CallbackOnce, HttpClients!Handler
  <2>1. CASE k = n
    BY <1>1, <1>3, <1>5, <2>1
  <2>2. CASE k \in DOMAIN calls
    <3>1. calls'[k] = calls[k] /\ results'[k] = results[k] /\ calls[k][1] \in Clients
      BY <1>1, <1>4, <2>2, ElementOfSeq DEF ClientType
    <3>2. CASE calls[k][1] = c
      BY <1>1, <2>2, <3>1, <3>2 DEF ClientInv, HttpClients!CallbackOnce
    <3>3. CASE calls[k][1] # c
      <4> DEFINE d == calls[k][1]
      <4>1. m_http_handler'[d] = m_http_handler[d] /\ listening'[d] = listening[d] /\ exchange'[d] = exchange[d]
        BY <1>5, <3>1, <3>3
      <4>2. /\ Len(results[k]) <= 1 \/ (calls[k][2] = "head" /\ m_keepalive[d])
            /\ results[k] = <<>> =>
                 \/ k \in posted
                 \/ m_http_handler[d].call = k /\ listening[d] /\ exchange[d] # "none"
                 \/ HttpClients!Superseded(k) \/ m_http_handler[d] = HttpClients!NoHandler \/ calls[k][2] = "refused"
        BY <2>2 DEF ClientInv, HttpClients!CallbackOnce, HttpClients!Handler
      <4>3. HttpClients!Superseded(k) => HttpClients!Superseded(k)'
        BY <1>1, <2>2
      <4> QED
        BY <3>1, <4>1, <4>2, <4>3
    <3> QED
      BY <3>2, <3>3
  <2> QED
    BY <1>1, <2>1, <2>2
<1>11. HttpClients!ResultsWithinLimits'
  <2>1. ASSUME NEW d \in Clients, m_http_handler'[d].call # 0, m_http_handler'[d].kind # "head",
               results'[m_http_handler'[d].call] = << 0 >>
        PROVE  m_http_handler'[d].size <= MaxSize
    <3>1. CASE d = c
      BY <1>3, <1>5, <3>1, ClientsAssumption
    <3>2. CASE d # c
      BY <1>5, <2>1, <3>2 DEF ClientInv, HttpClients!ResultsWithinLimits, HttpClients!Handler
    <3> QED
      BY <3>1, <3>2
  <2>2. ASSUME NEW d \in m_clients' PROVE \E k \in DOMAIN calls' : calls'[k][1] = d /\ results'[k] = <<>>
    <3>1. CASE d = c
      BY <1>1, <3>1
    <3>2. CASE d \in m_clients
      <4>1. PICK k \in DOMAIN calls : calls[k][1] = d /\ results[k] = <<>>
        BY <3>2 DEF ClientInv, HttpClients!ResultsWithinLimits
      <4> QED
        BY <1>1, <4>1
    <3> QED
      BY <2>2, <3>1, <3>2
  <2> QED
    BY <2>1, <2>2 DEF HttpClients!ResultsWithinLimits, HttpClients!Handler
<1> QED
  BY <1>6, <1>7, <1>8, <1>9, <1>10, <1>11 DEF ClientInv

\* A call with a URL that cannot be parsed: its callback is posted.
LEMMA ClientCallsInvalid ==
  ASSUME ClientInv, NEW c \in Clients, Len(calls) < MaxCalls, calls' = Append(calls, <<c, "invalid">>),
         posted' = posted \cup {Len(calls) + 1}, UNCHANGED <<m_keepalive, m_http_handler, listening, exchange, results>>,
         m_clients' \subseteq m_clients \cup {c}
  PROVE  ClientInv'
<1> DEFINE n == Len(calls) + 1
<1>1. /\ calls' \in Seq(Clients \X (HttpClients!Kinds \cup {"invalid", "refused"})) /\ Len(calls') <= MaxCalls
      /\ n \in 1 .. MaxCalls /\ n \in DOMAIN calls' /\ n \notin DOMAIN calls
      /\ calls'[n][1] = c /\ calls'[n][2] = "invalid"
      /\ \A j \in DOMAIN calls' : j = n \/ j \in DOMAIN calls
      /\ \A j \in DOMAIN calls : j \in DOMAIN calls' /\ calls'[j] = calls[j]
      /\ \A j \in DOMAIN calls : HttpClients!Superseded(j) => HttpClients!Superseded(j)'
      /\ results[n] = <<>>
      /\ \A j \in 1 .. MaxCalls : j > Len(calls') => results[j] = <<>>
  BY CallAdded
<1>2. posted' = posted \cup {n}
  OBVIOUS
<1> HIDE DEF n
<1>3. ClientType
  BY DEF ClientInv
<1>4. ClientType'
  <2>1. posted' \subseteq DOMAIN calls' /\ m_clients' \subseteq Clients
    BY <1>1, <1>2, <1>3 DEF ClientType
  <2> QED
    BY <1>1, <1>3, <2>1 DEF ClientType
<1>5. HandlersOfCalls'
  BY <1>1 DEF ClientInv, HandlersOfCalls
<1>6. PostedOnce'
  <2>1. \A k \in posted : k \in DOMAIN calls /\ results[k] = <<>> /\ calls[k][2] = "invalid"
    BY <1>3 DEF ClientInv, PostedOnce, ClientType
  <2> QED
    BY <1>1, <1>2, <2>1 DEF PostedOnce
<1>7. Working'
  BY DEF ClientInv, Working
<1>8. HttpClients!CallbackOnce'
  <2> SUFFICES ASSUME NEW k \in DOMAIN calls'
               PROVE  /\ Len(results'[k]) <= 1 \/ (calls'[k][2] = "head" /\ m_keepalive'[calls'[k][1]])
                      /\ results'[k] = <<>> =>
                           \/ k \in posted'
                           \/ /\ m_http_handler'[calls'[k][1]].call = k /\ listening'[calls'[k][1]]
                              /\ exchange'[calls'[k][1]] # "none"
                           \/ HttpClients!Superseded(k)' \/ m_http_handler'[calls'[k][1]] = HttpClients!NoHandler \/ calls'[k][2] = "refused"
    BY DEF HttpClients!CallbackOnce, HttpClients!Handler
  <2>1. CASE k = n
    BY <1>1, <1>2, <2>1
  <2>2. CASE k \in DOMAIN calls
    <3>1. /\ Len(results[k]) <= 1 \/ (calls[k][2] = "head" /\ m_keepalive[calls[k][1]])
          /\ results[k] = <<>> =>
               \/ k \in posted
               \/ /\ m_http_handler[calls[k][1]].call = k /\ listening[calls[k][1]] /\ exchange[calls[k][1]] # "none"
               \/ HttpClients!Superseded(k) \/ m_http_handler[calls[k][1]] = HttpClients!NoHandler \/ calls[k][2] = "refused"
      BY <2>2 DEF ClientInv, HttpClients!CallbackOnce, HttpClients!Handler
    <3>2. calls'[k] = calls[k] /\ (HttpClients!Superseded(k) => HttpClients!Superseded(k)')
      BY <1>1, <2>2
    <3> QED
      BY <1>2, <3>1, <3>2
  <2> QED
    BY <1>1, <2>1, <2>2
<1>9. HttpClients!ResultsWithinLimits'
  <2>1. ASSUME NEW d \in m_clients' PROVE \E k \in DOMAIN calls' : calls'[k][1] = d /\ results'[k] = <<>>
    <3>1. CASE d = c
      BY <1>1, <3>1
    <3>2. CASE d \in m_clients
      <4>1. PICK k \in DOMAIN calls : calls[k][1] = d /\ results[k] = <<>>
        BY <3>2 DEF ClientInv, HttpClients!ResultsWithinLimits
      <4> QED
        BY <1>1, <4>1
    <3> QED
      BY <2>1, <3>1, <3>2
  <2> QED
    BY <2>1 DEF ClientInv, HttpClients!ResultsWithinLimits, HttpClients!Handler
<1> QED
  BY <1>4, <1>5, <1>6, <1>7, <1>8, <1>9 DEF ClientInv

\* A call that the requester's post() refuses.
LEMMA ClientCallRefused ==
  ASSUME ClientInv, NEW c \in Clients, Len(calls) < MaxCalls, calls' = Append(calls, <<c, "refused">>),
         UNCHANGED <<m_keepalive, m_http_handler, listening, exchange, results, posted>>,
         m_clients' \subseteq m_clients \cup {c}
  PROVE  ClientInv'
<1> DEFINE n == Len(calls) + 1
<1>1. /\ calls' \in Seq(Clients \X (HttpClients!Kinds \cup {"invalid", "refused"})) /\ Len(calls') <= MaxCalls
      /\ n \in 1 .. MaxCalls /\ n \in DOMAIN calls' /\ n \notin DOMAIN calls
      /\ calls'[n][1] = c /\ calls'[n][2] = "refused"
      /\ \A j \in DOMAIN calls' : j = n \/ j \in DOMAIN calls
      /\ \A j \in DOMAIN calls : j \in DOMAIN calls' /\ calls'[j] = calls[j]
      /\ \A j \in DOMAIN calls : HttpClients!Superseded(j) => HttpClients!Superseded(j)'
      /\ results[n] = <<>>
      /\ \A j \in 1 .. MaxCalls : j > Len(calls') => results[j] = <<>>
  BY CallAdded
<1>2. posted' = posted
  OBVIOUS
<1> HIDE DEF n
<1>3. ClientType
  BY DEF ClientInv
<1>4. ClientType'
  <2>1. posted' \subseteq DOMAIN calls' /\ m_clients' \subseteq Clients
    BY <1>1, <1>2, <1>3 DEF ClientType
  <2> QED
    BY <1>1, <1>3, <2>1 DEF ClientType
<1>5. HandlersOfCalls'
  BY <1>1 DEF ClientInv, HandlersOfCalls
<1>6. PostedOnce'
  <2>1. \A k \in posted : k \in DOMAIN calls /\ results[k] = <<>> /\ calls[k][2] = "invalid"
    BY <1>3 DEF ClientInv, PostedOnce, ClientType
  <2> QED
    BY <1>1, <1>2, <2>1 DEF PostedOnce
<1>7. Working'
  BY DEF ClientInv, Working
<1>8. HttpClients!CallbackOnce'
  <2> SUFFICES ASSUME NEW k \in DOMAIN calls'
               PROVE  /\ Len(results'[k]) <= 1 \/ (calls'[k][2] = "head" /\ m_keepalive'[calls'[k][1]])
                      /\ results'[k] = <<>> =>
                           \/ k \in posted'
                           \/ /\ m_http_handler'[calls'[k][1]].call = k /\ listening'[calls'[k][1]]
                              /\ exchange'[calls'[k][1]] # "none"
                           \/ HttpClients!Superseded(k)' \/ m_http_handler'[calls'[k][1]] = HttpClients!NoHandler \/ calls'[k][2] = "refused"
    BY DEF HttpClients!CallbackOnce, HttpClients!Handler
  <2>1. CASE k = n
    BY <1>1, <1>2, <2>1
  <2>2. CASE k \in DOMAIN calls
    <3>1. /\ Len(results[k]) <= 1 \/ (calls[k][2] = "head" /\ m_keepalive[calls[k][1]])
          /\ results[k] = <<>> =>
               \/ k \in posted
               \/ /\ m_http_handler[calls[k][1]].call = k /\ listening[calls[k][1]] /\ exchange[calls[k][1]] # "none"
               \/ HttpClients!Superseded(k) \/ m_http_handler[calls[k][1]] = HttpClients!NoHandler \/ calls[k][2] = "refused"
      BY <2>2 DEF ClientInv, HttpClients!CallbackOnce, HttpClients!Handler
    <3>2. calls'[k] = calls[k] /\ (HttpClients!Superseded(k) => HttpClients!Superseded(k)')
      BY <1>1, <2>2
    <3> QED
      BY <1>2, <3>1, <3>2
  <2> QED
    BY <1>1, <2>1, <2>2
<1>9. HttpClients!ResultsWithinLimits'
  <2>1. ASSUME NEW d \in m_clients' PROVE \E k \in DOMAIN calls' : calls'[k][1] = d /\ results'[k] = <<>>
    <3>1. CASE d = c
      BY <1>1, <3>1
    <3>2. CASE d \in m_clients
      <4>1. PICK k \in DOMAIN calls : calls[k][1] = d /\ results[k] = <<>>
        BY <3>2 DEF ClientInv, HttpClients!ResultsWithinLimits
      <4> QED
        BY <1>1, <4>1
    <3> QED
      BY <2>1, <3>1, <3>2
  <2> QED
    BY <2>1 DEF ClientInv, HttpClients!ResultsWithinLimits, HttpClients!Handler
<1> QED
  BY <1>4, <1>5, <1>6, <1>7, <1>8, <1>9 DEF ClientInv

\* clear() takes the handler and the connection's work away.
LEMMA ClientCleared ==
  ASSUME ClientInv, NEW c \in Clients, HttpClients!clear(c)
  PROVE  ClientInv'
<1>1. /\ m_http_handler' = [m_http_handler EXCEPT ![c] = HttpClients!NoHandler]
      /\ listening' = [listening EXCEPT ![c] = FALSE] /\ exchange' = [exchange EXCEPT ![c] = "none"]
      /\ UNCHANGED <<m_keepalive, posted, calls, results, m_clients>>
  BY DEF HttpClients!clear, HttpClients!close_connection
<1>2. HttpClients!NoHandler \in Handlers /\ HttpClients!NoHandler.call = 0
  BY DEF HttpClients!NoHandler, Handlers
<1>3. ClientType
  BY DEF ClientInv
<1>4. /\ m_http_handler'[c] = HttpClients!NoHandler /\ exchange'[c] = "none"
      /\ \A d \in Clients : d # c => /\ m_http_handler'[d] = m_http_handler[d] /\ listening'[d] = listening[d]
                                     /\ exchange'[d] = exchange[d]
  BY <1>1, <1>3 DEF ClientType
<1>5. ClientType'
  <2>1. m_http_handler' \in [Clients -> Handlers]
    BY <1>1, <1>2, <1>3 DEF ClientType
  <2>2. listening' \in [Clients -> BOOLEAN] /\ exchange' \in [Clients -> {"none", "sent", "header"}]
    BY <1>1, <1>3 DEF ClientType
  <2> QED
    BY <1>1, <1>3, <2>1, <2>2 DEF ClientType
<1>6. HandlersOfCalls'
  BY <1>1, <1>2, <1>4 DEF ClientInv, HandlersOfCalls
<1>7. PostedOnce'
  BY <1>1 DEF ClientInv, PostedOnce
<1>8. Working'
  <2> SUFFICES ASSUME NEW d \in Clients, exchange'[d] # "none"
               PROVE  /\ listening'[d] /\ m_http_handler'[d].call # 0
                      /\ exchange'[d] = "sent" \/ m_http_handler'[d].kind # "head" => results'[m_http_handler'[d].call] = <<>>
                      /\ exchange'[d] = "header" /\ m_http_handler'[d].kind = "head" =>
                           results'[m_http_handler'[d].call] # <<>> /\ m_keepalive'[d]
                      /\ m_http_handler'[d].size <= MaxSize
    BY DEF Working
  <2>1. d # c
    BY <1>4
  <2> QED
    BY <1>1, <1>4, <2>1 DEF ClientInv, Working
<1>9. HttpClients!CallbackOnce'
  <2> SUFFICES ASSUME NEW k \in DOMAIN calls
               PROVE  /\ Len(results[k]) <= 1 \/ (calls[k][2] = "head" /\ m_keepalive[calls[k][1]])
                      /\ results[k] = <<>> =>
                           \/ k \in posted
                           \/ /\ m_http_handler'[calls[k][1]].call = k /\ listening'[calls[k][1]]
                              /\ exchange'[calls[k][1]] # "none"
                           \/ HttpClients!Superseded(k) \/ m_http_handler'[calls[k][1]] = HttpClients!NoHandler \/ calls[k][2] = "refused"
    BY <1>1 DEF HttpClients!CallbackOnce, HttpClients!Handler, HttpClients!Superseded
  <2>1. /\ Len(results[k]) <= 1 \/ (calls[k][2] = "head" /\ m_keepalive[calls[k][1]])
        /\ results[k] = <<>> =>
             \/ k \in posted
             \/ /\ m_http_handler[calls[k][1]].call = k /\ listening[calls[k][1]] /\ exchange[calls[k][1]] # "none"
             \/ HttpClients!Superseded(k) \/ m_http_handler[calls[k][1]] = HttpClients!NoHandler \/ calls[k][2] = "refused"
    BY DEF ClientInv, HttpClients!CallbackOnce, HttpClients!Handler
  <2>2. calls[k][1] \in Clients
    BY <1>3, ElementOfSeq DEF ClientType
  <2> QED
    BY <1>4, <2>1, <2>2
<1>10. HttpClients!ResultsWithinLimits'
  BY <1>1, <1>2, <1>4 DEF ClientInv, HttpClients!ResultsWithinLimits, HttpClients!Handler
<1> QED
  BY <1>5, <1>6, <1>7, <1>8, <1>9, <1>10 DEF ClientInv

\* One more result is recorded for a call.
LEMMA ResultRecorded ==
  ASSUME ClientType, NEW k \in 1 .. MaxCalls, NEW e \in Int, results' = [results EXCEPT ![k] = Append(@, e)]
  PROVE  /\ results' \in [1 .. MaxCalls -> Seq(Int)] /\ results'[k] # <<>>
         /\ results[k] = <<>> => Len(results'[k]) = 1 /\ results'[k] = <<e>>
         /\ \A j \in 1 .. MaxCalls : j # k => results'[j] = results[j]
<1>1. results[k] \in Seq(Int)
  BY DEF ClientType
<1>2. Append(results[k], e) \in Seq(Int) /\ Len(Append(results[k], e)) = Len(results[k]) + 1
  BY <1>1, AppendProperties
<1>3. results'[k] = Append(results[k], e) /\ results' \in [1 .. MaxCalls -> Seq(Int)]
      /\ \A j \in 1 .. MaxCalls : j # k => results'[j] = results[j]
  BY <1>2 DEF ClientType
<1>4. results'[k] # <<>>
  BY <1>1, <1>2, <1>3, LenProperties, EmptySeq
<1>5. ASSUME results[k] = <<>> PROVE Len(results'[k]) = 1 /\ results'[k] = <<e>>
  <2>1. Append(<<>>, e) = <<e>> /\ Len(<<e>>) = 1
    OBVIOUS
  <2> QED
    BY <1>3, <1>5, <2>1
<1> QED
  BY <1>3, <1>4, <1>5

\* A posted callback runs.
LEMMA ClientRunsPosted ==
  ASSUME ClientInv, NEW k \in posted, HttpClients!run_posted(k)
  PROVE  ClientInv'
<1>1. /\ posted' = posted \ {k} /\ results' = [results EXCEPT ![k] = Append(@, -1)]
      /\ m_clients' = m_clients \ {calls[k][1]}
      /\ UNCHANGED <<m_keepalive, m_http_handler, listening, exchange, calls>>
  BY DEF HttpClients!run_posted, HttpClients!Callback, HttpClients!error_general, HttpClients!connection
<1>2. ClientType
  BY DEF ClientInv
<1>3. k \in DOMAIN calls /\ k \in 1 .. MaxCalls /\ DOMAIN calls \subseteq 1 .. MaxCalls /\ k <= Len(calls)
  <2>1. Len(calls) \in Nat /\ DOMAIN calls = 1 .. Len(calls) /\ Len(calls) <= MaxCalls /\ k \in DOMAIN calls
    BY <1>2, LenProperties DEF ClientType
  <2> QED
    BY <2>1, ClientsAssumption
<1>4. results[k] = <<>> /\ calls[k][2] = "invalid"
  BY DEF ClientInv, PostedOnce
<1>5. /\ results' \in [1 .. MaxCalls -> Seq(Int)] /\ results'[k] # <<>> /\ Len(results'[k]) = 1
      /\ \A j \in 1 .. MaxCalls : j # k => results'[j] = results[j]
  <2>1. -1 \in Int
    OBVIOUS
  <2> QED
    BY <1>1, <1>2, <1>3, <1>4, <2>1, ResultRecorded
<1>6. ASSUME NEW c \in Clients, m_http_handler[c].call # 0
      PROVE  m_http_handler[c].call # k /\ m_http_handler[c].call \in 1 .. MaxCalls
  BY <1>6, WorksForItsCall
<1>7. ClientType'
  BY <1>1, <1>2, <1>5 DEF ClientType
<1>8. HandlersOfCalls'
  BY <1>1 DEF ClientInv, HandlersOfCalls
<1>9. PostedOnce'
  <2>1. \A j \in posted' : j \in 1 .. MaxCalls /\ j # k /\ j \in posted
    BY <1>1, <1>2, <1>3 DEF ClientType
  <2>2. \A j \in posted' : results'[j] = <<>> /\ calls'[j][2] = "invalid"
    BY <1>1, <1>5, <2>1 DEF ClientInv, PostedOnce
  <2>3. ASSUME NEW j \in 1 .. MaxCalls, j > Len(calls) PROVE results'[j] = <<>>
    <3>1. j # k
      <4>1. Len(calls) \in Nat
        BY <1>2, LenProperties DEF ClientType
      <4> QED
        BY <1>3, <2>3, <4>1
    <3> QED
      BY <1>5, <2>3, <3>1 DEF ClientInv, PostedOnce
  <2> QED
    BY <1>1, <2>2, <2>3 DEF PostedOnce
<1>10. Working'
  BY <1>1, <1>5, <1>6 DEF ClientInv, Working
<1>11. HttpClients!CallbackOnce'
  <2> SUFFICES ASSUME NEW j \in DOMAIN calls
               PROVE  /\ Len(results'[j]) <= 1 \/ (calls[j][2] = "head" /\ m_keepalive[calls[j][1]])
                      /\ results'[j] = <<>> =>
                           \/ j \in posted'
                           \/ /\ m_http_handler[calls[j][1]].call = j /\ listening[calls[j][1]]
                              /\ exchange[calls[j][1]] # "none"
                           \/ HttpClients!Superseded(j) \/ m_http_handler[calls[j][1]] = HttpClients!NoHandler \/ calls[j][2] = "refused"
    BY <1>1 DEF HttpClients!CallbackOnce, HttpClients!Handler, HttpClients!Superseded
  <2>1. CASE j = k
    <3>1. Len(results'[k]) <= 1
      BY <1>5
    <3>2. results'[k] # <<>>
      BY <1>5
    <3> QED
      BY <2>1, <3>1, <3>2
  <2>2. CASE j # k
    <3>1. results'[j] = results[j] /\ (j \in posted => j \in posted')
      BY <1>1, <1>3, <1>5, <2>2
    <3>2. /\ Len(results[j]) <= 1 \/ (calls[j][2] = "head" /\ m_keepalive[calls[j][1]])
          /\ results[j] = <<>> =>
               \/ j \in posted
               \/ /\ m_http_handler[calls[j][1]].call = j /\ listening[calls[j][1]] /\ exchange[calls[j][1]] # "none"
               \/ HttpClients!Superseded(j) \/ m_http_handler[calls[j][1]] = HttpClients!NoHandler \/ calls[j][2] = "refused"
      BY DEF ClientInv, HttpClients!CallbackOnce, HttpClients!Handler
    <3> QED
      BY <3>1, <3>2
  <2> QED
    BY <2>1, <2>2
<1>12. HttpClients!ResultsWithinLimits'
  <2>1. ASSUME NEW d \in m_clients' PROVE \E j \in DOMAIN calls' : calls'[j][1] = d /\ results'[j] = <<>>
    <3>1. PICK j \in DOMAIN calls : calls[j][1] = d /\ results[j] = <<>>
      BY <1>1, <2>1 DEF ClientInv, HttpClients!ResultsWithinLimits
    <3>2. j # k
      BY <1>1, <2>1, <3>1
    <3> QED
      BY <1>1, <1>3, <1>5, <3>1, <3>2
  <2> QED
    BY <1>1, <1>5, <1>6, <2>1 DEF ClientInv, HttpClients!ResultsWithinLimits, HttpClients!Handler
<1> QED
  BY <1>7, <1>8, <1>9, <1>10, <1>11, <1>12 DEF ClientInv

\* What the connection of one client does leaves the others alone.
OnlyClient(c) ==
  /\ m_http_handler' \in [Clients -> Handlers] /\ listening' \in [Clients -> BOOLEAN]
  /\ exchange' \in [Clients -> {"none", "sent", "header"}]
  /\ \A d \in Clients : d # c => /\ m_http_handler'[d] = m_http_handler[d] /\ listening'[d] = listening[d]
                                 /\ exchange'[d] = exchange[d]
  /\ m_http_handler'[c].call = m_http_handler[c].call /\ m_http_handler'[c].kind = m_http_handler[c].kind
  /\ UNCHANGED <<m_keepalive, posted, calls>>

\* The callback of the handler of a connection that works: the connection ends
\* its work, or goes on for a head request whose connection is kept.
LEMMA ClientAnswered ==
  ASSUME ClientInv, NEW c \in Clients, NEW e \in Int, exchange[c] # "none", OnlyClient(c),
         HttpClients!Callback(c, m_http_handler[c].call, e),
         \/ exchange'[c] = "none"
         \/ /\ exchange'[c] = "header" /\ listening'[c] /\ m_http_handler[c].kind = "head" /\ m_keepalive[c]
            /\ m_http_handler'[c].size <= MaxSize,
         m_http_handler[c].kind # "head" /\ e = 0 => m_http_handler'[c].size <= MaxSize
  PROVE  ClientInv'
<1> DEFINE k == m_http_handler[c].call
<1>1. results' = [results EXCEPT ![k] = Append(@, e)] /\ m_clients' = m_clients \ {c}
  BY DEF HttpClients!Callback
<1>2. ClientType
  BY DEF ClientInv
<1>3. /\ listening[c] /\ k # 0
      /\ exchange[c] = "sent" \/ m_http_handler[c].kind # "head" => results[k] = <<>>
      /\ exchange[c] = "header" /\ m_http_handler[c].kind = "head" => results[k] # <<>> /\ m_keepalive[c]
  BY DEF ClientInv, Working
<1>4. /\ k \in DOMAIN calls /\ k \in 1 .. MaxCalls /\ k \notin posted /\ m_http_handler[c].kind \in HttpClients!Kinds
      /\ calls[k][1] = c /\ calls[k][2] = m_http_handler[c].kind
      /\ \A d \in Clients : d # c => m_http_handler[d].call # k
      /\ m_http_handler[c] # HttpClients!NoHandler
  BY <1>3, WorksForItsCall
<1>5. \A d \in Clients : m_http_handler[d].call # 0 => m_http_handler[d].call \in 1 .. MaxCalls
  BY WorksForItsCall
<1>6. Len(calls) \in Nat /\ DOMAIN calls = 1 .. Len(calls) /\ DOMAIN calls \subseteq 1 .. MaxCalls
  <2>1. Len(calls) \in Nat /\ DOMAIN calls = 1 .. Len(calls) /\ Len(calls) <= MaxCalls
    BY <1>2, LenProperties DEF ClientType
  <2> QED
    BY <2>1, ClientsAssumption
<1>7. /\ results' \in [1 .. MaxCalls -> Seq(Int)] /\ results'[k] # <<>>
      /\ results[k] = <<>> => Len(results'[k]) = 1 /\ results'[k] = <<e>>
      /\ \A j \in 1 .. MaxCalls : j # k => results'[j] = results[j]
  BY <1>1, <1>2, <1>4, ResultRecorded
<1> HIDE DEF k
<1>8. m_http_handler'[c].call = k /\ m_http_handler'[c].kind = m_http_handler[c].kind
  BY DEF OnlyClient, k
<1>9. \A d \in Clients : d # c => /\ m_http_handler'[d] = m_http_handler[d] /\ listening'[d] = listening[d]
                                  /\ exchange'[d] = exchange[d]
  BY DEF OnlyClient
<1>10. UNCHANGED <<m_keepalive, posted, calls>>
  BY DEF OnlyClient
<1>11. ClientType'
  BY <1>1, <1>2, <1>7 DEF ClientType, OnlyClient
<1>12. HandlersOfCalls'
  <2> SUFFICES ASSUME NEW d \in Clients, m_http_handler'[d].call # 0
               PROVE  /\ m_http_handler'[d].call \in DOMAIN calls /\ m_http_handler'[d].kind \in HttpClients!Kinds
                      /\ calls[m_http_handler'[d].call] = <<d, m_http_handler'[d].kind>>
    BY <1>10 DEF HandlersOfCalls
  <2>1. m_http_handler'[d].call = m_http_handler[d].call /\ m_http_handler'[d].kind = m_http_handler[d].kind
    BY <1>8, <1>9 DEF k
  <2> QED
    BY <2>1 DEF ClientInv, HandlersOfCalls
<1>13. PostedOnce'
  <2>1. \A j \in posted : j \in 1 .. MaxCalls /\ j # k
    BY <1>2, <1>4, <1>6 DEF ClientType
  <2>2. \A j \in 1 .. MaxCalls : j > Len(calls) => j # k
    BY <1>4, <1>6
  <2> QED
    BY <1>7, <1>10, <2>1, <2>2 DEF ClientInv, PostedOnce
<1>14. Working'
  <2> SUFFICES ASSUME NEW d \in Clients, exchange'[d] # "none"
               PROVE  /\ listening'[d] /\ m_http_handler'[d].call # 0
                      /\ exchange'[d] = "sent" \/ m_http_handler'[d].kind # "head" => results'[m_http_handler'[d].call] = <<>>
                      /\ exchange'[d] = "header" /\ m_http_handler'[d].kind = "head" =>
                           results'[m_http_handler'[d].call] # <<>> /\ m_keepalive[d]
                      /\ m_http_handler'[d].size <= MaxSize
    BY <1>10 DEF Working
  <2>1. CASE d = c
    BY <1>3, <1>7, <1>8, <2>1
  <2>2. CASE d # c
    <3>1. /\ listening[d] /\ m_http_handler[d].call # 0
          /\ exchange[d] = "sent" \/ m_http_handler[d].kind # "head" => results[m_http_handler[d].call] = <<>>
          /\ exchange[d] = "header" /\ m_http_handler[d].kind = "head" =>
               results[m_http_handler[d].call] # <<>> /\ m_keepalive[d]
          /\ m_http_handler[d].size <= MaxSize
      BY <1>9, <2>2 DEF ClientInv, Working
    <3>2. results'[m_http_handler[d].call] = results[m_http_handler[d].call]
      BY <1>4, <1>5, <1>7, <2>2, <3>1
    <3> QED
      BY <1>9, <2>2, <3>1, <3>2
  <2> QED
    BY <2>1, <2>2
<1>15. HttpClients!CallbackOnce'
  <2> SUFFICES ASSUME NEW j \in DOMAIN calls
               PROVE  /\ Len(results'[j]) <= 1 \/ (calls[j][2] = "head" /\ m_keepalive[calls[j][1]])
                      /\ results'[j] = <<>> =>
                           \/ j \in posted
                           \/ /\ m_http_handler'[calls[j][1]].call = j /\ listening'[calls[j][1]]
                              /\ exchange'[calls[j][1]] # "none"
                           \/ HttpClients!Superseded(j) \/ m_http_handler'[calls[j][1]] = HttpClients!NoHandler \/ calls[j][2] = "refused"
    BY <1>10 DEF HttpClients!CallbackOnce, HttpClients!Handler, HttpClients!Superseded
  <2>1. CASE j = k
    <3>1. results'[k] # <<>>
      BY <1>7
    <3>2. CASE results[k] = <<>>
      <4>1. Len(results'[k]) = 1
        BY <1>7, <3>2
      <4>2. Len(results'[k]) <= 1
        BY <4>1
      <4> QED
        BY <2>1, <3>1, <4>2
    <3>3. CASE results[k] # <<>>
      <4>1. exchange[c] \in {"none", "sent", "header"}
        BY <1>2 DEF ClientType
      <4>2. m_http_handler[c].kind = "head" /\ m_keepalive[c]
        BY <1>3, <3>3, <4>1
      <4>3. calls[k][2] = "head" /\ m_keepalive[calls[k][1]]
        BY <1>4, <4>2
      <4> QED
        BY <2>1, <3>1, <4>3
    <3> QED
      BY <3>2, <3>3
  <2>2. CASE j # k
    <3>1. results'[j] = results[j] /\ calls[j][1] \in Clients
      BY <1>2, <1>6, <1>7, <2>2, ElementOfSeq DEF ClientType
    <3>2. /\ Len(results[j]) <= 1 \/ (calls[j][2] = "head" /\ m_keepalive[calls[j][1]])
          /\ results[j] = <<>> =>
               \/ j \in posted
               \/ /\ m_http_handler[calls[j][1]].call = j /\ listening[calls[j][1]] /\ exchange[calls[j][1]] # "none"
               \/ HttpClients!Superseded(j) \/ m_http_handler[calls[j][1]] = HttpClients!NoHandler \/ calls[j][2] = "refused"
      BY DEF ClientInv, HttpClients!CallbackOnce, HttpClients!Handler
    <3>3. CASE calls[j][1] = c
      <4>1. m_http_handler[calls[j][1]].call # j /\ m_http_handler[calls[j][1]] # HttpClients!NoHandler
        BY <1>4, <2>2, <3>3 DEF k
      <4> QED
        BY <3>1, <3>2, <4>1
    <3>4. CASE calls[j][1] # c
      <4>1. /\ m_http_handler'[calls[j][1]] = m_http_handler[calls[j][1]]
            /\ listening'[calls[j][1]] = listening[calls[j][1]] /\ exchange'[calls[j][1]] = exchange[calls[j][1]]
        BY <1>9, <3>1, <3>4
      <4> QED
        BY <3>1, <3>2, <4>1
    <3> QED
      BY <3>3, <3>4
  <2> QED
    BY <2>1, <2>2
<1>16. HttpClients!ResultsWithinLimits'
  <2>1. ASSUME NEW d \in Clients, m_http_handler'[d].call # 0, m_http_handler'[d].kind # "head",
               results'[m_http_handler'[d].call] = << 0 >>
        PROVE  m_http_handler'[d].size <= MaxSize
    <3>1. CASE d = c
      <4>1. m_http_handler[c].kind # "head"
        BY <1>8, <2>1, <3>1
      <4>2. results'[k] = <<e>> /\ results'[k] = << 0 >>
        BY <1>3, <1>7, <1>8, <2>1, <3>1, <4>1
      <4>3. <<e>>[1] = << 0 >>[1]
        BY <4>2
      <4>4. e = 0
        BY <4>3
      <4> QED
        BY <3>1, <4>1, <4>4
    <3>2. CASE d # c
      <4>1. m_http_handler'[d] = m_http_handler[d]
        BY <1>9, <3>2
      <4>2. results'[m_http_handler[d].call] = results[m_http_handler[d].call]
        BY <1>4, <1>5, <1>7, <2>1, <3>2, <4>1
      <4> QED
        BY <2>1, <4>1, <4>2 DEF ClientInv, HttpClients!ResultsWithinLimits, HttpClients!Handler
    <3> QED
      BY <3>1, <3>2
  <2>2. ASSUME NEW d \in m_clients' PROVE \E j \in DOMAIN calls' : calls'[j][1] = d /\ results'[j] = <<>>
    <3>1. PICK j \in DOMAIN calls : calls[j][1] = d /\ results[j] = <<>>
      BY <1>1, <2>2 DEF ClientInv, HttpClients!ResultsWithinLimits
    <3>2. j # k
      BY <1>1, <1>4, <2>2, <3>1
    <3> QED
      BY <1>6, <1>7, <1>10, <3>1, <3>2
  <2> QED
    BY <2>1, <2>2 DEF HttpClients!ResultsWithinLimits, HttpClients!Handler
<1> QED
  BY <1>11, <1>12, <1>13, <1>14, <1>15, <1>16 DEF ClientInv

\* The connection of a client goes on without a callback: the content of a
\* download that was within its size so far, or the end of a head request that
\* was answered.
LEMMA ClientGoesOn ==
  ASSUME ClientInv, NEW c \in Clients, exchange[c] # "none", OnlyClient(c), UNCHANGED <<results, m_clients>>,
         \/ /\ exchange'[c] = "header" /\ listening'[c] /\ m_http_handler[c].kind # "head"
            /\ m_http_handler'[c].size <= MaxSize
         \/ exchange[c] = "header" /\ exchange'[c] = "none" /\ m_http_handler[c].kind = "head"
  PROVE  ClientInv'
<1> DEFINE k == m_http_handler[c].call
<1>1. ClientType
  BY DEF ClientInv
<1>2. /\ k # 0
      /\ exchange[c] = "sent" \/ m_http_handler[c].kind # "head" => results[k] = <<>>
      /\ exchange[c] = "header" /\ m_http_handler[c].kind = "head" => results[k] # <<>> /\ m_keepalive[c]
  BY DEF ClientInv, Working
<1>3. m_http_handler[c] # HttpClients!NoHandler
  BY <1>2, WorksForItsCall
<1>4. m_http_handler'[c].call = k /\ m_http_handler'[c].kind = m_http_handler[c].kind
  BY DEF OnlyClient
<1>5. \A d \in Clients : d # c => /\ m_http_handler'[d] = m_http_handler[d] /\ listening'[d] = listening[d]
                                  /\ exchange'[d] = exchange[d]
  BY DEF OnlyClient
<1>6. UNCHANGED <<m_keepalive, posted, calls, results, m_clients>>
  BY DEF OnlyClient
<1>7. ClientType'
  BY <1>1, <1>6 DEF ClientType, OnlyClient
<1>8. HandlersOfCalls'
  <2> SUFFICES ASSUME NEW d \in Clients, m_http_handler'[d].call # 0
               PROVE  /\ m_http_handler'[d].call \in DOMAIN calls /\ m_http_handler'[d].kind \in HttpClients!Kinds
                      /\ calls[m_http_handler'[d].call] = <<d, m_http_handler'[d].kind>>
    BY <1>6 DEF HandlersOfCalls
  <2>1. m_http_handler'[d].call = m_http_handler[d].call /\ m_http_handler'[d].kind = m_http_handler[d].kind
    BY <1>4, <1>5
  <2> QED
    BY <2>1 DEF ClientInv, HandlersOfCalls
<1>9. PostedOnce'
  BY <1>6 DEF ClientInv, PostedOnce
<1> HIDE DEF k
<1>10. Working'
  <2> SUFFICES ASSUME NEW d \in Clients, exchange'[d] # "none"
               PROVE  /\ listening'[d] /\ m_http_handler'[d].call # 0
                      /\ exchange'[d] = "sent" \/ m_http_handler'[d].kind # "head" => results[m_http_handler'[d].call] = <<>>
                      /\ exchange'[d] = "header" /\ m_http_handler'[d].kind = "head" =>
                           results[m_http_handler'[d].call] # <<>> /\ m_keepalive[d]
                      /\ m_http_handler'[d].size <= MaxSize
    BY <1>6 DEF Working
  <2>1. CASE d = c
    BY <1>2, <1>4, <2>1
  <2>2. CASE d # c
    BY <1>5, <2>2 DEF ClientInv, Working
  <2> QED
    BY <2>1, <2>2
<1>11. HttpClients!CallbackOnce'
  <2> SUFFICES ASSUME NEW j \in DOMAIN calls
               PROVE  /\ Len(results[j]) <= 1 \/ (calls[j][2] = "head" /\ m_keepalive[calls[j][1]])
                      /\ results[j] = <<>> =>
                           \/ j \in posted
                           \/ /\ m_http_handler'[calls[j][1]].call = j /\ listening'[calls[j][1]]
                              /\ exchange'[calls[j][1]] # "none"
                           \/ HttpClients!Superseded(j) \/ m_http_handler'[calls[j][1]] = HttpClients!NoHandler \/ calls[j][2] = "refused"
    BY <1>6 DEF HttpClients!CallbackOnce, HttpClients!Handler, HttpClients!Superseded
  <2>1. /\ Len(results[j]) <= 1 \/ (calls[j][2] = "head" /\ m_keepalive[calls[j][1]])
        /\ results[j] = <<>> =>
             \/ j \in posted
             \/ /\ m_http_handler[calls[j][1]].call = j /\ listening[calls[j][1]] /\ exchange[calls[j][1]] # "none"
             \/ HttpClients!Superseded(j) \/ m_http_handler[calls[j][1]] = HttpClients!NoHandler \/ calls[j][2] = "refused"
    BY DEF ClientInv, HttpClients!CallbackOnce, HttpClients!Handler
  <2>2. calls[j][1] \in Clients
    BY <1>1, ElementOfSeq DEF ClientType
  <2>3. CASE calls[j][1] = c
    <3>1. CASE exchange'[c] = "header" /\ listening'[c]
      <4>1. m_http_handler'[calls[j][1]].call = m_http_handler[calls[j][1]].call /\ listening'[calls[j][1]]
            /\ exchange'[calls[j][1]] # "none" /\ m_http_handler[calls[j][1]] # HttpClients!NoHandler
        BY <1>3, <1>4, <2>3, <3>1 DEF k
      <4> QED
        BY <2>1, <4>1
    <3>2. CASE exchange[c] = "header" /\ m_http_handler[c].kind = "head"
      <4>1. results[j] = <<>> => m_http_handler[calls[j][1]].call # j
        BY <1>2, <2>3, <3>2 DEF k
      <4>2. m_http_handler[calls[j][1]] # HttpClients!NoHandler
        BY <1>3, <2>3
      <4> QED
        BY <2>1, <4>1, <4>2
    <3> QED
      BY <3>1, <3>2
  <2>4. CASE calls[j][1] # c
    <3>1. /\ m_http_handler'[calls[j][1]] = m_http_handler[calls[j][1]]
          /\ listening'[calls[j][1]] = listening[calls[j][1]] /\ exchange'[calls[j][1]] = exchange[calls[j][1]]
      BY <1>5, <2>2, <2>4
    <3> QED
      BY <2>1, <3>1
  <2> QED
    BY <2>3, <2>4
<1>12. HttpClients!ResultsWithinLimits'
  <2>1. ASSUME NEW d \in Clients, m_http_handler'[d].call # 0, m_http_handler'[d].kind # "head",
               results[m_http_handler'[d].call] = << 0 >>
        PROVE  m_http_handler'[d].size <= MaxSize
    <3>1. CASE d = c
      BY <1>4, <2>1, <3>1
    <3>2. CASE d # c
      BY <1>5, <2>1, <3>2 DEF ClientInv, HttpClients!ResultsWithinLimits, HttpClients!Handler
    <3> QED
      BY <3>1, <3>2
  <2> QED
    BY <1>6, <2>1 DEF ClientInv, HttpClients!ResultsWithinLimits, HttpClients!Handler
<1> QED
  BY <1>7, <1>8, <1>9, <1>10, <1>11, <1>12 DEF ClientInv

\* Clients that have made no call.
LEMMA ClientInitially == HttpClients!Init => ClientInv
<1> SUFFICES ASSUME HttpClients!Init PROVE ClientInv
  OBVIOUS
<1>1. calls = <<>> /\ posted = {} /\ m_clients = {} /\ results = [k \in 1 .. MaxCalls |-> <<>>]
  BY DEF HttpClients!Init
<1>2. /\ m_http_handler = [c \in Clients |-> HttpClients!NoHandler] /\ m_keepalive \in [Clients -> BOOLEAN]
      /\ listening = [c \in Clients |-> FALSE] /\ exchange = [c \in Clients |-> "none"]
  BY DEF HttpClients!Init
<1>3. HttpClients!NoHandler \in Handlers /\ HttpClients!NoHandler.call = 0
  BY DEF HttpClients!NoHandler, Handlers
<1>4. /\ calls \in Seq(Clients \X (HttpClients!Kinds \cup {"invalid", "refused"})) /\ Len(calls) <= MaxCalls /\ DOMAIN calls = {}
      /\ Len(calls) = 0
  BY <1>1, ClientsAssumption
<1>5. results \in [1 .. MaxCalls -> Seq(Int)]
  <2>1. <<>> \in Seq(Int)
    OBVIOUS
  <2> QED
    BY <1>1, <2>1
<1>6. ClientType
  BY <1>1, <1>2, <1>3, <1>4, <1>5 DEF ClientType
<1>7. HandlersOfCalls /\ Working /\ HttpClients!ResultsWithinLimits
  BY <1>1, <1>2, <1>3 DEF HandlersOfCalls, Working, HttpClients!ResultsWithinLimits, HttpClients!Handler
<1>8. PostedOnce
  BY <1>1 DEF PostedOnce
<1>9. HttpClients!CallbackOnce
  BY <1>4 DEF HttpClients!CallbackOnce
<1> QED
  BY <1>6, <1>7, <1>8, <1>9 DEF ClientInv

\* Nothing was refused before the first call.
LEMMA RefusedInitially == HttpClients!Init => HttpClients!RefusedStay
<1>1. HttpClients!Init => DOMAIN calls = {}
  BY DEF HttpClients!Init
<1> QED
  BY <1>1 DEF HttpClients!RefusedStay

\* The listener and the work of one connection change.
LEMMA OneConnection ==
  ASSUME ClientType, NEW c \in Clients, NEW l \in BOOLEAN, NEW x \in {"none", "sent", "header"},
         NEW n \in Int, NEW z \in Nat,
         m_http_handler' = m_http_handler
           \/ m_http_handler' = [m_http_handler EXCEPT ![c].content_length = n, ![c].size = z]
           \/ m_http_handler' = [m_http_handler EXCEPT ![c].size = z],
         listening' = [listening EXCEPT ![c] = l] \/ (listening' = listening /\ l = listening[c]),
         exchange' = [exchange EXCEPT ![c] = x] \/ (exchange' = exchange /\ x = exchange[c]),
         UNCHANGED <<m_keepalive, posted, calls>>
  PROVE  /\ OnlyClient(c) /\ listening'[c] = l /\ exchange'[c] = x
         /\ m_http_handler'[c].size = IF m_http_handler' = m_http_handler THEN m_http_handler[c].size ELSE z
<1>1. m_http_handler \in [Clients -> Handlers] /\ m_http_handler[c] \in Handlers
  BY DEF ClientType
<1>2. /\ listening' \in [Clients -> BOOLEAN] /\ listening'[c] = l
      /\ \A d \in Clients : d # c => listening'[d] = listening[d]
  BY DEF ClientType
<1>3. /\ exchange' \in [Clients -> {"none", "sent", "header"}] /\ exchange'[c] = x
      /\ \A d \in Clients : d # c => exchange'[d] = exchange[d]
  BY DEF ClientType
<1>4. /\ m_http_handler' \in [Clients -> Handlers]
      /\ m_http_handler'[c].call = m_http_handler[c].call /\ m_http_handler'[c].kind = m_http_handler[c].kind
      /\ \A d \in Clients : d # c => m_http_handler'[d] = m_http_handler[d]
      /\ m_http_handler'[c].size = IF m_http_handler' = m_http_handler THEN m_http_handler[c].size ELSE z
  <2>1. CASE m_http_handler' = m_http_handler
    BY <1>1, <2>1
  <2>2. CASE m_http_handler' = [m_http_handler EXCEPT ![c].content_length = n, ![c].size = z]
    <3>1. m_http_handler'[c] = [m_http_handler[c] EXCEPT !.content_length = n, !.size = z]
      BY <1>1, <2>2
    <3>2. [m_http_handler[c] EXCEPT !.content_length = n, !.size = z] \in Handlers
      BY <1>1 DEF Handlers
    <3>3. /\ m_http_handler'[c].call = m_http_handler[c].call /\ m_http_handler'[c].kind = m_http_handler[c].kind
          /\ m_http_handler'[c].size = z
      BY <1>1, <3>1 DEF Handlers
    <3> QED
      BY <1>1, <2>2, <3>1, <3>2, <3>3
  <2>3. CASE m_http_handler' = [m_http_handler EXCEPT ![c].size = z]
    <3>1. m_http_handler'[c] = [m_http_handler[c] EXCEPT !.size = z]
      BY <1>1, <2>3
    <3>2. [m_http_handler[c] EXCEPT !.size = z] \in Handlers
      BY <1>1 DEF Handlers
    <3>3. /\ m_http_handler'[c].call = m_http_handler[c].call /\ m_http_handler'[c].kind = m_http_handler[c].kind
          /\ m_http_handler'[c].size = z
      BY <1>1, <3>1 DEF Handlers
    <3> QED
      BY <1>1, <2>3, <3>1, <3>2, <3>3
  <2> QED
    BY <2>1, <2>2, <2>3
<1> QED
  BY <1>2, <1>3, <1>4 DEF OnlyClient

\* What the connection tells its listener keeps the invariant.
LEMMA ListenerStep ==
  ASSUME ClientInv, NEW c \in Clients,
         \/ HttpClients!on_http_response(c) \/ HttpClients!on_http_data(c)
         \/ HttpClients!on_http_complete(c) \/ HttpClients!on_http_error(c)
  PROVE  ClientInv'
<1> DEFINE h == m_http_handler[c]
<1>0. /\ ClientType /\ h \in Handlers /\ h.size \in Nat /\ m_keepalive[c] \in BOOLEAN /\ listening[c] \in BOOLEAN
      /\ exchange[c] \in {"none", "sent", "header"} /\ 0 \in Nat /\ 0 \in Int /\ -1 \in Int /\ 2 \in Int
  BY DEF ClientInv, ClientType, Handlers
<1>1. CASE HttpClients!on_http_response(c)
  <2>1. exchange[c] = "sent" /\ listening[c] /\ UNCHANGED <<m_keepalive, posted, calls>>
    BY <1>1 DEF HttpClients!on_http_response
  <2>2. PICK len \in Lengths :
          /\ m_http_handler' = [m_http_handler EXCEPT ![c].content_length = len, ![c].size = 0]
          /\ \/ h.kind # "head" /\ HttpClients!handle_error(c, HttpClients!error_general)
             \/ /\ h.kind = "head" /\ HttpClients!Callback(c, h.call, 0)
                /\ \/ m_keepalive[c] /\ exchange' = [exchange EXCEPT ![c] = "header"] /\ listening' = listening
                   \/ HttpClients!close_connection(c)
             \/ /\ h.kind # "head" /\ exchange' = [exchange EXCEPT ![c] = "header"]
                /\ UNCHANGED <<listening, results, m_clients>>
    BY <1>1 DEF HttpClients!on_http_response, HttpClients!Handler
  <2>3. len \in Int
    BY DEF Lengths
  <2>4. CASE h.kind # "head" /\ HttpClients!handle_error(c, HttpClients!error_general)
    <3>1. /\ listening' = [listening EXCEPT ![c] = FALSE] /\ exchange' = [exchange EXCEPT ![c] = "none"]
          /\ HttpClients!Callback(c, h.call, -1)
      BY <2>4 DEF HttpClients!handle_error, HttpClients!close_connection, HttpClients!Handler, HttpClients!ErrorCode,
                  HttpClients!error_general, HttpClients!eof
    <3>2. OnlyClient(c) /\ exchange'[c] = "none"
      BY <1>0, <2>1, <2>2, <2>3, <3>1, OneConnection
    <3> QED
      BY <1>0, <2>1, <2>4, <3>1, <3>2, ClientAnswered
  <2>5. CASE /\ h.kind = "head" /\ HttpClients!Callback(c, h.call, 0)
             /\ m_keepalive[c] /\ exchange' = [exchange EXCEPT ![c] = "header"] /\ listening' = listening
    <3>1. OnlyClient(c) /\ exchange'[c] = "header" /\ listening'[c]
      BY <1>0, <2>1, <2>2, <2>3, <2>5, OneConnection
    <3>2. m_http_handler'[c].size <= MaxSize
      <4>1. m_http_handler'[c].size = 0
        BY <1>0, <2>2 DEF ClientType, Handlers
      <4> QED
        BY <4>1, ClientsAssumption
    <3> QED
      BY <1>0, <2>1, <2>5, <3>1, <3>2, ClientAnswered
  <2>6. CASE h.kind = "head" /\ HttpClients!Callback(c, h.call, 0) /\ HttpClients!close_connection(c)
    <3>1. listening' = [listening EXCEPT ![c] = FALSE] /\ exchange' = [exchange EXCEPT ![c] = "none"]
      BY <2>6 DEF HttpClients!close_connection
    <3>2. OnlyClient(c) /\ exchange'[c] = "none"
      BY <1>0, <2>1, <2>2, <2>3, <3>1, OneConnection
    <3> QED
      BY <1>0, <2>1, <2>6, <3>2, ClientAnswered
  <2>7. CASE /\ h.kind # "head" /\ exchange' = [exchange EXCEPT ![c] = "header"]
             /\ UNCHANGED <<listening, results, m_clients>>
    <3>1. OnlyClient(c) /\ exchange'[c] = "header" /\ listening'[c]
      BY <1>0, <2>1, <2>2, <2>3, <2>7, OneConnection
    <3>2. m_http_handler'[c].size <= MaxSize
      <4>1. m_http_handler'[c].size = 0
        BY <1>0, <2>2 DEF ClientType, Handlers
      <4> QED
        BY <4>1, ClientsAssumption
    <3> QED
      BY <2>1, <2>7, <3>1, <3>2, ClientGoesOn
  <2> QED
    BY <2>2, <2>4, <2>5, <2>6, <2>7
<1>2. CASE HttpClients!on_http_data(c)
  <2>1. /\ exchange[c] = "header" /\ listening[c] /\ h.kind # "head" /\ UNCHANGED <<m_keepalive, posted, calls>>
        /\ m_http_handler' = [m_http_handler EXCEPT ![c].size = h.size + 1]
    BY <1>0, <1>2 DEF HttpClients!on_http_data, HttpClients!More, HttpClients!Handler, ClientType
  <2>2. h.size + 1 \in Nat /\ m_http_handler'[c].size = h.size + 1
    BY <1>0, <2>1 DEF ClientType, Handlers
  <2>3. CASE h.size + 1 > MaxSize
    <3>1. /\ listening' = [listening EXCEPT ![c] = FALSE] /\ exchange' = [exchange EXCEPT ![c] = "none"]
          /\ HttpClients!Callback(c, h.call, -1)
      BY <1>2, <2>1, <2>3 DEF HttpClients!on_http_data, HttpClients!handle_error, HttpClients!close_connection,
           HttpClients!Handler, HttpClients!ErrorCode, HttpClients!error_general, HttpClients!eof
    <3>2. OnlyClient(c) /\ exchange'[c] = "none"
      BY <1>0, <2>1, <2>2, <3>1, OneConnection
    <3> QED
      BY <1>0, <2>1, <3>1, <3>2, ClientAnswered
  <2>4. CASE ~(h.size + 1 > MaxSize)
    <3>1. UNCHANGED <<listening, exchange, results, m_clients>>
      BY <1>2, <2>4 DEF HttpClients!on_http_data, HttpClients!Handler
    <3>2. OnlyClient(c) /\ exchange'[c] = "header" /\ listening'[c]
      BY <1>0, <2>1, <2>2, <3>1, OneConnection
    <3>3. m_http_handler'[c].size <= MaxSize
      BY <2>2, <2>4, ClientsAssumption
    <3> QED
      BY <2>1, <3>1, <3>2, <3>3, ClientGoesOn
  <2> QED
    BY <2>3, <2>4
<1>3. CASE HttpClients!on_http_complete(c)
  <2>1. /\ exchange[c] = "header" /\ listening[c] /\ UNCHANGED <<m_keepalive, posted, calls, m_http_handler>>
        /\ exchange' = [exchange EXCEPT ![c] = "none"] /\ listening' = [listening EXCEPT ![c] = m_keepalive[c]]
        /\ \/ h.kind = "head" /\ UNCHANGED <<results, m_clients>>
           \/ h.kind # "head" /\ HttpClients!Callback(c, h.call, 0)
    BY <1>3 DEF HttpClients!on_http_complete, HttpClients!Handler
  <2>2. OnlyClient(c) /\ exchange'[c] = "none"
    BY <1>0, <2>1, OneConnection
  <2>3. m_http_handler'[c].size <= MaxSize
    BY <2>1 DEF ClientInv, Working
  <2>4. CASE h.kind = "head" /\ UNCHANGED <<results, m_clients>>
    BY <2>1, <2>2, <2>4, ClientGoesOn
  <2>5. CASE h.kind # "head" /\ HttpClients!Callback(c, h.call, 0)
    BY <1>0, <2>1, <2>2, <2>3, <2>5, ClientAnswered
  <2> QED
    BY <2>1, <2>4, <2>5
<1>4. CASE HttpClients!on_http_error(c)
  <2>1. /\ exchange[c] # "none" /\ listening[c] /\ UNCHANGED <<m_keepalive, posted, calls, m_http_handler>>
        /\ exchange' = [exchange EXCEPT ![c] = "none"]
        /\ listening' = [listening EXCEPT ![c] = m_keepalive[c] /\ h.kind = "head"]
    BY <1>4 DEF HttpClients!on_http_error, HttpClients!Handler
  <2>2. PICK e \in Int : HttpClients!Callback(c, h.call, e)
    <3>1. PICK errcode \in {-1, 2} : HttpClients!Callback(c, h.call, HttpClients!ErrorCode(c, errcode))
      BY <1>4 DEF HttpClients!on_http_error, HttpClients!Handler, HttpClients!error_general, HttpClients!eof
    <3>2. HttpClients!ErrorCode(c, errcode) \in Int
      BY DEF HttpClients!ErrorCode
    <3> QED
      BY <3>1, <3>2
  <2>3. OnlyClient(c) /\ exchange'[c] = "none"
    <3>1. (m_keepalive[c] /\ h.kind = "head") \in BOOLEAN
      OBVIOUS
    <3> QED
      BY <1>0, <2>1, <3>1, OneConnection
  <2>4. m_http_handler'[c].size <= MaxSize
    BY <2>1 DEF ClientInv, Working
  <2> QED
    BY <2>1, <2>2, <2>3, <2>4, ClientAnswered
<1> QED
  BY <1>1, <1>2, <1>3, <1>4

\* Every step of the clients, the requester and their connections keeps the
\* invariant.
LEMMA ClientStep ==
  ASSUME ClientInv, HttpClients!Next
  PROVE  ClientInv'
<1>1. ASSUME NEW c \in Clients, NEW kind \in HttpClients!Kinds, HttpClients!call(c, kind) PROVE ClientInv'
  <2>1. /\ Len(calls) < MaxCalls /\ calls' = Append(calls, <<c, kind>>)
        /\ HttpClients!async_download(c, kind, Len(calls) + 1)
        /\ UNCHANGED <<m_keepalive, posted, results>> /\ m_clients' \subseteq m_clients \cup {c}
    BY <1>1 DEF HttpClients!call
  <2> QED
    BY <2>1, ClientCalls
<1>2. ASSUME NEW c \in Clients, NEW kind \in {"get", "post"}, HttpClients!requester_call(c, kind) PROVE ClientInv'
  <2>1. /\ Len(calls) < MaxCalls /\ calls' = Append(calls, <<c, kind>>)
        /\ HttpClients!async_download(c, kind, Len(calls) + 1)
        /\ UNCHANGED <<m_keepalive, posted, results>> /\ m_clients' \subseteq m_clients \cup {c}
    BY <1>2 DEF HttpClients!requester_call
  <2>2. kind \in HttpClients!Kinds
    BY DEF HttpClients!Kinds
  <2> QED
    BY <2>1, <2>2, ClientCalls
<1>3. ASSUME NEW c \in Clients, HttpClients!call_invalid(c) \/ HttpClients!notify_invalid(c) PROVE ClientInv'
  <2>1. /\ Len(calls) < MaxCalls /\ calls' = Append(calls, <<c, "invalid">>) /\ posted' = posted \cup {Len(calls) + 1}
        /\ UNCHANGED <<m_keepalive, m_http_handler, listening, exchange, results>>
        /\ m_clients' \subseteq m_clients \cup {c}
    BY <1>3 DEF HttpClients!call_invalid, HttpClients!notify_invalid, HttpClients!connection
  <2> QED
    BY <2>1, ClientCallsInvalid
<1>4. ASSUME NEW c \in Clients, HttpClients!post_refused(c) PROVE ClientInv'
  <2>1. /\ Len(calls) < MaxCalls /\ calls' = Append(calls, <<c, "refused">>)
        /\ UNCHANGED <<m_keepalive, m_http_handler, listening, exchange, results, posted>>
        /\ m_clients' \subseteq m_clients \cup {c}
    BY <1>4 DEF HttpClients!post_refused, HttpClients!connection
  <2> QED
    BY <2>1, ClientCallRefused
<1> QED
  BY <1>1, <1>2, <1>3, <1>4, ClientCleared, ListenerStep, ClientRunsPosted DEF HttpClients!Next

\* A refused call's client is in the table and makes no call after it, so that no
\* callback is its own.
LEMMA RefusedAdds ==
  ASSUME ClientInv, HttpClients!RefusedStay, NEW c \in Clients \ m_clients,
         NEW kind \in HttpClients!Kinds \cup {"invalid", "refused"}, Len(calls) < MaxCalls,
         calls' = Append(calls, <<c, kind>>), UNCHANGED results, m_clients \subseteq m_clients',
         kind = "refused" => c \in m_clients' /\ \A k \in DOMAIN calls : calls[k][1] # c
  PROVE  HttpClients!RefusedStay'
<1> DEFINE n == Len(calls) + 1
<1>1. /\ n \in DOMAIN calls' /\ calls'[n][1] = c /\ calls'[n][2] = kind /\ results[n] = <<>>
      /\ \A j \in DOMAIN calls' : j = n \/ j \in DOMAIN calls
      /\ \A j \in DOMAIN calls : j \in DOMAIN calls' /\ calls'[j] = calls[j]
  BY CallAdded
<1> HIDE DEF n
<1> SUFFICES ASSUME NEW k \in DOMAIN calls', calls'[k][2] = "refused"
             PROVE  /\ results[k] = <<>> /\ calls'[k][1] \in m_clients'
                    /\ \A j \in DOMAIN calls' : calls'[j][1] = calls'[k][1] => j = k
  BY DEF HttpClients!RefusedStay
<1>2. CASE k = n
  <2>1. c \in m_clients' /\ \A j \in DOMAIN calls : calls[j][1] # c
    BY <1>1, <1>2
  <2> QED
    BY <1>1, <1>2, <2>1
<1>3. CASE k \in DOMAIN calls
  <2>1. /\ results[k] = <<>> /\ calls[k][1] \in m_clients /\ calls'[k] = calls[k]
        /\ \A j \in DOMAIN calls : calls[j][1] = calls[k][1] => j = k
    BY <1>1, <1>3 DEF HttpClients!RefusedStay
  <2>2. calls[k][1] # c
    BY <2>1
  <2> QED
    BY <1>1, <2>1, <2>2
<1> QED
  BY <1>1, <1>2, <1>3

\* A callback is that of a call that was not refused, of a client that was not.
LEMMA RefusedAnswered ==
  ASSUME ClientInv, HttpClients!RefusedStay, NEW k \in DOMAIN calls, NEW e, calls[k][2] # "refused",
         HttpClients!Callback(calls[k][1], k, e), UNCHANGED calls
  PROVE  HttpClients!RefusedStay'
<1>1. DOMAIN calls \subseteq 1 .. MaxCalls /\ results \in [1 .. MaxCalls -> Seq(Int)]
  <2>1. Len(calls) \in Nat /\ DOMAIN calls = 1 .. Len(calls) /\ Len(calls) <= MaxCalls
    BY LenProperties DEF ClientInv, ClientType
  <2> QED
    BY <2>1, ClientsAssumption DEF ClientInv, ClientType
<1>2. /\ m_clients' = m_clients \ {calls[k][1]}
      /\ \A j \in 1 .. MaxCalls : j # k => results'[j] = results[j]
  BY <1>1 DEF HttpClients!Callback
<1> SUFFICES ASSUME NEW i \in DOMAIN calls, calls[i][2] = "refused"
             PROVE  /\ results'[i] = <<>> /\ calls[i][1] \in m_clients'
                    /\ \A j \in DOMAIN calls : calls[j][1] = calls[i][1] => j = i
  BY DEF HttpClients!RefusedStay
<1>3. /\ results[i] = <<>> /\ calls[i][1] \in m_clients
      /\ \A j \in DOMAIN calls : calls[j][1] = calls[i][1] => j = i
  BY DEF HttpClients!RefusedStay
<1>4. i # k /\ calls[k][1] # calls[i][1]
  BY <1>3
<1> QED
  BY <1>1, <1>2, <1>3, <1>4

\* What the requester refused stays.
LEMMA RefusedStep ==
  ASSUME ClientInv, HttpClients!RefusedStay, HttpClients!Next
  PROVE  HttpClients!RefusedStay'
<1>1. ASSUME NEW c \in Clients, NEW kind \in HttpClients!Kinds,
             HttpClients!call(c, kind) \/ HttpClients!requester_call(c, kind)
      PROVE  HttpClients!RefusedStay'
  <2>1. /\ Len(calls) < MaxCalls /\ calls' = Append(calls, <<c, kind>>) /\ c \in Clients \ m_clients
        /\ UNCHANGED results /\ m_clients \subseteq m_clients' /\ kind # "refused"
    BY <1>1 DEF HttpClients!call, HttpClients!requester_call, HttpClients!Kinds
  <2> QED
    BY <2>1, RefusedAdds
<1>2. ASSUME NEW c \in Clients, HttpClients!call_invalid(c) \/ HttpClients!notify_invalid(c)
      PROVE  HttpClients!RefusedStay'
  <2>1. /\ Len(calls) < MaxCalls /\ calls' = Append(calls, <<c, "invalid">>) /\ c \in Clients \ m_clients
        /\ UNCHANGED results /\ m_clients \subseteq m_clients'
    BY <1>2 DEF HttpClients!call_invalid, HttpClients!notify_invalid
  <2> QED
    BY <2>1, RefusedAdds
<1>3. ASSUME NEW c \in Clients, HttpClients!post_refused(c)
      PROVE  HttpClients!RefusedStay'
  <2>1. /\ Len(calls) < MaxCalls /\ calls' = Append(calls, <<c, "refused">>) /\ c \in Clients \ m_clients
        /\ UNCHANGED results /\ m_clients \subseteq m_clients' /\ c \in m_clients'
        /\ \A k \in DOMAIN calls : calls[k][1] # c
    BY <1>3 DEF HttpClients!post_refused, HttpClients!Fresh
  <2> QED
    BY <2>1, RefusedAdds
<1>4. ASSUME UNCHANGED <<calls, results, m_clients>> PROVE HttpClients!RefusedStay'
  BY <1>4 DEF HttpClients!RefusedStay
<1>5. ASSUME NEW c \in Clients, HttpClients!clear(c) PROVE HttpClients!RefusedStay'
  BY <1>4, <1>5 DEF HttpClients!clear
<1>6. ASSUME NEW c \in Clients, exchange[c] # "none", NEW e, HttpClients!Callback(c, m_http_handler[c].call, e),
             UNCHANGED calls
      PROVE  HttpClients!RefusedStay'
  <2> DEFINE k == m_http_handler[c].call
  <2>1. k # 0
    BY <1>6 DEF ClientInv, Working
  <2>2. k \in DOMAIN calls /\ calls[k][1] = c /\ calls[k][2] \in HttpClients!Kinds
    BY <2>1, WorksForItsCall
  <2>3. calls[k][2] # "refused"
    BY <2>2 DEF HttpClients!Kinds
  <2> HIDE DEF k
  <2>4. HttpClients!Callback(calls[k][1], k, e)
    BY <1>6, <2>2 DEF k
  <2> QED
    BY <1>6, <2>2, <2>3, <2>4, RefusedAnswered
<1>7. ASSUME NEW c \in Clients, HttpClients!on_http_response(c) PROVE HttpClients!RefusedStay'
  <2>1. exchange[c] # "none" /\ UNCHANGED calls
    BY <1>7 DEF HttpClients!on_http_response
  <2>2. UNCHANGED <<results, m_clients>> \/ \E e : HttpClients!Callback(c, m_http_handler[c].call, e)
    BY <1>7 DEF HttpClients!on_http_response, HttpClients!handle_error, HttpClients!Handler
  <2> QED
    BY <1>4, <1>6, <2>1, <2>2
<1>8. ASSUME NEW c \in Clients, HttpClients!on_http_data(c) PROVE HttpClients!RefusedStay'
  <2>1. exchange[c] # "none" /\ UNCHANGED calls
    BY <1>8 DEF HttpClients!on_http_data, HttpClients!More
  <2>2. UNCHANGED <<results, m_clients>> \/ \E e : HttpClients!Callback(c, m_http_handler[c].call, e)
    BY <1>8 DEF HttpClients!on_http_data, HttpClients!handle_error, HttpClients!Handler
  <2> QED
    BY <1>4, <1>6, <2>1, <2>2
<1>9. ASSUME NEW c \in Clients, HttpClients!on_http_complete(c) \/ HttpClients!on_http_error(c)
      PROVE  HttpClients!RefusedStay'
  <2>1. exchange[c] # "none" /\ UNCHANGED calls
    BY <1>9 DEF HttpClients!on_http_complete, HttpClients!on_http_error
  <2>2. UNCHANGED <<results, m_clients>> \/ \E e : HttpClients!Callback(c, m_http_handler[c].call, e)
    BY <1>9 DEF HttpClients!on_http_complete, HttpClients!on_http_error, HttpClients!Handler
  <2> QED
    BY <1>4, <1>6, <2>1, <2>2
<1>10. ASSUME NEW k \in posted, HttpClients!run_posted(k) PROVE HttpClients!RefusedStay'
  <2>1. k \in DOMAIN calls /\ calls[k][2] = "invalid"
    BY DEF ClientInv, ClientType, PostedOnce
  <2>2. HttpClients!Callback(calls[k][1], k, HttpClients!error_general) /\ UNCHANGED calls
    BY <1>10 DEF HttpClients!run_posted
  <2> QED
    BY <2>1, <2>2, RefusedAnswered
<1>11. {"get", "post"} \subseteq HttpClients!Kinds
  BY DEF HttpClients!Kinds
<1> QED
  BY <1>1, <1>2, <1>3, <1>5, <1>7, <1>8, <1>9, <1>10, <1>11 DEF HttpClients!Next

-----------------------------------------------------------------------------
(* concurrent_http_connection_impl: the connection of MCClients is the one *)
(* of ConcurrentHttpProofs.                                                *)

Pipeline == INSTANCE ConcurrentHttpProofs

\* A response of MCClients announces its length or is a redirection.
LEMMA PipelineConstants == Pipeline!ConnectionConstants
BY ClientsAssumption DEF Pipeline!ConnectionConstants, BodySizes, Pipeline!Redirect

\* The connections begin alike.
LEMMA PipelineInit == Concurrent!Init => Pipeline!Init
BY DEF Concurrent!Init, Pipeline!Init, Concurrent!NoSite, Pipeline!NoSite,
   Concurrent!Requests, Pipeline!Requests, Concurrent!NewInfo, Pipeline!NewInfo

\* The connections take the same steps.
LEMMA PipelineNext == Concurrent!Next => Pipeline!Next
<1>1. Concurrent!Native => Pipeline!Native
  BY DEF Concurrent!Native, Pipeline!Native, Concurrent!conn, Pipeline!conn,
     Concurrent!Waiting, Pipeline!Waiting, Concurrent!Event, Pipeline!Event
<1>2. Concurrent!Respond => Pipeline!Respond
  BY DEF Concurrent!Respond, Pipeline!Respond, Concurrent!Token, Pipeline!Token,
     Concurrent!conn, Pipeline!conn
<1>3. Concurrent!request => Pipeline!request
  BY DEF Concurrent!request, Pipeline!request, Concurrent!do_request, Pipeline!do_request,
     Concurrent!is_same_host, Pipeline!is_same_host, Concurrent!connect_host,
     Pipeline!connect_host, Concurrent!NewInfo, Pipeline!NewInfo, Concurrent!Callbacks,
     Pipeline!Callbacks, Concurrent!conn, Pipeline!conn, Concurrent!net, Pipeline!net
<1>4. Concurrent!close => Pipeline!close
  BY DEF Concurrent!close, Pipeline!close, Concurrent!do_close, Pipeline!do_close,
     Concurrent!NoSite, Pipeline!NoSite
<1>5. Concurrent!pause_or_resume => Pipeline!pause_or_resume
  BY DEF Concurrent!pause_or_resume, Pipeline!pause_or_resume, Concurrent!net, Pipeline!net
<1>6. Concurrent!on_resolver_address => Pipeline!on_resolver_address
  BY DEF Concurrent!on_resolver_address, Pipeline!on_resolver_address, Concurrent!Dispatch,
     Pipeline!Dispatch
<1>7. Concurrent!on_socket_connect => Pipeline!on_socket_connect
  BY DEF Concurrent!on_socket_connect, Pipeline!on_socket_connect, Concurrent!Dispatch,
     Pipeline!Dispatch, Concurrent!do_close, Pipeline!do_close, Concurrent!NoSite, Pipeline!NoSite, Concurrent!Requests, Pipeline!Requests, Concurrent!Writable,
     Pipeline!Writable, Concurrent!is_same_host, Pipeline!is_same_host
<1>8. Concurrent!on_socket_connect_failed => Pipeline!on_socket_connect_failed
  BY DEF Concurrent!on_socket_connect_failed, Pipeline!on_socket_connect_failed,
     Concurrent!Dispatch, Pipeline!Dispatch, Concurrent!handle_error, Pipeline!handle_error,
     Concurrent!do_close, Pipeline!do_close, Concurrent!connect_host, Pipeline!connect_host,
     Concurrent!NewInfo, Pipeline!NewInfo, Concurrent!NoSite, Pipeline!NoSite,
     Concurrent!Requests, Pipeline!Requests
<1>9. Concurrent!on_socket_receive => Pipeline!on_socket_receive
  BY DEF Concurrent!on_socket_receive, Pipeline!on_socket_receive, Concurrent!Dispatch,
     Pipeline!Dispatch, Concurrent!do_close, Pipeline!do_close, Concurrent!NoSite,
     Pipeline!NoSite
<1>10. Concurrent!on_socket_receive_failed => Pipeline!on_socket_receive_failed
  BY DEF Concurrent!on_socket_receive_failed, Pipeline!on_socket_receive_failed,
     Concurrent!Dispatch, Pipeline!Dispatch, Concurrent!handle_error, Pipeline!handle_error,
     Concurrent!do_close, Pipeline!do_close, Concurrent!connect_host, Pipeline!connect_host,
     Concurrent!NewInfo, Pipeline!NewInfo, Concurrent!NoSite, Pipeline!NoSite,
     Concurrent!Requests, Pipeline!Requests
<1>11. Concurrent!process_header => Pipeline!process_header
  BY DEF Concurrent!process_header, Pipeline!process_header, Concurrent!Front, Pipeline!Front,
     Concurrent!Redirect, Pipeline!Redirect, Concurrent!do_close, Pipeline!do_close,
     Concurrent!NoSite, Pipeline!NoSite, Concurrent!NewInfo, Pipeline!NewInfo,
     Concurrent!conn, Pipeline!conn, Concurrent!net, Pipeline!net
<1>12. Concurrent!process_body => Pipeline!process_body
  BY DEF Concurrent!process_body, Pipeline!process_body, Concurrent!Front, Pipeline!Front,
     Concurrent!Whole, Pipeline!Whole, Concurrent!conn, Pipeline!conn, Concurrent!net,
     Pipeline!net
<1>13. Concurrent!on_complete => Pipeline!on_complete
  BY DEF Concurrent!on_complete, Pipeline!on_complete, Concurrent!conn, Pipeline!conn,
     Concurrent!net, Pipeline!net
<1>14. Concurrent!complete_returns => Pipeline!complete_returns
  BY DEF Concurrent!complete_returns, Pipeline!complete_returns, Concurrent!Callbacks,
     Pipeline!Callbacks, Concurrent!do_close, Pipeline!do_close, Concurrent!NoSite,
     Pipeline!NoSite, Concurrent!conn, Pipeline!conn, Concurrent!net, Pipeline!net
<1>15. Concurrent!check_receive => Pipeline!check_receive
  BY DEF Concurrent!check_receive, Pipeline!check_receive, Concurrent!net, Pipeline!net
<1> QED
  BY <1>1, <1>2, <1>3, <1>4, <1>5, <1>6, <1>7, <1>8, <1>9, <1>10, <1>11, <1>12, <1>13, <1>14,
     <1>15 DEF Concurrent!Next, Pipeline!Next

\* The variables of the connection are those of the other module.
LEMMA PipelineStutter == UNCHANGED concurrentVars => UNCHANGED Pipeline!vars
BY DEF concurrentVars, Pipeline!vars, Pipeline!conn, Pipeline!net

-----------------------------------------------------------------------------
(* The clients together.                                                   *)

ClientsInv ==
  Pipeline!ConnectionInv /\ UdpInv /\ UpnpInv /\ ClientInv /\ HttpClients!RefusedStay

\* The inductive invariant of the concurrent connection, the UDP socket, the
\* UPnP service and the HTTP clients holds in every state that MCClients reaches.
THEOREM ClientsInvariant == ClientsSpec => []ClientsInv
<1>1. ClientsInit => ClientsInv
  BY UdpInitially, UpnpInitially, ClientInitially, RefusedInitially, PipelineConstants, PipelineInit,
     Pipeline!ConnectionInit DEF ClientsInit, InitOf, ClientsInv
<1>2. ASSUME UdpInv, UNCHANGED udpVars PROVE UdpInv'
  BY <1>2 DEF udpVars, UdpInv, UdpType, WithoutListener, SilentAfterDestroy, Udp!ReceiveAnsweredOnce, Udp!Destroyed
<1>3. ASSUME UpnpInv, UNCHANGED upnpVars PROVE UpnpInv'
  BY <1>3 DEF upnpVars, UpnpInv, UpnpType, AddsThePort, Upnp!ReportedIsMapped, Upnp!SearchIsHeard
<1>4. ASSUME ClientInv, HttpClients!RefusedStay, UNCHANGED clientVars PROVE ClientInv' /\ HttpClients!RefusedStay'
  BY <1>4 DEF clientVars, HttpClients!RefusedStay, ClientInv, ClientType, HandlersOfCalls, PostedOnce, Working, HttpClients!CallbackOnce,
       HttpClients!ResultsWithinLimits, HttpClients!Handler, HttpClients!Superseded
<1>5. ASSUME Pipeline!ConnectionInv, Concurrent!Next \/ UNCHANGED concurrentVars
      PROVE  Pipeline!ConnectionInv'
  BY <1>5, PipelineConstants, PipelineNext, PipelineStutter, Pipeline!ConnectionStep
<1>6. ClientsInv /\ [ClientsNext]_clientsVars => ClientsInv'
  <2> SUFFICES ASSUME ClientsInv, [ClientsNext]_clientsVars PROVE ClientsInv'
    OBVIOUS
  <2>1. CASE UNCHANGED clientsVars
    BY <1>2, <1>3, <1>4, <1>5, <2>1 DEF clientsVars, ClientsInv
  <2>2. CASE Concurrent!Next /\ UNCHANGED <<part, clientVars, udpVars, upnpVars>>
    BY <1>2, <1>3, <1>4, <1>5, <2>2 DEF ClientsInv
  <2>3. CASE HttpClients!Next /\ UNCHANGED <<part, concurrentVars, udpVars, upnpVars>>
    BY <1>2, <1>3, <1>5, <2>3, ClientStep, RefusedStep DEF ClientsInv
  <2>4. CASE Udp!UdpNext /\ UNCHANGED <<part, concurrentVars, clientVars, upnpVars>>
    BY <1>3, <1>4, <1>5, <2>4, UdpStep DEF ClientsInv
  <2>5. CASE Upnp!UpnpNext /\ UNCHANGED <<part, concurrentVars, clientVars, udpVars>>
    BY <1>2, <1>4, <1>5, <2>5, UpnpStep DEF ClientsInv
  <2> QED
    BY <2>1, <2>2, <2>3, <2>4, <2>5 DEF ClientsNext
<1> QED
  BY <1>1, <1>6, PTL DEF ClientsSpec

\* Every receive() of a UDP socket is answered exactly once through any number
\* of closes and reopenings and never after destroy(); the UPnP service hears
\* the answers to its searches and reports only mappings the gateway has.
THEOREM LossyAnswersHold == ClientsSpec => []LossyAnswers
<1>1. ClientsInv => LossyAnswers
  BY DEF ClientsInv, UdpInv, UpnpInv, LossyAnswers
<1> QED
  BY <1>1, ClientsInvariant, PTL

\* The callback of every call of any number of HTTP clients comes once, or is
\* still owed by the connection or the io_service, unless a later call or
\* clear() took over; a good download stayed within its size, and the requester
\* lets go of a client with its callback.  A client for which its post() returned
\* NULL it keeps for ever.
THEOREM CallsAnsweredHold == ClientsSpec => []CallsAnswered
<1>1. ClientsInv => CallsAnswered
  BY DEF ClientsInv, ClientInv, CallsAnswered
<1> QED
  BY <1>1, ClientsInvariant, PTL

\* What the concurrent connection delivers to a request is the body of that
\* request's own response, in order, for any number of requests, although the
\* answers of a connection carry no mark of the request they belong to.
THEOREM PipelinedOwnDataHolds == ClientsSpec => []PipelinedOwnData
<1>1. ClientsInv => PipelinedOwnData
  BY DEF ClientsInv, Pipeline!ConnectionInv, PipelinedOwnData, Pipeline!PipelinedOwnData,
         Concurrent!PipelinedOwnData, Pipeline!Requests, Concurrent!Requests, Pipeline!Token, Concurrent!Token
<1> QED
  BY <1>1, ClientsInvariant, PTL

\* Until something fails, a connection is being made for the concurrent
\* connection's queue, or it is open and read (unless paused) and its front is
\* written; the one request that stays unwritten there is one for another site,
\* for any number of requests and named hosts (concurrent_http_connection).
THEOREM QueueServedHolds == ClientsSpec => []QueueServed
<1>1. ClientsInv => QueueServed
  BY PipelineConstants, Pipeline!ServedFront
     DEF ClientsInv, QueueServed, Pipeline!QueueServed, Concurrent!QueueServed, Pipeline!Front, Concurrent!Front,
         Pipeline!Stranded, Concurrent!Stranded
<1> QED
  BY <1>1, ClientsInvariant, PTL
=============================================================================
