------------------------ MODULE HttpConnectionProofs ------------------------
(***************************************************************************)
(* HttpConnection implements HttpExchange, and its invariants, for every   *)
(* number of requests, all hosts and lengths of responses, with a careful  *)
(* listener.                                                               *)
(***************************************************************************)
EXTENDS HttpConnection, FiniteSetTheorems, SequenceTheorems, TLAPS

Tokens == [req : Requests, part : {"head", "end", "body"}, v : Int]
Events == [kind : {"connect", "resolve", "recv", "posted"}, res : {"ok", "eof", "error"},
           data : Seq(Tokens)]
Infos  == [host : Hosts \cup {NoHost}, header_send : BOOLEAN,
           response_header_received : BOOLEAN, header_finished : BOOLEAN,
           content_length : Int, received_size : Nat, finished : BOOLEAN,
           redirect_times : Nat, eof : BOOLEAN, refused : BOOLEAN]
Processing == {"header", "body", "on_http_response", "on_http_data"}
Telling    == {"on_http_response", "on_http_data"}

Words ==
  /\ m_socket \in {"new", "connecting", "connected", "failed"}
  /\ m_name_resolver \in {"none", "resolving"}
  /\ pc \in {"idle", "tail"} \cup Processing \cup Callbacks
Flags ==
  /\ keep_alive \in BOOLEAN /\ pause_receive \in BOOLEAN /\ m_receiving \in BOOLEAN
  /\ sender_open \in BOOLEAN /\ restarted \in BOOLEAN
Counts ==
  /\ requests \in 0 .. MaxRequests /\ m_request \in 0 .. requests /\ cur \in 0 .. requests
  /\ onwire \in 0 .. requests
Queues == ready \in Seq(Events) /\ stream \in Seq(Tokens) /\ data \in Seq(Tokens)
Tables ==
  /\ info \in [Requests -> Infos] /\ got \in [Requests -> Seq(Tokens)]
  /\ ended \in [Requests -> {<<>>, <<"complete">>, <<"error">>}]
TypeOK == Words /\ Flags /\ Counts /\ Queues /\ Tables

\* Which request the handler works for, and which are over.
Current ==
  /\ \A r \in Requests : r > requests => ended[r] = <<>> /\ got[r] = <<>>
  /\ m_request # 0 => ended[m_request] = <<>>
  /\ pc \in {"header", "body"} => m_request = cur
  /\ pc \in Processing => cur # 0
  /\ pc \in Telling /\ ~restarted => m_request \in {0, cur}
  /\ pc = "idle" => cur = 0
  /\ pc \notin Processing => data = <<>>

\* The completions that wait are those of operations the socket or the
\* resolver has under way, one of each.
Queue ==
  /\ \A i \in DOMAIN ready : /\ ready[i].kind = "connect" => m_socket = "connecting"
                             /\ ready[i].kind = "resolve" => m_name_resolver = "resolving"
                             /\ ready[i].kind = "recv" => m_socket = "connected" /\ m_receiving
  /\ \A i, j \in DOMAIN ready : ready[i].kind = ready[j].kind /\ ready[i].kind # "posted" => i = j

\* What the socket is for.
Socket ==
  /\ m_socket = "connecting" \/ m_name_resolver = "resolving" =>
       m_request # 0 /\ ~info[m_request].header_send /\ info[m_request].host = m_host
  /\ m_name_resolver = "resolving" => m_socket = "new"
  /\ m_socket = "failed" => m_request = 0
  /\ m_socket \in {"new", "connecting"} => stream = <<>> /\ onwire = 0
  /\ m_request # 0 /\ m_socket # "connected" => ~info[m_request].header_finished
  /\ pc \in Processing => (m_socket = "connected" <=> m_request = cur)
  /\ pc # "idle" /\ m_socket = "connected" => sender_open
  /\ pc = "on_http_error" => m_socket # "connected"

\* A refused response is not read any more.
Refused == m_request # 0 /\ info[m_request].refused =>
             pc = "idle" /\ ~m_receiving /\ m_socket = "connected"

\* Token k of the response to r with length len.
Response(r, len, k) ==
  Token(r, IF k = 1 THEN "head" ELSE IF k = 2 THEN "end" ELSE "body",
        IF k = 1 THEN 0 ELSE IF k = 2 THEN len ELSE k - 2)
Units(len) == IF len = -1 THEN 1 ELSE IF len = Redirect THEN 0 ELSE len
\* s is what follows the first p tokens of that response, or its beginning.
Part(s, r, len, p) ==
  /\ p + Len(s) <= 2 + Units(len)
  /\ \A k \in 1 .. Len(s) : s[k] = Response(r, len, p + k)

\* The data of the read that is waiting.
Read(R) ==
  /\ R \in Seq(Tokens)
  /\ \A i \in DOMAIN ready : ready[i].kind = "recv" => ready[i].data = R
  /\ ~Waiting("recv") => R = <<>>
Taken == IF cur = m_request THEN data ELSE <<>>

\* What is to be processed, was read or has arrived is, in this order, the
\* next part of one response to the current request.
InOrder(R, len, p) ==
  /\ Read(R)
  /\ IF info[m_request].header_finished
     THEN len = info[m_request].content_length /\ p = 2 + info[m_request].received_size
     ELSE p <= 1
  /\ Part(Taken, m_request, len, p)
  /\ Part(R, m_request, len, p + Len(Taken))
  /\ Part(stream, m_request, len, p + Len(Taken) + Len(R))
  /\ onwire # 0 => Taken = <<>> /\ R = <<>> /\ stream = <<>>

Arrived ==
  /\ m_request # 0 /\ ~info[m_request].refused =>
       \E R \in {<<>>} \cup {ready[i].data : i \in DOMAIN ready}, len \in Lengths \cup {Redirect} :
         \E p \in 0 .. 2 + Units(len) : InOrder(R, len, p)
  /\ m_request = 0 /\ m_socket # "failed" => stream = <<>> /\ Read(<<>>)

\* What the current request has received, and what was delivered for it.
Marks ==
  /\ onwire \in {0, m_request}
  /\ m_request # 0 =>
       /\ info[m_request].header_finished = info[m_request].response_header_received
       /\ ~info[m_request].header_finished => info[m_request].received_size = 0
       /\ got[m_request] = [i \in 1 .. info[m_request].received_size |-> BodyToken(m_request, i)]
       /\ onwire # 0 => ~info[m_request].header_finished
       /\ pc = "header" => ~info[m_request].header_finished
       /\ pc \in Telling \cup {"body"} /\ m_request = cur => info[m_request].header_finished

ConnectionInv ==
  /\ TypeOK /\ Current /\ Queue /\ Socket /\ Refused /\ Arrived /\ Marks
  /\ ReadPending /\ CompleteMeansWhole

-----------------------------------------------------------------------------
(* Events and parts of responses.                                          *)

\* Completions without data.
LEMMA EventType ==
  \A k \in {"connect", "resolve", "recv", "posted"}, r \in {"ok", "eof", "error"}, d \in Seq(Tokens) :
    /\ Event(k, r, d) \in Events
    /\ Event(k, r, d).kind = k /\ Event(k, r, d).res = r /\ Event(k, r, d).data = d
  BY DEF Event, Events

\* What survives a close: calls of post_error.
LEMMA PostedType ==
  \A evs \in Seq(Events) :
    /\ PostedCalls(evs) \in Seq(Events)
    /\ \A i \in DOMAIN PostedCalls(evs) : PostedCalls(evs)[i].kind = "posted"
<1> TAKE evs \in Seq(Events)
<1> DEFINE S == {j \in DOMAIN evs : evs[j].kind = "posted"}
           n == Cardinality(S)
           e == Event("posted", "error", <<>>)
<1>1. IsFiniteSet(DOMAIN evs)
  BY LenProperties, FS_Interval
<1>2. n \in Nat
  BY <1>1, FS_Subset, FS_CardinalityType
<1>3. e \in Events /\ e.kind = "posted"
  BY EmptySeq, EventType
<1>4. PostedCalls(evs) = [i \in 1 .. n |-> e]
  BY DEF PostedCalls
<1> HIDE DEF n, e
<1>5. [i \in 1 .. n |-> e] \in Seq(Events)
  BY <1>2, <1>3
<1> QED
  BY <1>3, <1>4, <1>5

\* The first completion, and those behind it.
LEMMA FirstEvent ==
  ASSUME ready \in Seq(Events), ready # <<>>
  PROVE  /\ Head(ready) = ready[1] /\ 1 \in DOMAIN ready /\ Head(ready) \in Events
         /\ Head(ready).data \in Seq(Tokens)
         /\ Tail(ready) \in Seq(Events)
         /\ \A i \in DOMAIN Tail(ready) : i + 1 \in DOMAIN ready /\ Tail(ready)[i] = ready[i + 1] /\ i \in Nat \ {0}
<1>1. /\ Head(ready) = ready[1] /\ Head(ready) \in Events
      /\ Tail(ready) \in Seq(Events) /\ Len(Tail(ready)) = Len(ready) - 1
      /\ \A i \in 1 .. Len(Tail(ready)) : Tail(ready)[i] = ready[i + 1]
  BY HeadTailProperties
<1>2. /\ Len(ready) \in Nat /\ Len(ready) # 0 /\ DOMAIN ready = 1 .. Len(ready)
      /\ DOMAIN Tail(ready) = 1 .. Len(Tail(ready))
  BY <1>1, LenProperties, EmptySeq
<1>3. Head(ready).data \in Seq(Tokens)
  BY <1>1 DEF Events
<1> QED
  BY <1>1, <1>2, <1>3

\* Appending a completion.
LEMMA QueueEvent ==
  ASSUME ready \in Seq(Events), NEW e \in Events
  PROVE  /\ Append(ready, e) \in Seq(Events)
         /\ DOMAIN Append(ready, e) = DOMAIN ready \cup {Len(ready) + 1} /\ Len(ready) + 1 \notin DOMAIN ready
         /\ Append(ready, e)[Len(ready) + 1] = e
         /\ \A i \in DOMAIN ready : Append(ready, e)[i] = ready[i]
<1>1. /\ Append(ready, e) \in Seq(Events) /\ Len(Append(ready, e)) = Len(ready) + 1
      /\ \A i \in 1 .. Len(ready) : Append(ready, e)[i] = ready[i]
      /\ Append(ready, e)[Len(ready) + 1] = e
  BY AppendProperties
<1>2. Len(ready) \in Nat /\ DOMAIN ready = 1 .. Len(ready) /\ DOMAIN Append(ready, e) = 1 .. Len(ready) + 1
  BY <1>1, LenProperties
<1> QED
  BY <1>1, <1>2

\* A request's first state.
LEMMA NewInfoType ==
  \A h \in Hosts \cup {NoHost} :
    /\ NewInfo(h) \in Infos /\ [NewInfo(h) EXCEPT !.header_send = TRUE] \in Infos
    /\ \A i \in Infos : reset_handling_state(i, h) \in Infos
<1> TAKE h \in Hosts \cup {NoHost}
<1>1. NewInfo(h) \in Infos
  BY DEF NewInfo, Infos
<1>2. [NewInfo(h) EXCEPT !.header_send = TRUE] \in Infos
  BY <1>1 DEF Infos
<1>3. ASSUME NEW i \in Infos PROVE reset_handling_state(i, h) \in Infos
  <2>1. i.redirect_times + 1 \in Nat
    BY DEF Infos
  <2> QED
    BY <1>1, <2>1 DEF Infos, reset_handling_state
<1> QED
  BY <1>1, <1>2, <1>3

\* Cutting a sequence in two.
LEMMA Cut ==
  ASSUME NEW E, NEW s \in Seq(E), NEW n \in 0 .. Len(s)
  PROVE  /\ SubSeq(s, 1, n) \in Seq(E) /\ Len(SubSeq(s, 1, n)) = n
         /\ \A i \in 1 .. n : SubSeq(s, 1, n)[i] = s[i]
         /\ SubSeq(s, n + 1, Len(s)) \in Seq(E) /\ Len(SubSeq(s, n + 1, Len(s))) = Len(s) - n
         /\ \A i \in 1 .. Len(s) - n : SubSeq(s, n + 1, Len(s))[i] = s[n + i]
<1>1. Len(s) \in Nat /\ \A i \in 1 .. Len(s) : s[i] \in E
  BY LenProperties, ElementOfSeq
<1>2. /\ SubSeq(s, 1, n) \in Seq(E) /\ Len(SubSeq(s, 1, n)) = n
      /\ \A i \in 1 .. n : SubSeq(s, 1, n)[i] = s[i]
  <2>1. \A i \in 1 .. n : s[i] \in E
    BY <1>1
  <2>2. /\ SubSeq(s, 1, n) \in Seq(E)
        /\ Len(SubSeq(s, 1, n)) = IF 1 <= n THEN n - 1 + 1 ELSE 0
        /\ \A i \in 1 .. n - 1 + 1 : SubSeq(s, 1, n)[i] = s[1 + i - 1]
    BY <2>1, SubSeqProperties
  <2>3. \A i \in 1 .. n : 1 + i - 1 = i /\ i \in 1 .. n - 1 + 1
    OBVIOUS
  <2> QED
    BY <1>1, <2>2, <2>3
<1>3. /\ SubSeq(s, n + 1, Len(s)) \in Seq(E) /\ Len(SubSeq(s, n + 1, Len(s))) = Len(s) - n
      /\ \A i \in 1 .. Len(s) - n : SubSeq(s, n + 1, Len(s))[i] = s[n + i]
  <2>1. \A i \in n + 1 .. Len(s) : s[i] \in E
    BY <1>1
  <2>2. /\ SubSeq(s, n + 1, Len(s)) \in Seq(E)
        /\ Len(SubSeq(s, n + 1, Len(s))) = IF n + 1 <= Len(s) THEN Len(s) - (n + 1) + 1 ELSE 0
        /\ \A i \in 1 .. Len(s) - (n + 1) + 1 : SubSeq(s, n + 1, Len(s))[i] = s[(n + 1) + i - 1]
    <3>1. n + 1 \in Int /\ Len(s) \in Int
      BY <1>1
    <3> QED
      BY <2>1, <3>1, SubSeqProperties
  <2>3. \A i \in 1 .. Len(s) - n : i \in 1 .. Len(s) - (n + 1) + 1 /\ (n + 1) + i - 1 = n + i
    BY <1>1
  <2> QED
    BY <1>1, <2>2, <2>3
<1> QED
  BY <1>2, <1>3

\* What ServerRespond appends to the stream is the response, token by token.
LEMMA AnswerType ==
  \A r \in Requests, len \in Lengths \cup {Redirect} :
    /\ Answer(r, len) \in Seq(Tokens) /\ Len(Answer(r, len)) = 2 + Units(len) /\ Units(len) \in Nat
    /\ \A k \in 1 .. 2 + Units(len) : Answer(r, len)[k] = Response(r, len, k)
<1> TAKE r \in Requests, len \in Lengths \cup {Redirect}
<1> DEFINE n == IF len = -1 THEN 1 ELSE len
           h == <<Token(r, "head", 0), Token(r, "end", len)>>
           b == [i \in 1 .. n |-> Token(r, "body", i)]
<1>1. len \in Nat \cup {-1, -2} /\ len \in Int /\ n \in Int /\ Units(len) \in Nat
  BY HttpConnectionAssumption DEF Redirect, Units
<1>2. h \in Seq(Tokens) /\ Len(h) = 2 /\ h[1] = Response(r, len, 1) /\ h[2] = Response(r, len, 2)
  BY <1>1 DEF Token, Tokens, Response
<1>3. 1 .. n = 1 .. Units(len)
  BY <1>1 DEF Units, Redirect
<1>4. b = [i \in 1 .. Units(len) |-> Token(r, "body", i)]
  BY <1>3
<1>5. \A i \in 1 .. Units(len) : Token(r, "body", i) \in Tokens
  BY <1>1 DEF Token, Tokens
<1> HIDE DEF n, h, b
<1>6. b \in Seq(Tokens) /\ Len(b) = Units(len) /\ \A i \in 1 .. Units(len) : b[i] = Token(r, "body", i)
  BY <1>1, <1>4, <1>5
<1>7. /\ h \o b \in Seq(Tokens) /\ Len(h \o b) = 2 + Units(len)
      /\ \A k \in 1 .. 2 + Units(len) : (h \o b)[k] = IF k <= 2 THEN h[k] ELSE b[k - 2]
  <2>1. /\ h \o b \in Seq(Tokens) /\ Len(h \o b) = Len(h) + Len(b)
        /\ \A k \in 1 .. Len(h) + Len(b) : (h \o b)[k] = IF k <= Len(h) THEN h[k] ELSE b[k - Len(h)]
    BY <1>2, <1>6, ConcatProperties
  <2> QED
    BY <1>2, <1>6, <2>1
<1>8. ASSUME NEW k \in 1 .. 2 + Units(len) PROVE (h \o b)[k] = Response(r, len, k)
  <2>1. CASE k <= 2
    <3>1. k = 1 \/ k = 2
      BY <1>1, <2>1
    <3> QED
      BY <1>2, <1>7, <2>1, <3>1
  <2>2. CASE ~(k <= 2)
    <3>1. k - 2 \in 1 .. Units(len) /\ k # 1 /\ k # 2
      BY <1>1, <2>2
    <3>2. (h \o b)[k] = Token(r, "body", k - 2)
      BY <1>6, <1>7, <2>2, <3>1
    <3> QED
      BY <3>1, <3>2 DEF Response
  <2> QED
    BY <2>1, <2>2
<1>9. Answer(r, len) = h \o b
  BY DEF Answer, h, b, n
<1> QED
  BY <1>1, <1>7, <1>8, <1>9

-----------------------------------------------------------------------------
(* Types.                                                                  *)

\* Every step keeps the words.
LEMMA WordsStep ==
  ASSUME TypeOK, [Next]_vars
  PROVE  Words'
<1> USE DEF control, connection, network
<1>1. CASE request
  BY <1>1 DEF request, connect_host, Replace, check_receive, ApiAllowed, TypeOK, Words,
     Processing, Callbacks
<1>2. CASE request_invalid
  BY <1>2 DEF request_invalid, ApiAllowed, TypeOK, Words, Processing, Callbacks
<1>3. CASE close
  BY <1>3 DEF close, DoClose, Replace, ApiAllowed, TypeOK, Words, Processing, Callbacks
<1>4. CASE pause
  BY <1>4 DEF pause, ApiAllowed, TypeOK, Words, Processing, Callbacks
<1>5. CASE resume
  BY <1>5 DEF resume, ApiAllowed, TypeOK, Words, Processing, Callbacks
<1>6. CASE on_posted_error
  BY <1>6 DEF on_posted_error, on_error, DoClose, Replace, Dispatch, TypeOK, Words,
     Processing, Callbacks
<1>7. CASE on_connect_failed
  BY <1>7 DEF on_connect_failed, on_error, DoClose, Replace, Dispatch, TypeOK, Words,
     Processing, Callbacks
<1>8. CASE on_resolver_address
  BY <1>8 DEF on_resolver_address, Dispatch, TypeOK, Words, Processing, Callbacks
<1>9. CASE on_socket_connect
  BY <1>9 DEF on_socket_connect, Dispatch, TypeOK, Words, Processing, Callbacks
<1>10. CASE on_socket_receive
  BY <1>10 DEF on_socket_receive, DoClose, Replace, Dispatch, TypeOK, Words, Processing,
     Callbacks
<1>11. CASE on_socket_receive_failed
  BY <1>11 DEF on_socket_receive_failed, EofEndsResponse, on_error, DoClose, Replace,
     Dispatch, TypeOK, Words, Processing, Callbacks
<1>12. CASE header_incomplete
  BY <1>12 DEF header_incomplete, TypeOK, Words, Processing, Callbacks
<1>13. CASE redirect
  BY <1>13 DEF redirect, on_error, DoClose, connect_host, Replace, Return, TypeOK, Words,
     Processing, Callbacks
<1>14. CASE handle_response_header
  BY <1>14 DEF handle_response_header, TypeOK, Words, Processing, Callbacks
<1>15. CASE process_body_data
  BY <1>15 DEF process_body_data, TypeOK, Words, Processing, Callbacks
<1>16. CASE receive_tail
  BY <1>16 DEF receive_tail, check_receive, Return, TypeOK, Words, Processing, Callbacks
<1>17. CASE listener_returns /\ Refuse
  BY <1>17 DEF listener_returns, Refuse, Return, TypeOK, Words, Processing, Callbacks
<1>18. CASE listener_returns /\ Accept
  BY <1>18 DEF listener_returns, Accept, on_complete, DoClose, Replace, Return, TypeOK, Words,
     Processing, Callbacks
<1>19. CASE complete_returns
  BY <1>19 DEF complete_returns, TypeOK, Words, Processing, Callbacks
<1>20. CASE error_returns
  BY <1>20 DEF error_returns, Return, TypeOK, Words, Processing, Callbacks
<1>21. CASE NativeConnect
  BY <1>21 DEF NativeConnect, TypeOK, Words, Processing, Callbacks
<1>22. CASE NativeResolve
  BY <1>22 DEF NativeResolve, TypeOK, Words, Processing, Callbacks
<1>23. CASE ServerRespond
  BY <1>23 DEF ServerRespond, TypeOK, Words, Processing, Callbacks
<1>24. CASE NativeReceive
  BY <1>24 DEF NativeReceive, TypeOK, Words, Processing, Callbacks
<1>25. CASE UNCHANGED vars
  BY <1>25 DEF vars, TypeOK, Words, Processing, Callbacks
<1> QED
  BY <1>1, <1>2, <1>3, <1>4, <1>5, <1>6, <1>7, <1>8, <1>9, <1>10, <1>11, <1>12, <1>13, <1>14,
     <1>15, <1>16, <1>17, <1>18, <1>19, <1>20, <1>21, <1>22, <1>23, <1>24, <1>25 DEF Next, Api, Handler, Native, listener_returns

\* Every step keeps the flags.
LEMMA FlagsStep ==
  ASSUME TypeOK, [Next]_vars
  PROVE  Flags'
<1> USE DEF control, connection, network
<1>1. CASE request
  BY <1>1 DEF request, connect_host, Replace, check_receive, ApiAllowed, TypeOK, Flags
<1>2. CASE request_invalid
  BY <1>2 DEF request_invalid, ApiAllowed, TypeOK, Flags
<1>3. CASE close
  BY <1>3 DEF close, DoClose, Replace, ApiAllowed, TypeOK, Flags
<1>4. CASE pause
  BY <1>4 DEF pause, ApiAllowed, TypeOK, Flags
<1>5. CASE resume
  BY <1>5 DEF resume, ApiAllowed, TypeOK, Flags
<1>6. CASE on_posted_error
  BY <1>6 DEF on_posted_error, on_error, DoClose, Replace, Dispatch, TypeOK, Flags
<1>7. CASE on_connect_failed
  BY <1>7 DEF on_connect_failed, on_error, DoClose, Replace, Dispatch, TypeOK, Flags
<1>8. CASE on_resolver_address
  BY <1>8 DEF on_resolver_address, Dispatch, TypeOK, Flags
<1>9. CASE on_socket_connect
  BY <1>9 DEF on_socket_connect, Dispatch, TypeOK, Flags
<1>10. CASE on_socket_receive
  BY <1>10 DEF on_socket_receive, DoClose, Replace, Dispatch, TypeOK, Flags
<1>11. CASE on_socket_receive_failed
  BY <1>11 DEF on_socket_receive_failed, EofEndsResponse, on_error, DoClose, Replace,
     Dispatch, TypeOK, Flags
<1>12. CASE header_incomplete
  BY <1>12 DEF header_incomplete, TypeOK, Flags
<1>13. CASE redirect
  BY <1>13 DEF redirect, on_error, DoClose, connect_host, Replace, Return, TypeOK, Flags
<1>14. CASE handle_response_header
  BY <1>14 DEF handle_response_header, TypeOK, Flags
<1>15. CASE process_body_data
  BY <1>15 DEF process_body_data, TypeOK, Flags
<1>16. CASE receive_tail
  BY <1>16 DEF receive_tail, check_receive, Return, TypeOK, Flags
<1>17. CASE listener_returns /\ Refuse
  BY <1>17 DEF listener_returns, Refuse, Return, TypeOK, Flags
<1>18. CASE listener_returns /\ Accept
  BY <1>18 DEF listener_returns, Accept, on_complete, DoClose, Replace, Return, TypeOK, Flags
<1>19. CASE complete_returns
  BY <1>19 DEF complete_returns, TypeOK, Flags
<1>20. CASE error_returns
  BY <1>20 DEF error_returns, Return, TypeOK, Flags
<1>21. CASE NativeConnect
  BY <1>21 DEF NativeConnect, TypeOK, Flags
<1>22. CASE NativeResolve
  BY <1>22 DEF NativeResolve, TypeOK, Flags
<1>23. CASE ServerRespond
  BY <1>23 DEF ServerRespond, TypeOK, Flags
<1>24. CASE NativeReceive
  BY <1>24 DEF NativeReceive, TypeOK, Flags
<1>25. CASE UNCHANGED vars
  BY <1>25 DEF vars, TypeOK, Flags
<1> QED
  BY <1>1, <1>2, <1>3, <1>4, <1>5, <1>6, <1>7, <1>8, <1>9, <1>10, <1>11, <1>12, <1>13, <1>14,
     <1>15, <1>16, <1>17, <1>18, <1>19, <1>20, <1>21, <1>22, <1>23, <1>24, <1>25 DEF Next, Api, Handler, Native, listener_returns

\* Every step keeps the numbers of requests.
LEMMA CountsStep ==
  ASSUME TypeOK, [Next]_vars
  PROVE  Counts'
<1> USE DEF control, connection, network
<1>1. CASE request
  BY <1>1, HttpConnectionAssumption DEF request, connect_host, Replace, check_receive,
     ApiAllowed, TypeOK, Counts
<1>2. CASE request_invalid
  BY <1>2, HttpConnectionAssumption DEF request_invalid, ApiAllowed, TypeOK, Counts
<1>3. CASE close
  BY <1>3, HttpConnectionAssumption DEF close, DoClose, Replace, ApiAllowed, TypeOK, Counts
<1>4. CASE pause
  BY <1>4, HttpConnectionAssumption DEF pause, ApiAllowed, TypeOK, Counts
<1>5. CASE resume
  BY <1>5, HttpConnectionAssumption DEF resume, ApiAllowed, TypeOK, Counts
<1>6. CASE on_posted_error
  BY <1>6, HttpConnectionAssumption DEF on_posted_error, on_error, DoClose, Replace, Dispatch,
     TypeOK, Counts
<1>7. CASE on_connect_failed
  BY <1>7, HttpConnectionAssumption DEF on_connect_failed, on_error, DoClose, Replace,
     Dispatch, TypeOK, Counts
<1>8. CASE on_resolver_address
  BY <1>8, HttpConnectionAssumption DEF on_resolver_address, Dispatch, TypeOK, Counts
<1>9. CASE on_socket_connect
  BY <1>9, HttpConnectionAssumption DEF on_socket_connect, Dispatch, TypeOK, Counts
<1>10. CASE on_socket_receive
  BY <1>10, HttpConnectionAssumption DEF on_socket_receive, DoClose, Replace, Dispatch,
     TypeOK, Counts
<1>11. CASE on_socket_receive_failed
  BY <1>11, HttpConnectionAssumption DEF on_socket_receive_failed, EofEndsResponse, on_error,
     DoClose, Replace, Dispatch, TypeOK, Counts
<1>12. CASE header_incomplete
  BY <1>12, HttpConnectionAssumption DEF header_incomplete, TypeOK, Counts
<1>13. CASE redirect
  BY <1>13, HttpConnectionAssumption DEF redirect, on_error, DoClose, connect_host, Replace,
     Return, TypeOK, Counts
<1>14. CASE handle_response_header
  BY <1>14, HttpConnectionAssumption DEF handle_response_header, TypeOK, Counts
<1>15. CASE process_body_data
  BY <1>15, HttpConnectionAssumption DEF process_body_data, TypeOK, Counts
<1>16. CASE receive_tail
  BY <1>16, HttpConnectionAssumption DEF receive_tail, check_receive, Return, TypeOK, Counts
<1>17. CASE listener_returns /\ Refuse
  BY <1>17, HttpConnectionAssumption DEF listener_returns, Refuse, Return, TypeOK, Counts
<1>18. CASE listener_returns /\ Accept
  BY <1>18, HttpConnectionAssumption DEF listener_returns, Accept, on_complete, DoClose,
     Replace, Return, TypeOK, Counts
<1>19. CASE complete_returns
  BY <1>19, HttpConnectionAssumption DEF complete_returns, TypeOK, Counts
<1>20. CASE error_returns
  BY <1>20, HttpConnectionAssumption DEF error_returns, Return, TypeOK, Counts
<1>21. CASE NativeConnect
  BY <1>21, HttpConnectionAssumption DEF NativeConnect, TypeOK, Counts
<1>22. CASE NativeResolve
  BY <1>22, HttpConnectionAssumption DEF NativeResolve, TypeOK, Counts
<1>23. CASE ServerRespond
  BY <1>23, HttpConnectionAssumption DEF ServerRespond, TypeOK, Counts
<1>24. CASE NativeReceive
  BY <1>24, HttpConnectionAssumption DEF NativeReceive, TypeOK, Counts
<1>25. CASE UNCHANGED vars
  BY <1>25 DEF vars, TypeOK, Counts
<1> QED
  BY <1>1, <1>2, <1>3, <1>4, <1>5, <1>6, <1>7, <1>8, <1>9, <1>10, <1>11, <1>12, <1>13, <1>14,
     <1>15, <1>16, <1>17, <1>18, <1>19, <1>20, <1>21, <1>22, <1>23, <1>24, <1>25 DEF Next, Api, Handler, Native, listener_returns

\* Every step keeps the queues and the stream.
LEMMA QueuesStep ==
  ASSUME TypeOK, [Next]_vars
  PROVE  Queues'
<1> USE DEF control, connection, network
<1>1. CASE request
  BY <1>1, PostedType, EmptySeq DEF request, connect_host, Replace, check_receive, ApiAllowed,
     TypeOK, Queues
<1>2. CASE request_invalid
  BY <1>2, QueueEvent, EventType, EmptySeq DEF request_invalid, ApiAllowed, TypeOK, Queues
<1>3. CASE close
  BY <1>3, PostedType, EmptySeq DEF close, DoClose, Replace, ApiAllowed, TypeOK, Queues
<1>4. CASE pause
  BY <1>4 DEF pause, ApiAllowed, TypeOK, Queues
<1>5. CASE resume
  BY <1>5 DEF resume, ApiAllowed, TypeOK, Queues
<1>6. CASE on_posted_error
  BY <1>6, FirstEvent, PostedType, EmptySeq DEF on_posted_error, on_error, DoClose, Replace,
     Dispatch, TypeOK, Queues
<1>7. CASE on_connect_failed
  BY <1>7, FirstEvent, PostedType, EmptySeq DEF on_connect_failed, on_error, DoClose, Replace,
     Dispatch, TypeOK, Queues
<1>8. CASE on_resolver_address
  BY <1>8, FirstEvent, PostedType, EmptySeq DEF on_resolver_address, Dispatch, TypeOK, Queues
<1>9. CASE on_socket_connect
  BY <1>9, FirstEvent, PostedType, EmptySeq DEF on_socket_connect, Dispatch, TypeOK, Queues
<1>10. CASE on_socket_receive
  BY <1>10, FirstEvent, PostedType, EmptySeq DEF on_socket_receive, DoClose, Replace, Dispatch,
     TypeOK, Queues
<1>11. CASE on_socket_receive_failed
  BY <1>11, FirstEvent, PostedType, EmptySeq DEF on_socket_receive_failed, EofEndsResponse,
     on_error, DoClose, Replace, Dispatch, TypeOK, Queues
<1>12. CASE header_incomplete
  BY <1>12, EmptySeq DEF header_incomplete, TypeOK, Queues
<1>13. CASE redirect
  BY <1>13, PostedType, EmptySeq DEF redirect, on_error, DoClose, connect_host, Replace, Return,
     TypeOK, Queues
<1>14. CASE handle_response_header
  <2>1. data' = SubSeq(data, HeaderEnd + 1, Len(data)) /\ UNCHANGED <<ready, stream>>
    BY <1>14 DEF handle_response_header
  <2>2. HeaderEnd \in 1 .. Len(data)
    BY <1>14, LenProperties DEF handle_response_header, HeaderEnd, HasEnd, TypeOK, Queues
  <2>3. data' \in Seq(Tokens)
    <3>1. HeaderEnd \in 0 .. Len(data) /\ data \in Seq(Tokens)
      BY <2>2 DEF TypeOK, Queues
    <3> QED
      BY <2>1, <3>1, Cut
  <2> QED
    BY <2>1, <2>3 DEF TypeOK, Queues
<1>15. CASE process_body_data
  BY <1>15, EmptySeq DEF process_body_data, TypeOK, Queues
<1>16. CASE receive_tail
  BY <1>16, EmptySeq DEF receive_tail, check_receive, Return, TypeOK, Queues
<1>17. CASE listener_returns /\ Refuse
  BY <1>17, EmptySeq DEF listener_returns, Refuse, Return, TypeOK, Queues
<1>18. CASE listener_returns /\ Accept
  BY <1>18, PostedType, EmptySeq DEF listener_returns, Accept, on_complete, DoClose, Replace,
     Return, TypeOK, Queues
<1>19. CASE complete_returns
  BY <1>19 DEF complete_returns, TypeOK, Queues
<1>20. CASE error_returns
  BY <1>20, EmptySeq DEF error_returns, Return, TypeOK, Queues
<1>21. CASE NativeConnect
  <2>1. PICK res \in {"ok", "error"} : ready' = Append(ready, Event("connect", res, <<>>))
    BY <1>21 DEF NativeConnect
  <2>2. Event("connect", res, <<>>) \in Events
    BY EmptySeq, EventType
  <2> QED
    BY <1>21, <2>1, <2>2, QueueEvent DEF NativeConnect, TypeOK, Queues
<1>22. CASE NativeResolve
  <2>1. PICK res \in {"ok", "error"} : ready' = Append(ready, Event("resolve", res, <<>>))
    BY <1>22 DEF NativeResolve
  <2>2. Event("resolve", res, <<>>) \in Events
    BY EmptySeq, EventType
  <2> QED
    BY <1>22, <2>1, <2>2, QueueEvent DEF NativeResolve, TypeOK, Queues
<1>23. CASE ServerRespond
  <2>1. PICK len \in Lengths \cup {Redirect} : stream' = stream \o Answer(onwire, len)
    BY <1>23 DEF ServerRespond
  <2>2. onwire \in Requests /\ UNCHANGED <<ready, data>>
    BY <1>23, HttpConnectionAssumption DEF ServerRespond, Requests, TypeOK, Counts
  <2>3. stream' \in Seq(Tokens)
    BY <2>1, <2>2, AnswerType, ConcatProperties DEF TypeOK, Queues
  <2> QED
    BY <2>2, <2>3 DEF TypeOK, Queues
<1>24. CASE NativeReceive
  <2>1. data' = data /\ ready \in Seq(Events) /\ stream \in Seq(Tokens) /\ Len(stream) \in Nat
    BY <1>24, LenProperties DEF NativeReceive, TypeOK, Queues
  <2>2. ASSUME NEW n \in 1 .. Len(stream),
               ready' = Append(ready, Event("recv", "ok", SubSeq(stream, 1, n))),
               stream' = SubSeq(stream, n + 1, Len(stream))
        PROVE  Queues'
    <3>1. SubSeq(stream, 1, n) \in Seq(Tokens) /\ stream' \in Seq(Tokens)
      <4>1. n \in 0 .. Len(stream)
        BY <2>1
      <4> QED
        BY <2>1, <2>2, <4>1, Cut
    <3>2. ready' \in Seq(Events)
      BY <2>1, <2>2, <3>1, EventType, QueueEvent
    <3> QED
      BY <2>1, <3>1, <3>2 DEF TypeOK, Queues
  <2>3. ASSUME NEW res \in {"eof", "error"}, ready' = Append(ready, Event("recv", res, <<>>)), stream' = <<>>
        PROVE  Queues'
    BY <2>1, <2>3, EmptySeq, EventType, QueueEvent DEF TypeOK, Queues
  <2> QED
    BY <1>24, <2>2, <2>3 DEF NativeReceive
<1>25. CASE UNCHANGED vars
  BY <1>25 DEF vars, TypeOK, Queues
<1> QED
  BY <1>1, <1>2, <1>3, <1>4, <1>5, <1>6, <1>7, <1>8, <1>9, <1>10, <1>11, <1>12, <1>13, <1>14,
     <1>15, <1>16, <1>17, <1>18, <1>19, <1>20, <1>21, <1>22, <1>23, <1>24, <1>25 DEF Next, Api, Handler, Native, listener_returns

\* What the handlers write of a request.
LEMMA InfoUpdates ==
  ASSUME NEW i \in Infos
  PROVE  /\ [i EXCEPT !.refused = TRUE] \in Infos /\ [i EXCEPT !.finished = TRUE] \in Infos
         /\ [i EXCEPT !.finished = TRUE, !.eof = TRUE] \in Infos /\ [i EXCEPT !.header_send = TRUE] \in Infos
         /\ \A n \in Nat : [i EXCEPT !.received_size = i.received_size + n] \in Infos
         /\ \A l \in Int : [i EXCEPT !.header_finished = TRUE, !.response_header_received = TRUE,
                                     !.content_length = l] \in Infos
<1>1. [i EXCEPT !.refused = TRUE] \in Infos
  BY DEF Infos
<1>2. [i EXCEPT !.finished = TRUE] \in Infos
  BY DEF Infos
<1>3. [i EXCEPT !.finished = TRUE, !.eof = TRUE] \in Infos
  BY DEF Infos
<1>4. [i EXCEPT !.header_send = TRUE] \in Infos
  BY DEF Infos
<1>5. ASSUME NEW n \in Nat PROVE [i EXCEPT !.received_size = i.received_size + n] \in Infos
  <2>1. i.received_size + n \in Nat
    BY DEF Infos
  <2> QED
    BY <2>1 DEF Infos
<1>6. ASSUME NEW l \in Int
      PROVE  [i EXCEPT !.header_finished = TRUE, !.response_header_received = TRUE,
                       !.content_length = l] \in Infos
  BY DEF Infos
<1> QED
  BY <1>1, <1>2, <1>3, <1>4, <1>5, <1>6

\* A request's final call is its first one.
LEMMA EndsOnce ==
  ASSUME TypeOK, Current, m_request # 0, NEW o \in {"complete", "error"}
  PROVE  /\ [ended EXCEPT ![m_request] = Append(@, o)] = [ended EXCEPT ![m_request] = <<o>>]
         /\ [ended EXCEPT ![m_request] = <<o>>] \in [Requests -> {<<>>, <<"complete">>, <<"error">>}]
         /\ m_request \in Requests
<1>1. ended[m_request] = <<>>
  BY DEF Current
<1>2. Append(<<>>, o) = <<o>>
  OBVIOUS
<1>3. m_request \in Requests /\ ended \in [Requests -> {<<>>, <<"complete">>, <<"error">>}]
  BY HttpConnectionAssumption DEF TypeOK, Counts, Tables, Requests
<1> QED
  BY <1>1, <1>2, <1>3

\* on_error: the connection is closed and the current request, if any, fails.
LEMMA ErrorEffect ==
  ASSUME TypeOK, Current, pc = "idle" => ready # <<>>, on_error
  PROVE  /\ m_request' = 0 /\ m_host' = NoHost /\ pause_receive' = FALSE /\ m_socket' = "new"
         /\ m_receiving' = FALSE /\ m_name_resolver' = "none" /\ onwire' = 0 /\ stream' = <<>>
         /\ sender_open' = FALSE /\ pc' = "on_http_error" /\ restarted' = FALSE
         /\ \A i \in DOMAIN ready' : ready'[i].kind = "posted"
         /\ ended' \in [Requests -> {<<>>, <<"complete">>, <<"error">>}]
         /\ IF m_request = 0 THEN ended' = ended ELSE ended' = [ended EXCEPT ![m_request] = <<"error">>]
         /\ \A r \in Requests : ended'[r] = IF r = m_request THEN <<"error">> ELSE ended[r]
<1>1. DoClose(IF pc = "idle" THEN Tail(ready) ELSE ready) /\ pc' = "on_http_error" /\ restarted' = FALSE
  BY DEF on_error
<1>2. (IF pc = "idle" THEN Tail(ready) ELSE ready) \in Seq(Events)
  BY FirstEvent DEF TypeOK, Queues
<1>3. \A i \in DOMAIN ready' : ready'[i].kind = "posted"
  BY <1>1, <1>2, PostedType DEF DoClose, Replace
<1>4. IF m_request = 0 THEN ended' = ended ELSE ended' = [ended EXCEPT ![m_request] = <<"error">>]
  BY EndsOnce DEF on_error
<1>5. ended' \in [Requests -> {<<>>, <<"complete">>, <<"error">>}]
  BY <1>4, EndsOnce DEF TypeOK, Tables
<1>6. \A r \in Requests : ended'[r] = IF r = m_request THEN <<"error">> ELSE ended[r]
  <2>1. 0 \notin Requests
    BY DEF Requests
  <2> QED
    BY <1>4, <2>1 DEF TypeOK, Tables
<1> QED
  BY <1>1, <1>3, <1>4, <1>5, <1>6 DEF DoClose, Replace

\* Every step keeps what is said of the current request.
LEMMA CurrentStep ==
  ASSUME CarefulListener, TypeOK, Current, [Next]_vars
  PROVE  Current'
<1> USE DEF control, connection, network
<1>1. CASE request
  <2>1. /\ requests' = requests + 1 /\ m_request' = requests + 1 /\ restarted' = (pc # "idle")
        /\ UNCHANGED <<pc, cur, data, got, ended>> /\ pc \in Callbacks \cup {"idle"}
        /\ requests < MaxRequests
    BY <1>1 DEF request, connect_host, Replace, ApiAllowed
  <2>2. requests + 1 \in Requests /\ requests + 1 > requests /\ \A r \in Requests : r > requests + 1 => r > requests
    BY <2>1, HttpConnectionAssumption DEF TypeOK, Counts, Requests
  <2> QED
    BY <2>1, <2>2 DEF Current, Processing, Telling, Callbacks
<1>2. CASE request_invalid
  BY <1>2, HttpConnectionAssumption DEF request_invalid, ApiAllowed, TypeOK, Words, Counts,
     Tables, Current, Processing, Telling, Callbacks
<1>3. CASE close
  BY <1>3, HttpConnectionAssumption DEF close, DoClose, Replace, ApiAllowed, TypeOK, Words,
     Counts, Tables, Current, Processing, Telling, Callbacks
<1>4. CASE pause
  BY <1>4, HttpConnectionAssumption DEF pause, ApiAllowed, TypeOK, Words, Counts, Tables,
     Current, Processing, Telling, Callbacks
<1>5. CASE resume
  BY <1>5, HttpConnectionAssumption DEF resume, ApiAllowed, TypeOK, Words, Counts, Tables,
     Current, Processing, Telling, Callbacks
<1>6. CASE on_posted_error
  <2>1. on_error /\ (pc = "idle" => ready # <<>>) /\ pc = "idle" /\ UNCHANGED <<cur, data, got, requests>>
    BY <1>6 DEF on_posted_error, Dispatch
  <2>2. /\ m_request' = 0 /\ pc' = "on_http_error" /\ restarted' = FALSE
        /\ ended' \in [Requests -> {<<>>, <<"complete">>, <<"error">>}]
        /\ \A r \in Requests : ended'[r] = IF r = m_request THEN <<"error">> ELSE ended[r]
    BY <2>1, ErrorEffect
  <2> QED
    BY <1>6, <2>1, <2>2 DEF TypeOK, Counts, Current, Processing, Telling
<1>7. CASE on_connect_failed
  <2>1. on_error /\ (pc = "idle" => ready # <<>>) /\ pc = "idle" /\ UNCHANGED <<cur, data, got, requests>>
    BY <1>7 DEF on_connect_failed, Dispatch
  <2>2. /\ m_request' = 0 /\ pc' = "on_http_error" /\ restarted' = FALSE
        /\ ended' \in [Requests -> {<<>>, <<"complete">>, <<"error">>}]
        /\ \A r \in Requests : ended'[r] = IF r = m_request THEN <<"error">> ELSE ended[r]
    BY <2>1, ErrorEffect
  <2> QED
    BY <1>7, <2>1, <2>2 DEF TypeOK, Counts, Current, Processing, Telling
<1>8. CASE on_resolver_address
  BY <1>8, HttpConnectionAssumption DEF on_resolver_address, Dispatch, TypeOK, Words, Counts,
     Tables, Current, Processing, Telling, Callbacks
<1>9. CASE on_socket_connect
  BY <1>9, HttpConnectionAssumption DEF on_socket_connect, Dispatch, TypeOK, Words, Counts,
     Tables, Current, Processing, Telling, Callbacks
<1>10. CASE on_socket_receive /\ m_request = 0
  BY <1>10, HttpConnectionAssumption DEF on_socket_receive, DoClose, Replace, Dispatch, TypeOK,
     Words, Counts, Tables, Current, Processing, Telling, Callbacks
<1>11. CASE on_socket_receive /\ m_request # 0
  BY <1>11, HttpConnectionAssumption DEF on_socket_receive, Dispatch, TypeOK, Words, Counts,
     Tables, Current, Processing, Telling, Callbacks
<1>12. CASE on_socket_receive_failed /\ m_request = 0
  BY <1>12, HttpConnectionAssumption DEF on_socket_receive_failed, DoClose, Replace, Dispatch,
     TypeOK, Words, Counts, Tables, Current, Processing, Telling, Callbacks
<1>13. CASE on_socket_receive_failed /\ m_request # 0 /\ EofEndsResponse(m_request)
  BY <1>13, HttpConnectionAssumption, EndsOnce DEF on_socket_receive_failed, EofEndsResponse,
     Dispatch, TypeOK, Words, Counts, Tables, Current, Processing, Telling, Callbacks
<1>14. CASE on_socket_receive_failed /\ m_request # 0 /\ ~EofEndsResponse(m_request)
  <2>1. on_error /\ (pc = "idle" => ready # <<>>) /\ pc = "idle" /\ UNCHANGED <<cur, data, got, requests>>
    BY <1>14 DEF on_socket_receive_failed, Dispatch
  <2>2. /\ m_request' = 0 /\ pc' = "on_http_error" /\ restarted' = FALSE
        /\ ended' \in [Requests -> {<<>>, <<"complete">>, <<"error">>}]
        /\ \A r \in Requests : ended'[r] = IF r = m_request THEN <<"error">> ELSE ended[r]
    BY <2>1, ErrorEffect
  <2> QED
    BY <1>14, <2>1, <2>2 DEF TypeOK, Counts, Current, Processing, Telling
<1>15. CASE header_incomplete
  BY <1>15, HttpConnectionAssumption DEF header_incomplete, TypeOK, Words, Counts, Tables,
     Current, Processing, Telling, Callbacks
<1>16. CASE redirect /\ info[cur].redirect_times > max_redirects
  <2>1. on_error /\ (pc = "idle" => ready # <<>>) /\ data' = <<>> /\ UNCHANGED <<got, requests>>
    BY <1>16 DEF redirect
  <2>2. /\ m_request' = 0 /\ pc' = "on_http_error" /\ restarted' = FALSE
        /\ ended' \in [Requests -> {<<>>, <<"complete">>, <<"error">>}]
        /\ \A r \in Requests : ended'[r] = IF r = m_request THEN <<"error">> ELSE ended[r]
    BY <2>1, ErrorEffect
  <2> QED
    BY <1>16, <2>1, <2>2 DEF TypeOK, Counts, Current, Processing, Telling
<1>17. CASE redirect /\ ~(info[cur].redirect_times > max_redirects)
  BY <1>17, HttpConnectionAssumption DEF redirect, connect_host, Replace, Return, TypeOK, Words,
     Counts, Tables, Current, Processing, Telling, Callbacks
<1>18. CASE handle_response_header
  BY <1>18, HttpConnectionAssumption DEF handle_response_header, TypeOK, Words, Counts, Tables,
     Current, Processing, Telling, Callbacks
<1>19. CASE process_body_data
  BY <1>19, HttpConnectionAssumption DEF process_body_data, TypeOK, Words, Counts, Tables,
     Current, Processing, Telling, Callbacks
<1>20. CASE receive_tail
  BY <1>20, HttpConnectionAssumption DEF receive_tail, check_receive, Return, TypeOK, Words,
     Counts, Tables, Current, Processing, Telling, Callbacks
<1>21. CASE listener_returns /\ Refuse
  BY <1>21, HttpConnectionAssumption DEF listener_returns, Refuse, Return, TypeOK, Words,
     Counts, Tables, Current, Processing, Telling, Callbacks
<1>22. CASE listener_returns /\ Accept /\ m_request = 0 /\ (AllReceived \/ data # <<>>)
  BY <1>22, HttpConnectionAssumption DEF listener_returns, Accept, on_complete, DoClose,
     Replace, Return, TypeOK, Words, Counts, Tables, Current, Processing, Telling, Callbacks
<1>23. CASE listener_returns /\ Accept /\ m_request # 0 /\ AllReceived
  BY <1>23, HttpConnectionAssumption, EndsOnce DEF listener_returns, Accept, on_complete,
     TypeOK, Words, Counts, Tables, Current, Processing, Telling, Callbacks
<1>24. CASE listener_returns /\ Accept /\ ~AllReceived /\ ~(data # <<>> /\ m_request = 0)
  BY <1>24, HttpConnectionAssumption DEF listener_returns, Accept, TypeOK, Words, Counts,
     Tables, Current, Processing, Telling, Callbacks
<1>25. CASE complete_returns
  BY <1>25, HttpConnectionAssumption DEF complete_returns, TypeOK, Words, Counts, Tables,
     Current, Processing, Telling, Callbacks
<1>26. CASE error_returns
  BY <1>26, HttpConnectionAssumption DEF error_returns, Return, TypeOK, Words, Counts, Tables,
     Current, Processing, Telling, Callbacks
<1>27. CASE NativeConnect
  BY <1>27, HttpConnectionAssumption DEF NativeConnect, TypeOK, Words, Counts, Tables, Current,
     Processing, Telling, Callbacks
<1>28. CASE NativeResolve
  BY <1>28, HttpConnectionAssumption DEF NativeResolve, TypeOK, Words, Counts, Tables, Current,
     Processing, Telling, Callbacks
<1>29. CASE ServerRespond
  BY <1>29, HttpConnectionAssumption DEF ServerRespond, TypeOK, Words, Counts, Tables, Current,
     Processing, Telling, Callbacks
<1>30. CASE NativeReceive
  BY <1>30, HttpConnectionAssumption DEF NativeReceive, TypeOK, Words, Counts, Tables, Current,
     Processing, Telling, Callbacks
<1>31. CASE UNCHANGED vars
  BY <1>31 DEF vars, TypeOK, Words, Counts, Tables, Current, Processing, Telling, Callbacks
<1> QED
  BY <1>1, <1>2, <1>3, <1>4, <1>5, <1>6, <1>7, <1>8, <1>9, <1>10, <1>11, <1>12, <1>13, <1>14,
     <1>15, <1>16, <1>17, <1>18, <1>19, <1>20, <1>21, <1>22, <1>23, <1>24, <1>25, <1>26,
     <1>27, <1>28, <1>29, <1>30, <1>31 DEF Next, Api, Handler, Native, listener_returns

\* Every step keeps the tables of the requests.
LEMMA TablesStep ==
  ASSUME TypeOK, Current, [Next]_vars
  PROVE  Tables'
<1> USE DEF control, connection, network
<1>1. CASE request
  <2>1. PICK h \in Hosts : \/ info' = [info EXCEPT ![requests + 1] = NewInfo(h)]
                           \/ info' = [info EXCEPT ![requests + 1] = [NewInfo(h) EXCEPT !.header_send = TRUE]]
    BY <1>1 DEF request
  <2>2. info \in [Requests -> Infos] /\ UNCHANGED <<got, ended>>
    BY <1>1 DEF request, TypeOK, Tables
  <2>3. NewInfo(h) \in Infos /\ [NewInfo(h) EXCEPT !.header_send = TRUE] \in Infos
    BY NewInfoType
  <2>4. info' \in [Requests -> Infos]
    BY <2>1, <2>2, <2>3
  <2> QED
    BY <2>2, <2>4 DEF TypeOK, Tables
<1>2. CASE request_invalid
  BY <1>2 DEF request_invalid, ApiAllowed, TypeOK, Tables
<1>3. CASE close
  BY <1>3 DEF close, DoClose, Replace, ApiAllowed, TypeOK, Tables
<1>4. CASE pause
  BY <1>4 DEF pause, ApiAllowed, TypeOK, Tables
<1>5. CASE resume
  BY <1>5 DEF resume, ApiAllowed, TypeOK, Tables
<1>6. CASE on_posted_error
  <2>1. on_error /\ (pc = "idle" => ready # <<>>) /\ UNCHANGED <<got, info>>
    BY <1>6 DEF on_posted_error, Dispatch
  <2>2. /\ m_request' = 0 /\ pc' = "on_http_error" /\ restarted' = FALSE
        /\ ended' \in [Requests -> {<<>>, <<"complete">>, <<"error">>}]
        /\ \A r \in Requests : ended'[r] = IF r = m_request THEN <<"error">> ELSE ended[r]
    BY <2>1, ErrorEffect
  <2> QED
    BY <1>6, <2>1, <2>2 DEF TypeOK, Tables
<1>7. CASE on_connect_failed
  <2>1. on_error /\ (pc = "idle" => ready # <<>>) /\ UNCHANGED <<got, info>>
    BY <1>7 DEF on_connect_failed, Dispatch
  <2>2. /\ m_request' = 0 /\ pc' = "on_http_error" /\ restarted' = FALSE
        /\ ended' \in [Requests -> {<<>>, <<"complete">>, <<"error">>}]
        /\ \A r \in Requests : ended'[r] = IF r = m_request THEN <<"error">> ELSE ended[r]
    BY <2>1, ErrorEffect
  <2> QED
    BY <1>7, <2>1, <2>2 DEF TypeOK, Tables
<1>8. CASE on_resolver_address
  BY <1>8 DEF on_resolver_address, Dispatch, TypeOK, Tables
<1>9. CASE on_socket_connect
  <2>1. info' = [info EXCEPT ![m_request].header_send = TRUE] /\ UNCHANGED <<got, ended>>
    BY <1>9 DEF on_socket_connect
  <2>2. info \in [Requests -> Infos]
    BY DEF TypeOK, Tables
  <2>3. ASSUME m_request \in Requests PROVE [info[m_request] EXCEPT !.header_send = TRUE] \in Infos
    BY <2>2, <2>3, InfoUpdates
  <2>4. info' \in [Requests -> Infos]
    BY <2>1, <2>2, <2>3
  <2> QED
    BY <2>1, <2>4 DEF TypeOK, Tables
<1>10. CASE on_socket_receive /\ m_request = 0
  BY <1>10 DEF on_socket_receive, DoClose, Replace, Dispatch, TypeOK, Tables
<1>11. CASE on_socket_receive /\ m_request # 0
  BY <1>11 DEF on_socket_receive, Dispatch, TypeOK, Tables
<1>12. CASE on_socket_receive_failed /\ m_request = 0
  BY <1>12 DEF on_socket_receive_failed, DoClose, Replace, Dispatch, TypeOK, Tables
<1>13. CASE on_socket_receive_failed /\ m_request # 0 /\ EofEndsResponse(m_request)
  <2>1. m_request \in Requests /\ info \in [Requests -> Infos]
    BY <1>13, HttpConnectionAssumption DEF on_socket_receive_failed, EofEndsResponse, Dispatch, TypeOK, Tables, Counts, Current, Processing, Requests
  <2>3. info' = [info EXCEPT ![m_request] = [info[m_request] EXCEPT !.finished = TRUE, !.eof = TRUE]]
    BY <1>13, <2>1 DEF on_socket_receive_failed, EofEndsResponse, Dispatch
  <2>4. [info[m_request] EXCEPT !.finished = TRUE, !.eof = TRUE] \in Infos
    BY <2>1, InfoUpdates, NewInfoType
  <2>5. info' \in [Requests -> Infos]
    BY <2>1, <2>3, <2>4
  <2>6. ended' \in [Requests -> {<<>>, <<"complete">>, <<"error">>}]
    BY <1>13, EndsOnce DEF on_socket_receive_failed
  <2> QED
    BY <1>13, <2>5, <2>6 DEF on_socket_receive_failed, EofEndsResponse, Dispatch, TypeOK, Tables
<1>14. CASE on_socket_receive_failed /\ m_request # 0 /\ ~EofEndsResponse(m_request)
  <2>1. on_error /\ (pc = "idle" => ready # <<>>) /\ UNCHANGED <<got, info>>
    BY <1>14 DEF on_socket_receive_failed, Dispatch
  <2>2. /\ m_request' = 0 /\ pc' = "on_http_error" /\ restarted' = FALSE
        /\ ended' \in [Requests -> {<<>>, <<"complete">>, <<"error">>}]
        /\ \A r \in Requests : ended'[r] = IF r = m_request THEN <<"error">> ELSE ended[r]
    BY <2>1, ErrorEffect
  <2> QED
    BY <1>14, <2>1, <2>2 DEF TypeOK, Tables
<1>15. CASE header_incomplete
  BY <1>15 DEF header_incomplete, TypeOK, Tables
<1>16. CASE redirect /\ info[cur].redirect_times > max_redirects
  <2>1. on_error /\ (pc = "idle" => ready # <<>>) /\ UNCHANGED <<got, info>>
    BY <1>16 DEF redirect
  <2>2. /\ m_request' = 0 /\ pc' = "on_http_error" /\ restarted' = FALSE
        /\ ended' \in [Requests -> {<<>>, <<"complete">>, <<"error">>}]
        /\ \A r \in Requests : ended'[r] = IF r = m_request THEN <<"error">> ELSE ended[r]
    BY <2>1, ErrorEffect
  <2> QED
    BY <1>16, <2>1, <2>2 DEF TypeOK, Tables
<1>17. CASE redirect /\ ~(info[cur].redirect_times > max_redirects)
  <2>1. PICK h \in Hosts : info' = [info EXCEPT ![cur] = reset_handling_state(info[cur], h)]
    BY <1>17 DEF redirect
  <2>2. cur \in Requests /\ info \in [Requests -> Infos] /\ UNCHANGED <<got, ended>>
    BY <1>17, HttpConnectionAssumption DEF redirect, TypeOK, Tables, Counts, Current, Processing, Requests
  <2>3. reset_handling_state(info[cur], h) \in Infos
    BY <2>2, NewInfoType
  <2>4. info' \in [Requests -> Infos]
    BY <2>1, <2>2, <2>3
  <2> QED
    BY <2>2, <2>4 DEF TypeOK, Tables
<1>18. CASE handle_response_header
  <2>1. cur \in Requests /\ info \in [Requests -> Infos]
    BY <1>18, HttpConnectionAssumption DEF handle_response_header, TypeOK, Tables, Counts, Current, Processing, Requests
  <2>2. data[HeaderEnd].v \in Int
    <3>1. HeaderEnd \in DOMAIN data
      BY <1>18 DEF handle_response_header, HeaderEnd, HasEnd
    <3>2. data[HeaderEnd] \in Tokens
      BY <3>1, ElementOfSeq, LenProperties DEF TypeOK, Queues
    <3> QED
      BY <3>2 DEF Tokens
  <2>3. info' = [info EXCEPT ![cur] = [info[cur] EXCEPT !.header_finished = TRUE, !.response_header_received = TRUE, !.content_length = data[HeaderEnd].v]]
    BY <1>18, <2>1 DEF handle_response_header
  <2>4. [info[cur] EXCEPT !.header_finished = TRUE, !.response_header_received = TRUE, !.content_length = data[HeaderEnd].v] \in Infos
    BY <2>1, InfoUpdates, NewInfoType, <2>2
  <2>5. info' \in [Requests -> Infos]
    BY <2>1, <2>3, <2>4
  <2> QED
    BY <1>18, <2>5 DEF handle_response_header, TypeOK, Tables
<1>19. CASE process_body_data
  <2>1. cur \in Requests /\ info \in [Requests -> Infos]
    BY <1>19, HttpConnectionAssumption DEF process_body_data, TypeOK, Tables, Counts, Current, Processing, Requests
  <2>2. Len(data) \in Nat /\ data \in Seq(Tokens) /\ got \in [Requests -> Seq(Tokens)] /\ m_request = cur
    BY <1>19, LenProperties DEF process_body_data, TypeOK, Queues, Tables, Current
  <2>3. info' = [info EXCEPT ![cur] = [info[cur] EXCEPT !.received_size = info[cur].received_size + Len(data)]]
    BY <1>19, <2>1 DEF process_body_data
  <2>4. [info[cur] EXCEPT !.received_size = info[cur].received_size + Len(data)] \in Infos
    BY <2>1, InfoUpdates, NewInfoType, <2>2
  <2>5. info' \in [Requests -> Infos]
    BY <2>1, <2>3, <2>4
  <2>6. got' \in [Requests -> Seq(Tokens)]
    <3>1. got[m_request] \o data \in Seq(Tokens)
      BY <2>1, <2>2, ConcatProperties
    <3> QED
      BY <1>19, <2>1, <2>2, <3>1 DEF process_body_data
  <2> QED
    BY <1>19, <2>5, <2>6 DEF process_body_data, TypeOK, Tables
<1>20. CASE receive_tail
  BY <1>20 DEF receive_tail, check_receive, Return, TypeOK, Tables
<1>21. CASE listener_returns /\ Refuse
  <2>1. cur \in Requests /\ info \in [Requests -> Infos]
    BY <1>21, HttpConnectionAssumption DEF listener_returns, Refuse, Return, TypeOK, Tables, Counts, Current, Processing, Requests
  <2>3. info' = [info EXCEPT ![cur] = [info[cur] EXCEPT !.refused = TRUE]]
    BY <1>21, <2>1 DEF listener_returns, Refuse, Return
  <2>4. [info[cur] EXCEPT !.refused = TRUE] \in Infos
    BY <2>1, InfoUpdates, NewInfoType
  <2>5. info' \in [Requests -> Infos]
    BY <2>1, <2>3, <2>4
  <2> QED
    BY <1>21, <2>5 DEF listener_returns, Refuse, Return, TypeOK, Tables
<1>22. CASE listener_returns /\ Accept /\ m_request = 0 /\ (AllReceived \/ data # <<>>)
  <2>1. cur \in Requests /\ info \in [Requests -> Infos] /\ UNCHANGED <<got, ended>>
    BY <1>22, HttpConnectionAssumption DEF listener_returns, Accept, on_complete, TypeOK, Tables, Counts, Current, Processing, Requests
  <2>2. info' = info \/ info' = [info EXCEPT ![cur] = [info[cur] EXCEPT !.finished = TRUE]]
    BY <1>22, <2>1 DEF listener_returns, Accept
  <2>3. [info[cur] EXCEPT !.finished = TRUE] \in Infos
    BY <2>1, InfoUpdates
  <2>4. info' \in [Requests -> Infos]
    BY <2>1, <2>2, <2>3
  <2> QED
    BY <2>1, <2>4 DEF TypeOK, Tables
<1>23. CASE listener_returns /\ Accept /\ m_request # 0 /\ AllReceived
  <2>1. cur \in Requests /\ info \in [Requests -> Infos]
    BY <1>23, HttpConnectionAssumption DEF listener_returns, Accept, on_complete, TypeOK, Tables, Counts, Current, Processing, Requests
  <2>3. info' = [info EXCEPT ![cur] = [info[cur] EXCEPT !.finished = TRUE]]
    BY <1>23, <2>1 DEF listener_returns, Accept, on_complete
  <2>4. [info[cur] EXCEPT !.finished = TRUE] \in Infos
    BY <2>1, InfoUpdates, NewInfoType
  <2>5. info' \in [Requests -> Infos]
    BY <2>1, <2>3, <2>4
  <2>6. ended' \in [Requests -> {<<>>, <<"complete">>, <<"error">>}]
    BY <1>23, EndsOnce DEF listener_returns, Accept, on_complete
  <2> QED
    BY <1>23, <2>5, <2>6 DEF listener_returns, Accept, on_complete, TypeOK, Tables
<1>24. CASE listener_returns /\ Accept /\ ~AllReceived /\ ~(data # <<>> /\ m_request = 0)
  BY <1>24 DEF listener_returns, Accept, TypeOK, Tables
<1>25. CASE complete_returns
  BY <1>25 DEF complete_returns, TypeOK, Tables
<1>26. CASE error_returns
  BY <1>26 DEF error_returns, Return, TypeOK, Tables
<1>27. CASE NativeConnect
  BY <1>27 DEF NativeConnect, TypeOK, Tables
<1>28. CASE NativeResolve
  BY <1>28 DEF NativeResolve, TypeOK, Tables
<1>29. CASE ServerRespond
  BY <1>29 DEF ServerRespond, TypeOK, Tables
<1>30. CASE NativeReceive
  BY <1>30 DEF NativeReceive, TypeOK, Tables
<1>31. CASE UNCHANGED vars
  BY <1>31 DEF vars, TypeOK, Tables
<1> QED
  BY <1>1, <1>2, <1>3, <1>4, <1>5, <1>6, <1>7, <1>8, <1>9, <1>10, <1>11, <1>12, <1>13, <1>14,
     <1>15, <1>16, <1>17, <1>18, <1>19, <1>20, <1>21, <1>22, <1>23, <1>24, <1>25, <1>26,
     <1>27, <1>28, <1>29, <1>30, <1>31 DEF Next, Api, Handler, Native, listener_returns

-----------------------------------------------------------------------------
(* The socket and its completions.                                         *)

\* After a close only posted calls wait.
LEMMA QueueReplaced ==
  ASSUME \A i \in DOMAIN ready' : ready'[i].kind = "posted"
  PROVE  Queue'
  BY DEF Queue

\* A completion leaves the queue, and there is no other of its kind.
LEMMA QueueTaken ==
  ASSUME TypeOK, Queue, ready # <<>>, ready' = Tail(ready)
  PROVE  /\ \A i \in DOMAIN ready' : \E j \in DOMAIN ready : ready'[i] = ready[j] /\ (ready[j].kind = Head(ready).kind => ready[j].kind = "posted")
         /\ \A i, j \in DOMAIN ready' : ready'[i].kind = ready'[j].kind /\ ready'[i].kind # "posted" => i = j
<1>1. /\ ready[1] = Head(ready) /\ 1 \in DOMAIN ready
      /\ \A i \in DOMAIN ready' : i + 1 \in DOMAIN ready /\ ready'[i] = ready[i + 1] /\ i \in Nat \ {0}
  BY FirstEvent DEF TypeOK, Queues
<1>2. ASSUME NEW i \in DOMAIN ready'
      PROVE  \E j \in DOMAIN ready : ready'[i] = ready[j] /\ (ready[j].kind = Head(ready).kind => ready[j].kind = "posted")
  <2>1. i + 1 \in DOMAIN ready /\ i + 1 # 1 /\ ready'[i] = ready[i + 1]
    BY <1>1
  <2>2. ready[i + 1].kind = Head(ready).kind => ready[i + 1].kind = "posted"
    BY <1>1, <2>1 DEF Queue
  <2> QED
    BY <2>1, <2>2
<1>3. ASSUME NEW i \in DOMAIN ready', NEW j \in DOMAIN ready',
             ready'[i].kind = ready'[j].kind, ready'[i].kind # "posted"
      PROVE  i = j
  <2>1. i + 1 = j + 1
    BY <1>1, <1>3 DEF Queue
  <2> QED
    BY <1>1, <2>1
<1> QED
  BY <1>2, <1>3

\* A completion of a kind that does not wait joins the queue.
LEMMA QueueJoined ==
  ASSUME TypeOK, Queue, NEW e \in Events, ready' = Append(ready, e),
         e.kind = "posted" \/ ~Waiting(e.kind)
  PROVE  /\ \A i \in DOMAIN ready' : ready'[i] = e \/ (i \in DOMAIN ready /\ ready'[i] = ready[i])
         /\ \A i, j \in DOMAIN ready' : ready'[i].kind = ready'[j].kind /\ ready'[i].kind # "posted" => i = j
<1>1. /\ DOMAIN ready' = DOMAIN ready \cup {Len(ready) + 1} /\ ready'[Len(ready) + 1] = e
      /\ \A i \in DOMAIN ready : ready'[i] = ready[i]
  BY QueueEvent DEF TypeOK, Queues
<1>2. \A i \in DOMAIN ready' : ready'[i] = e \/ (i \in DOMAIN ready /\ ready'[i] = ready[i])
  BY <1>1
<1>3. \A i, j \in DOMAIN ready' : ready'[i].kind = ready'[j].kind /\ ready'[i].kind # "posted" => i = j
  BY <1>1 DEF Queue, Waiting
<1> QED
  BY <1>2, <1>3

\* Every step keeps the completions those of the operations under way.
LEMMA QueueStep ==
  ASSUME TypeOK, Current, Queue, Socket, [Next]_vars
  PROVE  Queue'
<1> USE DEF control, connection, network
<1>1. CASE request
  <2>1. \/ ready' = PostedCalls(ready)
        \/ ready' = ready /\ UNCHANGED <<m_socket, m_name_resolver>> /\ check_receive
    BY <1>1 DEF request, connect_host, Replace
  <2>2. CASE ready' = PostedCalls(ready)
    BY <2>2, PostedType, QueueReplaced DEF TypeOK, Queues
  <2>3. CASE ready' = ready /\ UNCHANGED <<m_socket, m_name_resolver>> /\ check_receive
    BY <2>3 DEF check_receive, Queue
  <2> QED
    BY <2>1, <2>2, <2>3
<1>2. CASE request_invalid
  <2> DEFINE e == Event("posted", "error", <<>>)
  <2>1. ready' = Append(ready, e)
    BY <1>2 DEF request_invalid
  <2> HIDE DEF e
  <2>2. e \in Events /\ e.kind = "posted"
    BY EmptySeq, EventType DEF e
  <2>3. e.kind = "posted" \/ ~Waiting(e.kind)
    BY <1>2, <2>2 DEF request_invalid, ApiAllowed
  <2>4. /\ \A i \in DOMAIN ready' : ready'[i] = e \/ (i \in DOMAIN ready /\ ready'[i] = ready[i])
        /\ \A i, j \in DOMAIN ready' : ready'[i].kind = ready'[j].kind /\ ready'[i].kind # "posted" => i = j
    BY <2>1, <2>2, <2>3, QueueJoined
  <2> QED
    BY <1>2, <2>2, <2>4 DEF request_invalid, ApiAllowed, Queue
<1>3. CASE close
  <2>1. ready' = PostedCalls(ready) /\ ready \in Seq(Events)
    BY <1>3 DEF close, DoClose, Replace, ApiAllowed, TypeOK, Queues
  <2> QED
    BY <2>1, PostedType, QueueReplaced
<1>4. CASE pause
  BY <1>4 DEF pause, ApiAllowed, Queue, Socket
<1>5. CASE resume
  BY <1>5 DEF resume, ApiAllowed, Queue, Socket
<1>6. CASE on_posted_error
  <2>1. on_error /\ (pc = "idle" => ready # <<>>)
    BY <1>6 DEF on_posted_error, Dispatch
  <2> QED
    BY <2>1, ErrorEffect, QueueReplaced
<1>7. CASE on_connect_failed
  <2>1. on_error /\ (pc = "idle" => ready # <<>>)
    BY <1>7 DEF on_connect_failed, Dispatch
  <2> QED
    BY <2>1, ErrorEffect, QueueReplaced
<1>8. CASE on_resolver_address
  <2>1. ready # <<>> /\ ready' = Tail(ready)
    BY <1>8 DEF on_resolver_address, Dispatch
  <2>2. \A i \in DOMAIN ready' : \E j \in DOMAIN ready : ready'[i] = ready[j] /\ (ready[j].kind = Head(ready).kind => ready[j].kind = "posted")
    BY <2>1, QueueTaken
  <2>3. \A i, j \in DOMAIN ready' : ready'[i].kind = ready'[j].kind /\ ready'[i].kind # "posted" => i = j
    BY <2>1, QueueTaken
  <2>4. Head(ready) = ready[1] /\ 1 \in DOMAIN ready
    BY <2>1, FirstEvent DEF TypeOK, Queues
  <2>5. ASSUME NEW i \in DOMAIN ready'
        PROVE  /\ ready'[i].kind = "connect" => m_socket' = "connecting"
               /\ ready'[i].kind = "resolve" => m_name_resolver' = "resolving"
               /\ ready'[i].kind = "recv" => m_socket' = "connected" /\ m_receiving'
    BY <1>8, <2>2, <2>4 DEF on_resolver_address, Dispatch, Queue, Socket
  <2> QED
    BY <2>3, <2>5 DEF Queue
<1>9. CASE on_socket_connect
  <2>1. ready # <<>> /\ ready' = Tail(ready)
    BY <1>9 DEF on_socket_connect, Dispatch
  <2>2. \A i \in DOMAIN ready' : \E j \in DOMAIN ready : ready'[i] = ready[j] /\ (ready[j].kind = Head(ready).kind => ready[j].kind = "posted")
    BY <2>1, QueueTaken
  <2>3. \A i, j \in DOMAIN ready' : ready'[i].kind = ready'[j].kind /\ ready'[i].kind # "posted" => i = j
    BY <2>1, QueueTaken
  <2>4. Head(ready) = ready[1] /\ 1 \in DOMAIN ready
    BY <2>1, FirstEvent DEF TypeOK, Queues
  <2>5. ASSUME NEW i \in DOMAIN ready'
        PROVE  /\ ready'[i].kind = "connect" => m_socket' = "connecting"
               /\ ready'[i].kind = "resolve" => m_name_resolver' = "resolving"
               /\ ready'[i].kind = "recv" => m_socket' = "connected" /\ m_receiving'
    BY <1>9, <2>2, <2>4 DEF on_socket_connect, Dispatch, Queue, Socket
  <2> QED
    BY <2>3, <2>5 DEF Queue
<1>10. CASE on_socket_receive /\ m_request = 0
  <2>1. ready' = PostedCalls(ready) /\ ready \in Seq(Events)
    BY <1>10 DEF on_socket_receive, DoClose, Replace, Dispatch, TypeOK, Queues
  <2> QED
    BY <2>1, PostedType, QueueReplaced
<1>11. CASE on_socket_receive /\ m_request # 0
  <2>1. ready # <<>> /\ ready' = Tail(ready)
    BY <1>11 DEF on_socket_receive, Dispatch
  <2>2. \A i \in DOMAIN ready' : \E j \in DOMAIN ready : ready'[i] = ready[j] /\ (ready[j].kind = Head(ready).kind => ready[j].kind = "posted")
    BY <2>1, QueueTaken
  <2>3. \A i, j \in DOMAIN ready' : ready'[i].kind = ready'[j].kind /\ ready'[i].kind # "posted" => i = j
    BY <2>1, QueueTaken
  <2>4. Head(ready) = ready[1] /\ 1 \in DOMAIN ready
    BY <2>1, FirstEvent DEF TypeOK, Queues
  <2>5. ASSUME NEW i \in DOMAIN ready'
        PROVE  /\ ready'[i].kind = "connect" => m_socket' = "connecting"
               /\ ready'[i].kind = "resolve" => m_name_resolver' = "resolving"
               /\ ready'[i].kind = "recv" => m_socket' = "connected" /\ m_receiving'
    BY <1>11, <2>2, <2>4 DEF on_socket_receive, Dispatch, Queue
  <2> QED
    BY <2>3, <2>5 DEF Queue
<1>12. CASE on_socket_receive_failed /\ m_request = 0
  <2>1. ready' = PostedCalls(ready) /\ ready \in Seq(Events)
    BY <1>12 DEF on_socket_receive_failed, DoClose, Replace, Dispatch, TypeOK, Queues
  <2> QED
    BY <2>1, PostedType, QueueReplaced
<1>13. CASE on_socket_receive_failed /\ m_request # 0 /\ EofEndsResponse(m_request)
  <2>1. ready # <<>> /\ ready' = Tail(ready)
    BY <1>13 DEF on_socket_receive_failed, EofEndsResponse, Dispatch
  <2>2. \A i \in DOMAIN ready' : \E j \in DOMAIN ready : ready'[i] = ready[j] /\ (ready[j].kind = Head(ready).kind => ready[j].kind = "posted")
    BY <2>1, QueueTaken
  <2>3. \A i, j \in DOMAIN ready' : ready'[i].kind = ready'[j].kind /\ ready'[i].kind # "posted" => i = j
    BY <2>1, QueueTaken
  <2>4. Head(ready) = ready[1] /\ 1 \in DOMAIN ready
    BY <2>1, FirstEvent DEF TypeOK, Queues
  <2>5. ASSUME NEW i \in DOMAIN ready'
        PROVE  /\ ready'[i].kind = "connect" => m_socket' = "connecting"
               /\ ready'[i].kind = "resolve" => m_name_resolver' = "resolving"
               /\ ready'[i].kind = "recv" => m_socket' = "connected" /\ m_receiving'
    BY <1>13, <2>2, <2>4 DEF on_socket_receive_failed, EofEndsResponse, Dispatch, Queue
  <2> QED
    BY <2>3, <2>5 DEF Queue
<1>14. CASE on_socket_receive_failed /\ m_request # 0 /\ ~EofEndsResponse(m_request)
  <2>1. on_error /\ (pc = "idle" => ready # <<>>)
    BY <1>14 DEF on_socket_receive_failed, Dispatch
  <2> QED
    BY <2>1, ErrorEffect, QueueReplaced
<1>15. CASE header_incomplete
  BY <1>15 DEF header_incomplete, Queue, Socket
<1>16. CASE redirect /\ info[cur].redirect_times > max_redirects
  <2>1. on_error /\ (pc = "idle" => ready # <<>>)
    BY <1>16 DEF redirect
  <2> QED
    BY <2>1, ErrorEffect, QueueReplaced
<1>17. CASE redirect /\ ~(info[cur].redirect_times > max_redirects)
  <2>1. ready' = PostedCalls(ready) /\ ready \in Seq(Events)
    BY <1>17 DEF redirect, connect_host, Replace, Return, TypeOK, Queues
  <2> QED
    BY <2>1, PostedType, QueueReplaced
<1>18. CASE handle_response_header
  BY <1>18 DEF handle_response_header, Queue, Socket
<1>19. CASE process_body_data
  BY <1>19 DEF process_body_data, Queue, Socket
<1>20. CASE receive_tail
  BY <1>20 DEF receive_tail, check_receive, Return, Queue, Socket
<1>21. CASE listener_returns /\ Refuse
  BY <1>21 DEF listener_returns, Refuse, Return, Queue, Socket
<1>22. CASE listener_returns /\ Accept /\ m_request = 0 /\ (AllReceived \/ data # <<>>)
  <2>1. ready' = PostedCalls(ready) /\ ready \in Seq(Events)
    BY <1>22 DEF listener_returns, Accept, on_complete, DoClose, Replace, Return, TypeOK, Queues
  <2> QED
    BY <2>1, PostedType, QueueReplaced
<1>23. CASE listener_returns /\ Accept /\ m_request # 0 /\ AllReceived
  BY <1>23 DEF listener_returns, Accept, on_complete, Queue, Socket
<1>24. CASE listener_returns /\ Accept /\ ~AllReceived /\ ~(data # <<>> /\ m_request = 0)
  BY <1>24 DEF listener_returns, Accept, Queue, Socket
<1>25. CASE complete_returns
  BY <1>25 DEF complete_returns, Queue, Socket
<1>26. CASE error_returns
  BY <1>26 DEF error_returns, Return, Queue, Socket
<1>27. CASE NativeConnect
  <2>0. PICK res \in {"ok", "error"} : ready' = Append(ready, Event("connect", res, <<>>))
    BY <1>27 DEF NativeConnect
  <2> DEFINE e == Event("connect", res, <<>>)
  <2>1. ready' = Append(ready, e) /\ e \in Events
    BY <2>0, EmptySeq, EventType
  <2>5. e.kind = "connect"
    BY DEF Event
  <2> HIDE DEF e
  <2>2. e \in Events /\ e.kind = "connect"
    BY <2>1, <2>5
  <2>3. e.kind = "posted" \/ ~Waiting(e.kind)
    BY <1>27, <2>2 DEF NativeConnect
  <2>4. /\ \A i \in DOMAIN ready' : ready'[i] = e \/ (i \in DOMAIN ready /\ ready'[i] = ready[i])
        /\ \A i, j \in DOMAIN ready' : ready'[i].kind = ready'[j].kind /\ ready'[i].kind # "posted" => i = j
    BY <2>1, <2>2, <2>3, QueueJoined
  <2> QED
    BY <1>27, <2>2, <2>4 DEF NativeConnect, Queue
<1>28. CASE NativeResolve
  <2>0. PICK res \in {"ok", "error"} : ready' = Append(ready, Event("resolve", res, <<>>))
    BY <1>28 DEF NativeResolve
  <2> DEFINE e == Event("resolve", res, <<>>)
  <2>1. ready' = Append(ready, e) /\ e \in Events
    BY <2>0, EmptySeq, EventType
  <2>5. e.kind = "resolve"
    BY DEF Event
  <2> HIDE DEF e
  <2>2. e \in Events /\ e.kind = "resolve"
    BY <2>1, <2>5
  <2>3. e.kind = "posted" \/ ~Waiting(e.kind)
    BY <1>28, <2>2 DEF NativeResolve
  <2>4. /\ \A i \in DOMAIN ready' : ready'[i] = e \/ (i \in DOMAIN ready /\ ready'[i] = ready[i])
        /\ \A i, j \in DOMAIN ready' : ready'[i].kind = ready'[j].kind /\ ready'[i].kind # "posted" => i = j
    BY <2>1, <2>2, <2>3, QueueJoined
  <2> QED
    BY <1>28, <2>2, <2>4 DEF NativeResolve, Queue
<1>29. CASE ServerRespond
  BY <1>29 DEF ServerRespond, Queue, Socket
<1>30. CASE NativeReceive
  <2>1. PICK e : ready' = Append(ready, e) /\ \E res \in {"ok", "eof", "error"}, d \in Seq(Tokens) : e = Event("recv", res, d)
    <3>1. \A n \in 1 .. Len(stream) : SubSeq(stream, 1, n) \in Seq(Tokens)
      <4>1. Len(stream) \in Nat /\ stream \in Seq(Tokens)
        BY LenProperties DEF TypeOK, Queues
      <4>2. \A n \in 1 .. Len(stream) : n \in 0 .. Len(stream)
        BY <4>1
      <4> QED
        BY <4>1, <4>2, Cut
    <3> QED
      BY <1>30, <3>1, EmptySeq DEF NativeReceive
  <2>2. e \in Events /\ e.kind = "recv"
    BY <2>1, EmptySeq, EventType
  <2>3. e.kind = "posted" \/ ~Waiting(e.kind)
    BY <1>30, <2>2 DEF NativeReceive
  <2>4. /\ \A i \in DOMAIN ready' : ready'[i] = e \/ (i \in DOMAIN ready /\ ready'[i] = ready[i])
        /\ \A i, j \in DOMAIN ready' : ready'[i].kind = ready'[j].kind /\ ready'[i].kind # "posted" => i = j
    BY <2>1, <2>2, <2>3, QueueJoined
  <2> QED
    BY <1>30, <2>2, <2>4 DEF NativeReceive, Queue
<1>31. CASE UNCHANGED vars
  BY <1>31 DEF vars, Queue, Socket
<1> QED
  BY <1>1, <1>2, <1>3, <1>4, <1>5, <1>6, <1>7, <1>8, <1>9, <1>10, <1>11, <1>12, <1>13, <1>14,
     <1>15, <1>16, <1>17, <1>18, <1>19, <1>20, <1>21, <1>22, <1>23, <1>24, <1>25, <1>26,
     <1>27, <1>28, <1>29, <1>30, <1>31 DEF Next, Api, Handler, Native, listener_returns

\* A request over a new connection, or over the one that is open and idle.
LEMMA RequestEffect ==
  ASSUME TypeOK, request
  PROVE  /\ requests + 1 \in Requests /\ requests' = requests + 1 /\ m_request' = requests + 1
         /\ m_request' # 0 /\ m_request' # cur /\ m_request' # m_request
         /\ pc \in Callbacks \cup {"idle"} /\ UNCHANGED <<pc, cur, data, got, ended>>
         /\ \A r \in Requests : r # requests + 1 => info'[r] = info[r]
         /\ \E h \in Hosts :
              \/ /\ info'[requests + 1] = NewInfo(h) /\ m_host' = h
                 /\ pause_receive' = FALSE /\ m_receiving' = FALSE /\ sender_open' = FALSE
                 /\ stream' = <<>> /\ onwire' = 0
                 /\ \A i \in DOMAIN ready' : ready'[i].kind = "posted"
                 /\ \/ m_socket' = "new" /\ m_name_resolver' = "resolving"
                    \/ m_socket' = "connecting" /\ m_name_resolver' = "none"
              \/ /\ info'[requests + 1] = [NewInfo(h) EXCEPT !.header_send = TRUE]
                 /\ m_socket = "connected" /\ m_request = 0 /\ onwire' = requests + 1 /\ check_receive
                 /\ UNCHANGED <<m_host, pause_receive, m_socket, m_name_resolver, ready, stream,
                                sender_open>>
<1>1. /\ requests < MaxRequests /\ requests' = requests + 1 /\ m_request' = requests + 1
      /\ pc \in Callbacks \cup {"idle"} /\ UNCHANGED <<pc, cur, data, got, ended>>
  BY DEF request, connect_host, Replace, ApiAllowed
<1>2. requests + 1 \in Requests /\ requests + 1 # 0 /\ requests + 1 # cur /\ requests + 1 # m_request
  BY <1>1, HttpConnectionAssumption DEF TypeOK, Counts, Requests
<1>3. ready \in Seq(Events) /\ info \in [Requests -> Infos]
  BY DEF TypeOK, Queues, Tables
<1>4. PICK h \in Hosts :
        IF need_reconnect(h)
        THEN connect_host(requests + 1, h) /\ info' = [info EXCEPT ![requests + 1] = NewInfo(h)]
        ELSE /\ m_request' = requests + 1
             /\ info' = [info EXCEPT ![requests + 1] = [NewInfo(h) EXCEPT !.header_send = TRUE]]
             /\ onwire' = requests + 1 /\ check_receive
             /\ UNCHANGED <<m_host, pause_receive, m_socket, m_name_resolver, ready, stream, sender_open>>
  BY DEF request
<1>5. CASE need_reconnect(h)
  <2>1. connect_host(requests + 1, h) /\ info' = [info EXCEPT ![requests + 1] = NewInfo(h)]
    BY <1>4, <1>5
  <2>2. \A i \in DOMAIN ready' : ready'[i].kind = "posted"
    BY <1>3, <2>1, PostedType DEF connect_host, Replace
  <2> QED
    BY <1>1, <1>2, <1>3, <2>1, <2>2 DEF connect_host, Replace
<1>6. CASE ~need_reconnect(h)
  <2>1. m_socket = "connected" /\ m_request = 0
    BY <1>6 DEF need_reconnect
  <2> QED
    BY <1>1, <1>2, <1>3, <1>4, <1>6, <2>1
<1> QED
  BY <1>5, <1>6

\* The state of a new request.
LEMMA NewRequest ==
  \A h : /\ NewInfo(h).host = h /\ ~NewInfo(h).header_send /\ ~NewInfo(h).header_finished
         /\ ~NewInfo(h).response_header_received /\ NewInfo(h).received_size = 0 /\ ~NewInfo(h).refused
         /\ [NewInfo(h) EXCEPT !.header_send = TRUE].received_size = 0
         /\ ~[NewInfo(h) EXCEPT !.header_send = TRUE].header_finished
         /\ ~[NewInfo(h) EXCEPT !.header_send = TRUE].response_header_received
         /\ ~[NewInfo(h) EXCEPT !.header_send = TRUE].refused
  BY DEF NewInfo

\* Every step keeps what is said of the socket.
LEMMA SocketStep ==
  ASSUME CarefulListener, TypeOK, Current, Queue, Socket, [Next]_vars
  PROVE  Socket'
<1> USE DEF control, connection, network
<1>1. CASE request
  <2>1. /\ m_request' = requests + 1 /\ m_request' # 0 /\ m_request' # cur
        /\ pc \in Callbacks \cup {"idle"} /\ UNCHANGED <<pc, cur>>
    BY <1>1, RequestEffect
  <2>2. PICK h \in Hosts :
          \/ /\ info'[requests + 1] = NewInfo(h) /\ m_host' = h /\ stream' = <<>> /\ onwire' = 0
             /\ \/ m_socket' = "new" /\ m_name_resolver' = "resolving"
                \/ m_socket' = "connecting" /\ m_name_resolver' = "none"
          \/ /\ info'[requests + 1] = [NewInfo(h) EXCEPT !.header_send = TRUE]
             /\ m_socket = "connected" /\ m_request = 0
             /\ UNCHANGED <<m_host, m_socket, m_name_resolver, stream, sender_open>>
    BY <1>1, RequestEffect
  <2>3. CASE m_socket' # "connected"
    BY <2>1, <2>2, <2>3, NewRequest DEF Socket
  <2>4. CASE m_socket' = "connected"
    <3>1. /\ m_socket = "connected" /\ m_request = 0
          /\ UNCHANGED <<m_host, m_socket, m_name_resolver, stream, sender_open>>
      BY <2>2, <2>4
    <3>2. pc \notin Processing
      BY <3>1 DEF Socket, Current
    <3> QED
      BY <2>1, <2>4, <3>1, <3>2 DEF Socket
  <2> QED
    BY <2>3, <2>4
<1>2. CASE request_invalid
  BY <1>2 DEF request_invalid, ApiAllowed, Socket, TypeOK, Words, Counts, Current, Processing,
     Telling, Callbacks
<1>3. CASE close
  BY <1>3 DEF close, DoClose, Replace, ApiAllowed, Socket, TypeOK, Words, Counts, Current,
     Processing, Telling, Callbacks
<1>4. CASE pause
  BY <1>4 DEF pause, ApiAllowed, Socket, TypeOK, Words, Counts, Current, Processing, Telling,
     Callbacks
<1>5. CASE resume
  BY <1>5 DEF resume, ApiAllowed, Socket, TypeOK, Words, Counts, Current, Processing, Telling,
     Callbacks
<1>6. CASE on_posted_error
  <2>1. on_error /\ (pc = "idle" => ready # <<>>)
    BY <1>6 DEF on_posted_error, Dispatch
  <2>2. /\ m_request' = 0 /\ m_socket' = "new" /\ m_name_resolver' = "none" /\ onwire' = 0
        /\ stream' = <<>> /\ pc' = "on_http_error"
    BY <2>1, ErrorEffect
  <2> QED
    BY <2>2 DEF Socket, Processing
<1>7. CASE on_connect_failed
  <2>1. on_error /\ (pc = "idle" => ready # <<>>)
    BY <1>7 DEF on_connect_failed, Dispatch
  <2>2. /\ m_request' = 0 /\ m_socket' = "new" /\ m_name_resolver' = "none" /\ onwire' = 0
        /\ stream' = <<>> /\ pc' = "on_http_error"
    BY <2>1, ErrorEffect
  <2> QED
    BY <2>2 DEF Socket, Processing
<1>8. CASE on_resolver_address
  <2>1. ready # <<>>
    BY <1>8 DEF on_resolver_address, Dispatch
  <2>2. Head(ready) = ready[1] /\ 1 \in DOMAIN ready
    BY <2>1, FirstEvent DEF TypeOK, Queues
  <2> QED
    BY <1>8, <2>2 DEF on_resolver_address, Dispatch, Queue, Socket, Processing
<1>9. CASE on_socket_connect
  <2>1. ready # <<>>
    BY <1>9 DEF on_socket_connect, Dispatch
  <2>2. Head(ready) = ready[1] /\ 1 \in DOMAIN ready
    BY <2>1, FirstEvent DEF TypeOK, Queues
  <2>3. m_socket = "connecting" /\ pc = "idle"
    BY <1>9, <2>2 DEF on_socket_connect, Dispatch, Queue
  <2> QED
    BY <1>9, <2>3 DEF on_socket_connect, Socket, Processing
<1>10. CASE on_socket_receive /\ m_request = 0
  BY <1>10 DEF on_socket_receive, DoClose, Replace, Dispatch, Socket, TypeOK, Words, Counts,
     Current, Processing, Telling, Callbacks
<1>11. CASE on_socket_receive /\ m_request # 0
  <2>1. ready # <<>>
    BY <1>11 DEF on_socket_receive, Dispatch
  <2>2. Head(ready) = ready[1] /\ 1 \in DOMAIN ready
    BY <2>1, FirstEvent DEF TypeOK, Queues
  <2>3. m_socket = "connected"
    BY <1>11, <2>2 DEF on_socket_receive, Dispatch, Queue
  <2> QED
    BY <1>11, <2>3 DEF on_socket_receive, Socket, Processing
<1>12. CASE on_socket_receive_failed /\ m_request = 0
  BY <1>12 DEF on_socket_receive_failed, DoClose, Replace, Dispatch, Socket, TypeOK, Words,
     Counts, Current, Processing, Telling, Callbacks
<1>13. CASE on_socket_receive_failed /\ m_request # 0 /\ EofEndsResponse(m_request)
  <2>1. ready # <<>>
    BY <1>13 DEF on_socket_receive_failed, EofEndsResponse, Dispatch
  <2>2. Head(ready) = ready[1] /\ 1 \in DOMAIN ready
    BY <2>1, FirstEvent DEF TypeOK, Queues
  <2>3. m_socket = "connected"
    BY <1>13, <2>2 DEF on_socket_receive_failed, Dispatch, Queue
  <2> QED
    BY <1>13, <2>3 DEF on_socket_receive_failed, Socket, Processing
<1>14. CASE on_socket_receive_failed /\ m_request # 0 /\ ~EofEndsResponse(m_request)
  <2>1. on_error /\ (pc = "idle" => ready # <<>>)
    BY <1>14 DEF on_socket_receive_failed, Dispatch
  <2>2. /\ m_request' = 0 /\ m_socket' = "new" /\ m_name_resolver' = "none" /\ onwire' = 0
        /\ stream' = <<>> /\ pc' = "on_http_error"
    BY <2>1, ErrorEffect
  <2> QED
    BY <2>2 DEF Socket, Processing
<1>15. CASE header_incomplete
  BY <1>15 DEF header_incomplete, Socket, TypeOK, Words, Counts, Current, Processing, Telling,
     Callbacks
<1>16. CASE redirect /\ info[cur].redirect_times > max_redirects
  <2>1. on_error /\ (pc = "idle" => ready # <<>>)
    BY <1>16 DEF redirect
  <2>2. /\ m_request' = 0 /\ m_socket' = "new" /\ m_name_resolver' = "none" /\ onwire' = 0
        /\ stream' = <<>> /\ pc' = "on_http_error"
    BY <2>1, ErrorEffect
  <2> QED
    BY <2>2 DEF Socket, Processing
<1>17. CASE redirect /\ ~(info[cur].redirect_times > max_redirects)
  <2>1. PICK h \in Hosts : connect_host(cur, h) /\ info' = [info EXCEPT ![cur] = reset_handling_state(info[cur], h)]
    BY <1>17 DEF redirect
  <2>2. cur \in Requests /\ pc' = "idle"
    BY <1>17, HttpConnectionAssumption DEF redirect, Return, Current, Processing, TypeOK, Counts, Requests
  <2>3. info'[cur].host = h /\ ~info'[cur].header_send /\ ~info'[cur].header_finished
    BY <2>1, <2>2 DEF reset_handling_state, NewInfo, TypeOK, Tables
  <2>4. /\ m_request' = cur /\ m_host' = h /\ stream' = <<>> /\ onwire' = 0
        /\ \/ m_socket' = "new" /\ m_name_resolver' = "resolving"
           \/ m_socket' = "connecting" /\ m_name_resolver' = "none"
    BY <2>1 DEF connect_host, Replace
  <2>5. cur # 0
    BY <1>17 DEF redirect, Current, Processing
  <2> QED
    BY <2>2, <2>3, <2>4, <2>5 DEF Socket, Processing
<1>18. CASE handle_response_header
  <2>1. m_request = cur /\ pc = "header" /\ pc' = "on_http_response" /\ UNCHANGED <<m_request, cur, m_socket, m_name_resolver, sender_open, stream, onwire>>
    BY <1>18 DEF handle_response_header, Current
  <2>2. m_socket = "connected" /\ sender_open
    BY <2>1 DEF Socket, Processing
  <2> QED
    BY <2>1, <2>2 DEF Socket, Processing
<1>19. CASE process_body_data
  <2>1. m_request = cur /\ pc = "body" /\ pc' = "on_http_data" /\ UNCHANGED <<m_request, cur, m_socket, m_name_resolver, sender_open, stream, onwire>>
    BY <1>19 DEF process_body_data, Current
  <2>2. m_socket = "connected" /\ sender_open
    BY <2>1 DEF Socket, Processing
  <2> QED
    BY <2>1, <2>2 DEF Socket, Processing
<1>20. CASE receive_tail
  BY <1>20 DEF receive_tail, check_receive, Return, Socket, TypeOK, Words, Counts, Current,
     Processing, Telling, Callbacks
<1>21. CASE listener_returns /\ Refuse
  <2>1. \A r \in Requests : /\ info'[r].header_send = info[r].header_send /\ info'[r].host = info[r].host
                            /\ info'[r].header_finished = info[r].header_finished
    BY <1>21 DEF listener_returns, Refuse, Return, TypeOK, Tables, Infos
  <2>2. m_request # 0 => m_request \in Requests
    BY HttpConnectionAssumption DEF TypeOK, Counts, Requests
  <2> QED
    BY <1>21, <2>1, <2>2 DEF listener_returns, Refuse, Return, Socket, Current, Processing, Telling, Callbacks
<1>22. CASE listener_returns /\ Accept /\ m_request = 0 /\ (AllReceived \/ data # <<>>)
  BY <1>22 DEF listener_returns, Accept, on_complete, DoClose, Replace, Return, Socket, TypeOK,
     Words, Counts, Current, Processing, Telling, Callbacks
<1>23. CASE listener_returns /\ Accept /\ m_request # 0 /\ AllReceived
  <2>1. m_request = cur /\ m_request' = 0 /\ pc' = "on_http_complete" /\ UNCHANGED <<m_socket, m_name_resolver, sender_open, stream, onwire>>
        /\ pc \in Telling
    BY <1>23 DEF listener_returns, Accept, on_complete, Current, Telling
  <2>2. m_socket = "connected" /\ sender_open
    BY <2>1 DEF Socket, Processing, Telling
  <2> QED
    BY <2>1, <2>2 DEF Socket, Processing
<1>24. CASE listener_returns /\ Accept /\ ~AllReceived /\ ~(data # <<>> /\ m_request = 0)
  BY <1>24 DEF listener_returns, Accept, Socket, Current, Processing, Telling
<1>25. CASE complete_returns
  BY <1>25 DEF complete_returns, Socket, TypeOK, Words, Counts, Current, Processing, Telling,
     Callbacks
<1>26. CASE error_returns
  BY <1>26 DEF error_returns, Return, Socket, TypeOK, Words, Counts, Current, Processing,
     Telling, Callbacks
<1>27. CASE NativeConnect
  BY <1>27 DEF NativeConnect, Socket, TypeOK, Words, Counts, Current, Processing, Telling,
     Callbacks
<1>28. CASE NativeResolve
  BY <1>28 DEF NativeResolve, Socket, TypeOK, Words, Counts, Current, Processing, Telling,
     Callbacks
<1>29. CASE ServerRespond
  BY <1>29 DEF ServerRespond, Socket, TypeOK, Words, Counts, Current, Processing, Telling,
     Callbacks
<1>30. CASE NativeReceive
  BY <1>30 DEF NativeReceive, Socket, TypeOK, Words, Counts, Current, Processing, Telling,
     Callbacks
<1>31. CASE UNCHANGED vars
  BY <1>31 DEF vars, Socket, TypeOK, Words, Counts, Current, Processing, Telling, Callbacks
<1> QED
  BY <1>1, <1>2, <1>3, <1>4, <1>5, <1>6, <1>7, <1>8, <1>9, <1>10, <1>11, <1>12, <1>13, <1>14,
     <1>15, <1>16, <1>17, <1>18, <1>19, <1>20, <1>21, <1>22, <1>23, <1>24, <1>25, <1>26,
     <1>27, <1>28, <1>29, <1>30, <1>31 DEF Next, Api, Handler, Native, listener_returns

\* Every step leaves a refused response unread.
LEMMA RefusedStep ==
  ASSUME CarefulListener, TypeOK, Current, Queue, Socket, Refused, [Next]_vars
  PROVE  Refused'
<1> USE DEF control, connection, network
<1>1. CASE request
  <2>1. m_request' = requests + 1 /\ \E h \in Hosts : \/ info'[requests + 1] = NewInfo(h)
                                                    \/ info'[requests + 1] = [NewInfo(h) EXCEPT !.header_send = TRUE]
    BY <1>1, RequestEffect
  <2> QED
    BY <2>1, NewRequest DEF Refused
<1>2. CASE request_invalid
  BY <1>2 DEF request_invalid, ApiAllowed, Refused
<1>3. CASE close
  BY <1>3 DEF close, DoClose, Replace, ApiAllowed, Refused
<1>4. CASE pause
  BY <1>4 DEF pause, ApiAllowed, Refused
<1>5. CASE resume
  BY <1>5 DEF resume, ApiAllowed, Refused
<1>6. CASE on_posted_error
  <2>1. on_error /\ (pc = "idle" => ready # <<>>)
    BY <1>6 DEF on_posted_error, Dispatch
  <2> QED
    BY <2>1, ErrorEffect DEF Refused
<1>7. CASE on_connect_failed
  <2>1. on_error /\ (pc = "idle" => ready # <<>>)
    BY <1>7 DEF on_connect_failed, Dispatch
  <2> QED
    BY <2>1, ErrorEffect DEF Refused
<1>8. CASE on_resolver_address
  <2>1. ready # <<>>
    BY <1>8 DEF on_resolver_address, Dispatch
  <2>2. Head(ready) = ready[1] /\ 1 \in DOMAIN ready
    BY <2>1, FirstEvent DEF TypeOK, Queues
  <2> QED
    BY <1>8, <2>2 DEF on_resolver_address, Dispatch, Queue, Socket, Refused
<1>9. CASE on_socket_connect
  <2>1. ready # <<>>
    BY <1>9 DEF on_socket_connect, Dispatch
  <2>2. Head(ready) = ready[1] /\ 1 \in DOMAIN ready
    BY <2>1, FirstEvent DEF TypeOK, Queues
  <2>3. m_request # 0 /\ m_socket = "connecting"
    BY <1>9, <2>2 DEF on_socket_connect, Dispatch, Queue, Socket
  <2>4. ~info[m_request].refused
    BY <2>3 DEF Refused
  <2>5. info'[m_request].refused = info[m_request].refused /\ m_request' = m_request
    <3>1. m_request \in Requests /\ info \in [Requests -> Infos]
      BY <2>3, HttpConnectionAssumption DEF TypeOK, Counts, Requests, Tables
    <3> QED
      BY <1>9, <3>1 DEF on_socket_connect, Infos
  <2> QED
    BY <2>4, <2>5 DEF Refused
<1>10. CASE on_socket_receive /\ m_request = 0
  BY <1>10 DEF on_socket_receive, DoClose, Replace, Dispatch, Refused
<1>11. CASE on_socket_receive /\ m_request # 0
  <2>1. ready # <<>>
    BY <1>11 DEF on_socket_receive, Dispatch
  <2>2. Head(ready) = ready[1] /\ 1 \in DOMAIN ready
    BY <2>1, FirstEvent DEF TypeOK, Queues
  <2> QED
    BY <1>11, <2>2 DEF on_socket_receive, Dispatch, Queue, Refused
<1>12. CASE on_socket_receive_failed /\ m_request = 0
  BY <1>12 DEF on_socket_receive_failed, DoClose, Replace, Dispatch, Refused
<1>13. CASE on_socket_receive_failed /\ m_request # 0 /\ EofEndsResponse(m_request)
  BY <1>13 DEF on_socket_receive_failed, EofEndsResponse, Dispatch, Refused
<1>14. CASE on_socket_receive_failed /\ m_request # 0 /\ ~EofEndsResponse(m_request)
  <2>1. on_error /\ (pc = "idle" => ready # <<>>)
    BY <1>14 DEF on_socket_receive_failed, Dispatch
  <2> QED
    BY <2>1, ErrorEffect DEF Refused
<1>15. CASE header_incomplete
  BY <1>15 DEF header_incomplete, Refused
<1>16. CASE redirect /\ info[cur].redirect_times > max_redirects
  <2>1. on_error /\ (pc = "idle" => ready # <<>>)
    BY <1>16 DEF redirect
  <2> QED
    BY <2>1, ErrorEffect DEF Refused
<1>17. CASE redirect /\ ~(info[cur].redirect_times > max_redirects)
  <2>1. PICK h \in Hosts : connect_host(cur, h) /\ info' = [info EXCEPT ![cur] = reset_handling_state(info[cur], h)]
    BY <1>17 DEF redirect
  <2>2. cur \in Requests
    BY <1>17, HttpConnectionAssumption DEF redirect, Current, Processing, TypeOK, Counts, Requests
  <2>3. ~info'[cur].refused
    BY <2>1, <2>2 DEF reset_handling_state, NewInfo, TypeOK, Tables
  <2> QED
    BY <2>1, <2>3 DEF connect_host, Replace, Refused
<1>18. CASE handle_response_header
  <2>1. \A r \in Requests : info'[r].refused = info[r].refused
    BY <1>18 DEF handle_response_header, TypeOK, Tables, Infos
  <2>2. m_request # 0 => m_request \in Requests
    BY HttpConnectionAssumption DEF TypeOK, Counts, Requests
  <2> QED
    BY <1>18, <2>1, <2>2 DEF handle_response_header, Refused, Telling, Callbacks
<1>19. CASE process_body_data
  <2>1. \A r \in Requests : info'[r].refused = info[r].refused
    BY <1>19 DEF process_body_data, TypeOK, Tables, Infos
  <2>2. m_request # 0 => m_request \in Requests
    BY HttpConnectionAssumption DEF TypeOK, Counts, Requests
  <2> QED
    BY <1>19, <2>1, <2>2 DEF process_body_data, Refused, Telling, Callbacks
<1>20. CASE receive_tail
  BY <1>20 DEF receive_tail, check_receive, Return, Refused
<1>21. CASE listener_returns /\ Refuse
  <2>1. /\ (cur # 0 => cur \in Requests) /\ (m_request # 0 => m_request \in Requests)
        /\ info \in [Requests -> Infos]
    BY HttpConnectionAssumption DEF TypeOK, Counts, Requests, Tables
  <2>2. CASE m_request = cur
    <3>1. cur # 0 /\ m_socket = "connected" /\ ~m_receiving
      BY <1>21, <2>2 DEF listener_returns, Refuse, Socket, Current, Processing, Telling
    <3> QED
      BY <1>21, <3>1 DEF listener_returns, Refuse, Return, Refused
  <2>3. CASE m_request # cur
    <3>1. info'[m_request] = info[m_request] \/ m_request = 0
      BY <1>21, <2>1, <2>3 DEF listener_returns, Refuse
    <3> QED
      BY <1>21, <3>1 DEF listener_returns, Refuse, Refused
  <2> QED
    BY <2>2, <2>3
<1>22. CASE listener_returns /\ Accept /\ m_request = 0 /\ (AllReceived \/ data # <<>>)
  BY <1>22 DEF listener_returns, Accept, on_complete, DoClose, Replace, Return, Refused
<1>23. CASE listener_returns /\ Accept /\ m_request # 0 /\ AllReceived
  BY <1>23 DEF listener_returns, Accept, on_complete, Refused
<1>24. CASE listener_returns /\ Accept /\ ~AllReceived /\ ~(data # <<>> /\ m_request = 0)
  BY <1>24 DEF listener_returns, Accept, Refused
<1>25. CASE complete_returns
  BY <1>25 DEF complete_returns, Refused
<1>26. CASE error_returns
  BY <1>26 DEF error_returns, Return, Refused
<1>27. CASE NativeConnect
  BY <1>27 DEF NativeConnect, Refused
<1>28. CASE NativeResolve
  BY <1>28 DEF NativeResolve, Refused
<1>29. CASE ServerRespond
  BY <1>29 DEF ServerRespond, Refused
<1>30. CASE NativeReceive
  BY <1>30 DEF NativeReceive, Refused
<1>31. CASE UNCHANGED vars
  BY <1>31 DEF vars, Refused
<1> QED
  BY <1>1, <1>2, <1>3, <1>4, <1>5, <1>6, <1>7, <1>8, <1>9, <1>10, <1>11, <1>12, <1>13, <1>14,
     <1>15, <1>16, <1>17, <1>18, <1>19, <1>20, <1>21, <1>22, <1>23, <1>24, <1>25, <1>26,
     <1>27, <1>28, <1>29, <1>30, <1>31 DEF Next, Api, Handler, Native, listener_returns

\* Every step leaves a read outstanding.
LEMMA ReadStep ==
  ASSUME CarefulListener, TypeOK, Current, Socket, ReadPending, [Next]_vars
  PROVE  ReadPending'
<1> USE DEF control, connection, network
<1>1. CASE request
  <2>1. \/ m_socket' # "connected"
        \/ m_socket = "connected" /\ check_receive /\ UNCHANGED <<pause_receive, m_socket>>
    BY <1>1, RequestEffect
  <2>2. CASE m_socket' # "connected"
    BY <2>2 DEF ReadPending
  <2>3. CASE m_socket = "connected" /\ check_receive /\ UNCHANGED <<pause_receive, m_socket>>
    BY <2>3 DEF ReadPending, check_receive
  <2> QED
    BY <2>1, <2>2, <2>3
<1>2. CASE request_invalid
  BY <1>2 DEF request_invalid, ApiAllowed, ReadPending, Socket
<1>3. CASE close
  BY <1>3 DEF close, DoClose, Replace, ApiAllowed, ReadPending, Socket
<1>4. CASE pause
  BY <1>4 DEF pause, ApiAllowed, ReadPending, Socket
<1>5. CASE resume
  BY <1>5 DEF resume, ApiAllowed, ReadPending, Socket
<1>6. CASE on_posted_error
  <2>1. on_error /\ (pc = "idle" => ready # <<>>)
    BY <1>6 DEF on_posted_error, Dispatch
  <2> QED
    BY <2>1, ErrorEffect DEF ReadPending
<1>7. CASE on_connect_failed
  <2>1. on_error /\ (pc = "idle" => ready # <<>>)
    BY <1>7 DEF on_connect_failed, Dispatch
  <2> QED
    BY <2>1, ErrorEffect DEF ReadPending
<1>8. CASE on_resolver_address
  BY <1>8 DEF on_resolver_address, Dispatch, ReadPending, Socket
<1>9. CASE on_socket_connect
  BY <1>9 DEF on_socket_connect, Dispatch, ReadPending, Socket
<1>10. CASE on_socket_receive /\ m_request = 0
  BY <1>10 DEF on_socket_receive, DoClose, Replace, Dispatch, ReadPending, Socket
<1>11. CASE on_socket_receive /\ m_request # 0
  BY <1>11 DEF on_socket_receive, Dispatch, ReadPending, Socket
<1>12. CASE on_socket_receive_failed /\ m_request = 0
  BY <1>12 DEF on_socket_receive_failed, DoClose, Replace, Dispatch, ReadPending, Socket
<1>13. CASE on_socket_receive_failed /\ m_request # 0 /\ EofEndsResponse(m_request)
  BY <1>13 DEF on_socket_receive_failed, EofEndsResponse, Dispatch, ReadPending, Socket
<1>14. CASE on_socket_receive_failed /\ m_request # 0 /\ ~EofEndsResponse(m_request)
  <2>1. on_error /\ (pc = "idle" => ready # <<>>)
    BY <1>14 DEF on_socket_receive_failed, Dispatch
  <2> QED
    BY <2>1, ErrorEffect DEF ReadPending
<1>15. CASE header_incomplete
  BY <1>15 DEF header_incomplete, ReadPending, Socket
<1>16. CASE redirect /\ info[cur].redirect_times > max_redirects
  <2>1. on_error /\ (pc = "idle" => ready # <<>>)
    BY <1>16 DEF redirect
  <2> QED
    BY <2>1, ErrorEffect DEF ReadPending
<1>17. CASE redirect /\ ~(info[cur].redirect_times > max_redirects)
  <2>1. m_socket' # "connected"
    BY <1>17 DEF redirect, connect_host, Replace
  <2> QED
    BY <2>1 DEF ReadPending
<1>18. CASE handle_response_header
  BY <1>18 DEF handle_response_header, ReadPending, Socket
<1>19. CASE process_body_data
  BY <1>19 DEF process_body_data, ReadPending, Socket
<1>20. CASE receive_tail
  BY <1>20 DEF receive_tail, check_receive, Return, ReadPending, Socket
<1>21. CASE listener_returns /\ Refuse
  <2>1. CASE m_request = cur
    <3>1. cur \in Requests /\ info \in [Requests -> Infos]
      BY <1>21, HttpConnectionAssumption DEF listener_returns, Current, Processing, Telling, TypeOK, Counts, Requests, Tables
    <3>2. info'[cur].refused = TRUE /\ m_request' = m_request
      BY <1>21, <3>1 DEF listener_returns, Refuse, Infos
    <3> QED
      BY <2>1, <3>2 DEF ReadPending
  <2>2. CASE m_request # cur
    BY <1>21, <2>2 DEF listener_returns, Refuse, Socket, Processing, Telling, ReadPending
  <2> QED
    BY <2>1, <2>2
<1>22. CASE listener_returns /\ Accept /\ m_request = 0 /\ (AllReceived \/ data # <<>>)
  BY <1>22 DEF listener_returns, Accept, on_complete, DoClose, Replace, Return, ReadPending,
     Socket
<1>23. CASE listener_returns /\ Accept /\ m_request # 0 /\ AllReceived
  BY <1>23 DEF listener_returns, Accept, on_complete, ReadPending, Socket
<1>24. CASE listener_returns /\ Accept /\ ~AllReceived /\ ~(data # <<>> /\ m_request = 0)
  BY <1>24 DEF listener_returns, Accept, ReadPending, Socket
<1>25. CASE complete_returns
  BY <1>25 DEF complete_returns, ReadPending, Socket
<1>26. CASE error_returns
  BY <1>26 DEF error_returns, Return, ReadPending, Socket
<1>27. CASE NativeConnect
  BY <1>27 DEF NativeConnect, ReadPending, Socket
<1>28. CASE NativeResolve
  BY <1>28 DEF NativeResolve, ReadPending, Socket
<1>29. CASE ServerRespond
  BY <1>29 DEF ServerRespond, ReadPending, Socket
<1>30. CASE NativeReceive
  BY <1>30 DEF NativeReceive, ReadPending, Socket
<1>31. CASE UNCHANGED vars
  BY <1>31 DEF vars, ReadPending, Socket
<1> QED
  BY <1>1, <1>2, <1>3, <1>4, <1>5, <1>6, <1>7, <1>8, <1>9, <1>10, <1>11, <1>12, <1>13, <1>14,
     <1>15, <1>16, <1>17, <1>18, <1>19, <1>20, <1>21, <1>22, <1>23, <1>24, <1>25, <1>26,
     <1>27, <1>28, <1>29, <1>30, <1>31 DEF Next, Api, Handler, Native, listener_returns

-----------------------------------------------------------------------------
(* The response on its way.                                                *)

\* Nothing of a response.
LEMMA PartEmpty ==
  \A r, len : \A p \in Nat : p <= 2 + Units(len) => Part(<<>>, r, len, p)
<1>1. Len(<<>>) = 0
  BY EmptySeq
<1> QED
  BY <1>1 DEF Part

\* A part of a response cut in two.
LEMMA PartSplit ==
  ASSUME NEW s \in Seq(Tokens), NEW n \in 0 .. Len(s), NEW r, NEW len, NEW p \in Nat, Units(len) \in Nat,
         Part(s, r, len, p)
  PROVE  /\ Part(SubSeq(s, 1, n), r, len, p)
         /\ Part(SubSeq(s, n + 1, Len(s)), r, len, p + n)
         /\ Len(SubSeq(s, 1, n)) = n
<1> DEFINE a == SubSeq(s, 1, n)
           b == SubSeq(s, n + 1, Len(s))
<1>1. /\ Len(a) = n /\ \A i \in 1 .. n : a[i] = s[i]
      /\ Len(b) = Len(s) - n /\ \A i \in 1 .. Len(s) - n : b[i] = s[n + i]
  BY Cut
<1>2. Len(s) \in Nat /\ p + Len(s) <= 2 + Units(len) /\ \A k \in 1 .. Len(s) : s[k] = Response(r, len, p + k)
  BY LenProperties DEF Part
<1> HIDE DEF a, b
<1>3. Part(a, r, len, p)
  BY <1>1, <1>2 DEF Part
<1>4. \A k \in 1 .. Len(b) : b[k] = Response(r, len, (p + n) + k)
  <2> TAKE k \in 1 .. Len(b)
  <2>1. n + k \in 1 .. Len(s) /\ k \in 1 .. Len(s) - n /\ p + (n + k) = (p + n) + k
    BY <1>1, <1>2
  <2> QED
    BY <1>1, <1>2, <2>1
<1>5. Part(b, r, len, p + n)
  BY <1>1, <1>2, <1>4 DEF Part
<1> QED
  BY <1>1, <1>3, <1>5 DEF a, b

\* Reads survive what leaves them in the queue.
LEMMA ReadKept ==
  ASSUME NEW R, Read(R),
         \A i \in DOMAIN ready' : ready'[i].kind = "recv" => \E j \in DOMAIN ready : ready'[i] = ready[j],
         Waiting("recv") => Waiting("recv")'
  PROVE  Read(R)'
  BY DEF Read

\* No read waits.
LEMMA ReadNone ==
  ASSUME \A i \in DOMAIN ready' : ready'[i].kind # "recv"
  PROVE  Read(<<>>)'
  BY EmptySeq DEF Read

\* A completion of another kind joins or leaves the queue.
LEMMA ReadOthers ==
  ASSUME TypeOK, NEW R, Read(R),
         \/ \E e \in Events : e.kind # "recv" /\ ready' = Append(ready, e)
         \/ ready # <<>> /\ Head(ready).kind # "recv" /\ ready' = Tail(ready)
         \/ ready' = ready
  PROVE  Read(R)'
<1>0. ready \in Seq(Events)
  BY DEF TypeOK, Queues
<1>1. ASSUME NEW e \in Events, e.kind # "recv", ready' = Append(ready, e) PROVE Read(R)'
  <2>1. /\ DOMAIN ready' = DOMAIN ready \cup {Len(ready) + 1} /\ ready'[Len(ready) + 1] = e
        /\ \A i \in DOMAIN ready : ready'[i] = ready[i]
    BY <1>0, <1>1, QueueEvent
  <2> QED
    BY <1>1, <2>1, ReadKept DEF Waiting
<1>2. ASSUME ready # <<>>, Head(ready).kind # "recv", ready' = Tail(ready) PROVE Read(R)'
  <2>1. Head(ready) = ready[1] /\ \A i \in DOMAIN ready' : i + 1 \in DOMAIN ready /\ ready'[i] = ready[i + 1]
    BY <1>0, <1>2, FirstEvent
  <2>2. \A i \in DOMAIN ready : i # 1 => i - 1 \in DOMAIN ready' /\ ready'[i - 1] = ready[i]
    <3>1. /\ Tail(ready) \in Seq(Events) /\ Len(Tail(ready)) = Len(ready) - 1
          /\ Len(ready) \in Nat /\ DOMAIN ready = 1 .. Len(ready)
      BY <1>0, <1>2, HeadTailProperties, LenProperties
    <3>2. DOMAIN ready' = 1 .. Len(ready) - 1
      BY <1>2, <3>1, LenProperties
    <3>3. \A i \in 2 .. Len(ready) : i - 1 \in 1 .. Len(ready) - 1 /\ (i - 1) + 1 = i
      BY <3>1
    <3>4. \A i \in DOMAIN ready : i # 1 => i \in 2 .. Len(ready)
      BY <3>1
    <3> QED
      BY <2>1, <3>2, <3>3, <3>4
  <2>3. Waiting("recv") => Waiting("recv")'
    BY <1>2, <2>1, <2>2 DEF Waiting
  <2> QED
    BY <2>1, <2>3, ReadKept
<1>3. ASSUME ready' = ready PROVE Read(R)'
  BY <1>3 DEF Read, Waiting
<1> QED
  BY <1>1, <1>2, <1>3

\* What a part of the response on its way is for the next state.
LEMMA ArrivedNext ==
  ASSUME NEW R, NEW len \in Lengths \cup {Redirect}, NEW p \in Nat, TypeOK', m_request' # 0, InOrder(R, len, p)'
  PROVE  Arrived'
<1>1. R \in {<<>>} \cup {ready'[i].data : i \in DOMAIN ready'}
  BY DEF InOrder, Read, Waiting
<1>2. Taken' \in Seq(Tokens) /\ Len(Taken') \in Nat
  BY EmptySeq, LenProperties DEF Taken, TypeOK, Queues
<1>3. Units(len) \in Nat
  BY HttpConnectionAssumption DEF Units, Redirect
<1>4. p + Len(Taken') <= 2 + Units(len)
  BY DEF InOrder, Part
<1>5. p \in 0 .. 2 + Units(len)
  BY <1>2, <1>3, <1>4
<1> QED
  BY <1>1, <1>5 DEF Arrived

\* Steps that leave the response on its way alone.
LEMMA ArrivedSame ==
  ASSUME TypeOK, TypeOK', Arrived, \A R : Read(R) => Read(R)', UNCHANGED <<m_request, stream>>,
         onwire' \in {0, onwire}, m_socket' = "failed" <=> m_socket = "failed",
         m_request # 0 => /\ Taken' = Taken
                          /\ info'[m_request].header_finished = info[m_request].header_finished
                          /\ info'[m_request].content_length = info[m_request].content_length
                          /\ info'[m_request].received_size = info[m_request].received_size
                          /\ info[m_request].refused => info'[m_request].refused
  PROVE  Arrived'
<1>1. CASE m_request # 0 /\ ~info[m_request].refused
  <2>1. PICK R \in {<<>>} \cup {ready[i].data : i \in DOMAIN ready}, len \in Lengths \cup {Redirect} :
          \E p \in 0 .. 2 + Units(len) : InOrder(R, len, p)
    BY <1>1 DEF Arrived
  <2>2. PICK p \in 0 .. 2 + Units(len) : InOrder(R, len, p)
    BY <2>1
  <2>3. Read(R)'
    BY <2>2 DEF InOrder
  <2>4. InOrder(R, len, p)'
    BY <1>1, <2>2, <2>3 DEF InOrder
  <2>5. p \in Nat
    BY <2>2
  <2> QED
    BY <1>1, <2>4, <2>5, ArrivedNext
<1>2. CASE m_request # 0 /\ info[m_request].refused
  BY <1>2 DEF Arrived
<1>3. CASE m_request = 0
  BY <1>3 DEF Arrived
<1> QED
  BY <1>1, <1>2, <1>3

\* A connection on which nothing is on its way.
LEMMA ArrivedNothing ==
  ASSUME TypeOK', Read(<<>>)', stream' = <<>>,
         m_request' # 0 => Taken' = <<>> /\ ~info'[m_request'].header_finished
  PROVE  Arrived'
<1>1. CASE m_request' = 0
  BY <1>1 DEF Arrived
<1>2. CASE m_request' # 0
  <2>1. Units(Redirect) = 0
    BY DEF Units, Redirect
  <2>2. \A r : Part(<<>>, r, Redirect, 0)
    BY <2>1, PartEmpty
  <2>3. Len(<<>>) = 0 /\ 0 + 0 = 0
    BY EmptySeq
  <2>4. InOrder(<<>>, Redirect, 0)'
    BY <1>2, <2>2, <2>3 DEF InOrder
  <2> QED
    BY <1>2, <2>4, ArrivedNext
<1> QED
  BY <1>1, <1>2

\* Every step keeps what is on its way the next part of one response.
LEMMA ArrivedStep ==
  ASSUME CarefulListener, TypeOK, TypeOK', Current, Queue, Socket, Refused, Arrived, Marks, [Next]_vars
  PROVE  Arrived'
<1> USE DEF control, connection, network
<1>1. CASE request
  <2>1. m_request' = requests + 1 /\ m_request' # 0 /\ m_request' # cur /\ cur' = cur
    BY <1>1, RequestEffect
  <2>2. Taken' = <<>>
    BY <2>1 DEF Taken
  <2>3. PICK h \in Hosts :
          \/ /\ info'[requests + 1] = NewInfo(h) /\ stream' = <<>>
             /\ \A i \in DOMAIN ready' : ready'[i].kind = "posted"
          \/ /\ info'[requests + 1] = [NewInfo(h) EXCEPT !.header_send = TRUE]
             /\ m_socket = "connected" /\ m_request = 0 /\ UNCHANGED <<ready, stream>>
    BY <1>1, RequestEffect
  <2>4. ~info'[m_request'].header_finished
    BY <2>1, <2>3, NewRequest
  <2>5. stream' = <<>> /\ Read(<<>>)'
    <3>1. CASE m_socket = "connected" /\ m_request = 0 /\ UNCHANGED <<ready, stream>>
      BY <3>1, ReadOthers DEF Arrived
    <3>2. CASE stream' = <<>> /\ \A i \in DOMAIN ready' : ready'[i].kind = "posted"
      BY <3>2, ReadNone
    <3> QED
      BY <2>3, <3>1, <3>2
  <2> QED
    BY <2>2, <2>4, <2>5, ArrivedNothing
<1>2. CASE request_invalid
  <2>1. \E e \in Events : e.kind # "recv" /\ ready' = Append(ready, e)
    BY <1>2, EmptySeq, EventType DEF request_invalid
  <2>2. \A R : Read(R) => Read(R)'
    BY <2>1, ReadOthers
  <2>3. m_request # 0 => Taken' = Taken
    BY <1>2 DEF request_invalid, ApiAllowed, Taken, Current, Processing, Telling, Callbacks
  <2> QED
    BY <1>2, <2>2, <2>3, ArrivedSame DEF request_invalid, ApiAllowed
<1>3. CASE close
  <2>1. m_request' = 0 /\ stream' = <<>> /\ ready' = PostedCalls(ready) /\ ready \in Seq(Events)
    BY <1>3 DEF close, DoClose, Replace, ApiAllowed, TypeOK, Queues
  <2>2. \A i \in DOMAIN ready' : ready'[i].kind # "recv"
    BY <2>1, PostedType
  <2> QED
    BY <2>1, <2>2, ReadNone, ArrivedNothing
<1>4. CASE pause
  <2>1. ready' = ready
    BY <1>4 DEF pause, ApiAllowed
  <2>2. \A R : Read(R) => Read(R)'
    BY <2>1, ReadOthers
  <2>3. m_request # 0 => Taken' = Taken
    BY <1>4 DEF pause, ApiAllowed, Taken, Current, Processing, Telling, Callbacks
  <2> QED
    BY <1>4, <2>2, <2>3, ArrivedSame DEF pause, ApiAllowed
<1>5. CASE resume
  <2>1. ready' = ready
    BY <1>5 DEF resume, ApiAllowed
  <2>2. \A R : Read(R) => Read(R)'
    BY <2>1, ReadOthers
  <2>3. m_request # 0 => Taken' = Taken
    BY <1>5 DEF resume, ApiAllowed, Taken, Current, Processing, Telling, Callbacks
  <2> QED
    BY <1>5, <2>2, <2>3, ArrivedSame DEF resume, ApiAllowed
<1>6. CASE on_posted_error
  <2>1. on_error /\ (pc = "idle" => ready # <<>>)
    BY <1>6 DEF on_posted_error, Dispatch
  <2>2. m_request' = 0 /\ stream' = <<>> /\ \A i \in DOMAIN ready' : ready'[i].kind = "posted"
    BY <2>1, ErrorEffect
  <2> QED
    BY <2>2, ReadNone, ArrivedNothing
<1>7. CASE on_connect_failed
  <2>1. on_error /\ (pc = "idle" => ready # <<>>)
    BY <1>7 DEF on_connect_failed, Dispatch
  <2>2. m_request' = 0 /\ stream' = <<>> /\ \A i \in DOMAIN ready' : ready'[i].kind = "posted"
    BY <2>1, ErrorEffect
  <2> QED
    BY <2>2, ReadNone, ArrivedNothing
<1>8. CASE on_resolver_address
  <2>1. ready # <<>> /\ Head(ready).kind # "recv" /\ ready' = Tail(ready)
    BY <1>8 DEF on_resolver_address, Dispatch
  <2>2. \A R : Read(R) => Read(R)'
    BY <2>1, ReadOthers
  <2>3. Head(ready) = ready[1] /\ 1 \in DOMAIN ready
    BY <2>1, FirstEvent DEF TypeOK, Queues
  <2>4. m_socket = "new"
    BY <1>8, <2>3 DEF on_resolver_address, Dispatch, Queue, Socket
  <2>5. m_request # 0 => Taken' = Taken
    BY <1>8 DEF on_resolver_address, Taken
  <2> QED
    BY <1>8, <2>2, <2>4, <2>5, ArrivedSame DEF on_resolver_address
<1>9. CASE on_socket_connect
  <2>1. ready # <<>> /\ Head(ready).kind = "connect" /\ ready' = Tail(ready) /\ pc = "idle"
        /\ UNCHANGED <<m_request, cur, data, stream>>
    BY <1>9 DEF on_socket_connect, Dispatch
  <2>2. Head(ready) = ready[1] /\ 1 \in DOMAIN ready
    BY <2>1, FirstEvent DEF TypeOK, Queues
  <2>3. m_socket = "connecting"
    BY <2>1, <2>2 DEF Queue
  <2>4. stream = <<>> /\ m_request # 0 /\ ~info[m_request].header_finished
    BY <2>3 DEF Socket
  <2>5. \A i \in DOMAIN ready' : ready'[i].kind # "recv"
    BY <2>1, <2>3, QueueTaken DEF Queue
  <2>6. Taken' = <<>>
    BY <2>1 DEF Taken, Current, Processing
  <2>7. info'[m_request].header_finished = info[m_request].header_finished
    <3>1. m_request \in Requests /\ info \in [Requests -> Infos]
      BY <2>4, HttpConnectionAssumption DEF TypeOK, Counts, Requests, Tables
    <3> QED
      BY <1>9, <3>1 DEF on_socket_connect, Infos
  <2> QED
    BY <2>1, <2>4, <2>5, <2>6, <2>7, ReadNone, ArrivedNothing
<1>10. CASE on_socket_receive /\ m_request = 0
  <2>1. m_request' = 0 /\ stream' = <<>> /\ ready' = PostedCalls(ready) /\ ready \in Seq(Events)
    BY <1>10 DEF on_socket_receive, DoClose, Replace, Dispatch, TypeOK, Queues
  <2>2. \A i \in DOMAIN ready' : ready'[i].kind # "recv"
    BY <2>1, PostedType
  <2> QED
    BY <2>1, <2>2, ReadNone, ArrivedNothing
<1>11. CASE on_socket_receive /\ m_request # 0
  <2>1. /\ ready # <<>> /\ ready' = Tail(ready) /\ cur' = m_request /\ data' = Head(ready).data
        /\ Head(ready).kind = "recv" /\ pc = "idle" /\ m_request # 0 /\ UNCHANGED <<m_request, stream, info, onwire>>
    BY <1>11 DEF on_socket_receive, Dispatch
  <2>2. Head(ready) = ready[1] /\ 1 \in DOMAIN ready
    BY <2>1, FirstEvent DEF TypeOK, Queues
  <2>3. ~info[m_request].refused
    BY <2>1, <2>2 DEF Queue, Refused
  <2>4. PICK R \in {<<>>} \cup {ready[i].data : i \in DOMAIN ready}, len \in Lengths \cup {Redirect} :
          \E p \in 0 .. 2 + Units(len) : InOrder(R, len, p)
    BY <2>1, <2>3 DEF Arrived
  <2>5. PICK p \in 0 .. 2 + Units(len) : InOrder(R, len, p)
    BY <2>4
  <2>6. R = data' /\ R \in Seq(Tokens)
    BY <2>1, <2>2, <2>5 DEF InOrder, Read
  <2>7. Taken = <<>> /\ Taken' = R
    BY <2>1, <2>6 DEF Taken, Current
  <2>8. Read(<<>>)'
    BY <2>1, QueueTaken, ReadNone
  <2>9. Len(<<>>) = 0 /\ Len(R) \in Nat /\ p \in Nat /\ Units(len) \in Nat
    <3>1. Units(len) \in Nat
      BY HttpConnectionAssumption DEF Units, Redirect
    <3>2. p \in Nat
      BY <2>5, <3>1
    <3> QED
      BY <2>6, <3>1, <3>2, EmptySeq, LenProperties
  <2>10. p + 0 = p /\ (p + Len(R)) + 0 = p + Len(R)
    BY <2>9
  <2>11. Part(R, m_request, len, p) /\ Part(stream, m_request, len, p + Len(R))
    BY <2>5, <2>7, <2>9, <2>10 DEF InOrder
  <2>12. Part(<<>>, m_request, len, p + Len(R))
    <3>1. p + Len(R) <= 2 + Units(len)
      BY <2>11 DEF Part
    <3> QED
      BY <2>9, <3>1, PartEmpty
  <2>13. InOrder(<<>>, len, p)'
    BY <2>1, <2>5, <2>7, <2>8, <2>9, <2>10, <2>11, <2>12 DEF InOrder
  <2> QED
    BY <2>1, <2>9, <2>13, ArrivedNext
<1>12. CASE on_socket_receive_failed /\ m_request = 0
  <2>1. m_request' = 0 /\ stream' = <<>> /\ ready' = PostedCalls(ready) /\ ready \in Seq(Events)
    BY <1>12 DEF on_socket_receive_failed, DoClose, Replace, Dispatch, TypeOK, Queues
  <2>2. \A i \in DOMAIN ready' : ready'[i].kind # "recv"
    BY <2>1, PostedType
  <2> QED
    BY <2>1, <2>2, ReadNone, ArrivedNothing
<1>13. CASE on_socket_receive_failed /\ m_request # 0 /\ EofEndsResponse(m_request)
  BY <1>13 DEF on_socket_receive_failed, Arrived
<1>14. CASE on_socket_receive_failed /\ m_request # 0 /\ ~EofEndsResponse(m_request)
  <2>1. on_error /\ (pc = "idle" => ready # <<>>)
    BY <1>14 DEF on_socket_receive_failed, Dispatch
  <2>2. m_request' = 0 /\ stream' = <<>> /\ \A i \in DOMAIN ready' : ready'[i].kind = "posted"
    BY <2>1, ErrorEffect
  <2> QED
    BY <2>2, ReadNone, ArrivedNothing
<1>15. CASE header_incomplete
  <2>1. pc = "header" /\ ~HasEnd /\ data' = <<>> /\ UNCHANGED <<m_request, cur, info, ready, stream, onwire>>
    BY <1>15 DEF header_incomplete
  <2>2. /\ m_request = cur /\ cur # 0 /\ m_request \in Requests /\ ~info[m_request].header_finished /\ ~info[m_request].refused
        /\ data \in Seq(Tokens) /\ Len(data) \in Nat
    <3>1. pc \in Processing /\ pc # "idle"
      BY <2>1 DEF Processing, Telling
    <3>2. cur # 0 /\ m_request = cur
      BY <2>1, <3>1 DEF Current
    <3>3. m_request \in Requests
      BY <3>2, HttpConnectionAssumption DEF TypeOK, Counts, Requests
    <3>4. ~info[m_request].header_finished /\ ~info[m_request].refused
      BY <2>1, <3>1, <3>2 DEF Marks, Refused
    <3>5. data \in Seq(Tokens) /\ Len(data) \in Nat
      BY LenProperties DEF TypeOK, Queues
    <3> QED
      BY <3>2, <3>3, <3>4, <3>5
  <2>3. PICK R \in {<<>>} \cup {ready[i].data : i \in DOMAIN ready}, len \in Lengths \cup {Redirect} :
          \E p \in 0 .. 2 + Units(len) : InOrder(R, len, p)
    BY <2>2 DEF Arrived
  <2>4. PICK p \in 0 .. 2 + Units(len) : InOrder(R, len, p)
    BY <2>3
  <2>5. Units(len) \in Nat
    BY HttpConnectionAssumption DEF Units, Redirect
  <2>6. p \in Nat /\ Taken = data /\ Read(R)'
    <3>1. Read(R)'
      BY <2>1, <2>4, ReadOthers DEF InOrder
    <3> QED
      BY <2>2, <2>4, <2>5, <3>1 DEF Taken
  <2>7. /\ Part(data, m_request, len, p) /\ Part(R, m_request, len, p + Len(data))
        /\ Part(stream, m_request, len, p + Len(data) + Len(R))
        /\ onwire # 0 => data = <<>> /\ R = <<>> /\ stream = <<>>
    BY <2>4, <2>6 DEF InOrder
  <2>8. p <= 1 /\ p + Len(data) <= 1
    <3>1. p <= 1
      BY <2>2, <2>4 DEF InOrder
    <3>2. ASSUME p + Len(data) >= 2 PROVE FALSE
      <4>1. 2 - p \in 1 .. Len(data) /\ p + (2 - p) = 2
        BY <2>2, <2>6, <3>1, <3>2
      <4>2. data[2 - p] = Response(m_request, len, 2) /\ 2 - p \in DOMAIN data
        BY <2>2, <2>7, <4>1, LenProperties DEF Part
      <4>3. data[2 - p].part = "end"
        BY <4>2 DEF Response, Token
      <4> QED
        BY <2>1, <4>2, <4>3 DEF HasEnd
    <3> QED
      BY <2>2, <2>6, <3>1, <3>2
  <2>9. ~info'[m_request'].header_finished /\ p + Len(data) <= 1
    BY <2>1, <2>2, <2>8
  <2>10. p + Len(data) \in Nat /\ p + Len(data) <= 2 + Units(len) /\ Len(<<>>) = 0 /\ (p + Len(data)) + 0 = p + Len(data)
    BY <2>2, <2>6, <2>7, EmptySeq DEF Part
  <2>11. Part(<<>>, m_request, len, p + Len(data))
    BY <2>10, PartEmpty
  <2>12. Taken' = <<>>
    BY <2>1, <2>2 DEF Taken
  <2>16. PICK q \in Nat : q = p + Len(data)
    BY <2>10
  <2>13. /\ Part(Taken', m_request', len, q) /\ Part(R, m_request', len, q + Len(Taken'))
         /\ Part(stream', m_request', len, q + Len(Taken') + Len(R))
    BY <2>1, <2>7, <2>10, <2>11, <2>12, <2>16
  <2>14. InOrder(R, len, q)'
    BY <2>1, <2>6, <2>7, <2>9, <2>12, <2>13, <2>16 DEF InOrder
  <2>15. m_request' # 0
    BY <2>1, <2>2
  <2> QED
    BY <2>14, <2>15, ArrivedNext
<1>16. CASE redirect /\ info[cur].redirect_times > max_redirects
  <2>1. on_error /\ (pc = "idle" => ready # <<>>)
    BY <1>16 DEF redirect
  <2>2. m_request' = 0 /\ stream' = <<>> /\ \A i \in DOMAIN ready' : ready'[i].kind = "posted"
    BY <2>1, ErrorEffect
  <2> QED
    BY <2>2, ReadNone, ArrivedNothing
<1>17. CASE redirect /\ ~(info[cur].redirect_times > max_redirects)
  <2>1. PICK h \in Hosts : connect_host(cur, h) /\ info' = [info EXCEPT ![cur] = reset_handling_state(info[cur], h)]
    BY <1>17 DEF redirect
  <2>2. cur \in Requests /\ cur # 0 /\ cur' = 0
    BY <1>17, HttpConnectionAssumption DEF redirect, Return, Current, Processing, TypeOK, Counts, Requests
  <2>3. ~info'[cur].header_finished
    BY <2>1, <2>2 DEF reset_handling_state, NewInfo, TypeOK, Tables
  <2>4. m_request' = cur /\ stream' = <<>> /\ ready' = PostedCalls(ready) /\ ready \in Seq(Events)
    BY <2>1 DEF connect_host, Replace, TypeOK, Queues
  <2>5. \A i \in DOMAIN ready' : ready'[i].kind # "recv"
    BY <2>4, PostedType
  <2>6. Taken' = <<>>
    BY <2>2, <2>4 DEF Taken
  <2> QED
    BY <2>3, <2>4, <2>5, <2>6, ReadNone, ArrivedNothing
<1>18. CASE handle_response_header
  <2>1. /\ pc = "header" /\ HasEnd /\ data[HeaderEnd].v # Redirect
        /\ info' = [info EXCEPT ![cur].header_finished = TRUE, ![cur].response_header_received = TRUE,
                                ![cur].content_length = data[HeaderEnd].v]
        /\ data' = SubSeq(data, HeaderEnd + 1, Len(data)) /\ UNCHANGED <<m_request, cur, ready, stream, onwire>>
    BY <1>18 DEF handle_response_header
  <2>2. /\ m_request = cur /\ cur # 0 /\ m_request \in Requests /\ ~info[m_request].header_finished /\ ~info[m_request].refused
        /\ data \in Seq(Tokens) /\ Len(data) \in Nat
    <3>1. pc \in Processing /\ pc # "idle"
      BY <2>1 DEF Processing, Telling
    <3>2. cur # 0 /\ m_request = cur
      BY <2>1, <3>1 DEF Current
    <3>3. m_request \in Requests
      BY <3>2, HttpConnectionAssumption DEF TypeOK, Counts, Requests
    <3>4. ~info[m_request].header_finished /\ ~info[m_request].refused
      BY <2>1, <3>1, <3>2 DEF Marks, Refused
    <3>5. data \in Seq(Tokens) /\ Len(data) \in Nat
      BY LenProperties DEF TypeOK, Queues
    <3> QED
      BY <3>2, <3>3, <3>4, <3>5
  <2>3. PICK R \in {<<>>} \cup {ready[i].data : i \in DOMAIN ready}, len \in Lengths \cup {Redirect} :
          \E p \in 0 .. 2 + Units(len) : InOrder(R, len, p)
    BY <2>2 DEF Arrived
  <2>4. PICK p \in 0 .. 2 + Units(len) : InOrder(R, len, p)
    BY <2>3
  <2>5. Units(len) \in Nat
    BY HttpConnectionAssumption DEF Units, Redirect
  <2>6. p \in Nat /\ Taken = data /\ Read(R)'
    <3>1. Read(R)'
      BY <2>1, <2>4, ReadOthers DEF InOrder
    <3> QED
      BY <2>2, <2>4, <2>5, <3>1 DEF Taken
  <2>7. /\ Part(data, m_request, len, p) /\ Part(R, m_request, len, p + Len(data))
        /\ Part(stream, m_request, len, p + Len(data) + Len(R))
        /\ onwire # 0 => data = <<>> /\ R = <<>> /\ stream = <<>>
    BY <2>4, <2>6 DEF InOrder
  <2> DEFINE e == HeaderEnd
  <2>8. e \in 1 .. Len(data) /\ data[e].part = "end"
    <3>1. e \in DOMAIN data /\ data[e].part = "end"
      BY <2>1 DEF HasEnd, HeaderEnd
    <3> QED
      BY <2>2, <3>1, LenProperties
  <2> HIDE DEF e
  <2>9. p + e = 2 /\ data[e].v = len
    <3>1. data[e] = Response(m_request, len, p + e) /\ p + e \in Nat
      <4>1. e \in Nat
        BY <2>2, <2>8
      <4>2. data[e] = Response(m_request, len, p + e)
        BY <2>7, <2>8 DEF Part
      <4> QED
        BY <2>6, <4>1, <4>2
    <3>2. Response(m_request, len, p + e).part = "end"
      BY <2>8, <3>1
    <3>3. p + e = 2
      BY <3>1, <3>2 DEF Response, Token
    <3>4. Response(m_request, len, 2).v = len
      BY DEF Response, Token
    <3> QED
      BY <3>1, <3>3, <3>4
  <2>10. data' = SubSeq(data, e + 1, Len(data)) /\ Part(data', m_request, len, 2) /\ Len(data') = Len(data) - e
    <3>1. e \in 0 .. Len(data)
      BY <2>8
    <3>2. data' = SubSeq(data, e + 1, Len(data))
      BY <2>1 DEF e
    <3>3. Part(SubSeq(data, e + 1, Len(data)), m_request, len, p + e)
      BY <2>2, <2>5, <2>6, <2>7, <3>1, PartSplit
    <3>4. Len(SubSeq(data, e + 1, Len(data))) = Len(data) - e
      BY <2>2, <3>1, Cut
    <3> QED
      BY <2>9, <3>2, <3>3, <3>4
  <2>11. p + Len(data) = 2 + Len(data')
    BY <2>2, <2>6, <2>8, <2>9, <2>10
  <2>12. Taken' = data' /\ onwire = 0
    <3>1. data # <<>>
      BY <2>2, <2>8, EmptySeq
    <3> QED
      BY <2>1, <2>2, <2>7, <3>1 DEF Taken
  <2>13. /\ info'[m_request'].header_finished /\ info'[m_request'].content_length = len
         /\ info'[m_request'].received_size = 0
    <3>1. info[cur] \in Infos /\ info[cur].received_size = 0 /\ info \in [Requests -> Infos]
      BY <2>2 DEF Marks, TypeOK, Tables
    <3> QED
      BY <2>1, <2>2, <2>9, <3>1 DEF Infos, e
  <2>14. InOrder(R, len, 2)'
    <3>1. /\ Part(Taken', m_request', len, 2) /\ Part(R, m_request', len, 2 + Len(Taken'))
          /\ Part(stream', m_request', len, 2 + Len(Taken') + Len(R))
      BY <2>1, <2>7, <2>10, <2>11, <2>12
    <3>2. 2 = 2 + info'[m_request'].received_size
      BY <2>13
    <3> QED
      BY <2>1, <2>6, <2>12, <2>13, <3>1, <3>2 DEF InOrder
  <2> QED
    BY <2>1, <2>2, <2>14, ArrivedNext
<1>19. CASE process_body_data
  <2>1. /\ pc = "body" /\ info' = [info EXCEPT ![cur].received_size = info[cur].received_size + Len(data)]
        /\ data' = <<>> /\ UNCHANGED <<m_request, cur, ready, stream, onwire>>
    BY <1>19 DEF process_body_data
  <2>2. /\ m_request = cur /\ cur # 0 /\ m_request \in Requests /\ info[m_request].header_finished /\ ~info[m_request].refused
        /\ data \in Seq(Tokens) /\ Len(data) \in Nat
    <3>1. pc \in Processing /\ pc # "idle"
      BY <2>1 DEF Processing, Telling
    <3>2. cur # 0 /\ m_request = cur
      BY <2>1, <3>1 DEF Current
    <3>3. m_request \in Requests
      BY <3>2, HttpConnectionAssumption DEF TypeOK, Counts, Requests
    <3>4. info[m_request].header_finished /\ ~info[m_request].refused
      BY <2>1, <3>1, <3>2 DEF Marks, Refused
    <3>5. data \in Seq(Tokens) /\ Len(data) \in Nat
      BY LenProperties DEF TypeOK, Queues
    <3> QED
      BY <3>2, <3>3, <3>4, <3>5
  <2>3. PICK R \in {<<>>} \cup {ready[i].data : i \in DOMAIN ready}, len \in Lengths \cup {Redirect} :
          \E p \in 0 .. 2 + Units(len) : InOrder(R, len, p)
    BY <2>2 DEF Arrived
  <2>4. PICK p \in 0 .. 2 + Units(len) : InOrder(R, len, p)
    BY <2>3
  <2>5. Units(len) \in Nat
    BY HttpConnectionAssumption DEF Units, Redirect
  <2>6. p \in Nat /\ Taken = data /\ Read(R)'
    <3>1. Read(R)'
      BY <2>1, <2>4, ReadOthers DEF InOrder
    <3> QED
      BY <2>2, <2>4, <2>5, <3>1 DEF Taken
  <2>7. /\ Part(data, m_request, len, p) /\ Part(R, m_request, len, p + Len(data))
        /\ Part(stream, m_request, len, p + Len(data) + Len(R))
        /\ onwire # 0 => data = <<>> /\ R = <<>> /\ stream = <<>>
    BY <2>4, <2>6 DEF InOrder
  <2>8. len = info[m_request].content_length /\ p = 2 + info[m_request].received_size
    BY <2>2, <2>4 DEF InOrder
  <2>9. /\ info'[m_request'].header_finished /\ len = info'[m_request'].content_length
        /\ p + Len(data) = 2 + info'[m_request'].received_size
    <3>1. info[cur] \in Infos /\ info[cur].received_size \in Nat /\ cur \in Requests
      BY <2>2 DEF TypeOK, Tables, Infos
    <3>2. /\ info'[cur].header_finished = info[cur].header_finished /\ info'[cur].content_length = info[cur].content_length
          /\ info'[cur].received_size = info[cur].received_size + Len(data)
      BY <2>1, <3>1 DEF TypeOK, Tables, Infos
    <3> QED
      BY <2>1, <2>2, <2>8, <3>1, <3>2
  <2>10. p + Len(data) \in Nat /\ p + Len(data) <= 2 + Units(len) /\ Len(<<>>) = 0 /\ (p + Len(data)) + 0 = p + Len(data)
    BY <2>2, <2>6, <2>7, EmptySeq DEF Part
  <2>11. Part(<<>>, m_request, len, p + Len(data))
    BY <2>10, PartEmpty
  <2>12. Taken' = <<>>
    BY <2>1, <2>2 DEF Taken
  <2>16. PICK q \in Nat : q = p + Len(data)
    BY <2>10
  <2>13. /\ Part(Taken', m_request', len, q) /\ Part(R, m_request', len, q + Len(Taken'))
         /\ Part(stream', m_request', len, q + Len(Taken') + Len(R))
    BY <2>1, <2>7, <2>10, <2>11, <2>12, <2>16
  <2>14. InOrder(R, len, q)'
    BY <2>1, <2>6, <2>7, <2>9, <2>12, <2>13, <2>16 DEF InOrder
  <2>15. m_request' # 0
    BY <2>1, <2>2
  <2> QED
    BY <2>14, <2>15, ArrivedNext
<1>20. CASE receive_tail
  <2>1. ready' = ready
    BY <1>20 DEF receive_tail, check_receive, Return
  <2>2. \A R : Read(R) => Read(R)'
    BY <2>1, ReadOthers
  <2>3. m_request # 0 => Taken' = Taken
    BY <1>20 DEF receive_tail, check_receive, Return, Taken, Current, Processing, Telling, Callbacks
  <2> QED
    BY <1>20, <2>2, <2>3, ArrivedSame DEF receive_tail, check_receive, Return
<1>21. CASE listener_returns /\ Refuse
  <2>1. cur \in Requests /\ info \in [Requests -> Infos] /\ (m_request # 0 => m_request \in Requests)
    BY <1>21, HttpConnectionAssumption DEF listener_returns, Current, Processing, Telling, TypeOK, Counts, Requests, Tables
  <2>2. /\ info' = [info EXCEPT ![cur].refused = TRUE] /\ UNCHANGED <<m_request, m_socket, ready, stream, onwire>>
        /\ cur' = 0
    BY <1>21 DEF listener_returns, Refuse, Return
  <2>3. CASE m_request = cur
    BY <2>1, <2>2, <2>3, HttpConnectionAssumption DEF Arrived, Requests, Infos
  <2>4. CASE m_request # cur
    <3>1. m_request # 0 => Taken' = Taken /\ info'[m_request] = info[m_request]
      BY <2>1, <2>2, <2>4 DEF Taken
    <3>2. \A R : Read(R) => Read(R)'
      BY <2>2, ReadOthers
    <3> QED
      BY <2>2, <3>1, <3>2, ArrivedSame
  <2> QED
    BY <2>3, <2>4
<1>22. CASE listener_returns /\ Accept /\ m_request = 0 /\ (AllReceived \/ data # <<>>)
  <2>1. m_request' = 0 /\ stream' = <<>> /\ ready' = PostedCalls(ready) /\ ready \in Seq(Events)
    BY <1>22 DEF listener_returns, Accept, on_complete, DoClose, Replace, Return, TypeOK, Queues
  <2>2. \A i \in DOMAIN ready' : ready'[i].kind # "recv"
    BY <2>1, PostedType
  <2> QED
    BY <2>1, <2>2, ReadNone, ArrivedNothing
<1>23. CASE listener_returns /\ Accept /\ m_request # 0 /\ AllReceived
  <2>1. /\ pc \in Telling /\ ~restarted /\ m_request # 0 /\ AllReceived
        /\ m_request' = 0 /\ UNCHANGED <<stream, ready>>
    BY <1>23 DEF listener_returns, Accept, on_complete, Telling
  <2>2. /\ m_request = cur /\ cur # 0 /\ m_request \in Requests /\ info[m_request].header_finished /\ ~info[m_request].refused
        /\ data \in Seq(Tokens) /\ Len(data) \in Nat
    <3>1. pc \in Processing /\ pc # "idle"
      BY <2>1 DEF Processing, Telling
    <3>2. cur # 0 /\ m_request = cur
      BY <2>1, <3>1 DEF Current
    <3>3. m_request \in Requests
      BY <3>2, HttpConnectionAssumption DEF TypeOK, Counts, Requests
    <3>4. info[m_request].header_finished /\ ~info[m_request].refused
      BY <2>1, <3>1, <3>2 DEF Marks, Refused
    <3>5. data \in Seq(Tokens) /\ Len(data) \in Nat
      BY LenProperties DEF TypeOK, Queues
    <3> QED
      BY <3>2, <3>3, <3>4, <3>5
  <2>3. PICK R \in {<<>>} \cup {ready[i].data : i \in DOMAIN ready}, len \in Lengths \cup {Redirect} :
          \E p \in 0 .. 2 + Units(len) : InOrder(R, len, p)
    BY <2>2 DEF Arrived
  <2>4. PICK p \in 0 .. 2 + Units(len) : InOrder(R, len, p)
    BY <2>3
  <2>5. Units(len) \in Nat
    BY HttpConnectionAssumption DEF Units, Redirect
  <2>6. p \in Nat /\ Taken = data /\ Read(R)'
    <3>1. Read(R)'
      BY <2>1, <2>4, ReadOthers DEF InOrder
    <3> QED
      BY <2>2, <2>4, <2>5, <3>1 DEF Taken
  <2>7. /\ Part(data, m_request, len, p) /\ Part(R, m_request, len, p + Len(data))
        /\ Part(stream, m_request, len, p + Len(data) + Len(R))
        /\ onwire # 0 => data = <<>> /\ R = <<>> /\ stream = <<>>
    BY <2>4, <2>6 DEF InOrder
  <2>8. len = info[m_request].content_length /\ p = 2 + info[m_request].received_size /\ info[m_request].received_size \in Nat
    <3>1. len = info[m_request].content_length /\ p = 2 + info[m_request].received_size
      BY <2>2, <2>4 DEF InOrder
    <3> QED
      BY <2>2, <3>1 DEF TypeOK, Tables, Infos
  <2>9. len >= 0 /\ info[m_request].received_size >= len /\ len \in Int
    <3>1. len \in Int
      BY HttpConnectionAssumption DEF Redirect
    <3> QED
      BY <2>1, <2>2, <2>8, <3>1 DEF AllReceived
  <2>10. Units(len) = len
    BY <2>9 DEF Units, Redirect
  <2>11. PICK n \in Nat : p = 2 + n /\ n >= len
    BY <2>8, <2>9
  <2>12. R \in Seq(Tokens) /\ stream \in Seq(Tokens)
    BY <2>4 DEF InOrder, Read, TypeOK, Queues
  <2>13. PICK a \in Nat, b \in Nat, c \in Nat : a = Len(data) /\ b = Len(R) /\ c = Len(stream)
    BY <2>2, <2>12, LenProperties
  <2>14. p + a <= 2 + len /\ p + a + b <= 2 + len /\ p + a + b + c <= 2 + len
    BY <2>7, <2>10, <2>13 DEF Part
  <2>15. a = 0 /\ b = 0 /\ c = 0
    BY <2>9, <2>11, <2>14
  <2>16. R = <<>> /\ stream = <<>>
    BY <2>12, <2>13, <2>15, EmptySeq
  <2> QED
    BY <2>1, <2>6, <2>16, ArrivedNothing
<1>24. CASE listener_returns /\ Accept /\ ~AllReceived /\ ~(data # <<>> /\ m_request = 0)
  <2>1. ready' = ready
    BY <1>24 DEF listener_returns, Accept
  <2>2. \A R : Read(R) => Read(R)'
    BY <2>1, ReadOthers
  <2>3. m_request # 0 => Taken' = Taken
    BY <1>24 DEF listener_returns, Accept, Taken, Current, Processing, Telling, Callbacks
  <2> QED
    BY <1>24, <2>2, <2>3, ArrivedSame DEF listener_returns, Accept
<1>25. CASE complete_returns
  <2>1. ready' = ready
    BY <1>25 DEF complete_returns
  <2>2. \A R : Read(R) => Read(R)'
    BY <2>1, ReadOthers
  <2>3. m_request # 0 => Taken' = Taken
    BY <1>25 DEF complete_returns, Taken, Current, Processing, Telling, Callbacks
  <2> QED
    BY <1>25, <2>2, <2>3, ArrivedSame DEF complete_returns
<1>26. CASE error_returns
  <2>1. ready' = ready
    BY <1>26 DEF error_returns, Return
  <2>2. \A R : Read(R) => Read(R)'
    BY <2>1, ReadOthers
  <2>3. m_request # 0 => Taken' = Taken
    BY <1>26 DEF error_returns, Return, Taken, Current, Processing, Telling, Callbacks
  <2> QED
    BY <1>26, <2>2, <2>3, ArrivedSame DEF error_returns, Return
<1>27. CASE NativeConnect
  <2>0. PICK res \in {"ok", "error"} : ready' = Append(ready, Event("connect", res, <<>>))
    BY <1>27 DEF NativeConnect
  <2>1. \E e \in Events : e.kind # "recv" /\ ready' = Append(ready, e)
    <3>1. Event("connect", res, <<>>) \in Events
      BY EmptySeq, EventType
    <3>2. Event("connect", res, <<>>).kind # "recv"
      BY DEF Event
    <3> QED
      BY <2>0, <3>1, <3>2
  <2>2. \A R : Read(R) => Read(R)'
    BY <2>1, ReadOthers
  <2>3. m_request # 0 => Taken' = Taken
    BY <1>27 DEF NativeConnect, Taken, Current, Processing, Telling, Callbacks
  <2> QED
    BY <1>27, <2>2, <2>3, ArrivedSame DEF NativeConnect
<1>28. CASE NativeResolve
  <2>0. PICK res \in {"ok", "error"} : ready' = Append(ready, Event("resolve", res, <<>>))
    BY <1>28 DEF NativeResolve
  <2>1. \E e \in Events : e.kind # "recv" /\ ready' = Append(ready, e)
    <3>1. Event("resolve", res, <<>>) \in Events
      BY EmptySeq, EventType
    <3>2. Event("resolve", res, <<>>).kind # "recv"
      BY DEF Event
    <3> QED
      BY <2>0, <3>1, <3>2
  <2>2. \A R : Read(R) => Read(R)'
    BY <2>1, ReadOthers
  <2>3. m_request # 0 => Taken' = Taken
    BY <1>28 DEF NativeResolve, Taken, Current, Processing, Telling, Callbacks
  <2> QED
    BY <1>28, <2>2, <2>3, ArrivedSame DEF NativeResolve
<1>29. CASE ServerRespond
  <2>1. PICK len \in Lengths \cup {Redirect} : stream' = stream \o Answer(onwire, len)
    BY <1>29 DEF ServerRespond
  <2>2. onwire' = 0 /\ UNCHANGED <<m_request, m_socket, cur, data, info, ready>> /\ onwire # 0
    BY <1>29 DEF ServerRespond
  <2>3. onwire = m_request /\ m_request # 0 /\ ~info[m_request].header_finished /\ m_request \in Requests
    BY <2>2, HttpConnectionAssumption DEF Marks, TypeOK, Counts, Requests
  <2>4. CASE info[m_request].refused
    BY <2>2, <2>3, <2>4 DEF Arrived
  <2>5. CASE ~info[m_request].refused
    <3>1. PICK R \in {<<>>} \cup {ready[i].data : i \in DOMAIN ready}, l \in Lengths \cup {Redirect} :
          \E p \in 0 .. 2 + Units(l) : InOrder(R, l, p)
      BY <2>3, <2>5 DEF Arrived
    <3>2. Taken = <<>> /\ stream = <<>> /\ Read(<<>>)
      BY <2>2, <3>1 DEF InOrder
    <3>3. /\ Answer(onwire, len) \in Seq(Tokens) /\ Len(Answer(onwire, len)) = 2 + Units(len) /\ Units(len) \in Nat
          /\ \A i \in 1 .. 2 + Units(len) : Answer(onwire, len)[i] = Response(onwire, len, i)
      BY <2>3, AnswerType
    <3>4. stream' = Answer(onwire, len)
      BY <2>1, <3>2, <3>3, ConcatEmptySeq
    <3>5. \A i \in 1 .. 2 + Units(len) : 0 + i = i
      BY <3>3
    <3>6. Part(stream', m_request, len, 0)
      BY <2>3, <3>3, <3>4, <3>5 DEF Part
    <3>7. Part(<<>>, m_request, len, 0) /\ Len(<<>>) = 0
      BY <3>3, PartEmpty, EmptySeq
    <3>8. Taken' = <<>> /\ Read(<<>>)'
      BY <2>2, <3>2, ReadOthers DEF Taken
    <3>9. InOrder(<<>>, len, 0)'
      BY <2>2, <2>3, <3>6, <3>7, <3>8 DEF InOrder
    <3> QED
      BY <2>2, <2>3, <3>9, ArrivedNext
  <2> QED
    BY <2>4, <2>5
<1>30. CASE NativeReceive
  <2>1. /\ m_socket = "connected" /\ m_receiving /\ ~Waiting("recv") /\ ready \in Seq(Events) /\ stream \in Seq(Tokens)
        /\ UNCHANGED <<m_request, m_socket, cur, data, info, onwire>>
    BY <1>30 DEF NativeReceive, TypeOK, Queues
  <2>2. ASSUME NEW res \in {"ok", "eof", "error"}, NEW d \in Seq(Tokens), ready' = Append(ready, Event("recv", res, d))
        PROVE  Read(d)'
    <3>1. Event("recv", res, d) \in Events
      BY EventType
    <3>2. Event("recv", res, d).kind = "recv" /\ Event("recv", res, d).data = d
      BY DEF Event
    <3>3. /\ DOMAIN ready' = DOMAIN ready \cup {Len(ready) + 1} /\ ready'[Len(ready) + 1] = Event("recv", res, d)
          /\ \A i \in DOMAIN ready : ready'[i] = ready[i]
      BY <2>1, <2>2, <3>1, QueueEvent
    <3> QED
      BY <2>1, <3>2, <3>3 DEF Read, Waiting
  <2>3. ASSUME NEW n \in 1 .. Len(stream),
               ready' = Append(ready, Event("recv", "ok", SubSeq(stream, 1, n))),
               stream' = SubSeq(stream, n + 1, Len(stream))
        PROVE  Arrived'
    <3>1. Len(stream) \in Nat /\ n \in 0 .. Len(stream) /\ stream # <<>>
      BY <2>1, <2>3, LenProperties, EmptySeq
    <3>2. m_request # 0 /\ ~info[m_request].refused
      BY <2>1, <3>1 DEF Arrived, Refused
    <3>3. PICK R \in {<<>>} \cup {ready[i].data : i \in DOMAIN ready}, len \in Lengths \cup {Redirect} :
          \E p \in 0 .. 2 + Units(len) : InOrder(R, len, p)
      BY <3>2 DEF Arrived
    <3>4. PICK p \in 0 .. 2 + Units(len) : InOrder(R, len, p)
      BY <3>3
    <3>12. PICK a : a = SubSeq(stream, 1, n)
      OBVIOUS
    <3> DEFINE q == p + Len(Taken)
    <3>5. Units(len) \in Nat
      BY HttpConnectionAssumption DEF Units, Redirect
    <3>0. p \in Nat
      BY <3>4, <3>5
    <3>6. R = <<>> /\ Taken \in Seq(Tokens) /\ q \in Nat /\ Taken' = Taken /\ onwire = 0
      BY <2>1, <3>0, <3>1, <3>4, EmptySeq, LenProperties DEF InOrder, Read, Taken, TypeOK, Queues
    <3>7. Part(stream, m_request, len, q)
      <4>1. Len(<<>>) = 0 /\ q + 0 = q
        BY <3>6, EmptySeq
      <4> QED
        BY <3>4, <3>6, <4>1 DEF InOrder
    <3>8. Part(a, m_request, len, q) /\ Part(stream', m_request, len, q + n) /\ Len(a) = n
      BY <2>1, <2>3, <3>1, <3>5, <3>6, <3>7, <3>12, PartSplit
    <3>9. a \in Seq(Tokens)
      BY <2>1, <3>1, <3>12, Cut
    <3>10. Read(a)'
      <4>1. ready' = Append(ready, Event("recv", "ok", a))
        BY <2>3, <3>12
      <4> QED
        BY <2>2, <3>9, <4>1
    <3>11. InOrder(a, len, p)'
      <4>1. /\ Part(Taken', m_request', len, p) /\ Part(a, m_request', len, p + Len(Taken'))
            /\ Part(stream', m_request', len, p + Len(Taken') + Len(a))
        BY <2>1, <3>4, <3>6, <3>8 DEF InOrder
      <4> QED
        BY <2>1, <3>4, <3>6, <3>10, <4>1 DEF InOrder
    <3> QED
      BY <2>1, <3>0, <3>2, <3>11, ArrivedNext
  <2>4. ASSUME NEW res \in {"eof", "error"}, ready' = Append(ready, Event("recv", res, <<>>)), stream' = <<>>
        PROVE  Arrived'
    <3>1. Read(<<>>)'
      BY <2>2, <2>4, EmptySeq
    <3>2. CASE m_request = 0
      BY <2>1, <2>4, <3>1, <3>2 DEF Arrived
    <3>3. CASE m_request # 0
      <4>1. ~info[m_request].refused
        BY <2>1, <3>3 DEF Refused
      <4>2. PICK R \in {<<>>} \cup {ready[i].data : i \in DOMAIN ready}, len \in Lengths \cup {Redirect} :
          \E p \in 0 .. 2 + Units(len) : InOrder(R, len, p)
        BY <3>3, <4>1 DEF Arrived
      <4>3. PICK p \in 0 .. 2 + Units(len) : InOrder(R, len, p)
        BY <4>2
      <4> DEFINE q == p + Len(Taken)
      <4>0. Units(len) \in Nat
        BY HttpConnectionAssumption DEF Units, Redirect
      <4>9. p \in Nat
        BY <4>0, <4>3
      <4>4. Taken \in Seq(Tokens) /\ q \in Nat /\ Taken' = Taken /\ Len(<<>>) = 0 /\ q + 0 = q
        BY <2>1, <4>9, EmptySeq, LenProperties DEF Taken, TypeOK, Queues
      <4>5. Part(<<>>, m_request, len, q)
        BY <4>3, <4>4, PartEmpty DEF InOrder, Part
      <4>6. InOrder(<<>>, len, p)'
        <5>1. /\ Part(Taken', m_request', len, p) /\ Part(<<>>, m_request', len, p + Len(Taken'))
              /\ Part(stream', m_request', len, p + Len(Taken') + Len(<<>>))
          BY <2>1, <2>4, <4>3, <4>4, <4>5 DEF InOrder
        <5> QED
          BY <2>1, <2>4, <3>1, <4>3, <4>4, <5>1 DEF InOrder
      <4> QED
        BY <2>1, <3>3, <4>6, <4>9, ArrivedNext
    <3> QED
      BY <3>2, <3>3
  <2> QED
    BY <1>30, <2>3, <2>4 DEF NativeReceive
<1>31. CASE UNCHANGED vars
  <2>1. ready' = ready
    BY <1>31 DEF vars
  <2>2. \A R : Read(R) => Read(R)'
    BY <2>1, ReadOthers
  <2>3. Taken' = Taken
    BY <1>31 DEF vars, Taken
  <2> QED
    BY <1>31, <2>2, <2>3, ArrivedSame DEF vars
<1> QED
  BY <1>1, <1>2, <1>3, <1>4, <1>5, <1>6, <1>7, <1>8, <1>9, <1>10, <1>11, <1>12, <1>13, <1>14,
     <1>15, <1>16, <1>17, <1>18, <1>19, <1>20, <1>21, <1>22, <1>23, <1>24, <1>25, <1>26,
     <1>27, <1>28, <1>29, <1>30, <1>31 DEF Next, Api, Handler, Native, listener_returns

-----------------------------------------------------------------------------
(* What was delivered.                                                     *)

\* The part that is being processed, by on_socket_receive's loop.
LEMMA PartAtHand ==
  ASSUME TypeOK, Current, Refused, Arrived, Marks, pc \in {"header", "body"}
  PROVE  /\ m_request = cur /\ cur \in Requests /\ data \in Seq(Tokens)
         /\ onwire # 0 => data = <<>>
         /\ pc = "header" => ~info[cur].header_finished
         /\ pc = "body" => info[cur].header_finished
                             /\ \E len : Part(data, cur, len, 2 + info[cur].received_size)
<1>1. cur # 0 /\ m_request = cur /\ ~info[m_request].refused
  <2>1. cur # 0 /\ m_request = cur
    BY DEF Current, Processing
  <2> QED
    BY <2>1 DEF Refused
<1>2. cur \in Requests /\ data \in Seq(Tokens)
  BY <1>1, HttpConnectionAssumption DEF TypeOK, Counts, Requests, Queues
<1>3. PICK R \in {<<>>} \cup {ready[i].data : i \in DOMAIN ready}, len \in Lengths \cup {Redirect} :
        \E p \in 0 .. 2 + Units(len) : InOrder(R, len, p)
  BY <1>1 DEF Arrived
<1>4. PICK p \in 0 .. 2 + Units(len) : InOrder(R, len, p)
  BY <1>3
<1>5. Taken = data
  BY <1>1 DEF Taken
<1>6. /\ Part(data, m_request, len, p) /\ (onwire # 0 => data = <<>>)
      /\ info[m_request].header_finished => p = 2 + info[m_request].received_size
  BY <1>4, <1>5 DEF InOrder
<1>7. /\ pc = "header" => ~info[cur].header_finished
      /\ pc = "body" => info[cur].header_finished
  BY <1>1 DEF Marks
<1> QED
  BY <1>1, <1>2, <1>6, <1>7

\* The units that follow the first n.
LEMMA UnitsJoined ==
  ASSUME NEW r \in Requests, NEW n \in Nat, NEW len, NEW s \in Seq(Tokens), Part(s, r, len, 2 + n)
  PROVE  [i \in 1 .. n |-> BodyToken(r, i)] \o s = [i \in 1 .. n + Len(s) |-> BodyToken(r, i)]
<1> DEFINE a == [i \in 1 .. n |-> BodyToken(r, i)]
           b == [i \in 1 .. n + Len(s) |-> BodyToken(r, i)]
<1>1. Len(s) \in Nat
  BY LenProperties
<1>2. \A i \in Nat : BodyToken(r, i) \in Tokens
  BY DEF BodyToken, Token, Tokens
<1>3. a \in Seq(Tokens) /\ Len(a) = n /\ \A i \in 1 .. n : a[i] = BodyToken(r, i)
  BY <1>2
<1>4. b \in Seq(Tokens) /\ Len(b) = n + Len(s) /\ \A i \in 1 .. n + Len(s) : b[i] = BodyToken(r, i)
  BY <1>1, <1>2
<1>5. \A k \in 1 .. Len(s) : s[k] = BodyToken(r, n + k)
  <2> TAKE k \in 1 .. Len(s)
  <2>1. s[k] = Response(r, len, 2 + n + k)
    BY DEF Part
  <2>2. 2 + n + k # 1 /\ 2 + n + k # 2 /\ 2 + n + k - 2 = n + k
    BY <1>1
  <2> QED
    BY <2>1, <2>2 DEF Response, BodyToken
<1> HIDE DEF a, b
<1>6. /\ a \o s \in Seq(Tokens) /\ Len(a \o s) = n + Len(s)
      /\ \A i \in 1 .. n + Len(s) : (a \o s)[i] = IF i <= n THEN a[i] ELSE s[i - n]
  <2>1. /\ a \o s \in Seq(Tokens) /\ Len(a \o s) = Len(a) + Len(s)
        /\ \A i \in 1 .. Len(a) + Len(s) : (a \o s)[i] = IF i <= Len(a) THEN a[i] ELSE s[i - Len(a)]
    BY <1>3, ConcatProperties
  <2> QED
    BY <1>3, <2>1
<1>7. \A i \in 1 .. n + Len(s) : (a \o s)[i] = b[i]
  <2> TAKE i \in 1 .. n + Len(s)
  <2>1. CASE i <= n
    <3>1. i \in 1 .. n
      BY <1>1, <2>1
    <3> QED
      BY <1>3, <1>4, <1>6, <2>1, <3>1
  <2>2. CASE ~(i <= n)
    <3>1. i - n \in 1 .. Len(s) /\ n + (i - n) = i
      BY <1>1, <2>2
    <3> QED
      BY <1>4, <1>5, <1>6, <2>2, <3>1
  <2> QED
    BY <2>1, <2>2
<1>8. a \o s = b
  BY <1>4, <1>6, <1>7, SeqEqual
<1> QED
  BY <1>8 DEF a, b

\* Steps that leave the marks of the current request alone.
LEMMA MarksSame ==
  ASSUME Marks, UNCHANGED <<m_request, got>>, onwire' \in {0, onwire},
         m_request # 0 =>
           /\ info'[m_request].header_finished = info[m_request].header_finished
           /\ info'[m_request].response_header_received = info[m_request].response_header_received
           /\ info'[m_request].received_size = info[m_request].received_size
           /\ pc' = "header" => ~info[m_request].header_finished
           /\ pc' \in Telling \cup {"body"} /\ m_request = cur' => info[m_request].header_finished
  PROVE  Marks'
  BY DEF Marks

\* A request that has received nothing.
LEMMA MarksNew ==
  ASSUME onwire' \in {0, m_request'}, got'[m_request'] = <<>>,
         ~info'[m_request'].header_finished, ~info'[m_request'].response_header_received,
         info'[m_request'].header_finished \in BOOLEAN, info'[m_request'].response_header_received \in BOOLEAN,
         info'[m_request'].received_size = 0,
         pc' \in Telling \cup {"body"} => m_request' # cur'
  PROVE  Marks'
<1>1. [i \in 1 .. 0 |-> BodyToken(m_request', i)] = <<>>
  OBVIOUS
<1> QED
  BY <1>1 DEF Marks

\* Every step keeps the marks of the current request.
LEMMA MarksStep ==
  ASSUME CarefulListener, TypeOK, TypeOK', Current, Queue, Socket, Refused, Arrived, Marks, [Next]_vars
  PROVE  Marks'
<1> USE DEF control, connection, network
<1>1. CASE request
  <2>1. /\ requests + 1 \in Requests /\ m_request' = requests + 1 /\ m_request' # 0 /\ m_request' # cur
        /\ UNCHANGED <<cur, got>>
    BY <1>1, RequestEffect
  <2>2. PICK h \in Hosts :
          \/ info'[requests + 1] = NewInfo(h) /\ onwire' = 0
          \/ info'[requests + 1] = [NewInfo(h) EXCEPT !.header_send = TRUE] /\ onwire' = requests + 1
    BY <1>1, RequestEffect
  <2>3. got[requests + 1] = <<>>
    BY <2>1 DEF Current, TypeOK, Counts
  <2>4. info'[m_request'].header_finished \in BOOLEAN /\ info'[m_request'].response_header_received \in BOOLEAN
    BY <2>1 DEF TypeOK, Tables, Infos
  <2>5. /\ ~info'[m_request'].header_finished /\ ~info'[m_request'].response_header_received
        /\ info'[m_request'].received_size = 0 /\ onwire' \in {0, m_request'}
    BY <2>1, <2>2, NewRequest
  <2> QED
    BY <2>1, <2>3, <2>4, <2>5, MarksNew
<1>2. CASE request_invalid
  BY <1>2, MarksSame DEF request_invalid, ApiAllowed, Marks, Telling
<1>3. CASE close
  <2>1. m_request' = 0 /\ onwire' = 0
    BY <1>3 DEF close, DoClose, Replace, ApiAllowed
  <2> QED
    BY <2>1 DEF Marks
<1>4. CASE pause
  BY <1>4, MarksSame DEF pause, ApiAllowed, Marks, Telling
<1>5. CASE resume
  BY <1>5, MarksSame DEF resume, ApiAllowed, Marks, Telling
<1>6. CASE on_posted_error
  <2>1. on_error /\ (pc = "idle" => ready # <<>>)
    BY <1>6 DEF on_posted_error, Dispatch
  <2>2. m_request' = 0 /\ onwire' = 0
    BY <2>1, ErrorEffect
  <2> QED
    BY <2>2 DEF Marks
<1>7. CASE on_connect_failed
  <2>1. on_error /\ (pc = "idle" => ready # <<>>)
    BY <1>7 DEF on_connect_failed, Dispatch
  <2>2. m_request' = 0 /\ onwire' = 0
    BY <2>1, ErrorEffect
  <2> QED
    BY <2>2 DEF Marks
<1>8. CASE on_resolver_address
  BY <1>8, MarksSame DEF on_resolver_address, Dispatch, Marks, Telling
<1>9. CASE on_socket_connect
  <2>1. ready # <<>> /\ Head(ready).kind = "connect" /\ pc = "idle" /\ UNCHANGED <<m_request, pc, got>>
        /\ onwire' = m_request /\ info' = [info EXCEPT ![m_request].header_send = TRUE]
    BY <1>9 DEF on_socket_connect, Dispatch
  <2>2. Head(ready) = ready[1] /\ 1 \in DOMAIN ready
    BY <2>1, FirstEvent DEF TypeOK, Queues
  <2>3. m_socket = "connecting"
    BY <2>1, <2>2 DEF Queue
  <2>4. m_request # 0 /\ ~info[m_request].header_finished
    BY <2>3 DEF Socket
  <2>5. m_request \in Requests /\ info \in [Requests -> Infos]
    BY <2>4, HttpConnectionAssumption DEF TypeOK, Counts, Requests, Tables
  <2>6. /\ info'[m_request].header_finished = info[m_request].header_finished
        /\ info'[m_request].response_header_received = info[m_request].response_header_received
        /\ info'[m_request].received_size = info[m_request].received_size
    BY <2>1, <2>5 DEF Infos
  <2> QED
    BY <2>1, <2>4, <2>6 DEF Marks, Telling
<1>10. CASE on_socket_receive /\ m_request = 0
  <2>1. m_request' = 0 /\ onwire' = 0
    BY <1>10 DEF on_socket_receive, DoClose, Replace, Dispatch
  <2> QED
    BY <2>1 DEF Marks
<1>11. CASE on_socket_receive /\ m_request # 0
  BY <1>11, MarksSame DEF on_socket_receive, Dispatch, Marks, Telling
<1>12. CASE on_socket_receive_failed /\ m_request = 0
  <2>1. m_request' = 0 /\ onwire' = 0
    BY <1>12 DEF on_socket_receive_failed, DoClose, Replace, Dispatch
  <2> QED
    BY <2>1 DEF Marks
<1>13. CASE on_socket_receive_failed /\ m_request # 0 /\ EofEndsResponse(m_request)
  <2>1. m_request # 0 /\ m_request' = 0 /\ onwire' = onwire /\ info[m_request].response_header_received
    BY <1>13 DEF on_socket_receive_failed, EofEndsResponse
  <2>2. onwire = 0
    BY <2>1 DEF Marks
  <2> QED
    BY <2>1, <2>2 DEF Marks
<1>14. CASE on_socket_receive_failed /\ m_request # 0 /\ ~EofEndsResponse(m_request)
  <2>1. on_error /\ (pc = "idle" => ready # <<>>)
    BY <1>14 DEF on_socket_receive_failed, Dispatch
  <2>2. m_request' = 0 /\ onwire' = 0
    BY <2>1, ErrorEffect
  <2> QED
    BY <2>2 DEF Marks
<1>15. CASE header_incomplete
  BY <1>15, MarksSame DEF header_incomplete, Marks, Telling
<1>16. CASE redirect /\ info[cur].redirect_times > max_redirects
  <2>1. on_error /\ (pc = "idle" => ready # <<>>)
    BY <1>16 DEF redirect
  <2>2. m_request' = 0 /\ onwire' = 0
    BY <2>1, ErrorEffect
  <2> QED
    BY <2>2 DEF Marks
<1>17. CASE redirect /\ ~(info[cur].redirect_times > max_redirects)
  <2>1. PICK h \in Hosts : connect_host(cur, h) /\ info' = [info EXCEPT ![cur] = reset_handling_state(info[cur], h)]
    BY <1>17 DEF redirect
  <2>2. pc = "header" /\ pc' = "idle" /\ got' = got
    BY <1>17 DEF redirect, Return
  <2>3. m_request = cur /\ cur \in Requests /\ cur # 0 /\ ~info[cur].header_finished
    <3>1. 0 \notin Requests
      BY DEF Requests
    <3> QED
      BY <2>2, <3>1, PartAtHand
  <2>4. m_request' = cur /\ onwire' = 0
    BY <2>1 DEF connect_host, Replace
  <2>5. info'[cur] = reset_handling_state(info[cur], h)
    BY <2>1, <2>3 DEF TypeOK, Tables
  <2>6. /\ ~info'[cur].header_finished /\ ~info'[cur].response_header_received /\ info'[cur].received_size = 0
        /\ info'[cur].header_finished \in BOOLEAN /\ info'[cur].response_header_received \in BOOLEAN
    BY <2>5 DEF reset_handling_state, NewInfo
  <2>7. got[cur] = <<>>
    <3>1. info[cur].received_size = 0 /\ got[cur] = [i \in 1 .. info[cur].received_size |-> BodyToken(cur, i)]
      BY <2>3 DEF Marks
    <3>2. [i \in 1 .. 0 |-> BodyToken(cur, i)] = <<>>
      OBVIOUS
    <3> QED
      BY <3>1, <3>2
  <2> QED
    BY <2>2, <2>4, <2>6, <2>7, MarksNew DEF Telling
<1>18. CASE handle_response_header
  <2>1. /\ pc = "header" /\ HasEnd /\ pc' = "on_http_response" /\ UNCHANGED <<m_request, cur, onwire, got>>
        /\ info' = [info EXCEPT ![cur].header_finished = TRUE, ![cur].response_header_received = TRUE,
                                ![cur].content_length = data[HeaderEnd].v]
    BY <1>18 DEF handle_response_header
  <2>2. m_request = cur /\ cur \in Requests /\ data \in Seq(Tokens) /\ onwire = 0 /\ ~info[cur].header_finished /\ cur # 0
    <3>1. m_request = cur /\ cur \in Requests /\ data \in Seq(Tokens) /\ ~info[cur].header_finished
          /\ (onwire # 0 => data = <<>>)
      BY <2>1, PartAtHand
    <3>2. data # <<>>
      BY <2>1, EmptySeq DEF HasEnd
    <3>3. cur # 0
      BY <3>1 DEF Requests
    <3> QED
      BY <3>1, <3>2, <3>3
  <2>3. /\ info'[cur].header_finished = TRUE /\ info'[cur].response_header_received = TRUE
        /\ info'[cur].received_size = info[cur].received_size
    BY <2>1, <2>2 DEF TypeOK, Tables, Infos
  <2>4. got[cur] = [i \in 1 .. info[cur].received_size |-> BodyToken(cur, i)]
    BY <2>2 DEF Marks
  <2>5. got'[m_request'] = [i \in 1 .. info'[m_request'].received_size |-> BodyToken(m_request', i)]
    BY <2>1, <2>2, <2>3, <2>4
  <2>6. onwire' = 0 /\ info'[m_request'].header_finished = TRUE /\ info'[m_request'].response_header_received = TRUE
        /\ pc' # "header"
    BY <2>1, <2>2, <2>3
  <2> QED
    BY <2>5, <2>6 DEF Marks
<1>19. CASE process_body_data
  <2>1. /\ pc = "body" /\ pc' = "on_http_data" /\ UNCHANGED <<m_request, cur, onwire>>
        /\ info' = [info EXCEPT ![cur].received_size = info[cur].received_size + Len(data)]
        /\ got' = [got EXCEPT ![m_request] = got[m_request] \o data]
    BY <1>19 DEF process_body_data
  <2>2. /\ m_request = cur /\ cur \in Requests /\ data \in Seq(Tokens) /\ info[cur].header_finished
        /\ \E len : Part(data, cur, len, 2 + info[cur].received_size)
    BY <2>1, PartAtHand
  <2>3. cur # 0 /\ Len(data) \in Nat /\ info[cur].received_size \in Nat /\ info \in [Requests -> Infos] /\ got \in [Requests -> Seq(Tokens)]
    BY <2>2, LenProperties DEF Requests, TypeOK, Tables, Infos
  <2>4. /\ info'[cur].header_finished = info[cur].header_finished
        /\ info'[cur].response_header_received = info[cur].response_header_received
        /\ info'[cur].received_size = info[cur].received_size + Len(data)
    BY <2>1, <2>2, <2>3 DEF Infos
  <2>5. got'[cur] = [i \in 1 .. info[cur].received_size + Len(data) |-> BodyToken(cur, i)]
    <3>1. got'[cur] = got[cur] \o data
      BY <2>1, <2>2, <2>3
    <3>2. got[cur] = [i \in 1 .. info[cur].received_size |-> BodyToken(cur, i)]
      BY <2>2, <2>3 DEF Marks
    <3>3. PICK len : Part(data, cur, len, 2 + info[cur].received_size)
      BY <2>2
    <3>4. [i \in 1 .. info[cur].received_size |-> BodyToken(cur, i)] \o data
            = [i \in 1 .. info[cur].received_size + Len(data) |-> BodyToken(cur, i)]
      BY <2>2, <2>3, <3>3, UnitsJoined
    <3> QED
      BY <3>1, <3>2, <3>4
  <2>6. got'[cur] = [i \in 1 .. info'[cur].received_size |-> BodyToken(cur, i)]
    BY <2>4, <2>5
  <2> QED
    BY <2>1, <2>2, <2>3, <2>4, <2>6 DEF Marks
<1>20. CASE receive_tail
  BY <1>20, MarksSame DEF receive_tail, check_receive, Return, Marks, Telling
<1>21. CASE listener_returns /\ Refuse
  <2>1. /\ cur \in Requests /\ info \in [Requests -> Infos] /\ (m_request # 0 => m_request \in Requests)
    BY <1>21, HttpConnectionAssumption DEF listener_returns, Current, Processing, Telling, TypeOK, Counts, Requests, Tables
  <2>2. info' = [info EXCEPT ![cur].refused = TRUE] /\ pc' = "idle" /\ UNCHANGED <<m_request, got, onwire>>
    BY <1>21 DEF listener_returns, Refuse, Return
  <2>3. m_request # 0 =>
          /\ info'[m_request].header_finished = info[m_request].header_finished
          /\ info'[m_request].response_header_received = info[m_request].response_header_received
          /\ info'[m_request].received_size = info[m_request].received_size
    BY <2>1, <2>2 DEF Infos
  <2> QED
    BY <2>2, <2>3, MarksSame DEF Telling
<1>22. CASE listener_returns /\ Accept /\ m_request = 0 /\ (AllReceived \/ data # <<>>)
  <2>1. m_request' = 0 /\ onwire' = 0
    BY <1>22 DEF listener_returns, Accept, on_complete, DoClose, Replace, Return
  <2> QED
    BY <2>1 DEF Marks
<1>23. CASE listener_returns /\ Accept /\ m_request # 0 /\ AllReceived
  <2>1. pc \in Telling /\ ~restarted /\ m_request # 0 /\ m_request' = 0 /\ onwire' = onwire
    BY <1>23 DEF listener_returns, Accept, on_complete, Telling
  <2>2. m_request = cur
    BY <2>1 DEF Current
  <2>3. onwire = 0
    BY <2>1, <2>2 DEF Marks
  <2> QED
    BY <2>1, <2>3 DEF Marks
<1>24. CASE listener_returns /\ Accept /\ ~AllReceived /\ ~(data # <<>> /\ m_request = 0)
  <2>1. /\ UNCHANGED <<m_request, got, onwire, info, cur>> /\ pc' \in {"body", "tail"} /\ pc \in Telling
    BY <1>24 DEF listener_returns, Accept, Telling
  <2> QED
    BY <2>1, MarksSame DEF Marks, Telling
<1>25. CASE complete_returns
  BY <1>25, MarksSame DEF complete_returns, Marks, Telling
<1>26. CASE error_returns
  BY <1>26, MarksSame DEF error_returns, Return, Marks, Telling
<1>27. CASE NativeConnect
  BY <1>27, MarksSame DEF NativeConnect, Marks, Telling
<1>28. CASE NativeResolve
  BY <1>28, MarksSame DEF NativeResolve, Marks, Telling
<1>29. CASE ServerRespond
  BY <1>29, MarksSame DEF ServerRespond, Marks, Telling
<1>30. CASE NativeReceive
  BY <1>30, MarksSame DEF NativeReceive, Marks, Telling
<1>31. CASE UNCHANGED vars
  BY <1>31, MarksSame DEF vars, Marks
<1> QED
  BY <1>1, <1>2, <1>3, <1>4, <1>5, <1>6, <1>7, <1>8, <1>9, <1>10, <1>11, <1>12, <1>13, <1>14,
     <1>15, <1>16, <1>17, <1>18, <1>19, <1>20, <1>21, <1>22, <1>23, <1>24, <1>25, <1>26,
     <1>27, <1>28, <1>29, <1>30, <1>31 DEF Next, Api, Handler, Native, listener_returns

\* What on_http_complete promises of one request.
Whole(r) == info[r].response_header_received /\ (info[r].eof \/ Len(got[r]) = info[r].content_length)

\* The final calls of a request with on_http_complete among them.
LEMMA Completed ==
  \A s \in {<<>>, <<"complete">>, <<"error">>} :
    (\E i \in DOMAIN s : s[i] = "complete") <=> s = <<"complete">>
<1> TAKE s \in {<<>>, <<"complete">>, <<"error">>}
<1>1. /\ DOMAIN <<>> = {} /\ <<>> # <<"complete">>
      /\ DOMAIN <<"complete">> = {1} /\ <<"complete">>[1] = "complete"
      /\ DOMAIN <<"error">> = {1} /\ <<"error">>[1] = "error" /\ "error" # "complete"
  OBVIOUS
<1> QED
  BY <1>1

\* A request that had completed keeps what it received; one that completes has
\* received it.
LEMMA CompleteKept ==
  ASSUME TypeOK, TypeOK', CompleteMeansWhole,
         \A r \in Requests : ended'[r] = <<"complete">> =>
           \/ Whole(r)'
           \/ /\ ended[r] = <<"complete">> /\ got'[r] = got[r]
              /\ info'[r].response_header_received = info[r].response_header_received
              /\ info'[r].eof = info[r].eof /\ info'[r].content_length = info[r].content_length
  PROVE  CompleteMeansWhole'
<1>0. \A r \in Requests : ended[r] \in {<<>>, <<"complete">>, <<"error">>} /\ ended'[r] \in {<<>>, <<"complete">>, <<"error">>}
  BY DEF TypeOK, Tables
<1>1. \A r \in Requests : ended[r] = <<"complete">> => Whole(r)
  BY <1>0, Completed DEF CompleteMeansWhole, Whole
<1>2. \A r \in Requests : ended'[r] = <<"complete">> => Whole(r)'
  BY <1>1 DEF Whole
<1>3. \A r \in Requests : \A i \in DOMAIN ended'[r] : ended'[r][i] = "complete" => Whole(r)'
  BY <1>0, <1>2, Completed
<1> QED
  BY <1>3 DEF CompleteMeansWhole, Whole

\* Every step completes only what is whole.
LEMMA CompleteStep ==
  ASSUME CarefulListener, TypeOK, TypeOK', Current, Refused, Arrived, Marks, CompleteMeansWhole, [Next]_vars
  PROVE  CompleteMeansWhole'
<1> USE DEF control, connection, network
<1>1. CASE request
  <2>1. /\ requests + 1 \in Requests /\ UNCHANGED <<got, ended>>
        /\ \A r \in Requests : r # requests + 1 => info'[r] = info[r]
    BY <1>1, RequestEffect
  <2>2. requests + 1 > requests
    BY DEF TypeOK, Counts
  <2>3. \A r \in Requests : ended[r] = <<"complete">> => r # requests + 1
    <3>1. <<>> # <<"complete">>
      OBVIOUS
    <3> QED
      BY <2>1, <2>2, <3>1 DEF Current
  <2> QED
    BY <2>1, <2>3, CompleteKept
<1>2. CASE request_invalid
  <2>1. UNCHANGED <<info, got, ended>>
    BY <1>2 DEF request_invalid, ApiAllowed
  <2> QED
    BY <2>1, CompleteKept
<1>3. CASE close
  <2>1. UNCHANGED <<info, got, ended>>
    BY <1>3 DEF close, DoClose, Replace, ApiAllowed
  <2> QED
    BY <2>1, CompleteKept
<1>4. CASE pause
  <2>1. UNCHANGED <<info, got, ended>>
    BY <1>4 DEF pause, ApiAllowed
  <2> QED
    BY <2>1, CompleteKept
<1>5. CASE resume
  <2>1. UNCHANGED <<info, got, ended>>
    BY <1>5 DEF resume, ApiAllowed
  <2> QED
    BY <2>1, CompleteKept
<1>6. CASE on_posted_error
  <2>1. on_error /\ (pc = "idle" => ready # <<>>) /\ UNCHANGED <<info, got>>
    BY <1>6 DEF on_posted_error, Dispatch
  <2>2. \A r \in Requests : ended'[r] = IF r = m_request THEN <<"error">> ELSE ended[r]
    BY <2>1, ErrorEffect
  <2>3. <<"error">> # <<"complete">>
    OBVIOUS
  <2> QED
    BY <2>1, <2>2, <2>3, CompleteKept
<1>7. CASE on_connect_failed
  <2>1. on_error /\ (pc = "idle" => ready # <<>>) /\ UNCHANGED <<info, got>>
    BY <1>7 DEF on_connect_failed, Dispatch
  <2>2. \A r \in Requests : ended'[r] = IF r = m_request THEN <<"error">> ELSE ended[r]
    BY <2>1, ErrorEffect
  <2>3. <<"error">> # <<"complete">>
    OBVIOUS
  <2> QED
    BY <2>1, <2>2, <2>3, CompleteKept
<1>8. CASE on_resolver_address
  <2>1. UNCHANGED <<info, got, ended>>
    BY <1>8 DEF on_resolver_address, Dispatch
  <2> QED
    BY <2>1, CompleteKept
<1>9. CASE on_socket_connect
  <2>1. info' = [info EXCEPT ![m_request].header_send = TRUE] /\ UNCHANGED <<got, ended>>
    BY <1>9 DEF on_socket_connect
  <2>2. \A r \in Requests :
          /\ info'[r].response_header_received = info[r].response_header_received
          /\ info'[r].eof = info[r].eof /\ info'[r].content_length = info[r].content_length
    BY <2>1 DEF TypeOK, Tables, Infos
  <2> QED
    BY <2>1, <2>2, CompleteKept
<1>10. CASE on_socket_receive /\ m_request = 0
  <2>1. UNCHANGED <<info, got, ended>>
    BY <1>10 DEF on_socket_receive, DoClose, Replace, Dispatch
  <2> QED
    BY <2>1, CompleteKept
<1>11. CASE on_socket_receive /\ m_request # 0
  <2>1. UNCHANGED <<info, got, ended>>
    BY <1>11 DEF on_socket_receive, Dispatch
  <2> QED
    BY <2>1, CompleteKept
<1>12. CASE on_socket_receive_failed /\ m_request = 0
  <2>1. UNCHANGED <<info, got, ended>>
    BY <1>12 DEF on_socket_receive_failed, DoClose, Replace, Dispatch
  <2> QED
    BY <2>1, CompleteKept
<1>13. CASE on_socket_receive_failed /\ m_request # 0 /\ EofEndsResponse(m_request)
  <2>1. /\ info' = [info EXCEPT ![m_request].finished = TRUE, ![m_request].eof = TRUE] /\ got' = got
        /\ ended' = [ended EXCEPT ![m_request] = Append(@, "complete")]
        /\ m_request # 0 /\ info[m_request].response_header_received
    BY <1>13 DEF on_socket_receive_failed, EofEndsResponse
  <2>2. ended' = [ended EXCEPT ![m_request] = <<"complete">>] /\ m_request \in Requests
    BY <2>1, EndsOnce
  <2>3. \A r \in Requests : r # m_request => info'[r] = info[r] /\ ended'[r] = ended[r]
    BY <2>1, <2>2 DEF TypeOK, Tables
  <2>4. info'[m_request].eof = TRUE /\ info'[m_request].response_header_received = info[m_request].response_header_received
    <3>1. info'[m_request] = [info[m_request] EXCEPT !.finished = TRUE, !.eof = TRUE] /\ info[m_request] \in Infos
      BY <2>1, <2>2 DEF TypeOK, Tables
    <3> QED
      BY <3>1 DEF Infos
  <2>5. \A r \in Requests : r = m_request => Whole(r)'
    BY <2>1, <2>4 DEF Whole
  <2> QED
    BY <2>1, <2>3, <2>5, CompleteKept
<1>14. CASE on_socket_receive_failed /\ m_request # 0 /\ ~EofEndsResponse(m_request)
  <2>1. on_error /\ (pc = "idle" => ready # <<>>) /\ UNCHANGED <<info, got>>
    BY <1>14 DEF on_socket_receive_failed, Dispatch
  <2>2. \A r \in Requests : ended'[r] = IF r = m_request THEN <<"error">> ELSE ended[r]
    BY <2>1, ErrorEffect
  <2>3. <<"error">> # <<"complete">>
    OBVIOUS
  <2> QED
    BY <2>1, <2>2, <2>3, CompleteKept
<1>15. CASE header_incomplete
  <2>1. UNCHANGED <<info, got, ended>>
    BY <1>15 DEF header_incomplete
  <2> QED
    BY <2>1, CompleteKept
<1>16. CASE redirect /\ info[cur].redirect_times > max_redirects
  <2>1. on_error /\ (pc = "idle" => ready # <<>>) /\ UNCHANGED <<info, got>>
    BY <1>16 DEF redirect
  <2>2. \A r \in Requests : ended'[r] = IF r = m_request THEN <<"error">> ELSE ended[r]
    BY <2>1, ErrorEffect
  <2>3. <<"error">> # <<"complete">>
    OBVIOUS
  <2> QED
    BY <2>1, <2>2, <2>3, CompleteKept
<1>17. CASE redirect /\ ~(info[cur].redirect_times > max_redirects)
  <2>1. /\ pc = "header" /\ UNCHANGED <<got, ended>>
        /\ \E h \in Hosts : info' = [info EXCEPT ![cur] = reset_handling_state(info[cur], h)]
    BY <1>17 DEF redirect
  <2>2. m_request = cur /\ cur \in Requests /\ m_request # 0
    <3>1. 0 \notin Requests
      BY DEF Requests
    <3> QED
      BY <2>1, <3>1, PartAtHand
  <2>3. \A r \in Requests : ended[r] = <<"complete">> => r # cur
    <3>1. <<>> # <<"complete">>
      OBVIOUS
    <3> QED
      BY <2>2, <3>1 DEF Current
  <2>4. \A r \in Requests : r # cur => info'[r] = info[r] /\ got'[r] = got[r]
    BY <2>1, <2>2 DEF TypeOK, Tables
  <2> QED
    BY <2>1, <2>3, <2>4, CompleteKept
<1>18. CASE handle_response_header
  <2>1. /\ pc = "header" /\ UNCHANGED <<got, ended>>
        /\ info' = [info EXCEPT ![cur].header_finished = TRUE, ![cur].response_header_received = TRUE,
                                ![cur].content_length = data[HeaderEnd].v]
    BY <1>18 DEF handle_response_header
  <2>2. m_request = cur /\ cur \in Requests /\ m_request # 0
    <3>1. 0 \notin Requests
      BY DEF Requests
    <3> QED
      BY <2>1, <3>1, PartAtHand
  <2>3. \A r \in Requests : ended[r] = <<"complete">> => r # cur
    <3>1. <<>> # <<"complete">>
      OBVIOUS
    <3> QED
      BY <2>2, <3>1 DEF Current
  <2>4. \A r \in Requests : r # cur => info'[r] = info[r] /\ got'[r] = got[r]
    BY <2>1, <2>2 DEF TypeOK, Tables
  <2> QED
    BY <2>1, <2>3, <2>4, CompleteKept
<1>19. CASE process_body_data
  <2>1. /\ pc = "body" /\ UNCHANGED ended
        /\ info' = [info EXCEPT ![cur].received_size = info[cur].received_size + Len(data)]
        /\ got' = [got EXCEPT ![m_request] = got[m_request] \o data]
    BY <1>19 DEF process_body_data
  <2>2. m_request = cur /\ cur \in Requests /\ m_request # 0
    <3>1. 0 \notin Requests
      BY DEF Requests
    <3> QED
      BY <2>1, <3>1, PartAtHand
  <2>3. \A r \in Requests : ended[r] = <<"complete">> => r # cur
    <3>1. <<>> # <<"complete">>
      OBVIOUS
    <3> QED
      BY <2>2, <3>1 DEF Current
  <2>4. \A r \in Requests : r # cur => info'[r] = info[r] /\ got'[r] = got[r]
    BY <2>1, <2>2 DEF TypeOK, Tables
  <2> QED
    BY <2>1, <2>3, <2>4, CompleteKept
<1>20. CASE receive_tail
  <2>1. UNCHANGED <<info, got, ended>>
    BY <1>20 DEF receive_tail, check_receive, Return
  <2> QED
    BY <2>1, CompleteKept
<1>21. CASE listener_returns /\ Refuse
  <2>1. info' = [info EXCEPT ![cur].refused = TRUE] /\ UNCHANGED <<got, ended>>
    BY <1>21 DEF listener_returns, Refuse
  <2>2. \A r \in Requests :
          /\ info'[r].response_header_received = info[r].response_header_received
          /\ info'[r].eof = info[r].eof /\ info'[r].content_length = info[r].content_length
    BY <2>1 DEF TypeOK, Tables, Infos
  <2> QED
    BY <2>1, <2>2, CompleteKept
<1>22. CASE listener_returns /\ Accept /\ m_request = 0 /\ (AllReceived \/ data # <<>>)
  <2>1. info' \in {info, [info EXCEPT ![cur].finished = TRUE]} /\ UNCHANGED <<got, ended>>
    BY <1>22 DEF listener_returns, Accept, on_complete
  <2>2. \A r \in Requests :
          /\ info'[r].response_header_received = info[r].response_header_received
          /\ info'[r].eof = info[r].eof /\ info'[r].content_length = info[r].content_length
    <3>1. CASE info' = info
      BY <3>1
    <3>2. CASE info' = [info EXCEPT ![cur].finished = TRUE]
      BY <3>2 DEF TypeOK, Tables, Infos
    <3> QED
      BY <2>1, <3>1, <3>2
  <2> QED
    BY <2>1, <2>2, CompleteKept
<1>23. CASE listener_returns /\ Accept /\ m_request # 0 /\ AllReceived
  <2>1. /\ pc \in Telling /\ ~restarted /\ m_request # 0 /\ AllReceived /\ got' = got
        /\ info' = [info EXCEPT ![cur].finished = TRUE]
        /\ ended' = [ended EXCEPT ![m_request] = Append(@, "complete")]
    BY <1>23 DEF listener_returns, Accept, on_complete, Telling
  <2>2. ended' = [ended EXCEPT ![m_request] = <<"complete">>] /\ m_request \in Requests
    BY <2>1, EndsOnce
  <2>3. m_request = cur
    BY <2>1 DEF Current
  <2>4. /\ info[cur].header_finished /\ info[cur].response_header_received /\ ~info[cur].refused
        /\ got[cur] = [i \in 1 .. info[cur].received_size |-> BodyToken(cur, i)]
    <3>1. pc # "idle"
      BY <2>1 DEF Telling
    <3>2. ~info[cur].refused
      BY <2>1, <2>3, <3>1 DEF Refused
    <3> QED
      BY <2>1, <2>3, <3>2 DEF Marks
  <2>5. info[cur].received_size \in Nat /\ info[cur].content_length \in Int
    BY <2>2, <2>3 DEF TypeOK, Tables, Infos
  <2>6. info[cur].received_size <= info[cur].content_length
    <3>1. PICK R \in {<<>>} \cup {ready[i].data : i \in DOMAIN ready}, len \in Lengths \cup {Redirect} :
            \E p \in 0 .. 2 + Units(len) : InOrder(R, len, p)
      BY <2>1, <2>3, <2>4 DEF Arrived
    <3>2. PICK p \in 0 .. 2 + Units(len) : InOrder(R, len, p)
      BY <3>1
    <3>3. len = info[cur].content_length /\ p = 2 + info[cur].received_size
      BY <2>3, <2>4, <3>2 DEF InOrder
    <3>4. len \in Nat
      BY <2>1, <2>5, <3>3 DEF AllReceived
    <3>5. Units(len) = len
      BY <3>4 DEF Units, Redirect
    <3> QED
      BY <2>5, <3>2, <3>3, <3>4, <3>5
  <2>7. info[cur].received_size = info[cur].content_length
    BY <2>1, <2>5, <2>6 DEF AllReceived
  <2>8. Len(got[cur]) = info[cur].received_size
    BY <2>4, <2>5
  <2>9. \A r \in Requests : r # cur => info'[r] = info[r] /\ ended'[r] = ended[r]
    BY <2>1, <2>2, <2>3 DEF TypeOK, Tables
  <2>10. /\ info'[cur].response_header_received = info[cur].response_header_received
         /\ info'[cur].content_length = info[cur].content_length
    BY <2>1, <2>2, <2>3 DEF TypeOK, Tables, Infos
  <2>11. \A r \in Requests : r = cur => Whole(r)'
    BY <2>1, <2>4, <2>7, <2>8, <2>10 DEF Whole
  <2> QED
    BY <2>1, <2>9, <2>11, CompleteKept
<1>24. CASE listener_returns /\ Accept /\ ~AllReceived /\ ~(data # <<>> /\ m_request = 0)
  <2>1. UNCHANGED <<info, got, ended>>
    BY <1>24 DEF listener_returns, Accept
  <2> QED
    BY <2>1, CompleteKept
<1>25. CASE complete_returns
  <2>1. UNCHANGED <<info, got, ended>>
    BY <1>25 DEF complete_returns
  <2> QED
    BY <2>1, CompleteKept
<1>26. CASE error_returns
  <2>1. UNCHANGED <<info, got, ended>>
    BY <1>26 DEF error_returns, Return
  <2> QED
    BY <2>1, CompleteKept
<1>27. CASE NativeConnect
  <2>1. UNCHANGED <<info, got, ended>>
    BY <1>27 DEF NativeConnect
  <2> QED
    BY <2>1, CompleteKept
<1>28. CASE NativeResolve
  <2>1. UNCHANGED <<info, got, ended>>
    BY <1>28 DEF NativeResolve
  <2> QED
    BY <2>1, CompleteKept
<1>29. CASE ServerRespond
  <2>1. UNCHANGED <<info, got, ended>>
    BY <1>29 DEF ServerRespond
  <2> QED
    BY <2>1, CompleteKept
<1>30. CASE NativeReceive
  <2>1. UNCHANGED <<info, got, ended>>
    BY <1>30 DEF NativeReceive
  <2> QED
    BY <2>1, CompleteKept
<1>31. CASE UNCHANGED vars
  <2>1. UNCHANGED <<info, got, ended>>
    BY <1>31 DEF vars
  <2> QED
    BY <2>1, CompleteKept
<1> QED
  BY <1>1, <1>2, <1>3, <1>4, <1>5, <1>6, <1>7, <1>8, <1>9, <1>10, <1>11, <1>12, <1>13, <1>14,
     <1>15, <1>16, <1>17, <1>18, <1>19, <1>20, <1>21, <1>22, <1>23, <1>24, <1>25, <1>26,
     <1>27, <1>28, <1>29, <1>30, <1>31 DEF Next, Api, Handler, Native, listener_returns

-----------------------------------------------------------------------------
(* The invariants of the connection.                                       *)

\* A connection that was never used.
LEMMA ConnectionInit ==
  Init => ConnectionInv
<1> SUFFICES ASSUME Init PROVE ConnectionInv
  OBVIOUS
<1>1. Words /\ Flags
  BY DEF Init, Words, Flags
<1>2. Counts
  BY HttpConnectionAssumption DEF Init, Counts
<1>3. Queues
  BY EmptySeq DEF Init, Queues
<1>4. Tables
  <2>1. \A r \in Requests : NewInfo(NoHost) \in Infos /\ <<>> \in Seq(Tokens)
    BY NewInfoType, EmptySeq
  <2> QED
    BY <2>1 DEF Init, Tables
<1>5. Current
  BY DEF Init, Current, Processing, Telling
<1>6. Queue
  BY DEF Init, Queue
<1>7. Socket
  BY DEF Init, Socket, Processing, Telling
<1>8. Refused
  BY DEF Init, Refused
<1>9. Arrived
  BY EmptySeq DEF Init, Arrived, Read
<1>10. Marks
  BY DEF Init, Marks
<1>11. ReadPending
  BY DEF Init, ReadPending
<1>12. CompleteMeansWhole
  BY DEF Init, CompleteMeansWhole
<1> QED
  BY <1>1, <1>2, <1>3, <1>4, <1>5, <1>6, <1>7, <1>8, <1>9, <1>10, <1>11, <1>12 DEF ConnectionInv, TypeOK

\* Every step of a connection with a careful listener keeps the invariant.
LEMMA ConnectionStep ==
  ASSUME CarefulListener, ConnectionInv, [Next]_vars
  PROVE  ConnectionInv'
<1> USE DEF ConnectionInv
<1>1. TypeOK'
  BY WordsStep, FlagsStep, CountsStep, QueuesStep, TablesStep DEF TypeOK
<1>2. Current'
  BY CurrentStep
<1>3. Queue'
  BY QueueStep
<1>4. Socket'
  BY SocketStep
<1>5. Refused'
  BY RefusedStep
<1>6. Arrived'
  BY <1>1, ArrivedStep
<1>7. Marks'
  BY <1>1, MarksStep
<1>8. ReadPending'
  BY ReadStep
<1>9. CompleteMeansWhole'
  BY <1>1, CompleteStep
<1> QED
  BY <1>1, <1>2, <1>3, <1>4, <1>5, <1>6, <1>7, <1>8, <1>9

\* With a careful listener, through redirections, keep-alive, pauses and calls
\* made inside its callbacks, the completions that wait belong to the socket in
\* use and what is on its way is the next part of one response to the current
\* request.
THEOREM ConnectionInvariant ==
  ASSUME CarefulListener
  PROVE  Spec => []ConnectionInv
<1>1. ConnectionInv /\ [Next]_vars => ConnectionInv'
  BY ConnectionStep
<1> QED
  BY <1>1, ConnectionInit, PTL DEF Spec

\* The assertions of on_socket_connect and write_request hold: a socket becomes
\* connected only for a request that was not written and is for its host.
THEOREM WritesOnce ==
  ASSUME CarefulListener
  PROVE  Spec => []WriteAsserts
<1>1. ConnectionInv => WriteAsserts
  <2> SUFFICES ASSUME ConnectionInv, ready # <<>>, Head(ready).kind = "connect"
               PROVE  m_request # 0 /\ ~info[m_request].header_send /\ info[m_request].host = m_host
    BY DEF WriteAsserts
  <2>1. Head(ready) = ready[1] /\ 1 \in DOMAIN ready
    BY FirstEvent DEF ConnectionInv, TypeOK, Queues
  <2>2. m_socket = "connecting"
    BY <2>1 DEF ConnectionInv, Queue
  <2> QED
    BY <2>2 DEF ConnectionInv, Socket
<1> QED
  BY <1>1, ConnectionInvariant, PTL

\* check_receive, resume() and on_socket_connect leave no response unread: a
\* connected socket with a request that is not paused nor refused is read.
THEOREM ResponseIsRead ==
  ASSUME CarefulListener
  PROVE  Spec => []ReadPending
<1>1. ConnectionInv => ReadPending
  BY DEF ConnectionInv
<1> QED
  BY <1>1, ConnectionInvariant, PTL

\* check_finish and on_socket_receive_failed call on_http_complete only for a
\* request whose whole content was delivered or whose connection ended after the
\* response header.
THEOREM CompletedIsWhole ==
  ASSUME CarefulListener
  PROVE  Spec => []CompleteMeansWhole
<1>1. ConnectionInv => CompleteMeansWhole
  BY DEF ConnectionInv
<1> QED
  BY <1>1, ConnectionInvariant, PTL

-----------------------------------------------------------------------------
(* The connection implements HttpExchange.                                 *)

\* Of a step that closes the connection or reports an error, the listener sees
\* the end of the current request, if there is one.
LEMMA EndsExchange ==
  ASSUME TypeOK, Current, m_request' = 0, UNCHANGED <<requests, got>>,
         \/ ended' = ended
         \/ m_request # 0 /\ \E o \in {"complete", "error"} : ended' = [ended EXCEPT ![m_request] = <<o>>]
  PROVE  [Exchange!Next]_(Exchange!vars)
<1>1. CASE m_request = 0
  BY <1>1 DEF Exchange!vars
<1>2. CASE m_request # 0 /\ ended' = ended
  <2>1. Exchange!Close
    BY <1>2 DEF Exchange!Close
  <2> QED
    BY <2>1 DEF Exchange!Next
<1>3. CASE m_request # 0 /\ \E o \in {"complete", "error"} : ended' = [ended EXCEPT ![m_request] = <<o>>]
  <2>1. ended[m_request] = <<>>
    BY <1>3 DEF Current
  <2>2. Exchange!Finish
    BY <1>3, <2>1 DEF Exchange!Finish
  <2> QED
    BY <2>2 DEF Exchange!Next
<1> QED
  BY <1>1, <1>2, <1>3

\* What the listener sees of a step is a step of HttpExchange, or nothing.
LEMMA ExchangeStep ==
  ASSUME TypeOK, TypeOK', Current, Refused, Arrived, Marks, Marks', [Next]_vars
  PROVE  [Exchange!Next]_(Exchange!vars)
<1> USE DEF control, connection, network
<1>1. CASE request
  <2>1. requests' = requests + 1 /\ m_request' = requests + 1 /\ UNCHANGED <<got, ended>>
    BY <1>1, RequestEffect
  <2>2. Exchange!Request
    BY <2>1 DEF Exchange!Request
  <2> QED
    BY <2>2 DEF Exchange!Next
<1>2. CASE request_invalid
  BY <1>2 DEF request_invalid, ApiAllowed, Exchange!vars
<1>3. CASE close
  <2>1. m_request' = 0 /\ UNCHANGED <<requests, got, ended>>
    BY <1>3 DEF close, DoClose, Replace, ApiAllowed
  <2> QED
    BY <2>1, EndsExchange
<1>4. CASE pause
  BY <1>4 DEF pause, ApiAllowed, Exchange!vars
<1>5. CASE resume
  BY <1>5 DEF resume, ApiAllowed, Exchange!vars
<1>6. CASE on_posted_error
  <2>1. on_error /\ (pc = "idle" => ready # <<>>) /\ UNCHANGED <<requests, got>>
    BY <1>6 DEF on_posted_error, Dispatch
  <2>2. m_request' = 0 /\ IF m_request = 0 THEN ended' = ended ELSE ended' = [ended EXCEPT ![m_request] = <<"error">>]
    BY <2>1, ErrorEffect
  <2> QED
    BY <2>1, <2>2, EndsExchange
<1>7. CASE on_connect_failed
  <2>1. on_error /\ (pc = "idle" => ready # <<>>) /\ UNCHANGED <<requests, got>>
    BY <1>7 DEF on_connect_failed, Dispatch
  <2>2. m_request' = 0 /\ IF m_request = 0 THEN ended' = ended ELSE ended' = [ended EXCEPT ![m_request] = <<"error">>]
    BY <2>1, ErrorEffect
  <2> QED
    BY <2>1, <2>2, EndsExchange
<1>8. CASE on_resolver_address
  BY <1>8 DEF on_resolver_address, Dispatch, Exchange!vars
<1>9. CASE on_socket_connect
  BY <1>9 DEF on_socket_connect, Dispatch, Exchange!vars
<1>10. CASE on_socket_receive /\ m_request = 0
  <2>1. m_request' = 0 /\ UNCHANGED <<requests, got, ended>>
    BY <1>10 DEF on_socket_receive, DoClose, Replace, Dispatch
  <2> QED
    BY <2>1, EndsExchange
<1>11. CASE on_socket_receive /\ m_request # 0
  BY <1>11 DEF on_socket_receive, Dispatch, Exchange!vars
<1>12. CASE on_socket_receive_failed /\ m_request = 0
  <2>1. m_request' = 0 /\ UNCHANGED <<requests, got, ended>>
    BY <1>12 DEF on_socket_receive_failed, DoClose, Replace, Dispatch
  <2> QED
    BY <2>1, EndsExchange
<1>13. CASE on_socket_receive_failed /\ m_request # 0 /\ EofEndsResponse(m_request)
  <2>1. /\ m_request # 0 /\ m_request' = 0 /\ UNCHANGED <<requests, got>>
        /\ ended' = [ended EXCEPT ![m_request] = Append(@, "complete")]
    BY <1>13 DEF on_socket_receive_failed, EofEndsResponse, Dispatch
  <2>2. ended' = [ended EXCEPT ![m_request] = <<"complete">>]
    BY <2>1, EndsOnce
  <2> QED
    BY <2>1, <2>2, EndsExchange
<1>14. CASE on_socket_receive_failed /\ m_request # 0 /\ ~EofEndsResponse(m_request)
  <2>1. on_error /\ (pc = "idle" => ready # <<>>) /\ UNCHANGED <<requests, got>>
    BY <1>14 DEF on_socket_receive_failed, Dispatch
  <2>2. m_request' = 0 /\ IF m_request = 0 THEN ended' = ended ELSE ended' = [ended EXCEPT ![m_request] = <<"error">>]
    BY <2>1, ErrorEffect
  <2> QED
    BY <2>1, <2>2, EndsExchange
<1>15. CASE header_incomplete
  BY <1>15 DEF header_incomplete, Exchange!vars
<1>16. CASE redirect /\ info[cur].redirect_times > max_redirects
  <2>1. on_error /\ (pc = "idle" => ready # <<>>) /\ UNCHANGED <<requests, got>>
    BY <1>16 DEF redirect
  <2>2. m_request' = 0 /\ IF m_request = 0 THEN ended' = ended ELSE ended' = [ended EXCEPT ![m_request] = <<"error">>]
    BY <2>1, ErrorEffect
  <2> QED
    BY <2>1, <2>2, EndsExchange
<1>17. CASE redirect /\ ~(info[cur].redirect_times > max_redirects)
  <2>1. pc = "header" /\ m_request' = cur /\ UNCHANGED <<requests, got, ended>>
    BY <1>17 DEF redirect, connect_host, Replace
  <2>2. m_request = cur
    BY <2>1 DEF Current
  <2> QED
    BY <2>1, <2>2 DEF Exchange!vars
<1>18. CASE handle_response_header
  BY <1>18 DEF handle_response_header, Exchange!vars
<1>19. CASE process_body_data
  <2>1. /\ pc = "body" /\ UNCHANGED <<m_request, requests, ended>>
        /\ got' = [got EXCEPT ![m_request] = got[m_request] \o data]
    BY <1>19 DEF process_body_data
  <2>2. m_request = cur /\ cur \in Requests /\ data \in Seq(Tokens)
    BY <2>1, PartAtHand
  <2>3. m_request # 0 /\ Len(data) \in Nat /\ got \in [Requests -> Seq(Tokens)] /\ got[m_request] \in Seq(Tokens)
    BY <2>2, LenProperties DEF Requests, TypeOK, Tables
  <2>4. got'[m_request] = got[m_request] \o data
    BY <2>1, <2>2, <2>3
  <2>5. CASE data = <<>>
    <3>1. got'[m_request] = got[m_request]
      BY <2>3, <2>4, <2>5, ConcatEmptySeq
    <3>2. got' = got
      BY <2>1, <2>3, <2>4, <3>1
    <3> QED
      BY <2>1, <3>2 DEF Exchange!vars
  <2>6. CASE data # <<>>
    <3>1. Len(data) > 0
      BY <2>2, <2>3, <2>6, EmptySeq
    <3>2. Len(got'[m_request]) = Len(got[m_request]) + Len(data) /\ Len(got[m_request]) \in Nat
      BY <2>2, <2>3, <2>4, ConcatProperties, LenProperties
    <3>3. Len(got'[m_request]) > Len(got[m_request])
      BY <2>3, <3>1, <3>2
    <3>4. got'[m_request] = [i \in 1 .. info'[m_request].received_size |-> BodyToken(m_request, i)]
      BY <2>1, <2>3 DEF Marks
    <3>5. info'[m_request].received_size \in Nat
      BY <2>2 DEF TypeOK, Tables, Infos
    <3>6. got'[m_request] = [i \in 1 .. Len(got'[m_request]) |-> BodyToken(m_request, i)]
      BY <3>4, <3>5
    <3>7. got' = [got EXCEPT ![m_request] = got'[m_request]]
      BY <2>1, <2>4
    <3>8. Exchange!Deliver
      BY <2>1, <2>3, <3>3, <3>6, <3>7 DEF Exchange!Deliver
    <3> QED
      BY <3>8 DEF Exchange!Next
  <2> QED
    BY <2>5, <2>6
<1>20. CASE receive_tail
  BY <1>20 DEF receive_tail, check_receive, Return, Exchange!vars
<1>21. CASE listener_returns /\ Refuse
  BY <1>21 DEF listener_returns, Refuse, Return, Exchange!vars
<1>22. CASE listener_returns /\ Accept /\ m_request = 0 /\ (AllReceived \/ data # <<>>)
  <2>1. m_request' = 0 /\ UNCHANGED <<requests, got, ended>>
    BY <1>22 DEF listener_returns, Accept, on_complete, DoClose, Replace, Return
  <2> QED
    BY <2>1, EndsExchange
<1>23. CASE listener_returns /\ Accept /\ m_request # 0 /\ AllReceived
  <2>1. /\ m_request # 0 /\ m_request' = 0 /\ UNCHANGED <<requests, got>>
        /\ ended' = [ended EXCEPT ![m_request] = Append(@, "complete")]
    BY <1>23 DEF listener_returns, Accept, on_complete
  <2>2. ended' = [ended EXCEPT ![m_request] = <<"complete">>]
    BY <2>1, EndsOnce
  <2> QED
    BY <2>1, <2>2, EndsExchange
<1>24. CASE listener_returns /\ Accept /\ ~AllReceived /\ ~(data # <<>> /\ m_request = 0)
  BY <1>24 DEF listener_returns, Accept, Exchange!vars
<1>25. CASE complete_returns
  BY <1>25 DEF complete_returns, Exchange!vars
<1>26. CASE error_returns
  BY <1>26 DEF error_returns, Return, Exchange!vars
<1>27. CASE NativeConnect
  BY <1>27 DEF NativeConnect, Exchange!vars
<1>28. CASE NativeResolve
  BY <1>28 DEF NativeResolve, Exchange!vars
<1>29. CASE ServerRespond
  BY <1>29 DEF ServerRespond, Exchange!vars
<1>30. CASE NativeReceive
  BY <1>30 DEF NativeReceive, Exchange!vars
<1>31. CASE UNCHANGED vars
  BY <1>31 DEF vars, Exchange!vars
<1> QED
  BY <1>1, <1>2, <1>3, <1>4, <1>5, <1>6, <1>7, <1>8, <1>9, <1>10, <1>11, <1>12, <1>13, <1>14,
     <1>15, <1>16, <1>17, <1>18, <1>19, <1>20, <1>21, <1>22, <1>23, <1>24, <1>25, <1>26,
     <1>27, <1>28, <1>29, <1>30, <1>31 DEF Next, Api, Handler, Native, listener_returns

\* http_connection_impl keeps HttpExchange's promise to a careful listener: one
\* request after the other, each with the content of its own response in order
\* and with at most one final call.
THEOREM ConnectionImplementsExchange ==
  ASSUME CarefulListener
  PROVE  Spec => ImplementsExchange
<1>1. Init => Exchange!Init
  BY DEF Init, Exchange!Init, Requests
<1>2. ConnectionInv /\ ConnectionInv' /\ [Next]_vars => [Exchange!Next]_(Exchange!vars)
  BY ExchangeStep DEF ConnectionInv
<1> QED
  BY <1>1, <1>2, ConnectionInvariant, PTL DEF Spec, ImplementsExchange, Exchange!Spec
=============================================================================
