-------------------------- MODULE TcpSocketProofs --------------------------
(***************************************************************************)
(* Proofs about TcpSocket for every number of connections and buffers and  *)
(* every queue limit.                                                      *)
(***************************************************************************)
EXTENDS TcpSocket, SequenceTheorems, TLAPS

\* native.close() turns what is in flight into io_service queue entries.
LEMMA AbortedType ==
    ASSUME TypeOK, NEW k \in Kinds
    PROVE  /\ Aborted(k) \in Seq(Completion)
           /\ Len(Aborted(k)) = Len(inflight[k])
           /\ \A i \in 1 .. Len(inflight[k]) :
                Aborted(k)[i] = Done(k, "error", inflight[k][i])
<1>1. inflight[k] \in Seq(Buffer)
  BY DEF TypeOK
<1>2. \A i \in 1 .. Len(inflight[k]) :
        Done(k, "error", inflight[k][i]) \in Completion
  BY <1>1 DEF Done, Completion, Results
<1>3. DOMAIN inflight[k] = 1 .. Len(inflight[k]) /\ Len(inflight[k]) \in Nat
  BY <1>1, LenProperties
<1> DEFINE n == Len(inflight[k])
           a == [i \in 1 .. n |-> Done(k, "error", inflight[k][i])]
<1>4. Aborted(k) = a
  BY <1>3 DEF Aborted
<1> HIDE DEF n
<1>5. a \in [1 .. n -> Completion]
  BY <1>2 DEF n
<1>6. a \in Seq(Completion) /\ Len(a) = n
  BY <1>3, <1>5 DEF n
<1>7. \A i \in 1 .. n : a[i] = Done(k, "error", inflight[k][i])
  OBVIOUS
<1> QED
  BY <1>4, <1>6, <1>7 DEF n

\* close() queues completions for what was in flight.
LEMMA AllAbortedType ==
    ASSUME TypeOK
    PROVE  ready \o AllAborted \in Seq(Completion)
<1>1. /\ Aborted("recv") \in Seq(Completion)
      /\ Aborted("send") \in Seq(Completion)
      /\ Aborted("connect") \in Seq(Completion)
  BY AbortedType DEF Kinds
<1>2. ready \in Seq(Completion)
  BY DEF TypeOK
<1> QED
  BY <1>1, <1>2 DEF AllAborted

\* The operations of a closed and of a connecting socket.
LEMMA NothingInFlightType ==
    /\ NoBuffer \in Buffer
    /\ NothingInFlight \in [Kinds -> Seq(Buffer)]
    /\ OnlyConnect \in [Kinds -> Seq(Buffer)]
<1>1. NoBuffer \in Buffer
  BY DEF NoBuffer, Buffer
<1>2. <<>> \in Seq(Buffer) /\ <<NoBuffer>> \in Seq(Buffer)
  BY <1>1
<1> QED
  BY <1>1, <1>2 DEF NothingInFlight, OnlyConnect

\* do_close() keeps the types.
LEMMA CloseType ==
    ASSUME TypeOK, do_close
    PROVE  /\ m_connected' \in BOOLEAN /\ native' \in NativeStates
           /\ inflight' \in [Kinds -> Seq(Buffer)] /\ ready' \in Seq(Completion)
  BY AllAbortedType, NothingInFlightType DEF do_close, NativeStates

\* A started operation, on an open socket or on a closed one.
LEMMA StartType ==
    ASSUME TypeOK, NEW k \in Kinds, NEW b \in Buffer, Start(k, b)
    PROVE  inflight' \in [Kinds -> Seq(Buffer)] /\ ready' \in Seq(Completion)
<1>1. Done(k, "error", b) \in Completion
  BY DEF Done, Completion, Results
<1>2. inflight \in [Kinds -> Seq(Buffer)] /\ ready \in Seq(Completion)
  BY DEF TypeOK
<1>3. CASE is_open
  <2>1. Append(inflight[k], b) \in Seq(Buffer)
    BY <1>2
  <2> QED
    BY <1>2, <1>3, <2>1 DEF Start
<1>4. CASE ~is_open
  <2>1. inflight' = inflight /\ ready' = Append(ready, Done(k, "error", b))
    BY <1>4 DEF Start
  <2> QED
    BY <1>1, <1>2, <2>1
<1> QED
  BY <1>3, <1>4

\* A finished operation moves from inflight to ready.
LEMMA FinishType ==
    ASSUME TypeOK, NEW k \in Kinds, NEW res \in Results, Finish(k, res)
    PROVE  /\ inflight' \in [Kinds -> Seq(Buffer)] /\ ready' \in Seq(Completion)
           /\ Head(inflight[k]) \in Buffer
<1>1. inflight \in [Kinds -> Seq(Buffer)] /\ ready \in Seq(Completion)
  BY DEF TypeOK
<1>2. inflight[k] \in Seq(Buffer) /\ inflight[k] # <<>>
  BY <1>1 DEF Finish
<1>3. Head(inflight[k]) \in Buffer /\ Tail(inflight[k]) \in Seq(Buffer)
  BY <1>2
<1>4. Done(k, res, Head(inflight[k])) \in Completion
  BY <1>3 DEF Done, Completion, Results
<1> QED
  BY <1>1, <1>3, <1>4 DEF Finish

\* Taking a completion keeps the types.
LEMMA DispatchType ==
    ASSUME TypeOK, NEW k \in Kinds, Dispatch(k)
    PROVE  /\ ready' \in Seq(Completion)
           /\ Head(ready) \in Completion
           /\ Head(ready).res \in Results
<1>1. ready \in Seq(Completion) /\ ready # <<>> /\ ready' = Tail(ready)
  BY DEF TypeOK, Dispatch
<1>2. Head(ready) \in Completion /\ Tail(ready) \in Seq(Completion)
  BY <1>1
<1> QED
  BY <1>1, <1>2 DEF Completion

\* process_sending_queue() keeps the types.
LEMMA ProcessType ==
    ASSUME TypeOK, NEW q \in Seq(Buffer), process_sending_queue(q)
    PROVE  /\ m_sending_queue' \in Seq(Buffer)
           /\ inflight' \in [Kinds -> Seq(Buffer)]
<1>1. inflight \in [Kinds -> Seq(Buffer)]
  BY DEF TypeOK
<1>2. CASE is_open /\ q # <<>>
  <2>1. Head(q) \in Buffer
    BY <1>2
  <2> QED
    BY <1>1, <1>2, <2>1 DEF process_sending_queue, Kinds
<1>3. CASE ~(is_open /\ q # <<>>)
  BY <1>1, <1>3 DEF process_sending_queue
<1> QED
  BY <1>2, <1>3

\* A new socket has its types.
LEMMA InitType == Init => TypeOK
<1> SUFFICES ASSUME Init PROVE TypeOK
  OBVIOUS
<1>1. m_connected \in BOOLEAN /\ m_receiving \in BOOLEAN /\ listening \in BOOLEAN
  BY DEF Init
<1>2. /\ native \in NativeStates
      /\ conn \in Nat /\ accepted \in Nat /\ reported \in Nat
  BY DEF Init, NativeStates
<1>3. /\ m_sending_queue \in Seq(Buffer) /\ ready \in Seq(Completion)
      /\ wire \in Seq(Buffer)
  BY DEF Init
<1>4. m_max_sending_queue_size \in Nat \ {0}
  BY TcpSocketAssumption DEF Init
<1>5. inflight \in [Kinds -> Seq(Buffer)]
  BY NothingInFlightType DEF Init
<1> QED
  BY <1>1, <1>2, <1>3, <1>4, <1>5 DEF TypeOK

\* Every step of the socket, its caller and boost.asio keeps the types.
LEMMA NextType ==
    ASSUME TypeOK, [Next]_vars
    PROVE  TypeOK'
<1> USE TcpSocketAssumption DEF history, member
<1>1. CASE close
  BY <1>1, CloseType DEF TypeOK, close
<1>2. CASE destroy
  BY <1>2, CloseType DEF TypeOK, destroy
<1>3. CASE connect
  <2>1. m_connected' \in BOOLEAN
    BY <1>3 DEF connect
  <2> QED
    BY <1>3, <2>1, AllAbortedType, NothingInFlightType DEF TypeOK, connect, NativeStates
<1>4. CASE send_n
  <2> DEFINE b == [conn |-> conn, n |-> accepted + 1]
             q == Append(m_sending_queue, b)
  <2>1. b \in Buffer
    BY DEF TypeOK, Buffer
  <2>2. q \in Seq(Buffer)
    BY <2>1 DEF TypeOK
  <2>3. m_sending_queue' \in Seq(Buffer) /\ inflight' \in [Kinds -> Seq(Buffer)]
    <3>1. CASE Len(q) = 1
      <4>1. process_sending_queue(q)
        BY <1>4, <3>1 DEF send_n
      <4> HIDE DEF q
      <4> QED
        BY <2>2, <4>1, ProcessType
    <3>2. CASE Len(q) # 1
      BY <1>4, <2>2, <3>2 DEF send_n, TypeOK
    <3> QED
      BY <3>1, <3>2
  <2> QED
    BY <1>4, <2>3 DEF TypeOK, send_n
<1>5. CASE receive
  <2>1. NoBuffer \in Buffer /\ "recv" \in Kinds
    BY DEF NoBuffer, Buffer, Kinds
  <2> QED
    BY <1>5, <2>1, StartType DEF TypeOK, receive
<1>6. CASE receive_n
  <2>1. NoBuffer \in Buffer /\ "recv" \in Kinds
    BY DEF NoBuffer, Buffer, Kinds
  <2> QED
    BY <1>6, <2>1, StartType DEF TypeOK, receive_n
<1>7. CASE set_max_sending_queue_size
  BY <1>7 DEF TypeOK, set_max_sending_queue_size
<1>8. CASE on_connect
  <2>1. m_connected' \in BOOLEAN /\ m_receiving' \in BOOLEAN
    BY <1>8 DEF on_connect
  <2>2. m_sending_queue' \in Seq(Buffer)
    BY <1>8 DEF on_connect, TypeOK
  <2> QED
    BY <1>8, <2>1, <2>2, DispatchType DEF TypeOK, on_connect, Kinds
<1>9. CASE on_receive
  <2>1. m_connected' \in BOOLEAN /\ m_receiving' \in BOOLEAN
    BY <1>9 DEF on_receive
  <2>2. m_sending_queue' \in Seq(Buffer)
    BY <1>9 DEF on_receive, TypeOK
  <2> QED
    BY <1>9, <2>1, <2>2, DispatchType DEF TypeOK, on_receive, Kinds
<1>10. CASE on_send
  <2>1. ready' \in Seq(Completion) /\ Head(ready).res \in Results
    BY <1>10, DispatchType DEF on_send, Kinds
  <2>2. CASE Head(ready).res # "ok" \/ m_sending_queue = <<>>
    <3>1. m_connected' \in BOOLEAN
      BY <1>10 DEF on_send
    <3>2. m_sending_queue' = <<>> /\ UNCHANGED <<inflight, reported>>
      BY <1>10, <2>2 DEF on_send
    <3>3. m_sending_queue' \in Seq(Buffer)
      BY <3>2
    <3> QED
      BY <1>10, <2>1, <3>1, <3>2, <3>3 DEF TypeOK, on_send
  <2>3. CASE ~(Head(ready).res # "ok" \/ m_sending_queue = <<>>)
    <3>1. PopAndContinue
      BY <1>10, <2>3 DEF on_send
    <3>2. Tail(m_sending_queue) \in Seq(Buffer)
      BY <2>3 DEF TypeOK
    <3>3. m_sending_queue' \in Seq(Buffer) /\ inflight' \in [Kinds -> Seq(Buffer)]
      BY <3>1, <3>2, ProcessType DEF PopAndContinue
    <3>4. reported' \in Nat
      BY <3>1 DEF PopAndContinue, TypeOK
    <3> QED
      BY <1>10, <2>1, <3>3, <3>4 DEF TypeOK, on_send
  <2> QED
    BY <2>2, <2>3
<1>11. CASE NativeConnect
  <2> PICK res \in Results : /\ Finish("connect", res)
                             /\ native' = IF res = "ok" THEN "established" ELSE "failed"
    BY <1>11 DEF NativeConnect
  <2> QED
    BY <1>11, FinishType DEF TypeOK, NativeConnect, NativeStates, Kinds
<1>12. CASE NativeReceive
  <2> PICK res \in Results : Finish("recv", res)
    BY <1>12 DEF NativeReceive
  <2> QED
    BY <1>12, FinishType DEF TypeOK, NativeReceive, Kinds
<1>13. CASE NativeWrite
  <2> PICK res \in Results :
        /\ Finish("send", res)
        /\ wire' = IF res = "ok" THEN Append(wire, Head(inflight["send"])) ELSE wire
    BY <1>13 DEF NativeWrite
  <2>1. /\ inflight' \in [Kinds -> Seq(Buffer)] /\ ready' \in Seq(Completion)
        /\ Head(inflight["send"]) \in Buffer
    BY FinishType DEF Kinds
  <2> QED
    BY <1>13, <2>1 DEF TypeOK, NativeWrite
<1>14. CASE UNCHANGED vars
  BY <1>14 DEF TypeOK, vars
<1> QED
  BY <1>1, <1>2, <1>3, <1>4, <1>5, <1>6, <1>7, <1>8, <1>9, <1>10, <1>11, <1>12,
     <1>13, <1>14 DEF Next, UserCall, Handler, Native

\* The socket's fields and its boost.asio state keep their types, whatever the
\* caller does.
THEOREM TypeCorrect == Spec => []TypeOK
  BY InitType, NextType, PTL DEF Spec

----------------------------------------------------------------------------
(* The careful caller.                                                     *)

\* A completed write whose handler has not run.
OkWaiting == \E i \in DOMAIN ready : ready[i].kind = "send" /\ ready[i].res = "ok"
OkCount == IF OkWaiting THEN 1 ELSE 0

\* Nothing is in flight on a closed native socket.
ClosedIdle == ~is_open => \A k \in Kinds : inflight[k] = <<>>

\* While a connect is outstanding the socket has no other business.
ConnectAlone ==
    Outstanding("connect") =>
      /\ ~m_connected
      /\ ~Outstanding("recv") /\ ~Outstanding("send")
      /\ m_sending_queue = <<>>
      /\ accepted = 0 /\ wire = <<>> /\ reported = 0

\* A non-empty queue has its first buffer's write outstanding, and while
\* connected the converse holds.
QueueHasWriter ==
    /\ m_sending_queue # <<>> => Outstanding("send")
    /\ m_connected /\ Outstanding("send") => m_sending_queue # <<>>
    /\ ~m_connected /\ is_open => m_sending_queue = <<>>

\* The queue holds the last buffers accepted, in order.
QueueNumbered ==
    /\ Len(m_sending_queue) <= accepted
    /\ \A i \in DOMAIN m_sending_queue :
         m_sending_queue[i] = [conn |-> conn,
                               n |-> accepted - Len(m_sending_queue) + i]

\* The buffer being written is the one after those already on the wire.
WriterNumbered ==
    inflight["send"] # <<>> =>
      Head(inflight["send"]) = [conn |-> conn, n |-> Len(wire) + 1]

\* While connected, what was accepted is on the wire or in the queue.
Accounting ==
    m_connected =>
      IF is_open THEN Len(wire) = accepted - Len(m_sending_queue) + OkCount
      ELSE /\ m_sending_queue = <<>> /\ ~Outstanding("send")
           /\ wire = <<>> /\ reported = 0

IInv ==
    /\ TypeOK /\ OnePerKind /\ ReceivingFlag
    /\ ClosedIdle /\ ConnectAlone
    /\ QueueHasWriter /\ QueueNumbered /\ WriterNumbered
    /\ Accounting /\ WireInOrder /\ WritesReported

InReady(k) == \E i \in DOMAIN ready : ready[i].kind = k

\* OnePerKind without the quantifier over kinds in its last part.
LEMMA OnePerKindParts ==
    ASSUME TypeOK
    PROVE  OnePerKind <=>
             /\ \A k \in Kinds : Len(inflight[k]) <= 1
             /\ \A k \in Kinds : InReady(k) => inflight[k] = <<>>
             /\ \A i, j \in DOMAIN ready : ready[i].kind = ready[j].kind => i = j
<1>1. \A i \in DOMAIN ready : ready[i].kind \in Kinds
  <2>1. ready \in Seq(Completion)
    BY DEF TypeOK
  <2>2. \A i \in DOMAIN ready : ready[i] \in Completion
    BY <2>1
  <2> QED
    BY <2>2 DEF Completion
<1> QED
  BY <1>1 DEF OnePerKind, InReady

\* With at most one operation of a kind in flight, at most one is aborted.
LEMMA AbortedOne ==
    ASSUME TypeOK, OnePerKind, NEW k \in Kinds
    PROVE  /\ Aborted(k) \in Seq(Completion) /\ Len(Aborted(k)) \in 0 .. 1
           /\ Len(Aborted(k)) = 0 <=> inflight[k] = <<>>
           /\ Len(Aborted(k)) = 1 =>
                Aborted(k)[1].kind = k /\ Aborted(k)[1].res = "error"
<1>1. inflight[k] \in Seq(Buffer) /\ Len(inflight[k]) <= 1
  BY DEF TypeOK, OnePerKind
<1>2. Len(inflight[k]) \in 0 .. 1 /\ (Len(inflight[k]) = 0 <=> inflight[k] = <<>>)
  <2>1. Len(inflight[k]) \in Nat
    BY <1>1
  <2>2. Len(inflight[k]) = 0 <=> inflight[k] = <<>>
    BY <1>1, EmptySeq
  <2>3. \A n \in Nat : n <= 1 => n \in 0 .. 1
    OBVIOUS
  <2> QED
    BY <1>1, <2>1, <2>2, <2>3
<1>3. /\ Aborted(k) \in Seq(Completion) /\ Len(Aborted(k)) = Len(inflight[k])
      /\ \A i \in 1 .. Len(inflight[k]) :
           Aborted(k)[i] = Done(k, "error", inflight[k][i])
  BY AbortedType
<1>4. Len(inflight[k]) = 1 => Aborted(k)[1] = Done(k, "error", inflight[k][1])
  BY <1>3
<1> DEFINE d == Done(k, "error", inflight[k][1])
<1>5. d.kind = k /\ d.res = "error"
  BY DEF Done
<1> HIDE DEF d
<1>6. Len(inflight[k]) = 1 => Aborted(k)[1] = d
  BY <1>4 DEF d
<1> QED
  BY <1>2, <1>3, <1>5, <1>6

\* The entries native.close() posts: one error per operation in flight.
LEMMA AllAbortedParts ==
    ASSUME TypeOK, OnePerKind
    PROVE  /\ AllAborted \in Seq(Completion)
           /\ \A i \in DOMAIN AllAborted :
                /\ AllAborted[i].res = "error"
                /\ AllAborted[i].kind \in Kinds
                /\ inflight[AllAborted[i].kind] # <<>>
           /\ \A k \in Kinds : inflight[k] # <<>> =>
                \E i \in DOMAIN AllAborted : AllAborted[i].kind = k
           /\ \A i, j \in DOMAIN AllAborted :
                AllAborted[i].kind = AllAborted[j].kind => i = j
<1> DEFINE r == Aborted("recv")
           s == Aborted("send")
           c == Aborted("connect")
<1>1. /\ r \in Seq(Completion) /\ Len(r) \in 0 .. 1
      /\ Len(r) = 0 <=> inflight["recv"] = <<>>
      /\ Len(r) = 1 => r[1].kind = "recv" /\ r[1].res = "error"
  BY AbortedOne DEF Kinds
<1>2. /\ s \in Seq(Completion) /\ Len(s) \in 0 .. 1
      /\ Len(s) = 0 <=> inflight["send"] = <<>>
      /\ Len(s) = 1 => s[1].kind = "send" /\ s[1].res = "error"
  BY AbortedOne DEF Kinds
<1>3. /\ c \in Seq(Completion) /\ Len(c) \in 0 .. 1
      /\ Len(c) = 0 <=> inflight["connect"] = <<>>
      /\ Len(c) = 1 => c[1].kind = "connect" /\ c[1].res = "error"
  BY AbortedOne DEF Kinds
<1> HIDE DEF r, s, c
<1> DEFINE a == (r \o s) \o c
<1>4. /\ a \in Seq(Completion) /\ Len(a) = Len(r) + Len(s) + Len(c)
      /\ \A i \in 1 .. Len(a) :
           a[i] = IF i <= Len(r) THEN r[i]
                  ELSE IF i <= Len(r) + Len(s) THEN s[i - Len(r)]
                  ELSE c[i - (Len(r) + Len(s))]
  <2>1. /\ r \o s \in Seq(Completion) /\ Len(r \o s) = Len(r) + Len(s)
        /\ \A i \in 1 .. Len(r) + Len(s) :
             (r \o s)[i] = IF i <= Len(r) THEN r[i] ELSE s[i - Len(r)]
    BY <1>1, <1>2, ConcatProperties
  <2>2. /\ a \in Seq(Completion) /\ Len(a) = Len(r \o s) + Len(c)
        /\ \A i \in 1 .. Len(r \o s) + Len(c) :
             a[i] = IF i <= Len(r \o s) THEN (r \o s)[i] ELSE c[i - Len(r \o s)]
    BY <1>3, <2>1, ConcatProperties
  <2> QED
    BY <1>1, <1>2, <1>3, <2>1, <2>2
<1>5. AllAborted = a
  BY DEF AllAborted, r, s, c
<1> HIDE DEF a
<1>6. DOMAIN a = 1 .. Len(a)
  BY <1>4
<1>7. \A i \in 1 .. Len(a) :
        \/ i = 1 /\ Len(r) = 1 /\ a[i] = r[1]
        \/ i = Len(r) + 1 /\ Len(s) = 1 /\ a[i] = s[1]
        \/ i = Len(r) + Len(s) + 1 /\ Len(c) = 1 /\ a[i] = c[1]
  <2>1. PICK l \in 0 .. 1, m \in 0 .. 1, n \in 0 .. 1 : l = Len(r) /\ m = Len(s) /\ n = Len(c)
    BY <1>1, <1>2, <1>3
  <2> SUFFICES ASSUME NEW i \in 1 .. l + m + n
               PROVE  \/ i = 1 /\ l = 1 /\ a[i] = r[1]
                      \/ i = l + 1 /\ m = 1 /\ a[i] = s[1]
                      \/ i = l + m + 1 /\ n = 1 /\ a[i] = c[1]
    BY <1>4, <2>1
  <2>2. a[i] = IF i <= l THEN r[i] ELSE IF i <= l + m THEN s[i - l] ELSE c[i - (l + m)]
    BY <1>4, <2>1
  <2>3. CASE i <= l
    <3>1. i = 1 /\ l = 1
      BY <2>3
    <3> QED
      BY <2>2, <2>3, <3>1
  <2>4. CASE ~(i <= l) /\ i <= l + m
    <3>1. m = 1 /\ i = l + 1 /\ i - l = 1
      BY <2>4
    <3> QED
      BY <2>2, <2>4, <3>1
  <2>5. CASE ~(i <= l) /\ ~(i <= l + m)
    <3>1. n = 1 /\ i = l + m + 1 /\ i - (l + m) = 1
      BY <2>5
    <3> QED
      BY <2>2, <2>5, <3>1
  <2> QED
    BY <2>3, <2>4, <2>5
<1>8. /\ Len(r) = 1 => 1 \in 1 .. Len(a) /\ a[1] = r[1]
      /\ Len(s) = 1 => Len(r) + 1 \in 1 .. Len(a) /\ a[Len(r) + 1] = s[1]
      /\ Len(c) = 1 => /\ Len(r) + Len(s) + 1 \in 1 .. Len(a)
                       /\ a[Len(r) + Len(s) + 1] = c[1]
  BY <1>1, <1>2, <1>3, <1>4
<1>9. \A k \in Kinds : k = "recv" \/ k = "send" \/ k = "connect"
  BY DEF Kinds
<1>10. "recv" \in Kinds /\ "send" \in Kinds /\ "connect" \in Kinds
  BY DEF Kinds
<1>11. \A i \in DOMAIN a : /\ a[i].res = "error" /\ a[i].kind \in Kinds
                           /\ inflight[a[i].kind] # <<>>
  BY <1>1, <1>2, <1>3, <1>6, <1>7, <1>10
<1>12. \A k \in Kinds : inflight[k] # <<>> => \E i \in DOMAIN a : a[i].kind = k
  BY <1>1, <1>2, <1>3, <1>6, <1>8, <1>9
<1>13. \A i, j \in DOMAIN a : a[i].kind = a[j].kind => i = j
  BY <1>1, <1>2, <1>3, <1>6, <1>7
<1> QED
  BY <1>4, <1>5, <1>11, <1>12, <1>13

\* close() neither loses nor repeats an operation.
LEMMA CloseReady ==
    ASSUME TypeOK, OnePerKind, do_close
    PROVE  /\ OnePerKind'
           /\ \A k \in Kinds : Outstanding(k)' <=> Outstanding(k)
           /\ OkWaiting' <=> OkWaiting
           /\ ClosedIdle'
<1> DEFINE a == AllAborted
<1>1. /\ a \in Seq(Completion)
      /\ \A i \in DOMAIN a : /\ a[i].res = "error"
                             /\ a[i].kind \in Kinds
                             /\ inflight[a[i].kind] # <<>>
      /\ \A k \in Kinds : inflight[k] # <<>> => \E i \in DOMAIN a : a[i].kind = k
      /\ \A i, j \in DOMAIN a : a[i].kind = a[j].kind => i = j
  BY AllAbortedParts
<1>2. ready' = ready \o a /\ \A k \in Kinds : inflight'[k] = <<>>
  BY DEF do_close, NothingInFlight
<1> HIDE DEF a
<1>3. ready \in Seq(Completion)
  BY DEF TypeOK
<1>4. /\ DOMAIN ready = 1 .. Len(ready) /\ DOMAIN a = 1 .. Len(a)
      /\ Len(ready) \in Nat /\ Len(a) \in Nat
      /\ DOMAIN ready' = 1 .. Len(ready) + Len(a)
      /\ \A i \in 1 .. Len(ready) + Len(a) :
           ready'[i] = IF i <= Len(ready) THEN ready[i] ELSE a[i - Len(ready)]
  BY <1>1, <1>2, <1>3, ConcatProperties
<1>5. \A i \in DOMAIN ready : ready[i].kind \in Kinds /\ inflight[ready[i].kind] = <<>>
  <2>1. \A i \in DOMAIN ready : ready[i] \in Completion
    BY <1>3
  <2> QED
    BY <2>1 DEF OnePerKind, Completion
<1>6. \A i \in DOMAIN ready, j \in DOMAIN a : ready[i].kind # a[j].kind
  BY <1>1, <1>5
<1>7. \A i \in DOMAIN ready : i \in DOMAIN ready' /\ ready'[i] = ready[i]
  BY <1>4
<1>8. \A j \in DOMAIN a : Len(ready) + j \in DOMAIN ready' /\ ready'[Len(ready) + j] = a[j]
  BY <1>4
<1>9. \A i \in DOMAIN ready' :
        \/ i \in DOMAIN ready /\ ready'[i] = ready[i]
        \/ i - Len(ready) \in DOMAIN a /\ ready'[i] = a[i - Len(ready)]
  BY <1>4
<1>10. \A k \in Kinds : InReady(k)' <=> InReady(k) \/ inflight[k] # <<>>
  BY <1>1, <1>7, <1>8, <1>9 DEF InReady
<1>11. \A i, j \in DOMAIN ready' : ready'[i].kind = ready'[j].kind => i = j
  <2>1. \A i, j \in DOMAIN ready : ready[i].kind = ready[j].kind => i = j
    BY OnePerKindParts
  <2>2. DOMAIN ready' \subseteq Nat
    BY <1>4
  <2> QED
    BY <1>1, <1>4, <1>6, <1>9, <2>1, <2>2
<1>12. OkWaiting' <=> OkWaiting
  BY <1>1, <1>7, <1>9 DEF OkWaiting
<1>13. ready' \in Seq(Completion)
  BY <1>1, <1>2, <1>3
<1>14. OnePerKind'
  <2>1. \A i \in DOMAIN ready' : ready'[i].kind \in Kinds
    BY <1>1, <1>5, <1>9
  <2>2. Len(<<>>) <= 1
    OBVIOUS
  <2> QED
    BY <1>2, <1>11, <2>1, <2>2 DEF OnePerKind
<1>15. \A k \in Kinds : Outstanding(k)' <=> Outstanding(k)
  BY <1>2, <1>10 DEF Outstanding, InReady
<1> QED
  BY <1>2, <1>12, <1>14, <1>15 DEF ClosedIdle

\* Starting an operation of a kind that has none outstanding.
LEMMA StartReady ==
    ASSUME TypeOK, OnePerKind, NEW k \in Kinds, NEW b \in Buffer,
           ~Outstanding(k), Start(k, b)
    PROVE  /\ OnePerKind'
           /\ \A j \in Kinds : Outstanding(j)' <=> Outstanding(j) \/ j = k
           /\ OkWaiting' <=> OkWaiting
           /\ \A j \in Kinds : j # k => inflight'[j] = inflight[j]
<1>1. inflight \in [Kinds -> Seq(Buffer)] /\ ready \in Seq(Completion)
  BY DEF TypeOK
<1>2. inflight[k] = <<>> /\ ~InReady(k)
  BY DEF Outstanding, InReady
<1>3. CASE is_open
  <2>1. /\ inflight'[k] = <<b>> /\ ready' = ready
        /\ \A j \in Kinds : j # k => inflight'[j] = inflight[j]
    BY <1>1, <1>2, <1>3 DEF Start
  <2>2. Len(<<b>>) = 1 /\ <<b>> # <<>> /\ 1 <= 1
    OBVIOUS
  <2>3. OnePerKind'
    <3>1. \A j \in Kinds : Len(inflight'[j]) <= 1
      BY <2>1, <2>2 DEF OnePerKind
    <3>2. \A j \in Kinds, i \in DOMAIN ready : ready[i].kind = j => inflight'[j] = <<>>
      BY <1>2, <2>1 DEF OnePerKind, InReady
    <3> QED
      BY <2>1, <3>1, <3>2 DEF OnePerKind
  <2>4. \A j \in Kinds : Outstanding(j)' <=> Outstanding(j) \/ j = k
    BY <2>1, <2>2 DEF Outstanding
  <2>5. OkWaiting' <=> OkWaiting
    BY <2>1 DEF OkWaiting
  <2> QED
    BY <2>1, <2>3, <2>4, <2>5
<1>4. CASE ~is_open
  <2> DEFINE d == Done(k, "error", b)
  <2>1. ready' = Append(ready, d) /\ inflight' = inflight
    BY <1>4 DEF Start
  <2>2. d.kind = k /\ d.res = "error"
    BY DEF Done
  <2> HIDE DEF d
  <2>3. /\ DOMAIN ready' = 1 .. Len(ready) + 1 /\ ready'[Len(ready) + 1] = d
        /\ DOMAIN ready = 1 .. Len(ready) /\ Len(ready) \in Nat
        /\ \A i \in DOMAIN ready : ready'[i] = ready[i]
    BY <1>1, <2>1
  <2>4. OnePerKind'
    <3>1. \A i \in DOMAIN ready' : i \in DOMAIN ready \/ i = Len(ready) + 1
      BY <2>3
    <3>2. \A i \in DOMAIN ready' :
            \/ i \in DOMAIN ready /\ ready'[i] = ready[i] /\ ready[i].kind # k
            \/ i = Len(ready) + 1 /\ ready'[i].kind = k
      BY <1>2, <2>2, <2>3, <3>1 DEF InReady
    <3> QED
      BY <1>2, <2>1, <3>2 DEF OnePerKind
  <2>5. \A j \in Kinds : Outstanding(j)' <=> Outstanding(j) \/ j = k
    BY <2>1, <2>2, <2>3 DEF Outstanding
  <2>6. OkWaiting' <=> OkWaiting
    BY <2>2, <2>3 DEF OkWaiting
  <2> QED
    BY <2>1, <2>4, <2>5, <2>6
<1> QED
  BY <1>3, <1>4

\* A native operation that ends stays outstanding until its handler runs.
LEMMA FinishReady ==
    ASSUME TypeOK, OnePerKind, NEW k \in Kinds, NEW res \in Results, Finish(k, res)
    PROVE  /\ OnePerKind'
           /\ \A j \in Kinds : Outstanding(j)' <=> Outstanding(j)
           /\ OkWaiting' <=> OkWaiting \/ (k = "send" /\ res = "ok")
           /\ \A j \in Kinds : j # k => inflight'[j] = inflight[j]
           /\ inflight'[k] = <<>>
           /\ ~InReady(k)
<1>1. inflight \in [Kinds -> Seq(Buffer)] /\ ready \in Seq(Completion)
  BY DEF TypeOK
<1>2. inflight[k] \in Seq(Buffer) /\ inflight[k] # <<>> /\ Len(inflight[k]) <= 1
  BY <1>1 DEF Finish, OnePerKind
<1>3. Tail(inflight[k]) = <<>>
  BY <1>2
<1>4. ~InReady(k)
  BY <1>2 DEF OnePerKind, InReady
<1>5. /\ inflight'[k] = <<>>
      /\ \A j \in Kinds : j # k => inflight'[j] = inflight[j]
  BY <1>1, <1>3 DEF Finish
<1> DEFINE d == Done(k, res, Head(inflight[k]))
<1>6. ready' = Append(ready, d) /\ d.kind = k /\ d.res = res
  BY DEF Done, Finish
<1> HIDE DEF d
<1>7. /\ DOMAIN ready' = 1 .. Len(ready) + 1 /\ ready'[Len(ready) + 1] = d
      /\ DOMAIN ready = 1 .. Len(ready) /\ Len(ready) \in Nat
      /\ \A i \in DOMAIN ready : ready'[i] = ready[i]
  BY <1>1, <1>6
<1>8. OnePerKind'
  BY <1>4, <1>5, <1>6, <1>7 DEF OnePerKind, InReady
<1>9. \A j \in Kinds : Outstanding(j)' <=> Outstanding(j)
  BY <1>2, <1>5, <1>6, <1>7 DEF Outstanding
<1>10. OkWaiting' <=> OkWaiting \/ (k = "send" /\ res = "ok")
  BY <1>6, <1>7 DEF OkWaiting
<1> QED
  BY <1>4, <1>5, <1>8, <1>9, <1>10

\* A handler that runs takes the only entry of its kind off the queue.
LEMMA DispatchReady ==
    ASSUME TypeOK, OnePerKind, NEW k \in Kinds, Dispatch(k)
    PROVE  /\ \A j \in Kinds : InReady(j)' <=> InReady(j) /\ j # k
           /\ \A i, j \in DOMAIN ready' : ready'[i].kind = ready'[j].kind => i = j
           /\ OkWaiting' <=> OkWaiting /\ k # "send"
           /\ k = "send" => (OkWaiting <=> Head(ready).res = "ok")
           /\ InReady(k) /\ inflight[k] = <<>>
<1>1. /\ ready \in Seq(Completion) /\ ready # <<>> /\ ready' = Tail(ready)
      /\ Head(ready).kind = k
  BY DEF TypeOK, Dispatch
<1>2. /\ Len(ready) \in Nat \ {0} /\ DOMAIN ready = 1 .. Len(ready)
      /\ DOMAIN ready' = 1 .. Len(ready) - 1 /\ ready[1].kind = k
      /\ Head(ready) = ready[1]
      /\ \A i \in 1 .. Len(ready) - 1 : ready'[i] = ready[i + 1]
  BY <1>1
<1>3. /\ \A i, j \in DOMAIN ready : ready[i].kind = ready[j].kind => i = j
      /\ InReady(k) => inflight[k] = <<>>
  BY OnePerKindParts
<1>4. \A i \in DOMAIN ready : i = 1 \/ (i - 1 \in DOMAIN ready' /\ ready'[i - 1] = ready[i])
  BY <1>2
<1>5. \A i \in DOMAIN ready' :
        i + 1 \in DOMAIN ready /\ i + 1 # 1 /\ ready'[i] = ready[i + 1] /\ i \in Nat
  BY <1>2
<1>6. 1 \in DOMAIN ready
  BY <1>2
<1>7. \A i \in DOMAIN ready : ready[i].kind = k => i = 1
  BY <1>2, <1>3, <1>6
<1>8. \A j \in Kinds : InReady(j)' <=> InReady(j) /\ j # k
  BY <1>2, <1>4, <1>5, <1>7 DEF InReady
<1>9. \A i, j \in DOMAIN ready' : ready'[i].kind = ready'[j].kind => i = j
  BY <1>3, <1>5
<1>10. OkWaiting' <=> OkWaiting /\ k # "send"
  BY <1>2, <1>4, <1>5, <1>7 DEF OkWaiting
<1>11. k = "send" => (OkWaiting <=> Head(ready).res = "ok")
  BY <1>2, <1>6, <1>7 DEF OkWaiting
<1>12. InReady(k)
  BY <1>2, <1>6 DEF InReady
<1> QED
  BY <1>3, <1>8, <1>9, <1>10, <1>11, <1>12

\* A write whose completion is queued is still outstanding to the socket.
LEMMA WaitingIsOutstanding ==
    ASSUME OkWaiting PROVE Outstanding("send")
  BY DEF OkWaiting, Outstanding

\* A new socket satisfies the inductive invariant.
LEMMA IInvInit ==
    ASSUME Init PROVE IInv
<1>1. TypeOK
  BY InitType
<1>2. /\ \A k \in Kinds : inflight[k] = <<>>
      /\ ready = <<>> /\ DOMAIN ready = {} /\ Len(<<>>) = 0
  BY DEF Init, NothingInFlight
<1>3. \A k \in Kinds : ~Outstanding(k)
  BY <1>2 DEF Outstanding
<1>4. ~Outstanding("connect") /\ ~Outstanding("recv") /\ ~Outstanding("send")
  BY <1>3 DEF Kinds
<1>5. inflight["send"] = <<>>
  BY <1>2 DEF Kinds
<1>6. /\ m_sending_queue = <<>> /\ wire = <<>> /\ accepted = 0 /\ reported = 0
      /\ ~m_receiving /\ DOMAIN <<>> = {} /\ Len(<<>>) = 0
  BY DEF Init
<1>7. OnePerKind
  BY <1>2 DEF OnePerKind
<1>8. ReceivingFlag /\ ClosedIdle /\ ConnectAlone /\ QueueHasWriter /\ WriterNumbered
  BY <1>2, <1>4, <1>5, <1>6
     DEF ReceivingFlag, ClosedIdle, ConnectAlone, QueueHasWriter, WriterNumbered
<1>9. QueueNumbered /\ WireInOrder
  BY <1>6 DEF QueueNumbered, WireInOrder
<1>10. OkCount = 0
  BY <1>2 DEF OkCount, OkWaiting
<1>11. Accounting /\ WritesReported
  BY <1>4, <1>6, <1>10 DEF Accounting, WritesReported, OkCount, OkWaiting
<1> QED
  BY <1>1, <1>7, <1>8, <1>9, <1>11 DEF IInv

\* do_close(): the invariant survives the abort of everything in flight.
LEMMA IInvClose ==
    ASSUME IInv, TypeOK', do_close,
           UNCHANGED <<m_receiving, m_sending_queue, history>>
    PROVE  IInv'
<1>1. /\ OnePerKind' /\ ClosedIdle' /\ (OkWaiting' <=> OkWaiting)
      /\ \A k \in Kinds : Outstanding(k)' <=> Outstanding(k)
  BY CloseReady DEF IInv
<1>2. /\ Outstanding("connect")' <=> Outstanding("connect")
      /\ Outstanding("recv")' <=> Outstanding("recv")
      /\ Outstanding("send")' <=> Outstanding("send")
  BY <1>1 DEF Kinds
<1>3. ~m_connected' /\ ~is_open' /\ inflight'["send"] = <<>>
  BY DEF do_close, is_open, NothingInFlight, Kinds
<1>4. ReceivingFlag' /\ ConnectAlone' /\ QueueHasWriter' /\ WriterNumbered'
  BY <1>2, <1>3
     DEF IInv, ReceivingFlag, ConnectAlone, QueueHasWriter, WriterNumbered, history
<1>5. QueueNumbered' /\ WireInOrder'
  BY DEF IInv, QueueNumbered, WireInOrder, history
<1>6. Accounting' /\ WritesReported'
  BY <1>3 DEF Accounting, WritesReported
<1> QED
  BY <1>1, <1>4, <1>5, <1>6 DEF IInv

\* With nothing outstanding, close() finds nothing to abort.
LEMMA DrainedEmpty ==
    ASSUME TypeOK, OnePerKind, Drained
    PROVE  ready \o AllAborted = <<>>
<1>1. ready \in Seq(Completion) /\ AllAborted \in Seq(Completion)
  BY AllAbortedParts DEF TypeOK
<1>2. ready = <<>>
  <2> SUFFICES ASSUME ready # <<>> PROVE FALSE
    OBVIOUS
  <2>1. 1 \in DOMAIN ready /\ ready[1] \in Completion
    BY <1>1
  <2>2. ready[1].kind \in Kinds
    BY <2>1 DEF Completion
  <2> QED
    BY <2>1, <2>2 DEF Drained, Outstanding
<1>3. AllAborted = <<>>
  <2> SUFFICES ASSUME AllAborted # <<>> PROVE FALSE
    OBVIOUS
  <2>1. 1 \in DOMAIN AllAborted
    BY <1>1
  <2>2. AllAborted[1].kind \in Kinds /\ inflight[AllAborted[1].kind] # <<>>
    BY <2>1, AllAbortedParts
  <2> QED
    BY <2>2 DEF Drained, Outstanding
<1> QED
  BY <1>1, <1>2, <1>3, ConcatEmptySeq

\* open() and connect(): nothing of the earlier connection is left.
LEMMA IInvConnect ==
    ASSUME IInv, TypeOK', CarefulCaller, connect
    PROVE  IInv'
<1>1. Drained
  BY DEF connect
<1>2. /\ ready' = <<>> /\ DOMAIN ready' = {}
  BY <1>1, DrainedEmpty DEF connect, IInv
<1>3. /\ inflight'["connect"] = <<NoBuffer>> /\ inflight'["recv"] = <<>>
      /\ inflight'["send"] = <<>> /\ <<NoBuffer>> # <<>>
      /\ \A k \in Kinds : Len(inflight'[k]) <= 1
  BY DEF connect, OnlyConnect, Kinds
<1>4. ~Outstanding("connect") /\ ~Outstanding("recv") /\ ~Outstanding("send")
  BY <1>1 DEF Drained, Kinds
<1>5. ~Outstanding("recv")' /\ ~Outstanding("send")'
  BY <1>2, <1>3 DEF Outstanding
<1>6. /\ m_sending_queue' = <<>> /\ ~m_receiving'
  BY <1>4 DEF IInv, QueueHasWriter, ReceivingFlag, connect
<1>7. /\ ~m_connected' /\ is_open' /\ accepted' = 0 /\ wire' = <<>> /\ reported' = 0
      /\ DOMAIN <<>> = {} /\ Len(<<>>) = 0
  BY DEF connect, is_open
<1>8. OnePerKind'
  BY <1>2, <1>3 DEF OnePerKind
<1>9. ReceivingFlag' /\ ClosedIdle' /\ ConnectAlone' /\ QueueHasWriter' /\ WriterNumbered'
  BY <1>3, <1>5, <1>6, <1>7
     DEF ReceivingFlag, ClosedIdle, ConnectAlone, QueueHasWriter, WriterNumbered
<1>10. QueueNumbered' /\ WireInOrder'
  BY <1>6, <1>7 DEF QueueNumbered, WireInOrder
<1>11. Accounting' /\ WritesReported'
  BY <1>7 DEF Accounting, WritesReported
<1> QED
  BY <1>8, <1>9, <1>10, <1>11 DEF IInv

\* send_n on an empty queue of an open socket starts a write.
LEMMA IInvSendFirst ==
    ASSUME IInv, TypeOK', CarefulCaller, send_n, m_sending_queue = <<>>, is_open
    PROVE  IInv'
<1> DEFINE b == [conn |-> conn, n |-> accepted + 1]
<1>1. /\ m_connected /\ m_connected' = m_connected /\ native' = native /\ is_open'
      /\ ready' = ready /\ accepted' = accepted + 1 /\ m_receiving' = m_receiving
      /\ conn' = conn /\ wire' = wire /\ reported' = reported
      /\ listening' = listening
  BY DEF send_n, is_open
<1>2. Append(m_sending_queue, b) = <<b>> /\ Len(<<b>>) = 1 /\ Head(<<b>>) = b /\ <<b>> # <<>>
  OBVIOUS
<1>3. process_sending_queue(<<b>>)
  BY <1>2 DEF send_n
<1>4. m_sending_queue' = <<b>> /\ Start("send", b)
  BY <1>1, <1>2, <1>3 DEF process_sending_queue, Start
<1>5. ~Outstanding("send") /\ ~Outstanding("connect") /\ ~OkWaiting
  BY <1>1, WaitingIsOutstanding DEF IInv, QueueHasWriter, ConnectAlone
<1>6. b \in Buffer /\ "send" \in Kinds
  BY DEF IInv, TypeOK, Buffer, Kinds
<1>7. /\ OnePerKind' /\ (OkWaiting' <=> OkWaiting)
      /\ \A j \in Kinds : Outstanding(j)' <=> Outstanding(j) \/ j = "send"
  BY <1>4, <1>5, <1>6, StartReady DEF IInv
<1>8. /\ ~Outstanding("connect")' /\ Outstanding("send")'
      /\ Outstanding("recv")' <=> Outstanding("recv")
  BY <1>5, <1>7 DEF Kinds
<1>9. inflight'["send"] = <<b>>
  <2>1. inflight \in [Kinds -> Seq(Buffer)] /\ inflight["send"] = <<>>
    BY <1>5 DEF IInv, TypeOK, Outstanding
  <2> QED
    BY <1>4, <1>6, <2>1 DEF Start
<1>10. Len(wire) = accepted /\ accepted \in Nat /\ Len(m_sending_queue) = 0
  BY <1>1, <1>5 DEF IInv, Accounting, OkCount, TypeOK
<1> HIDE DEF b
<1>11. ReceivingFlag' /\ ClosedIdle' /\ ConnectAlone' /\ QueueHasWriter'
  BY <1>1, <1>2, <1>4, <1>8
     DEF IInv, ReceivingFlag, ClosedIdle, ConnectAlone, QueueHasWriter
<1>12. WriterNumbered'
  BY <1>1, <1>2, <1>9, <1>10 DEF WriterNumbered, b
<1>13. QueueNumbered'
  <2>1. Len(m_sending_queue') = 1 /\ DOMAIN m_sending_queue' = {1} /\ m_sending_queue'[1] = b
    BY <1>4
  <2> QED
    BY <1>1, <1>10, <2>1 DEF QueueNumbered, b
<1>14. Accounting'
  <2>1. OkCount' = 0 /\ Len(m_sending_queue') = 1
    BY <1>2, <1>4, <1>5, <1>7 DEF OkCount
  <2> QED
    BY <1>1, <1>10, <2>1 DEF Accounting
<1>15. WireInOrder'
  BY <1>1 DEF IInv, WireInOrder
<1>16. WritesReported'
  BY <1>1 DEF IInv, WritesReported
<1> QED
  BY <1>7, <1>11, <1>12, <1>13, <1>14, <1>15, <1>16 DEF IInv

\* send_n behind another buffer only queues.
LEMMA IInvSendQueued ==
    ASSUME IInv, TypeOK', CarefulCaller, send_n, m_sending_queue # <<>>
    PROVE  IInv'
<1> DEFINE b == [conn |-> conn, n |-> accepted + 1]
<1>1. /\ m_connected /\ m_connected' = m_connected /\ native' = native
      /\ ready' = ready /\ accepted' = accepted + 1 /\ m_receiving' = m_receiving
      /\ conn' = conn /\ wire' = wire /\ reported' = reported
      /\ listening' = listening
  BY DEF send_n
<1>2. /\ m_sending_queue \in Seq(Buffer) /\ b \in Buffer /\ accepted \in Nat
  BY DEF IInv, TypeOK, Buffer
<1>3. /\ Len(m_sending_queue) \in Nat \ {0}
      /\ Len(Append(m_sending_queue, b)) = Len(m_sending_queue) + 1
  BY <1>2
<1>4. m_sending_queue' = Append(m_sending_queue, b) /\ inflight' = inflight
  <2>1. Len(Append(m_sending_queue, b)) # 1
    BY <1>3
  <2> QED
    BY <2>1 DEF send_n
<1>5. /\ Len(m_sending_queue') = Len(m_sending_queue) + 1
      /\ DOMAIN m_sending_queue' = 1 .. Len(m_sending_queue) + 1
      /\ DOMAIN m_sending_queue = 1 .. Len(m_sending_queue)
      /\ \A i \in 1 .. Len(m_sending_queue) : m_sending_queue'[i] = m_sending_queue[i]
      /\ m_sending_queue'[Len(m_sending_queue) + 1] = b
      /\ m_sending_queue' # <<>>
  BY <1>2, <1>4
<1> HIDE DEF b
<1>6. is_open /\ is_open'
  BY <1>1 DEF IInv, Accounting, is_open
<1>7. \A k \in Kinds : Outstanding(k)' <=> Outstanding(k)
  BY <1>1, <1>4 DEF Outstanding
<1>8. /\ Outstanding("connect")' <=> Outstanding("connect")
      /\ Outstanding("recv")' <=> Outstanding("recv")
      /\ Outstanding("send")' <=> Outstanding("send")
  BY <1>7 DEF Kinds
<1>9. OnePerKind'
  BY <1>1, <1>4 DEF IInv, OnePerKind
<1>10. ReceivingFlag' /\ ClosedIdle' /\ ConnectAlone' /\ QueueHasWriter'
  BY <1>1, <1>5, <1>6, <1>8
     DEF IInv, ReceivingFlag, ClosedIdle, ConnectAlone, QueueHasWriter
<1>11. WriterNumbered' /\ WireInOrder' /\ WritesReported'
  BY <1>1, <1>4 DEF IInv, WriterNumbered, WireInOrder, WritesReported
<1>12. QueueNumbered'
  <2>1. /\ Len(m_sending_queue) <= accepted
        /\ \A i \in 1 .. Len(m_sending_queue) :
             m_sending_queue[i] = [conn |-> conn,
                                   n |-> accepted - Len(m_sending_queue) + i]
    BY <1>5 DEF IInv, QueueNumbered
  <2>2. accepted' - Len(m_sending_queue') = accepted - Len(m_sending_queue)
    BY <1>1, <1>2, <1>3, <1>5
  <2>3. accepted - Len(m_sending_queue) + (Len(m_sending_queue) + 1) = accepted + 1
    BY <1>2, <1>3
  <2>4. \A i \in DOMAIN m_sending_queue' :
          i \in 1 .. Len(m_sending_queue) \/ i = Len(m_sending_queue) + 1
    BY <1>3, <1>5
  <2>5. m_sending_queue'[Len(m_sending_queue) + 1] =
          [conn |-> conn', n |-> accepted - Len(m_sending_queue) + (Len(m_sending_queue) + 1)]
    BY <1>1, <1>5, <2>3 DEF b
  <2>6. Len(m_sending_queue') <= accepted'
    BY <1>1, <1>2, <1>3, <1>5, <2>1
  <2> QED
    BY <1>1, <1>5, <2>1, <2>2, <2>4, <2>5, <2>6 DEF QueueNumbered
<1>13. Accounting'
  <2>1. OkCount' = OkCount /\ OkCount \in Nat
    BY <1>1 DEF OkCount, OkWaiting
  <2>2. Len(wire) = accepted - Len(m_sending_queue) + OkCount
    BY <1>1, <1>6 DEF IInv, Accounting
  <2> QED
    BY <1>1, <1>2, <1>3, <1>5, <1>6, <2>1, <2>2 DEF Accounting
<1> QED
  BY <1>9, <1>10, <1>11, <1>12, <1>13 DEF IInv

\* After close() raced a successful connect, send_n drops the buffer.
LEMMA IInvSendClosed ==
    ASSUME IInv, TypeOK', CarefulCaller, send_n, m_sending_queue = <<>>, ~is_open
    PROVE  IInv'
<1> DEFINE b == [conn |-> conn, n |-> accepted + 1]
<1>1. /\ m_connected /\ m_connected' = m_connected /\ native' = native /\ ~is_open'
      /\ ready' = ready /\ accepted' = accepted + 1 /\ m_receiving' = m_receiving
      /\ conn' = conn /\ wire' = wire /\ reported' = reported
      /\ listening' = listening
  BY DEF send_n, is_open
<1>2. Append(m_sending_queue, b) = <<b>> /\ Len(<<b>>) = 1
  OBVIOUS
<1>3. process_sending_queue(<<b>>)
  BY <1>2 DEF send_n
<1>4. m_sending_queue' = <<>> /\ inflight' = inflight
  BY <1>3 DEF process_sending_queue
<1>5. \A k \in Kinds : Outstanding(k)' <=> Outstanding(k)
  BY <1>1, <1>4 DEF Outstanding
<1>6. /\ Outstanding("connect")' <=> Outstanding("connect")
      /\ Outstanding("recv")' <=> Outstanding("recv")
      /\ Outstanding("send")' <=> Outstanding("send")
  BY <1>5 DEF Kinds
<1>7. OnePerKind' /\ WriterNumbered' /\ WireInOrder' /\ WritesReported' /\ ClosedIdle'
  BY <1>1, <1>4
     DEF IInv, OnePerKind, WriterNumbered, WireInOrder, WritesReported, ClosedIdle
<1>8. ReceivingFlag' /\ ConnectAlone' /\ QueueHasWriter' /\ Accounting'
  BY <1>1, <1>4, <1>6
     DEF IInv, ReceivingFlag, ConnectAlone, QueueHasWriter, Accounting
<1>9. QueueNumbered'
  <2>1. Len(<<>>) = 0 /\ DOMAIN <<>> = {} /\ accepted \in Nat
    BY DEF IInv, TypeOK
  <2> QED
    BY <1>1, <1>4, <2>1 DEF QueueNumbered
<1> QED
  BY <1>7, <1>8, <1>9 DEF IInv

\* receive() starts the only read.
LEMMA IInvReceive ==
    ASSUME IInv, TypeOK', m_connected, ~m_receiving, m_receiving' = TRUE,
           Start("recv", NoBuffer),
           UNCHANGED <<m_connected, m_sending_queue, m_max_sending_queue_size,
                       listening, native, history>>
    PROVE  IInv'
<1>1. NoBuffer \in Buffer /\ "recv" \in Kinds
  BY NothingInFlightType DEF Kinds
<1>2. ~Outstanding("recv") /\ ~Outstanding("connect")
  BY DEF IInv, ReceivingFlag, ConnectAlone
<1>3. /\ OnePerKind' /\ (OkWaiting' <=> OkWaiting)
      /\ \A j \in Kinds : Outstanding(j)' <=> Outstanding(j) \/ j = "recv"
      /\ \A j \in Kinds : j # "recv" => inflight'[j] = inflight[j]
  BY <1>1, <1>2, StartReady DEF IInv
<1>4. /\ ~Outstanding("connect")' /\ Outstanding("recv")'
      /\ Outstanding("send")' <=> Outstanding("send")
      /\ inflight'["send"] = inflight["send"]
  BY <1>2, <1>3 DEF Kinds
<1>5. ClosedIdle'
  <2>1. ~is_open => inflight' = inflight
    BY DEF Start
  <2> QED
    BY <2>1 DEF IInv, ClosedIdle, is_open
<1>6. ReceivingFlag' /\ ConnectAlone' /\ QueueHasWriter' /\ WriterNumbered'
  BY <1>4 DEF IInv, ReceivingFlag, ConnectAlone, QueueHasWriter, WriterNumbered,
              history, is_open
<1>7. QueueNumbered' /\ WireInOrder'
  BY DEF IInv, QueueNumbered, WireInOrder, history
<1>8. OkCount' = OkCount
  BY <1>3 DEF OkCount
<1>9. Accounting'
  BY <1>4, <1>8 DEF IInv, Accounting, history, is_open
<1>10. WritesReported'
  BY <1>8 DEF IInv, WritesReported, OkCount, OkWaiting, history
<1> QED
  BY <1>3, <1>5, <1>6, <1>7, <1>9, <1>10 DEF IInv

\* What a handler of kind k leaves outstanding when it starts nothing.
LEMMA HandlerReady ==
    ASSUME IInv, TypeOK', NEW k \in Kinds, Dispatch(k), inflight' = inflight
    PROVE  /\ OnePerKind'
           /\ \A j \in Kinds : Outstanding(j)' <=> Outstanding(j) /\ j # k
           /\ OkWaiting' <=> OkWaiting /\ k # "send"
           /\ Outstanding(k)
<1>1. /\ \A j \in Kinds : InReady(j)' <=> InReady(j) /\ j # k
      /\ \A i, j \in DOMAIN ready' : ready'[i].kind = ready'[j].kind => i = j
      /\ OkWaiting' <=> OkWaiting /\ k # "send"
      /\ InReady(k) /\ inflight[k] = <<>>
  BY DispatchReady DEF IInv
<1>2. OnePerKind'
  <2>1. /\ \A j \in Kinds : Len(inflight[j]) <= 1
        /\ \A j \in Kinds : InReady(j) => inflight[j] = <<>>
    BY OnePerKindParts DEF IInv
  <2>2. /\ \A j \in Kinds : Len(inflight'[j]) <= 1
        /\ \A j \in Kinds : InReady(j)' => inflight'[j] = <<>>
    BY <1>1, <2>1
  <2> QED
    BY <1>1, <2>2 DEF OnePerKind, InReady
<1>3. \A j \in Kinds : Outstanding(j)' <=> Outstanding(j) /\ j # k
  BY <1>1 DEF Outstanding, InReady
<1> QED
  BY <1>1, <1>2, <1>3 DEF Outstanding, InReady

\* on_connect, successful or not.
LEMMA IInvOnConnect ==
    ASSUME IInv, TypeOK', on_connect PROVE IInv'
<1>1. /\ Dispatch("connect") /\ "connect" \in Kinds /\ inflight' = inflight
      /\ m_sending_queue' = <<>> /\ ~m_receiving' /\ native' = native
      /\ conn' = conn /\ accepted' = accepted /\ wire' = wire /\ reported' = reported
      /\ Len(<<>>) = 0 /\ DOMAIN <<>> = {}
  BY DEF on_connect, history, Kinds
<1>2. /\ OnePerKind' /\ Outstanding("connect")
      /\ \A j \in Kinds : Outstanding(j)' <=> Outstanding(j) /\ j # "connect"
      /\ OkWaiting' <=> OkWaiting
  BY <1>1, HandlerReady
<1>3. /\ ~Outstanding("recv") /\ ~Outstanding("send")
      /\ accepted = 0 /\ wire = <<>> /\ reported = 0
  BY <1>2 DEF IInv, ConnectAlone
<1>4. ~Outstanding("connect")' /\ ~Outstanding("recv")' /\ ~Outstanding("send")'
  BY <1>2, <1>3 DEF Kinds
<1>5. ReceivingFlag' /\ ClosedIdle' /\ ConnectAlone' /\ QueueHasWriter'
  BY <1>1, <1>4
     DEF IInv, ReceivingFlag, ClosedIdle, ConnectAlone, QueueHasWriter, is_open
<1>6. WriterNumbered' /\ WireInOrder'
  BY <1>1 DEF IInv, WriterNumbered, WireInOrder
<1>7. QueueNumbered'
  BY <1>1, <1>3 DEF QueueNumbered
<1>8. OkCount' = 0 /\ ~OkWaiting'
  <2>1. ~OkWaiting
    BY <1>3, WaitingIsOutstanding
  <2> QED
    BY <1>2, <2>1 DEF OkCount
<1>9. Accounting'
  <2>0. Len(wire') = 0 /\ accepted' = 0 /\ Len(m_sending_queue') = 0 /\ OkCount' = 0
    BY <1>1, <1>3, <1>8
  <2>1. Len(wire') = accepted' - Len(m_sending_queue') + OkCount'
    BY <2>0
  <2> QED
    BY <1>1, <1>3, <1>4, <2>1 DEF Accounting
<1>10. WritesReported'
  BY <1>1, <1>3, <1>8 DEF WritesReported, OkWaiting
<1> QED
  BY <1>2, <1>5, <1>6, <1>7, <1>9, <1>10 DEF IInv

\* on_receive, successful or not.
LEMMA IInvOnReceive ==
    ASSUME IInv, TypeOK', on_receive PROVE IInv'
<1>1. /\ Dispatch("recv") /\ "recv" \in Kinds /\ inflight' = inflight
      /\ ~m_receiving' /\ native' = native /\ listening' = listening
      /\ conn' = conn /\ accepted' = accepted /\ wire' = wire /\ reported' = reported
      /\ Len(<<>>) = 0 /\ DOMAIN <<>> = {}
  BY DEF on_receive, history, Kinds
<1>2. \/ ~m_connected' /\ m_sending_queue' = <<>>
      \/ m_connected' = m_connected /\ m_sending_queue' = m_sending_queue
  <2>1. CASE Head(ready).res = "ok"
    <3>1. m_sending_queue' = m_sending_queue /\ (m_connected' <=> m_connected)
      BY <2>1 DEF on_receive
    <3>2. m_connected \in BOOLEAN /\ m_connected' \in BOOLEAN
      BY DEF IInv, TypeOK
    <3> QED
      BY <3>1, <3>2
  <2>2. CASE Head(ready).res # "ok"
    BY <2>2 DEF on_receive
  <2> QED
    BY <2>1, <2>2
<1>3. /\ OnePerKind' /\ Outstanding("recv")
      /\ \A j \in Kinds : Outstanding(j)' <=> Outstanding(j) /\ j # "recv"
      /\ OkWaiting' <=> OkWaiting
  BY <1>1, HandlerReady
<1>4. /\ ~Outstanding("recv")' /\ ~Outstanding("connect")'
      /\ Outstanding("send")' <=> Outstanding("send")
  BY <1>3 DEF IInv, ConnectAlone, Kinds
<1>5. ReceivingFlag' /\ ClosedIdle' /\ ConnectAlone'
  BY <1>1, <1>4 DEF IInv, ReceivingFlag, ClosedIdle, ConnectAlone, is_open
<1>6. QueueHasWriter'
  BY <1>1, <1>2, <1>4 DEF IInv, QueueHasWriter, is_open
<1>7. WriterNumbered' /\ WireInOrder'
  BY <1>1 DEF IInv, WriterNumbered, WireInOrder
<1>8. QueueNumbered'
  <2>1. accepted \in Nat
    BY DEF IInv, TypeOK
  <2> QED
    BY <1>1, <1>2, <2>1 DEF IInv, QueueNumbered
<1>9. OkCount' = OkCount
  BY <1>3 DEF OkCount
<1>10. Accounting'
  BY <1>1, <1>2, <1>4, <1>9 DEF IInv, Accounting, is_open
<1>11. WritesReported'
  BY <1>1, <1>2, <1>9 DEF IInv, WritesReported, OkCount, OkWaiting
<1> QED
  BY <1>3, <1>5, <1>6, <1>7, <1>8, <1>10, <1>11 DEF IInv

\* on_send that pops nothing: an error, or a queue another handler cleared.
LEMMA IInvOnSendGivesUp ==
    ASSUME IInv, TypeOK', on_send,
           Head(ready).res # "ok" \/ m_sending_queue = <<>>
    PROVE  IInv'
<1>1. /\ Dispatch("send") /\ "send" \in Kinds /\ inflight' = inflight
      /\ m_sending_queue' = <<>> /\ m_receiving' = m_receiving /\ native' = native
      /\ conn' = conn /\ accepted' = accepted /\ wire' = wire /\ reported' = reported
      /\ Len(<<>>) = 0 /\ DOMAIN <<>> = {}
  BY DEF on_send, Kinds
<1>2. /\ OnePerKind' /\ Outstanding("send")
      /\ \A j \in Kinds : Outstanding(j)' <=> Outstanding(j) /\ j # "send"
  BY <1>1, HandlerReady
<1>3. ~m_connected'
  <2>1. m_connected' <=> m_connected /\ Head(ready).res = "ok"
    BY DEF on_send
  <2>2. m_connected => m_sending_queue # <<>>
    BY <1>2 DEF IInv, QueueHasWriter
  <2> QED
    BY <2>1, <2>2
<1>4. /\ ~Outstanding("send")' /\ ~Outstanding("connect")'
      /\ Outstanding("recv")' <=> Outstanding("recv")
  BY <1>2 DEF IInv, ConnectAlone, Kinds
<1>5. ReceivingFlag' /\ ClosedIdle' /\ ConnectAlone' /\ QueueHasWriter'
  BY <1>1, <1>3, <1>4
     DEF IInv, ReceivingFlag, ClosedIdle, ConnectAlone, QueueHasWriter, is_open
<1>6. WriterNumbered' /\ WireInOrder'
  BY <1>1 DEF IInv, WriterNumbered, WireInOrder
<1>7. QueueNumbered'
  <2>1. accepted \in Nat
    BY DEF IInv, TypeOK
  <2> QED
    BY <1>1, <2>1 DEF QueueNumbered
<1>8. Accounting' /\ WritesReported'
  BY <1>3 DEF Accounting, WritesReported
<1> QED
  BY <1>2, <1>5, <1>6, <1>7, <1>8 DEF IInv

\* on_send that pops the front of a closed socket's queue.
LEMMA IInvOnSendClosed ==
    ASSUME IInv, TypeOK', on_send, Head(ready).res = "ok",
           m_sending_queue # <<>>, ~is_open
    PROVE  IInv'
<1>1. /\ Dispatch("send") /\ "send" \in Kinds /\ inflight' = inflight
      /\ m_sending_queue' = <<>> /\ m_receiving' = m_receiving /\ native' = native
      /\ conn' = conn /\ accepted' = accepted /\ wire' = wire
      /\ Len(<<>>) = 0 /\ DOMAIN <<>> = {}
  BY DEF on_send, PopAndContinue, process_sending_queue, Kinds
<1>2. /\ OnePerKind' /\ Outstanding("send")
      /\ \A j \in Kinds : Outstanding(j)' <=> Outstanding(j) /\ j # "send"
  BY <1>1, HandlerReady
<1>3. ~m_connected'
  BY DEF IInv, Accounting, on_send
<1>4. /\ ~Outstanding("send")' /\ ~Outstanding("connect")'
      /\ Outstanding("recv")' <=> Outstanding("recv")
  BY <1>2 DEF IInv, ConnectAlone, Kinds
<1>5. ReceivingFlag' /\ ClosedIdle' /\ ConnectAlone' /\ QueueHasWriter'
  BY <1>1, <1>3, <1>4
     DEF IInv, ReceivingFlag, ClosedIdle, ConnectAlone, QueueHasWriter, is_open
<1>6. WriterNumbered' /\ WireInOrder'
  BY <1>1 DEF IInv, WriterNumbered, WireInOrder
<1>7. QueueNumbered'
  <2>1. accepted \in Nat
    BY DEF IInv, TypeOK
  <2> QED
    BY <1>1, <2>1 DEF QueueNumbered
<1>8. Accounting' /\ WritesReported'
  BY <1>3 DEF Accounting, WritesReported
<1> QED
  BY <1>2, <1>5, <1>6, <1>7, <1>8 DEF IInv

\* on_send that pops the front of an open socket's queue and writes the next.
LEMMA IInvOnSendNext ==
    ASSUME IInv, TypeOK', on_send, Head(ready).res = "ok",
           m_sending_queue # <<>>, is_open
    PROVE  IInv'
<1> DEFINE q == Tail(m_sending_queue)
<1>1. /\ Dispatch("send") /\ "send" \in Kinds /\ "connect" \in Kinds /\ "recv" \in Kinds
      /\ m_receiving' = m_receiving /\ native' = native /\ listening' = listening
      /\ conn' = conn /\ accepted' = accepted /\ wire' = wire
  BY DEF on_send, Kinds
<1>2. PopAndContinue
  BY DEF on_send
<1>3. /\ m_sending_queue' = q
      /\ reported' = IF listening THEN reported + 1 ELSE reported
      /\ inflight' = IF q # <<>>
                     THEN [inflight EXCEPT !["send"] = Append(@, Head(q))]
                     ELSE inflight
  BY <1>2 DEF PopAndContinue, process_sending_queue
<1>4. m_connected
  BY DEF IInv, QueueHasWriter
<1>5. m_connected' = m_connected
  <2>1. m_connected' <=> m_connected
    BY DEF on_send
  <2>2. m_connected \in BOOLEAN /\ m_connected' \in BOOLEAN
    BY DEF IInv, TypeOK
  <2> QED
    BY <2>1, <2>2
<1>6. /\ \A j \in Kinds : InReady(j)' <=> InReady(j) /\ j # "send"
      /\ \A i, j \in DOMAIN ready' : ready'[i].kind = ready'[j].kind => i = j
      /\ ~OkWaiting' /\ OkWaiting
      /\ InReady("send") /\ inflight["send"] = <<>>
  BY <1>1, DispatchReady DEF IInv
<1>7. ~Outstanding("connect")
  BY <1>4 DEF IInv, ConnectAlone
<1>8. /\ m_sending_queue \in Seq(Buffer) /\ Len(m_sending_queue) \in Nat \ {0}
      /\ q \in Seq(Buffer) /\ Len(q) = Len(m_sending_queue) - 1
      /\ DOMAIN q = 1 .. Len(m_sending_queue) - 1
      /\ DOMAIN m_sending_queue = 1 .. Len(m_sending_queue)
      /\ \A i \in 1 .. Len(m_sending_queue) - 1 : q[i] = m_sending_queue[i + 1]
      /\ q # <<>> => Head(q) = q[1] /\ Head(q) \in Buffer
  <2>1. m_sending_queue \in Seq(Buffer)
    BY DEF IInv, TypeOK
  <2>2. /\ Len(m_sending_queue) \in Nat \ {0}
        /\ q \in Seq(Buffer) /\ Len(q) = Len(m_sending_queue) - 1
        /\ \A i \in 1 .. Len(q) : q[i] = m_sending_queue[i + 1]
    BY <2>1, EmptySeq, HeadTailProperties
  <2> HIDE DEF q
  <2>3. /\ DOMAIN q = 1 .. Len(q) /\ DOMAIN m_sending_queue = 1 .. Len(m_sending_queue)
        /\ q # <<>> => Head(q) = q[1] /\ Head(q) \in Buffer /\ 1 \in 1 .. Len(q)
    BY <2>1, <2>2
  <2> QED
    BY <2>1, <2>2, <2>3
<1>9. /\ inflight \in [Kinds -> Seq(Buffer)]
      /\ accepted \in Nat /\ Len(wire) \in Nat /\ reported \in Nat
  BY DEF IInv, TypeOK
<1> HIDE DEF q
<1>10. /\ \A j \in Kinds : j # "send" => inflight'[j] = inflight[j]
       /\ inflight'["send"] = IF q # <<>> THEN <<Head(q)>> ELSE <<>>
  BY <1>1, <1>3, <1>6, <1>8, <1>9
<1>11. /\ Len(<<Head(q)>>) = 1 /\ <<Head(q)>> # <<>> /\ Head(<<Head(q)>>) = Head(q)
       /\ Len(<<>>) = 0
  OBVIOUS
<1>12. OnePerKind'
  <2>1. /\ \A j \in Kinds : Len(inflight[j]) <= 1
        /\ \A j \in Kinds : InReady(j) => inflight[j] = <<>>
    BY OnePerKindParts DEF IInv
  <2>2. \A j \in Kinds : Len(inflight'[j]) <= 1
    <3>1. Len(inflight'["send"]) <= 1
      BY <1>10, <1>11
    <3>2. \A j \in Kinds \ {"send"} : Len(inflight'[j]) <= 1
      <4>1. \A j \in Kinds \ {"send"} : inflight'[j] = inflight[j]
        BY <1>10
      <4> QED
        BY <2>1, <4>1
    <3> QED
      BY <3>1, <3>2
  <2>3. \A j \in Kinds : InReady(j)' => inflight'[j] = <<>>
    BY <1>6, <1>10, <2>1
  <2> QED
    BY <1>6, <2>2, <2>3 DEF OnePerKind, InReady
<1>13. /\ ~Outstanding("connect")'
       /\ Outstanding("recv")' <=> Outstanding("recv")
       /\ Outstanding("send")' <=> q # <<>>
  <2>1. \A j \in Kinds : Outstanding(j)' <=> InReady(j)' \/ inflight'[j] # <<>>
    BY DEF Outstanding, InReady
  <2>2. \A j \in Kinds : Outstanding(j) <=> InReady(j) \/ inflight[j] # <<>>
    BY DEF Outstanding, InReady
  <2> QED
    BY <1>1, <1>6, <1>7, <1>10, <1>11, <2>1, <2>2
<1>14. Len(wire) = accepted - Len(m_sending_queue) + 1
  BY <1>4, <1>6 DEF IInv, Accounting, OkCount
<1>15. /\ Len(m_sending_queue) <= accepted
       /\ \A i \in 1 .. Len(m_sending_queue) :
            m_sending_queue[i] = [conn |-> conn,
                                  n |-> accepted - Len(m_sending_queue) + i]
  BY <1>8 DEF IInv, QueueNumbered
<1>16. ReceivingFlag' /\ ClosedIdle' /\ ConnectAlone' /\ QueueHasWriter'
  BY <1>1, <1>3, <1>4, <1>5, <1>13
     DEF IInv, ReceivingFlag, ClosedIdle, ConnectAlone, QueueHasWriter, is_open
<1>17. \A i \in DOMAIN q : q[i] = [conn |-> conn, n |-> accepted - Len(q) + i]
  <2> SUFFICES ASSUME NEW i \in DOMAIN q
               PROVE  q[i] = [conn |-> conn, n |-> accepted - Len(q) + i]
    OBVIOUS
  <2>1. i + 1 \in 1 .. Len(m_sending_queue) /\ q[i] = m_sending_queue[i + 1]
    BY <1>8
  <2>2. accepted - Len(m_sending_queue) + (i + 1) = accepted - Len(q) + i
    BY <1>8, <1>9
  <2>3. q[i] = [conn |-> conn, n |-> accepted - Len(m_sending_queue) + (i + 1)]
    BY <1>15, <2>1
  <2> QED
    BY <2>2, <2>3
<1>18. QueueNumbered'
  <2>1. Len(q) <= accepted
    BY <1>8, <1>9, <1>15
  <2> QED
    BY <1>1, <1>3, <1>17, <2>1 DEF QueueNumbered
<1>19. WriterNumbered'
  <2>1. q # <<>> => 1 \in DOMAIN q /\ Head(q) = q[1]
    BY <1>8, LenProperties, EmptySeq
  <2>2. accepted - Len(q) + 1 = Len(wire) + 1
    BY <1>8, <1>9, <1>14
  <2>3. q # <<>> => Head(q) = [conn |-> conn, n |-> Len(wire) + 1]
    BY <1>17, <2>1, <2>2
  <2> QED
    BY <1>1, <1>10, <1>11, <2>3 DEF WriterNumbered
<1>20. OkCount' = 0
  BY <1>6 DEF OkCount
<1>21. Accounting'
  <2>1. Len(wire) = accepted - Len(q) + 0
    BY <1>8, <1>9, <1>14
  <2>2. is_open'
    BY <1>1 DEF is_open
  <2> QED
    BY <1>1, <1>3, <1>20, <2>1, <2>2 DEF Accounting
<1>22. WireInOrder'
  BY <1>1 DEF IInv, WireInOrder
<1>23. WritesReported'
  <2>1. listening => Len(wire) = reported + 1
    BY <1>4, <1>6 DEF IInv, WritesReported, OkWaiting
  <2>2. listening => Len(wire) = reported' + 0
    BY <1>3, <1>9, <2>1
  <2> QED
    BY <1>1, <1>6, <2>2 DEF WritesReported, OkWaiting
<1> QED
  BY <1>12, <1>16, <1>18, <1>19, <1>21, <1>22, <1>23 DEF IInv

\* A native operation other than a successful write.
LEMMA IInvFinish ==
    ASSUME IInv, TypeOK', NEW k \in Kinds, NEW res \in Results, Finish(k, res),
           ~(k = "send" /\ res = "ok"),
           native' # "closed", UNCHANGED <<member, history>>
    PROVE  IInv'
<1>1. /\ OnePerKind' /\ (OkWaiting' <=> OkWaiting)
      /\ \A j \in Kinds : Outstanding(j)' <=> Outstanding(j)
      /\ \A j \in Kinds : j # k => inflight'[j] = inflight[j]
      /\ inflight'[k] = <<>>
  BY FinishReady DEF IInv
<1>2. /\ Outstanding("connect")' <=> Outstanding("connect")
      /\ Outstanding("recv")' <=> Outstanding("recv")
      /\ Outstanding("send")' <=> Outstanding("send")
      /\ inflight'["send"] # <<>> => inflight'["send"] = inflight["send"]
  BY <1>1 DEF Kinds
<1>3. is_open /\ is_open'
  BY DEF IInv, ClosedIdle, Finish, is_open
<1>4. ReceivingFlag' /\ ClosedIdle' /\ ConnectAlone'
  BY <1>2, <1>3 DEF IInv, ReceivingFlag, ClosedIdle, ConnectAlone, member, history
<1>5. QueueHasWriter' /\ WriterNumbered'
  BY <1>2, <1>3 DEF IInv, QueueHasWriter, WriterNumbered, member, history
<1>6. QueueNumbered' /\ WireInOrder'
  BY DEF IInv, QueueNumbered, WireInOrder, member, history
<1>7. OkCount' = OkCount
  BY <1>1 DEF OkCount
<1>8. Accounting'
  BY <1>3, <1>7 DEF IInv, Accounting, member, history
<1>9. WritesReported'
  BY <1>7 DEF IInv, WritesReported, OkCount, OkWaiting, member, history
<1> QED
  BY <1>1, <1>4, <1>5, <1>6, <1>8, <1>9 DEF IInv

\* A write that reaches the peer.
LEMMA IInvWritten ==
    ASSUME IInv, TypeOK', Finish("send", "ok"),
           wire' = Append(wire, Head(inflight["send"])),
           UNCHANGED <<member, native, conn, accepted, reported>>
    PROVE  IInv'
<1>1. "send" \in Kinds /\ "ok" \in Results
  BY DEF Kinds, Results
<1>2. /\ OnePerKind' /\ OkWaiting'
      /\ \A j \in Kinds : Outstanding(j)' <=> Outstanding(j)
      /\ inflight'["send"] = <<>> /\ ~InReady("send")
  BY <1>1, FinishReady DEF IInv
<1>3. /\ Outstanding("connect")' <=> Outstanding("connect")
      /\ Outstanding("recv")' <=> Outstanding("recv")
      /\ Outstanding("send")' <=> Outstanding("send")
  BY <1>2 DEF Kinds
<1>4. inflight["send"] # <<>>
  BY DEF Finish
<1>5. is_open /\ is_open' /\ ~Outstanding("connect") /\ Outstanding("send")
  BY <1>1, <1>4 DEF IInv, ClosedIdle, ConnectAlone, Outstanding, is_open
<1>6. ~OkWaiting /\ OkCount = 0 /\ OkCount' = 1
  BY <1>2 DEF OkWaiting, OkCount, InReady
<1>7. /\ wire \in Seq(Buffer) /\ accepted \in Nat /\ reported \in Nat
      /\ Len(m_sending_queue) \in Nat /\ Len(wire) \in Nat
      /\ Head(inflight["send"]) \in Buffer
  <2>1. Head(inflight["send"]) \in Buffer
    BY <1>1, FinishType DEF IInv
  <2> QED
    BY <2>1 DEF IInv, TypeOK
<1>8. /\ Len(wire') = Len(wire) + 1 /\ DOMAIN wire' = 1 .. Len(wire) + 1
      /\ DOMAIN wire = 1 .. Len(wire)
      /\ \A i \in DOMAIN wire : wire'[i] = wire[i]
      /\ wire'[Len(wire) + 1] = [conn |-> conn, n |-> Len(wire) + 1]
  BY <1>4, <1>7 DEF IInv, WriterNumbered
<1>9. ReceivingFlag' /\ ClosedIdle' /\ ConnectAlone' /\ QueueHasWriter' /\ WriterNumbered'
  BY <1>2, <1>3, <1>5
     DEF IInv, ReceivingFlag, ClosedIdle, ConnectAlone, QueueHasWriter, WriterNumbered,
         member
<1>10. QueueNumbered'
  BY DEF IInv, QueueNumbered, member
<1>11. WireInOrder'
  <2>1. \A i \in DOMAIN wire' : i \in DOMAIN wire \/ i = Len(wire) + 1
    BY <1>7, <1>8
  <2> QED
    BY <1>8, <2>1 DEF IInv, WireInOrder
<1>12. Accounting'
  <2>1. m_connected => Len(wire) = accepted - Len(m_sending_queue) + 0
    BY <1>5, <1>6 DEF IInv, Accounting
  <2>2. m_connected => Len(wire') = accepted - Len(m_sending_queue) + 1
    BY <1>7, <1>8, <2>1
  <2> QED
    BY <1>5, <1>6, <2>2 DEF Accounting, member
<1>13. WritesReported'
  <2>1. m_connected /\ listening => Len(wire) = reported + 0
    BY <1>6 DEF IInv, WritesReported, OkWaiting
  <2>2. m_connected /\ listening => Len(wire') = reported + 1
    BY <1>7, <1>8, <2>1
  <2> QED
    BY <1>2, <2>2 DEF WritesReported, OkWaiting, member
<1> QED
  BY <1>2, <1>9, <1>10, <1>11, <1>12, <1>13 DEF IInv

\* Every step of a careful caller's socket preserves the invariant.
LEMMA IInvNext ==
    ASSUME IInv, [Next]_vars, CarefulCaller
    PROVE  IInv'
<1>1. TypeOK'
  BY NextType DEF IInv
<1>2. CASE close
  BY <1>1, <1>2, IInvClose DEF close
<1>3. CASE destroy
  BY <1>1, <1>3, IInvClose DEF destroy
<1>4. CASE connect
  BY <1>1, <1>4, IInvConnect
<1>5. CASE send_n
  BY <1>1, <1>5, IInvSendFirst, IInvSendQueued, IInvSendClosed
<1>6. CASE receive
  BY <1>1, <1>6, IInvReceive DEF receive
<1>7. CASE receive_n
  BY <1>1, <1>7, IInvReceive DEF receive_n
<1>8. CASE set_max_sending_queue_size
  <2>1. UNCHANGED <<m_connected, m_receiving, m_sending_queue, listening,
                    native, inflight, ready, conn, accepted, wire, reported>>
    BY <1>8 DEF set_max_sending_queue_size, history
  <2>2. OnePerKind' /\ ReceivingFlag' /\ ClosedIdle' /\ ConnectAlone'
    BY <2>1 DEF IInv, OnePerKind, ReceivingFlag, ClosedIdle, ConnectAlone,
                Outstanding, is_open
  <2>3. QueueHasWriter' /\ QueueNumbered' /\ WriterNumbered'
    BY <2>1 DEF IInv, QueueHasWriter, QueueNumbered, WriterNumbered,
                Outstanding, is_open
  <2>4. Accounting' /\ WireInOrder' /\ WritesReported'
    BY <2>1 DEF IInv, Accounting, WireInOrder, WritesReported, Outstanding,
                OkCount, OkWaiting, is_open
  <2> QED
    BY <1>1, <2>2, <2>3, <2>4 DEF IInv
<1>9. CASE on_connect
  BY <1>1, <1>9, IInvOnConnect
<1>10. CASE on_receive
  BY <1>1, <1>10, IInvOnReceive
<1>11. CASE on_send
  BY <1>1, <1>11, IInvOnSendGivesUp, IInvOnSendClosed, IInvOnSendNext
<1>12. CASE NativeConnect
  <2> PICK res \in Results : /\ Finish("connect", res)
                             /\ native' = IF res = "ok" THEN "established" ELSE "failed"
    BY <1>12 DEF NativeConnect
  <2>1. "connect" \in Kinds /\ native' # "closed" /\ UNCHANGED <<member, history>>
    BY <1>12 DEF NativeConnect, Kinds
  <2> QED
    BY <1>1, <2>1, IInvFinish
<1>13. CASE NativeReceive
  <2> PICK res \in Results : Finish("recv", res)
    BY <1>13 DEF NativeReceive
  <2>1. "recv" \in Kinds /\ native' = native /\ UNCHANGED <<member, history>>
    BY <1>13 DEF NativeReceive, Kinds
  <2>2. native # "closed"
    BY <2>1 DEF IInv, ClosedIdle, Finish, is_open
  <2> QED
    BY <1>1, <2>1, <2>2, IInvFinish
<1>14. CASE NativeWrite
  <2> PICK res \in Results :
        /\ Finish("send", res)
        /\ wire' = IF res = "ok" THEN Append(wire, Head(inflight["send"])) ELSE wire
    BY <1>14 DEF NativeWrite
  <2>1. /\ "send" \in Kinds /\ native' = native
        /\ UNCHANGED <<member, native, conn, accepted, reported>>
    BY <1>14 DEF NativeWrite, Kinds
  <2>2. CASE res = "ok"
    BY <1>1, <2>1, <2>2, IInvWritten
  <2>3. CASE res # "ok"
    <3>1. UNCHANGED <<member, history>>
      BY <2>1, <2>3 DEF history
    <3>2. native # "closed"
      BY <2>1 DEF IInv, ClosedIdle, Finish, is_open
    <3> QED
      BY <1>1, <2>1, <2>3, <3>1, <3>2, IInvFinish
  <2> QED
    BY <2>2, <2>3
<1>15. CASE UNCHANGED vars
  <2>1. UNCHANGED <<m_connected, m_receiving, m_sending_queue, listening,
                    native, inflight, ready, conn, accepted, wire, reported>>
    BY <1>15 DEF vars
  <2>2. OnePerKind' /\ ReceivingFlag' /\ ClosedIdle' /\ ConnectAlone'
    BY <2>1 DEF IInv, OnePerKind, ReceivingFlag, ClosedIdle, ConnectAlone,
                Outstanding, is_open
  <2>3. QueueHasWriter' /\ QueueNumbered' /\ WriterNumbered'
    BY <2>1 DEF IInv, QueueHasWriter, QueueNumbered, WriterNumbered,
                Outstanding, is_open
  <2>4. Accounting' /\ WireInOrder' /\ WritesReported'
    BY <2>1 DEF IInv, Accounting, WireInOrder, WritesReported, Outstanding,
                OkCount, OkWaiting, is_open
  <2> QED
    BY <1>1, <2>2, <2>3, <2>4 DEF IInv
<1> QED
  BY <1>2, <1>3, <1>4, <1>5, <1>6, <1>7, <1>8, <1>9, <1>10, <1>11, <1>12,
     <1>13, <1>14, <1>15 DEF Next, UserCall, Handler, Native

\* The inductive invariant holds for a caller that reconnects only when drained.
LEMMA InductiveInvariant == CarefulCaller /\ Spec => []IInv
<1> SUFFICES ASSUME CarefulCaller PROVE Spec => []IInv
  OBVIOUS
<1>1. Init => IInv
  BY IInvInit
<1>2. IInv /\ [Next]_vars => IInv'
  BY IInvNext
<1> QED
  BY <1>1, <1>2, PTL DEF Spec

\* With a careful caller, asio_tcp_socket never has two async_writes, two
\* async_reads or two async_connects outstanding.
THEOREM AtMostOneOperation == CarefulCaller /\ Spec => []OnePerKind
  BY InductiveInvariant, PTL DEF IInv

\* The bytes of a connection are the buffers send_n accepted for it, in order,
\* without gaps, repeats or leftovers of an earlier connection.
THEOREM InOrderDelivery == CarefulCaller /\ Spec => []WireInOrder
  BY InductiveInvariant, PTL DEF IInv

\* is_receiving() tells the truth about the outstanding read.
THEOREM ReceivingFlagSound == CarefulCaller /\ Spec => []ReceivingFlag
  BY InductiveInvariant, PTL DEF IInv

\* on_socket_send is called once for each buffer written while connected.
THEOREM EveryWriteReported == CarefulCaller /\ Spec => []WritesReported
  BY InductiveInvariant, PTL DEF IInv

\* on_connect's assert(!m_connected) cannot fail for a careful caller.
THEOREM ConnectAssertHolds == CarefulCaller /\ Spec => []ConnectAssert
<1>1. IInv => ConnectAssert
  <2> SUFFICES ASSUME IInv, ready # <<>>, Head(ready).kind = "connect"
               PROVE  ~m_connected
    BY DEF ConnectAssert
  <2>1. 1 \in DOMAIN ready /\ Head(ready) = ready[1]
    BY DEF IInv, TypeOK
  <2> QED
    BY <2>1 DEF IInv, ConnectAlone, Outstanding
<1> QED
  BY <1>1, InductiveInvariant, PTL

=============================================================================
