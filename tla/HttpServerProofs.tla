-------------------------- MODULE HttpServerProofs --------------------------
(***************************************************************************)
(* Theorems about HttpServer: a peer that does not pipeline, handlers that *)
(* follow the session's contract.                                          *)
(***************************************************************************)
EXTENDS HttpServer, SequenceTheorems, TLAPS

Tokens == [req : Nat, part : {"head", "end", "body"}, v : Int]
Events == [kind : {"recv", "send"}, res : {"ok", "error"}, data : Seq(Tokens)]
Pieces == [req : Nat, last : {"yes", "no"}]
Stages == {"idle", "header", "request", "after_request", "body", "body_data", "after_body",
           "data_sent", "after_sent"}

-----------------------------------------------------------------------------
(* Types.                                                                  *)

Words ==
  /\ registered \in {"no", "yes", "removed", "stopped"} /\ pc \in Stages
  /\ complete \in {"yes", "no"} /\ closed \in {"", "finish", "reject", "error"}
Flags ==
  /\ m_receiving_header \in BOOLEAN /\ m_finished \in BOOLEAN /\ m_keep_alive \in BOOLEAN
  /\ open \in BOOLEAN /\ receiving \in BOOLEAN /\ cut \in BOOLEAN
Counts ==
  /\ m_handler \in Nat /\ m_handled_requests \in Nat /\ m_received_body_size \in Nat
  /\ m_content_length \in Int /\ sent \in Nat /\ finals \in [Requests -> Nat]
Queues ==
  /\ m_header_buffer \in Seq(Tokens) /\ data \in Seq(Tokens) /\ stream \in Seq(Tokens)
  /\ ready \in Seq(Events) /\ queue \in Seq(Pieces) /\ wire \in Seq(Pieces)
  /\ handled \in Seq(Nat) /\ bodies \in [Requests -> Seq(Tokens)]

Types == Words /\ Flags /\ Counts /\ Queues

-----------------------------------------------------------------------------
(* The inductive invariant.                                                *)

Live == registered \in {"no", "yes"}

\* Nothing happens to a client that was removed or stopped.
Gone == ~Live => pc = "idle" /\ ~open /\ ~receiving /\ ready = <<>>

\* Nothing happens to one that was not accepted.
NotYet == registered = "no" => pc = "idle" /\ open /\ ~receiving /\ ready = <<>> /\ queue = <<>> /\ sent = 0

\* Requests are numbered as they were sent, at most one is not with a handler
\* yet, and the attached handler is the last one's.
Numbered ==
  /\ m_handled_requests = Len(handled) /\ \A i \in DOMAIN handled : handled[i] = i
  /\ sent \in {m_handled_requests, m_handled_requests + 1} /\ sent <= MaxRequests /\ m_handler \in {0, m_handled_requests}

\* Every handler but the attached one had its final call.
FinalCalls ==
  \A r \in Requests : finals[r] = IF r > m_handled_requests \/ (r = m_handler /\ registered # "removed") THEN 0 ELSE 1

OneOfAKind(evs) == \A i, j \in DOMAIN evs : evs[i].kind = evs[j].kind => i = j

\* The completions that wait: one of each kind, and what they belong to.
Completions ==
  /\ OneOfAKind(ready)
  /\ \A i \in DOMAIN ready :
       IF ready[i].kind = "recv"
       THEN receiving /\ (ready[i].res = "ok" <=> ready[i].data # <<>>)
       ELSE /\ queue # <<>> /\ ready[i].data = <<>>
            /\ ready[i].res = "ok" => wire # <<>> /\ wire[Len(wire)] = Head(queue)

Between == {"idle", "data_sent", "after_sent"}

\* Where the control is and what it has at hand.
Control ==
  /\ pc \in Between => data = <<>>
  /\ pc \notin Between => ~receiving
  /\ pc \in {"header", "body"} => data # <<>>
  /\ pc = "header" => m_receiving_header
  /\ pc \in {"request", "after_request", "body", "body_data", "after_body"} => ~m_receiving_header
  /\ pc \notin {"idle", "header", "body"} => m_handler # 0
  /\ pc = "request" => complete = "no"
  /\ pc \in {"body_data", "after_body"} => data = <<>>

\* The pieces of the response that wait are the handler's, the last one of a
\* complete response marked; what was written is of requests within the limit.
Pending ==
  /\ queue # <<>> => m_handler # 0
  /\ \A i \in DOMAIN queue :
       queue[i].req = m_handled_requests /\ (queue[i].last = "yes" <=> i = Len(queue) /\ complete = "yes")
  /\ m_finished => complete = "yes"
  /\ m_handled_requests > 0 /\ m_handler = 0 => m_finished
  /\ complete = "yes" /\ queue = <<>> => wire # <<>> /\ wire[Len(wire)].last = "yes"
Written ==
  /\ \A i \in DOMAIN wire : wire[i].req <= m_handled_requests /\ wire[i].req <= max_keep_alive_requests
  /\ Live /\ Answered(m_handled_requests) =>
       complete = "yes" /\ (queue = <<>> \/ (Len(queue) = 1 /\ \E i \in DOMAIN ready : ready[i].kind = "send" /\ ready[i].res = "ok"))

\* A kept connection's response is ended in the callback for its last piece.
KeptAnswer ==
  Live /\ m_keep_alive /\ complete = "yes" /\ m_handler # 0 =>
    open /\ (queue = <<>> => pc = "data_sent" \/ (pc = "after_sent" /\ m_finished))

\* The data of the read that waits.
ReadData(evs) == IF \E i \in DOMAIN evs : evs[i].kind = "recv"
                 THEN evs[CHOOSE i \in DOMAIN evs : evs[i].kind = "recv"].data ELSE <<>>
Arriving == ReadData(ready)
AtHand == IF m_receiving_header THEN m_header_buffer \o data ELSE data
Unread == AtHand \o (Arriving \o stream)

\* s is a whole request r; s is what is left of the body of r after m units.
Amount(len) == IF len < 0 THEN 0 ELSE len
IsRequest(s, r) ==
  \E e \in DOMAIN s :
    /\ s[e].part = "end" /\ s[e].req = r /\ \A i \in 1 .. e - 1 : s[i].part = "head"
    /\ Len(s) = e + Amount(s[e].v)
    /\ \A i \in e + 1 .. Len(s) : s[i] = Token(r, "body", i - e)
IsBody(s, r, m, len) ==
  /\ m + Len(s) = Amount(len)
  /\ \A i \in DOMAIN s : s[i] = Token(r, "body", m + i)

\* What was not read yet: the next request, or the rest of the last one's body.
Input ==
  Live =>
    /\ sent > m_handled_requests => IsRequest(Unread, sent)
    /\ sent = m_handled_requests /\ m_receiving_header => Unread = <<>>
    /\ sent = m_handled_requests /\ ~m_receiving_header => IsBody(Unread, m_handled_requests, m_received_body_size, m_content_length)
    /\ sent = m_handled_requests /\ complete = "yes" /\ m_keep_alive => Unread = <<>>

\* The next request comes after the response, and is not looked at before the
\* response has ended.
Ahead ==
  Live /\ sent > m_handled_requests /\ m_handled_requests > 0 =>
    /\ m_keep_alive /\ complete = "yes" /\ Len(queue) <= 1
    /\ m_handler # 0 =>
         /\ AtHand = <<>>
         /\ queue # <<>> => ready # <<>> /\ ~(Head(ready).kind = "recv" /\ Head(ready).res = "ok")

\* Handlers got their bodies.
Bodies ==
  /\ \A r \in Requests : \A i \in DOMAIN bodies[r] : bodies[r][i] = Token(r, "body", i)
  /\ \A r \in Requests : r > m_handled_requests => bodies[r] = <<>>
  /\ m_receiving_header => m_received_body_size = 0
  /\ Live /\ ~m_receiving_header => m_handled_requests > 0 /\ Len(bodies[m_handled_requests]) = m_received_body_size

\* An open connection reads, unless a step of on_socket_receive has still to
\* ask for it, and so does one that was closed while it read.
Reads ==
  registered = "yes" /\ ~cut =>
    /\ pc \in Between => receiving
    /\ ~open => pc \in Between /\ \A i \in DOMAIN ready : ready[i].kind = "recv" => ready[i].res = "error"
    /\ ~open => \E i \in DOMAIN ready : ready[i].kind = "recv"
Limit ==
  /\ open => m_handled_requests <= max_keep_alive_requests
  /\ Live /\ open /\ m_handler = 0 => m_receiving_header /\ m_handled_requests < max_keep_alive_requests
ClosedFinished ==
  closed = "finish" => ~open /\ queue = <<>> /\ wire # <<>> /\ wire[Len(wire)].last = "yes"

ServerInv ==
  /\ Types /\ Gone /\ NotYet /\ Numbered /\ FinalCalls /\ Completions /\ Control /\ Pending /\ Written
  /\ KeptAnswer /\ Input /\ Ahead /\ Bodies /\ Reads /\ Limit /\ ClosedFinished

-----------------------------------------------------------------------------
(* Completions and sequences.                                              *)

\* Completions.
LEMMA EventType ==
  \A k \in {"recv", "send"}, r \in {"ok", "error"}, d \in Seq(Tokens) :
    /\ Event(k, r, d) \in Events
    /\ Event(k, r, d).kind = k /\ Event(k, r, d).res = r /\ Event(k, r, d).data = d
  BY DEF Event, Events

\* The completions close() adds: failures of what is in flight.
LEMMA AbortedType ==
  LET R == Event("recv", "error", <<>>)
      W == Event("send", "error", <<>>)
  IN  /\ Aborted \in Seq(Events) /\ OneOfAKind(Aborted)
      /\ \A i \in DOMAIN Aborted : (Reading /\ Aborted[i] = R) \/ (Writing /\ Aborted[i] = W)
      /\ Reading => \E i \in DOMAIN Aborted : Aborted[i] = R
<1> DEFINE R == Event("recv", "error", <<>>)
           W == Event("send", "error", <<>>)
<1>1. R \in Events /\ W \in Events /\ R.kind = "recv" /\ W.kind = "send"
  BY EmptySeq, EventType
<1>2. Aborted = (IF Reading THEN <<R>> ELSE <<>>) \o (IF Writing THEN <<W>> ELSE <<>>)
  BY DEF Aborted
<1> HIDE DEF R, W
<1>3. CASE Reading /\ Writing
  <2>1. Aborted = <<R, W>>
    <3>1. Aborted = <<R>> \o <<W>>
      BY <1>2, <1>3
    <3>2. /\ <<R>> \in Seq(Events) /\ <<W>> \in Seq(Events) /\ <<R, W>> \in Seq(Events)
          /\ Len(<<R>>) = 1 /\ Len(<<W>>) = 1 /\ Len(<<R, W>>) = 2
          /\ <<R>>[1] = R /\ <<W>>[1] = W /\ <<R, W>>[1] = R /\ <<R, W>>[2] = W
      BY <1>1
    <3>3. /\ Aborted \in Seq(Events) /\ Len(Aborted) = 2 /\ Aborted[1] = R /\ Aborted[2] = W
      <4>1. /\ <<R>> \o <<W>> \in Seq(Events) /\ Len(<<R>> \o <<W>>) = Len(<<R>>) + Len(<<W>>)
            /\ \A i \in 1 .. Len(<<R>>) + Len(<<W>>) :
                 (<<R>> \o <<W>>)[i] = IF i <= Len(<<R>>) THEN <<R>>[i] ELSE <<W>>[i - Len(<<R>>)]
        BY <3>2, ConcatProperties
      <4> QED
        BY <3>1, <3>2, <4>1
    <3>4. \A i \in 1 .. 2 : Aborted[i] = <<R, W>>[i]
      BY <3>2, <3>3
    <3> QED
      BY <3>2, <3>3, <3>4, SeqEqual
  <2> QED
    BY <1>1, <1>3, <2>1 DEF OneOfAKind, R, W
<1>4. CASE Reading /\ ~Writing
  <2>1. Aborted = <<R>>
    BY <1>1, <1>2, <1>4
  <2> QED
    BY <1>1, <1>4, <2>1 DEF OneOfAKind, R, W
<1>5. CASE ~Reading /\ Writing
  <2>1. Aborted = <<W>>
    BY <1>1, <1>2, <1>5
  <2> QED
    BY <1>1, <1>5, <2>1 DEF OneOfAKind, R, W
<1>6. CASE ~Reading /\ ~Writing
  <2>1. Aborted = <<>>
    BY <1>2, <1>6
  <2> QED
    BY <1>6, <2>1 DEF OneOfAKind
<1> QED
  BY <1>3, <1>4, <1>5, <1>6

\* The first completion, and those behind it.
LEMMA FirstEvent ==
  ASSUME ready \in Seq(Events), ready # <<>>
  PROVE  /\ Head(ready) = ready[1] /\ 1 \in DOMAIN ready /\ Head(ready) \in Events
         /\ Head(ready).data \in Seq(Tokens) /\ Tail(ready) \in Seq(Events)
         /\ \A i \in DOMAIN Tail(ready) : i + 1 \in DOMAIN ready /\ Tail(ready)[i] = ready[i + 1] /\ i \in Nat \ {0}
         /\ \A i \in DOMAIN ready : i # 1 => i - 1 \in DOMAIN Tail(ready) /\ Tail(ready)[i - 1] = ready[i]
<1>1. /\ Head(ready) = ready[1] /\ Head(ready) \in Events
      /\ Tail(ready) \in Seq(Events) /\ Len(Tail(ready)) = Len(ready) - 1
      /\ \A i \in 1 .. Len(Tail(ready)) : Tail(ready)[i] = ready[i + 1]
  BY HeadTailProperties
<1>2. /\ Len(ready) \in Nat /\ Len(ready) # 0 /\ DOMAIN ready = 1 .. Len(ready)
      /\ DOMAIN Tail(ready) = 1 .. Len(Tail(ready))
  BY <1>1, LenProperties, EmptySeq
<1>3. Head(ready).data \in Seq(Tokens)
  BY <1>1 DEF Events
<1>4. \A i \in DOMAIN ready : i # 1 => i - 1 \in 1 .. Len(Tail(ready)) /\ (i - 1) + 1 = i
  BY <1>1, <1>2
<1>5. \A i \in DOMAIN ready : i # 1 => i - 1 \in DOMAIN Tail(ready) /\ Tail(ready)[i - 1] = ready[i]
  BY <1>1, <1>2, <1>4
<1> QED
  BY <1>1, <1>2, <1>3, <1>5

\* Appending a completion.
LEMMA QueueEvent ==
  ASSUME ready \in Seq(Events), NEW e \in Events
  PROVE  /\ Append(ready, e) \in Seq(Events) /\ Append(ready, e) # <<>>
         /\ DOMAIN Append(ready, e) = DOMAIN ready \cup {Len(ready) + 1} /\ Len(ready) + 1 \notin DOMAIN ready
         /\ Append(ready, e)[Len(ready) + 1] = e
         /\ \A i \in DOMAIN ready : Append(ready, e)[i] = ready[i]
         /\ ready # <<>> => Head(Append(ready, e)) = Head(ready)
<1>1. /\ Append(ready, e) \in Seq(Events) /\ Append(ready, e) # <<>> /\ Len(Append(ready, e)) = Len(ready) + 1
      /\ \A i \in 1 .. Len(ready) : Append(ready, e)[i] = ready[i]
      /\ Append(ready, e)[Len(ready) + 1] = e
  BY AppendProperties
<1>2. Len(ready) \in Nat /\ DOMAIN ready = 1 .. Len(ready) /\ DOMAIN Append(ready, e) = 1 .. Len(ready) + 1
  BY <1>1, LenProperties
<1>3. ASSUME ready # <<>> PROVE Head(Append(ready, e)) = Head(ready)
  <2>1. Head(ready) = ready[1] /\ 1 \in DOMAIN ready
    BY <1>3, FirstEvent
  <2>2. Head(Append(ready, e)) = Append(ready, e)[1]
    BY <1>1, HeadTailProperties
  <2> QED
    BY <1>1, <1>2, <2>1, <2>2
<1> QED
  BY <1>1, <1>2, <1>3

\* Closing the connection: failures come last.
LEMMA QueueAborted ==
  ASSUME ready \in Seq(Events), OneOfAKind(ready)
  PROVE  LET c == ready \o Aborted
             R == Event("recv", "error", <<>>)
         IN  /\ c \in Seq(Events) /\ OneOfAKind(c)
             /\ \A i \in DOMAIN ready : i \in DOMAIN c /\ c[i] = ready[i]
             /\ \A i \in DOMAIN c :
                  i \in DOMAIN ready \/ (Reading /\ c[i] = R) \/ (Writing /\ c[i] = Event("send", "error", <<>>))
             /\ Reading => \E i \in DOMAIN c : c[i] = R
             /\ ready # <<>> => c # <<>> /\ Head(c) = Head(ready)
<1> DEFINE m == Len(ready)
           k == Len(Aborted)
           c == ready \o Aborted
           R == Event("recv", "error", <<>>)
           W == Event("send", "error", <<>>)
<1>0. R.kind = "recv" /\ W.kind = "send"
  BY EmptySeq, EventType
<1>1. /\ c \in Seq(Events) /\ Len(c) = m + k
      /\ \A i \in 1 .. m + k : c[i] = IF i <= m THEN ready[i] ELSE Aborted[i - m]
  BY AbortedType, ConcatProperties
<1>2. /\ m \in Nat /\ k \in Nat /\ DOMAIN ready = 1 .. m /\ DOMAIN Aborted = 1 .. k /\ DOMAIN c = 1 .. m + k
  BY <1>1, AbortedType, LenProperties
<1>3. /\ OneOfAKind(Aborted)
      /\ \A i \in DOMAIN Aborted : (Reading /\ Aborted[i] = R) \/ (Writing /\ Aborted[i] = W)
      /\ Reading => \E i \in DOMAIN Aborted : Aborted[i] = R
  BY AbortedType
<1> HIDE DEF c, m, k, R, W
<1>4. \A i \in DOMAIN ready : i \in DOMAIN c /\ c[i] = ready[i]
  BY <1>1, <1>2
<1>5. \A i \in DOMAIN c : i \in DOMAIN ready \/ (i - m \in DOMAIN Aborted /\ c[i] = Aborted[i - m])
  BY <1>1, <1>2
<1>6. \A i \in DOMAIN c : i \in DOMAIN ready \/ (Reading /\ c[i] = R) \/ (Writing /\ c[i] = W)
  BY <1>3, <1>5
<1>7. ASSUME Reading PROVE \E i \in DOMAIN c : c[i] = R
  <2>1. PICK i \in DOMAIN Aborted : Aborted[i] = R
    BY <1>3, <1>7
  <2>2. m + i \in DOMAIN c /\ (m + i) - m = i /\ ~(m + i <= m)
    BY <1>2
  <2>3. c[m + i] = R
    BY <1>1, <1>2, <2>1, <2>2
  <2> QED
    BY <2>2, <2>3
<1>8. ASSUME NEW i \in DOMAIN c, NEW j \in DOMAIN c, c[i].kind = c[j].kind PROVE i = j
  <2>1. ASSUME NEW a \in DOMAIN ready, NEW b \in DOMAIN c, b \notin DOMAIN ready PROVE c[a].kind # c[b].kind
    BY <1>0, <1>4, <1>6, <2>1 DEF Reading, Writing, Completed
  <2>2. CASE i \in DOMAIN ready /\ j \in DOMAIN ready
    BY <1>4, <1>8, <2>2 DEF OneOfAKind
  <2>3. CASE i \notin DOMAIN ready /\ j \notin DOMAIN ready
    <3>1. i - m \in DOMAIN Aborted /\ j - m \in DOMAIN Aborted /\ c[i] = Aborted[i - m] /\ c[j] = Aborted[j - m]
      BY <1>5, <2>3
    <3>2. i - m = j - m
      BY <1>3, <1>8, <3>1 DEF OneOfAKind
    <3> QED
      BY <1>2, <3>2
  <2> QED
    BY <1>8, <2>1, <2>2, <2>3
<1>9. ASSUME ready # <<>> PROVE c # <<>> /\ Head(c) = Head(ready)
  <2>1. Head(ready) = ready[1] /\ 1 \in DOMAIN ready
    BY <1>9, FirstEvent
  <2>2. c # <<>>
    BY <1>4, <2>1
  <2>3. Head(c) = c[1]
    BY <1>1, <2>2, HeadTailProperties
  <2> QED
    BY <1>4, <2>1, <2>2, <2>3
<1> QED
  BY <1>1, <1>4, <1>6, <1>7, <1>8, <1>9 DEF OneOfAKind, c, R, W

\* The data of a read that waits, or none.
LEMMA ReadDataIs ==
  ASSUME NEW evs, OneOfAKind(evs)
  PROVE  /\ \A i \in DOMAIN evs : evs[i].kind = "recv" => ReadData(evs) = evs[i].data
         /\ (\A i \in DOMAIN evs : evs[i].kind # "recv") => ReadData(evs) = <<>>
  BY DEF OneOfAKind, ReadData

\* Cutting a sequence in two.
LEMMA Cut ==
  ASSUME NEW E, NEW s \in Seq(E), NEW k \in 0 .. Len(s)
  PROVE  /\ SubSeq(s, 1, k) \in Seq(E) /\ Len(SubSeq(s, 1, k)) = k
         /\ \A i \in 1 .. k : SubSeq(s, 1, k)[i] = s[i]
         /\ SubSeq(s, k + 1, Len(s)) \in Seq(E) /\ Len(SubSeq(s, k + 1, Len(s))) = Len(s) - k
         /\ \A i \in 1 .. Len(s) - k : SubSeq(s, k + 1, Len(s))[i] = s[k + i]
<1>1. Len(s) \in Nat /\ \A i \in 1 .. Len(s) : s[i] \in E
  BY LenProperties, ElementOfSeq
<1>2. /\ SubSeq(s, 1, k) \in Seq(E) /\ Len(SubSeq(s, 1, k)) = k
      /\ \A i \in 1 .. k : SubSeq(s, 1, k)[i] = s[i]
  <2>1. \A i \in 1 .. k : s[i] \in E
    BY <1>1
  <2>2. /\ SubSeq(s, 1, k) \in Seq(E)
        /\ Len(SubSeq(s, 1, k)) = IF 1 <= k THEN k - 1 + 1 ELSE 0
        /\ \A i \in 1 .. k - 1 + 1 : SubSeq(s, 1, k)[i] = s[1 + i - 1]
    BY <2>1, SubSeqProperties
  <2>3. \A i \in 1 .. k : 1 + i - 1 = i /\ i \in 1 .. k - 1 + 1
    OBVIOUS
  <2> QED
    BY <1>1, <2>2, <2>3
<1>3. /\ SubSeq(s, k + 1, Len(s)) \in Seq(E) /\ Len(SubSeq(s, k + 1, Len(s))) = Len(s) - k
      /\ \A i \in 1 .. Len(s) - k : SubSeq(s, k + 1, Len(s))[i] = s[k + i]
  <2>1. \A i \in k + 1 .. Len(s) : s[i] \in E
    BY <1>1
  <2>2. /\ SubSeq(s, k + 1, Len(s)) \in Seq(E)
        /\ Len(SubSeq(s, k + 1, Len(s))) = IF k + 1 <= Len(s) THEN Len(s) - (k + 1) + 1 ELSE 0
        /\ \A i \in 1 .. Len(s) - (k + 1) + 1 : SubSeq(s, k + 1, Len(s))[i] = s[(k + 1) + i - 1]
    <3>1. k + 1 \in Int /\ Len(s) \in Int
      BY <1>1
    <3> QED
      BY <2>1, <3>1, SubSeqProperties
  <2>3. \A i \in 1 .. Len(s) - k : i \in 1 .. Len(s) - (k + 1) + 1 /\ (k + 1) + i - 1 = k + i
    BY <1>1
  <2> QED
    BY <1>1, <2>2, <2>3
<1> QED
  BY <1>2, <1>3

\* Two sequences joined, element by element.
LEMMA Joined ==
  ASSUME NEW E, NEW s \in Seq(E), NEW t \in Seq(E)
  PROVE  /\ s \o t \in Seq(E) /\ Len(s \o t) = Len(s) + Len(t) /\ Len(s) \in Nat /\ Len(t) \in Nat
         /\ \A i \in 1 .. Len(s) : (s \o t)[i] = s[i]
         /\ \A i \in 1 .. Len(t) : (s \o t)[Len(s) + i] = t[i]
         /\ DOMAIN s = 1 .. Len(s) /\ DOMAIN t = 1 .. Len(t) /\ DOMAIN (s \o t) = 1 .. Len(s) + Len(t)
         /\ s \o t = <<>> <=> s = <<>> /\ t = <<>>
<1>1. /\ s \o t \in Seq(E) /\ Len(s \o t) = Len(s) + Len(t)
      /\ \A i \in 1 .. Len(s) + Len(t) : (s \o t)[i] = IF i <= Len(s) THEN s[i] ELSE t[i - Len(s)]
  BY ConcatProperties
<1>2. /\ Len(s) \in Nat /\ Len(t) \in Nat /\ DOMAIN s = 1 .. Len(s) /\ DOMAIN t = 1 .. Len(t)
      /\ DOMAIN (s \o t) = 1 .. Len(s) + Len(t)
  BY <1>1, LenProperties
<1>3. \A i \in 1 .. Len(s) : (s \o t)[i] = s[i]
  BY <1>1, <1>2
<1>4. \A i \in 1 .. Len(t) : Len(s) + i \in 1 .. Len(s) + Len(t) /\ ~(Len(s) + i <= Len(s)) /\ (Len(s) + i) - Len(s) = i
  BY <1>2
<1>5. \A i \in 1 .. Len(t) : (s \o t)[Len(s) + i] = t[i]
  BY <1>1, <1>4
<1>6. s \o t = <<>> <=> s = <<>> /\ t = <<>>
  <2>1. \A u \in Seq(E) : u = <<>> <=> Len(u) = 0
    BY EmptySeq
  <2> QED
    BY <1>1, <1>2, <2>1
<1> QED
  BY <1>1, <1>2, <1>3, <1>5, <1>6
-----------------------------------------------------------------------------
(* What a step can rely on.                                                *)

\* What was not read, by its parts.
LEMMA UnreadParts ==
  ASSUME ServerInv
  PROVE  /\ AtHand \in Seq(Tokens) /\ Arriving \in Seq(Tokens) /\ Unread \in Seq(Tokens)
         /\ Unread = <<>> <=> AtHand = <<>> /\ Arriving = <<>> /\ stream = <<>>
         /\ ~receiving => Arriving = <<>>
         /\ \A i \in 1 .. Len(AtHand) : i \in DOMAIN Unread /\ Unread[i] = AtHand[i]
         /\ Len(Unread) = Len(AtHand) + Len(Arriving) + Len(stream)
         /\ m_header_buffer \o data \in Seq(Tokens)
<1>1. m_header_buffer \in Seq(Tokens) /\ data \in Seq(Tokens) /\ stream \in Seq(Tokens) /\ ready \in Seq(Events)
  BY DEF ServerInv, Types, Queues
<1>2. m_header_buffer \o data \in Seq(Tokens) /\ AtHand \in Seq(Tokens)
  BY <1>1, Joined DEF AtHand
<1>3. OneOfAKind(ready) /\ \A i \in DOMAIN ready : ready[i].kind = "recv" => receiving
  BY DEF ServerInv, Completions
<1>4. \A i \in DOMAIN ready : ready[i].data \in Seq(Tokens)
  <2>1. \A i \in DOMAIN ready : ready[i] \in Events
    BY <1>1, ElementOfSeq, LenProperties
  <2> QED
    BY <2>1 DEF Events
<1>5. Arriving \in Seq(Tokens) /\ (~receiving => Arriving = <<>>)
  <2>1. CASE \E i \in DOMAIN ready : ready[i].kind = "recv"
    BY <1>3, <1>4, <2>1, ReadDataIs DEF Arriving
  <2>2. CASE ~\E i \in DOMAIN ready : ready[i].kind = "recv"
    BY <1>3, <2>2, ReadDataIs, EmptySeq DEF Arriving
  <2> QED
    BY <2>1, <2>2
<1>6. /\ Arriving \o stream \in Seq(Tokens) /\ Len(Arriving \o stream) = Len(Arriving) + Len(stream)
      /\ Len(Arriving) \in Nat /\ Len(stream) \in Nat
      /\ Arriving \o stream = <<>> <=> Arriving = <<>> /\ stream = <<>>
  BY <1>1, <1>5, Joined
<1>7. /\ AtHand \o (Arriving \o stream) \in Seq(Tokens)
      /\ Len(AtHand \o (Arriving \o stream)) = Len(AtHand) + Len(Arriving \o stream) /\ Len(AtHand) \in Nat
      /\ \A i \in 1 .. Len(AtHand) : (AtHand \o (Arriving \o stream))[i] = AtHand[i]
      /\ DOMAIN (AtHand \o (Arriving \o stream)) = 1 .. Len(AtHand) + Len(Arriving \o stream)
      /\ AtHand \o (Arriving \o stream) = <<>> <=> AtHand = <<>> /\ Arriving \o stream = <<>>
  BY <1>2, <1>6, Joined
<1> HIDE DEF Arriving, AtHand
<1>8. \A i \in 1 .. Len(AtHand) : i \in DOMAIN (AtHand \o (Arriving \o stream))
  BY <1>6, <1>7
<1> QED
  BY <1>2, <1>5, <1>6, <1>7, <1>8 DEF Unread

\* While a header is parsed it is the next request's, and no handler is attached.
LEMMA HeaderFacts ==
  ASSUME ServerInv, pc = "header"
  PROVE  /\ registered = "yes" /\ sent = m_handled_requests + 1 /\ m_handler = 0 /\ m_receiving_header
         /\ Arriving = <<>> /\ AtHand = m_header_buffer \o data /\ IsRequest(Unread, m_handled_requests + 1)
<1>1. registered = "yes"
  BY DEF ServerInv, Gone, NotYet, Live
<1>2. m_receiving_header /\ data # <<>> /\ ~receiving
  BY DEF ServerInv, Control, Between
<1>3. m_header_buffer \in Seq(Tokens) /\ data \in Seq(Tokens) /\ m_handled_requests \in Nat
  BY DEF ServerInv, Types, Queues, Counts
<1>4. AtHand = m_header_buffer \o data /\ AtHand # <<>>
  BY <1>2, <1>3, Joined DEF AtHand
<1>5. Unread # <<>> /\ Arriving = <<>>
  BY <1>2, <1>4, UnreadParts
<1>6. sent = m_handled_requests + 1 /\ sent > m_handled_requests
  BY <1>1, <1>2, <1>3, <1>5 DEF ServerInv, Input, Numbered, Live
<1>7. m_handler = 0
  BY <1>1, <1>3, <1>4, <1>6 DEF ServerInv, Ahead, Numbered, Live
<1> QED
  BY <1>1, <1>2, <1>4, <1>5, <1>6, <1>7 DEF ServerInv, Input, Live

\* With a handler attached, data at hand is the body of its request.
LEMMA BodyFacts ==
  ASSUME ServerInv, pc \in {"after_request", "body"}, m_handler # 0, data # <<>>
  PROVE  /\ registered = "yes" /\ sent = m_handled_requests /\ m_handled_requests > 0 /\ m_handler = m_handled_requests
         /\ ~m_receiving_header /\ AtHand = data /\ Arriving = <<>> /\ m_handler \in Requests
         /\ IsBody(Unread, m_handled_requests, m_received_body_size, m_content_length)
         /\ m_content_length > 0 /\ m_received_body_size + Len(data) <= m_content_length /\ Len(data) \in Nat \ {0}
<1>1. registered = "yes"
  BY DEF ServerInv, Gone, NotYet, Live
<1>2. ~m_receiving_header /\ ~receiving
  BY DEF ServerInv, Control, Between
<1>3. /\ data \in Seq(Tokens) /\ m_handled_requests \in Nat /\ m_content_length \in Int /\ m_received_body_size \in Nat
      /\ sent <= MaxRequests /\ sent \in Nat /\ stream \in Seq(Tokens)
  BY DEF ServerInv, Types, Queues, Counts, Numbered
<1>4. AtHand = data /\ Arriving = <<>>
  BY <1>2, UnreadParts DEF AtHand
<1>5. m_handler = m_handled_requests /\ m_handled_requests > 0
  BY <1>3 DEF ServerInv, Numbered
<1>6. sent = m_handled_requests
  BY <1>1, <1>3, <1>4, <1>5 DEF ServerInv, Ahead, Numbered, Live
<1>7. IsBody(Unread, m_handled_requests, m_received_body_size, m_content_length)
  BY <1>1, <1>2, <1>6 DEF ServerInv, Input, Live
<1>8. m_handler \in Requests
  BY <1>3, <1>5, <1>6, HttpServerAssumption DEF Requests
<1>9. m_content_length > 0 /\ m_received_body_size + Len(data) <= m_content_length /\ Len(data) \in Nat \ {0}
  <2>1. Len(data) \in Nat /\ Len(data) # 0 /\ Len(stream) \in Nat
    BY <1>3, EmptySeq, LenProperties
  <2>2. Len(Unread) = Len(data) + Len(Arriving) + Len(stream) /\ Len(Arriving) = 0
    BY <1>4, UnreadParts
  <2>3. m_received_body_size + Len(Unread) = Amount(m_content_length)
    BY <1>7 DEF IsBody
  <2> QED
    BY <1>3, <2>1, <2>2, <2>3 DEF Amount
<1> QED
  BY <1>1, <1>2, <1>4, <1>5, <1>6, <1>7, <1>8, <1>9
\* The end of a client, whichever callback came to it.
Removal ==
  /\ registered = "yes" /\ registered' = "removed" /\ pc' = "idle"
  /\ open' = FALSE /\ receiving' = FALSE /\ ready' = <<>> /\ data' = <<>>
  /\ m_header_buffer' = <<>> /\ m_receiving_header' = TRUE /\ m_content_length' = 0 /\ m_received_body_size' = 0
  /\ finals' = IF m_handler = 0 THEN finals ELSE [finals EXCEPT ![m_handler] = @ + 1]
  /\ closed' \in {"error", closed}
  /\ UNCHANGED <<m_handler, m_handled_requests, session, queue, peer, wire, complete, bodies, handled, cut>>

Refused == header_found /\ LET buf == m_header_buffer \o data IN buf[HeaderEnd(buf)].v = Bad
TooLong == header_incomplete /\ Len(m_header_buffer \o data) > max_header_size

\* A failure, a header that is too long or does not parse, data nobody asked for.
LEMMA RemovalSteps ==
  ASSUME ServerInv, on_socket_failed \/ TooLong \/ Refused \/ (handle_body_data /\ m_handler = 0)
  PROVE  Removal
<1>1. registered = "yes"
  <2>1. pc # "idle" \/ ready # <<>>
    BY DEF on_socket_failed, TooLong, header_incomplete, Refused, header_found, handle_body_data
  <2> QED
    BY <2>1 DEF ServerInv, Gone, NotYet, Live
<1>2. CASE on_socket_failed
  BY <1>1, <1>2 DEF on_socket_failed, on_client_error, reset_state, Removal
<1>3. CASE TooLong
  <2>1. m_handler = 0
    BY <1>3, HeaderFacts DEF TooLong, header_incomplete
  <2>2. Len(m_header_buffer \o data) \in Nat /\ max_header_size \in Nat
    BY HttpServerAssumption, UnreadParts, LenProperties
  <2>3. ~(Len(m_header_buffer \o data) <= max_header_size)
    BY <1>3, <2>2 DEF TooLong
  <2>4. reset_state /\ on_client_error("error") /\ UNCHANGED <<m_handler, m_handled_requests, session, queue, peer, wire, complete, bodies, handled, finals, cut>>
    BY <1>3, <2>3 DEF TooLong, header_incomplete
  <2> QED
    BY <1>1, <2>1, <2>4 DEF on_client_error, reset_state, Removal
<1>4. CASE Refused
  <2>1. m_handler = 0
    BY <1>4, HeaderFacts DEF Refused, header_found
  <2>2. reset_state /\ on_client_error("error") /\ UNCHANGED <<m_handler, m_handled_requests, session, complete, handled, queue, peer, wire, bodies, finals, cut>>
    BY <1>4 DEF Refused, header_found
  <2> QED
    BY <1>1, <2>1, <2>2 DEF on_client_error, reset_state, Removal
<1>5. CASE handle_body_data /\ m_handler = 0
  BY <1>1, <1>5 DEF handle_body_data, on_client_error, reset_state, Removal
<1> QED
  BY <1>2, <1>3, <1>4, <1>5

\* A header that parses: the next request, and the rest of the buffer is the
\* beginning of its body.
Begin(len) ==
  /\ pc' = "request" /\ m_receiving_header' = FALSE /\ m_content_length' = len
  /\ m_handled_requests' = m_handled_requests + 1 /\ m_handler' = m_handled_requests + 1
  /\ m_finished' = FALSE /\ m_keep_alive' \in BOOLEAN /\ complete' = "no"
  /\ handled' = Append(handled, m_handled_requests + 1)
  /\ m_header_buffer' \in Seq(Tokens) /\ data' \in Seq(Tokens) /\ len \in Int
  /\ IsBody(data' \o (<<>> \o stream), m_handled_requests + 1, 0, len)
  /\ UNCHANGED <<registered, m_received_body_size, open, receiving, ready, closed, queue, peer, wire, bodies, finals, cut>>

\* parse_header_data with a whole header hands over the next request.
LEMMA BeginStep ==
  ASSUME ServerInv, header_found, ~Refused
  PROVE  pc = "header" /\ \E len \in Int : Begin(len)
<1> DEFINE buf == m_header_buffer \o data
           n == m_handled_requests + 1
<1>1. /\ pc = "header" /\ \E i \in DOMAIN buf : buf[i].part = "end"
  BY DEF header_found
<1>2. AtHand = buf /\ Arriving = <<>> /\ IsRequest(Unread, n)
  BY <1>1, HeaderFacts
<1>3. PICK e \in DOMAIN Unread :
        /\ Unread[e].part = "end" /\ Unread[e].req = n /\ \A i \in 1 .. e - 1 : Unread[i].part = "head"
        /\ Len(Unread) = e + Amount(Unread[e].v)
        /\ \A i \in e + 1 .. Len(Unread) : Unread[i] = Token(n, "body", i - e)
  BY <1>2 DEF IsRequest
<1>4. /\ Unread \in Seq(Tokens) /\ Len(Unread) \in Nat /\ DOMAIN Unread = 1 .. Len(Unread)
      /\ buf \in Seq(Tokens) /\ Len(buf) \in Nat /\ DOMAIN buf = 1 .. Len(buf)
      /\ stream \in Seq(Tokens) /\ Len(stream) \in Nat /\ DOMAIN stream = 1 .. Len(stream)
      /\ m_header_buffer \in Seq(Tokens) /\ n \in Nat
  BY UnreadParts, LenProperties DEF ServerInv, Types, Queues, Counts
<1>5. /\ Len(Unread) = Len(buf) + Len(stream) /\ \A i \in DOMAIN buf : i \in DOMAIN Unread /\ Unread[i] = buf[i]
      /\ Unread = buf \o (<<>> \o stream)
  <2>1. Len(Arriving) = 0
    BY <1>2
  <2>2. Len(Unread) = Len(AtHand) + Len(Arriving) + Len(stream) /\ \A i \in 1 .. Len(AtHand) : i \in DOMAIN Unread /\ Unread[i] = AtHand[i]
    BY UnreadParts
  <2> QED
    BY <1>2, <1>4, <2>1, <2>2 DEF Unread
<1> HIDE DEF buf, n
<1>6. \A i \in DOMAIN Unread : Unread[i].part = "end" => i = e
  <2>1. \A i \in DOMAIN Unread : i \in 1 .. e - 1 \/ i = e \/ i \in e + 1 .. Len(Unread)
    BY <1>4
  <2>2. \A i \in e + 1 .. Len(Unread) : Unread[i].part = "body"
    <3>1. \A v : Token(n, "body", v).part = "body"
      BY DEF Token
    <3> QED
      BY <1>3, <3>1
  <2> QED
    BY <1>3, <2>1, <2>2
<1>7. e \in DOMAIN buf /\ HeaderEnd(buf) = e /\ buf[e] = Unread[e]
  <2>1. e \in DOMAIN buf /\ buf[e] = Unread[e] /\ \A i \in DOMAIN buf : buf[i].part = "end" => i = e
    BY <1>1, <1>5, <1>6 DEF buf
  <2>2. \A j \in 1 .. e - 1 : buf[j].part # "end"
    <3>1. \A j \in 1 .. e - 1 : j \in DOMAIN buf /\ j # e
      BY <1>4, <2>1
    <3> QED
      BY <2>1, <3>1
  <2> QED
    BY <1>3, <2>1, <2>2 DEF HeaderEnd
<1> DEFINE len == Unread[e].v
           rest == SubSeq(buf, e + 1, Len(buf))
<1>8. len \in Int
  <2>1. Unread[e] \in Tokens
    BY <1>4, ElementOfSeq
  <2> QED
    BY <2>1 DEF Tokens
<1>9. /\ rest \in Seq(Tokens) /\ Len(rest) = Len(buf) - e /\ \A i \in 1 .. Len(buf) - e : rest[i] = buf[e + i]
  <2>1. e \in 0 .. Len(buf)
    BY <1>4, <1>7
  <2> QED
    BY <1>4, <2>1, Cut
<1> HIDE DEF len, rest
<1>10. IsBody(rest \o (<<>> \o stream), n, 0, len)
  <2> DEFINE t == rest \o stream
  <2>1. <<>> \o stream = stream
    BY <1>4, ConcatEmptySeq
  <2>2. /\ t \in Seq(Tokens) /\ Len(t) = Len(rest) + Len(stream) /\ DOMAIN t = 1 .. Len(rest) + Len(stream)
        /\ \A i \in 1 .. Len(rest) : t[i] = rest[i]
        /\ \A i \in 1 .. Len(stream) : t[Len(rest) + i] = stream[i]
    <3>1. stream \in Seq(Tokens) /\ rest \in Seq(Tokens)
      BY <1>4, <1>9
    <3> QED
      BY <3>1, Joined
  <2>3. /\ \A i \in 1 .. Len(buf) : Unread[i] = buf[i]
        /\ \A i \in 1 .. Len(stream) : Unread[Len(buf) + i] = stream[i]
    BY <1>4, <1>5, <2>1, Joined
  <2> HIDE DEF t
  <2>4. Len(t) = Len(Unread) - e /\ e \in Nat /\ e <= Len(buf)
    BY <1>4, <1>5, <1>7, <1>9, <2>2
  <2>5. ASSUME NEW i \in DOMAIN t PROVE t[i] = Token(n, "body", 0 + i)
    <3>1. i \in Int /\ i >= 1 /\ i <= Len(Unread) - e
      BY <1>4, <2>2, <2>4
    <3>2. t[i] = Unread[e + i]
      <4>1. CASE i <= Len(rest)
        <5>1. i \in 1 .. Len(rest) /\ i \in 1 .. Len(buf) - e /\ e + i \in 1 .. Len(buf)
          BY <1>4, <1>9, <2>4, <3>1, <4>1
        <5> QED
          BY <1>9, <2>2, <2>3, <5>1
      <4>2. CASE ~(i <= Len(rest))
        <5> DEFINE j == i - Len(rest)
        <5>1. j \in 1 .. Len(stream) /\ Len(rest) + j = i /\ Len(buf) + j = e + i
          <6>1. /\ Len(rest) = Len(buf) - e /\ Len(Unread) = Len(buf) + Len(stream)
                /\ Len(buf) \in Nat /\ Len(stream) \in Nat /\ e \in Nat
            BY <1>4, <1>5, <1>9, <2>4
          <6> QED
            BY <3>1, <4>2, <6>1
        <5> QED
          BY <2>2, <2>3, <5>1
      <4> QED
        BY <4>1, <4>2
    <3>3. e + i \in e + 1 .. Len(Unread) /\ (e + i) - e = 0 + i
      BY <1>4, <2>4, <3>1
    <3> QED
      BY <1>3, <3>2, <3>3
  <2>6. 0 + Len(t) = Amount(len)
    <3>1. Len(Unread) = e + Amount(len)
      BY <1>3 DEF len
    <3>2. Amount(len) \in Int
      BY <1>8 DEF Amount
    <3> QED
      BY <1>4, <2>4, <3>1, <3>2
  <2> QED
    BY <2>1, <2>5, <2>6 DEF t, IsBody
<1>11. buf[HeaderEnd(buf)].v # Bad
  BY DEF Refused, buf
<1>12. /\ m_receiving_header' = FALSE /\ m_content_length' = buf[e].v /\ data' = rest /\ m_header_buffer' \in {<<>>, buf}
       /\ m_handled_requests' = n /\ m_finished' = FALSE /\ m_keep_alive' \in BOOLEAN /\ complete' = "no" /\ pc' = "request"
       /\ m_handler' = buf[e].req /\ handled' = Append(handled, buf[e].req)
       /\ UNCHANGED <<registered, m_received_body_size, open, receiving, ready, closed, queue, peer, wire, bodies, finals, cut>>
  BY <1>7, <1>11 DEF header_found, buf, rest, n
<1>13. buf[e].v = len /\ buf[e].req = n /\ m_header_buffer' \in Seq(Tokens)
  BY <1>3, <1>4, <1>7, <1>12, EmptySeq DEF len
<1>14. Begin(len)
  BY <1>8, <1>9, <1>10, <1>12, <1>13 DEF Begin, n
<1> QED
  BY <1>1, <1>8, <1>14
-----------------------------------------------------------------------------
(* The steps, as the invariant lets them happen.                           *)

clientState == <<m_receiving_header, m_header_buffer, m_content_length, m_received_body_size>>
Answering == <<session, queue, wire, complete>>
Record == <<handled, bodies, finals>>

\* A callback of the handler returns.
Return ==
  \/ pc = "request" /\ pc' = "after_request"
  \/ pc = "body_data" /\ pc' = "after_body"
  \/ pc = "data_sent" /\ pc' = "after_sent"
  \/ pc = "idle" /\ pc' = "idle"

\* The control goes on behind the callback.
LEMMA CallbackReturns ==
  ASSUME InCallback, pc' = After[pc]
  PROVE  Return
  BY DEF InCallback, After, Return

\* The handler adds a piece to the response, the last one or another.
Sends(last) ==
  /\ Return /\ HandlerActive /\ complete = "no" /\ (last = "yes" => MayComplete)
  /\ queue' = Append(queue, [req |-> m_handler, last |-> last])
  /\ complete' = last /\ m_finished' \in BOOLEAN /\ (m_finished' => last = "yes")
  /\ UNCHANGED <<registered, client, m_keep_alive, data, open, receiving, ready, peer, wire, Record, closed, cut>>

\* It finishes, and the connection is left as it is.
Finishes ==
  /\ Return /\ HandlerActive /\ complete = "yes" /\ MayFinish
  /\ m_finished' = TRUE /\ (queue # <<>> \/ m_keep_alive)
  /\ UNCHANGED <<registered, client, m_keep_alive, data, socket, peer, wire, complete, Record, closed, cut>>

\* It closes the connection, by finish() or by close().
Closes ==
  /\ Return /\ HandlerActive
  /\ \/ complete = "yes" /\ queue = <<>> /\ ~m_keep_alive /\ m_finished' = TRUE /\ closed' = "finish"
     \/ (CarefulHandlers /\ m_keep_alive => complete = "no") /\ UNCHANGED m_finished /\ closed' = "reject"
  /\ open' = FALSE /\ ready' = ready \o Aborted /\ cut' = ~Reading
  /\ UNCHANGED <<registered, client, m_keep_alive, data, receiving, peer, queue, wire, complete, Record>>

\* More of a header is needed.
More ==
  /\ pc = "header" /\ pc' = "idle" /\ data' = <<>> /\ receiving' = TRUE
  /\ m_header_buffer' = m_header_buffer \o data
  /\ ready' = IF open THEN ready ELSE Append(ready, Event("recv", "error", <<>>))
  /\ UNCHANGED <<registered, m_receiving_header, m_content_length, m_received_body_size, m_handler,
                 m_handled_requests, Answering, open, peer, Record, closed, cut>>

\* The data behind a header is its body.
ToBody ==
  /\ pc = "after_request" /\ data # <<>> /\ pc' = "body"
  /\ UNCHANGED <<registered, client, data, socket, peer, session, wire, history>>

\* All of the data is given to the handler as its request's body.
TakesBody ==
  /\ pc = "body" /\ m_handler # 0 /\ pc' = "body_data" /\ data' = <<>>
  /\ m_received_body_size' = m_received_body_size + Len(data)
  /\ bodies' = [bodies EXCEPT ![m_handler] = @ \o data]
  /\ UNCHANGED <<registered, m_receiving_header, m_header_buffer, m_content_length, m_handler, m_handled_requests,
                 Answering, socket, peer, handled, finals, closed, cut>>

\* The rest of a request is read: its body, or the next header.
ReadsOn ==
  /\ data = <<>> /\ pc' = "idle" /\ receiving' = open
  /\ \/ pc \in {"after_request", "after_body"} /\ UNCHANGED clientState
     \/ pc = "after_body" /\ m_received_body_size = m_content_length /\ reset_state
  /\ UNCHANGED <<registered, m_handler, m_handled_requests, Answering, data, open, ready, peer, history>>

\* The request ends, and the connection stays or is closed; or not yet.
Ends ==
  /\ pc = "after_sent" /\ pc' = "idle" /\ m_finished /\ queue = <<>>
  /\ finals' = [finals EXCEPT ![m_handler] = @ + 1] /\ m_handler' = 0
  /\ UNCHANGED <<registered, m_handled_requests, Answering, data, receiving, peer, handled, bodies>>
EndsOpen ==
  Ends /\ ~LastKeptAlive /\ reset_state /\ UNCHANGED <<open, ready, closed, cut>>
EndsClosed ==
  /\ Ends /\ LastKeptAlive /\ UNCHANGED clientState
  /\ \/ ~open /\ UNCHANGED <<open, ready, closed, cut>>
     \/ open /\ open' = FALSE /\ ready' = ready \o Aborted /\ cut' = ~Reading /\ closed' = "finish"
Waits ==
  /\ \/ Return /\ pc # "idle" /\ ~MustFinish
     \/ pc = "after_sent" /\ pc' = "idle" /\ ~(m_finished /\ queue = <<>>)
  /\ UNCHANGED <<registered, client, session, data, socket, peer, wire, history>>

\* What the native socket completes.
Arrives ==
  /\ Reading
  /\ \E d \in Seq(Tokens), res \in {"ok", "error"} :
       /\ res = "ok" <=> d # <<>>
       /\ ready' = Append(ready, Event("recv", res, d)) /\ stream' \in Seq(Tokens) /\ stream = d \o stream'
  /\ UNCHANGED <<registered, client, session, pc, data, open, receiving, queue, sent, wire, history>>

ClientStep ==
  \/ PeerRequest \/ Arrives \/ NativeWrite
  \/ Waits \/ Sends("no") \/ Sends("yes") \/ Finishes \/ Closes
  \/ on_socket_receive \/ Removal \/ More \/ (pc = "header" /\ \E len \in Int : Begin(len))
  \/ ToBody \/ TakesBody \/ ReadsOn \/ on_socket_send \/ EndsOpen \/ EndsClosed \/ stop
Step == on_acceptor_client \/ ClientStep

\* Every step of the specification is one of these.
LEMMA Steps ==
  ASSUME ServerInv, [Next]_vars
  PROVE  Step \/ UNCHANGED vars
<1> USE DEF client, session, socket, peer, history, clientState, Answering, Record, Step, ClientStep
<1>0. m_finished \in BOOLEAN
  BY DEF ServerInv, Types, Flags
<1>1. CASE on_acceptor_client \/ PeerRequest \/ NativeWrite \/ on_socket_receive \/ on_socket_send \/ stop
  BY <1>1
<1>2. CASE NativeReceive
  <2>0. stream \in Seq(Tokens) /\ Len(stream) \in Nat
    BY LenProperties DEF ServerInv, Types, Queues
  <2>1. CASE \E n \in 1 .. Len(stream) :
               /\ ready' = Append(ready, Event("recv", "ok", SubSeq(stream, 1, n)))
               /\ stream' = SubSeq(stream, n + 1, Len(stream))
    <3>1. PICK n \in 1 .. Len(stream) :
               /\ ready' = Append(ready, Event("recv", "ok", SubSeq(stream, 1, n)))
               /\ stream' = SubSeq(stream, n + 1, Len(stream))
      BY <2>1
    <3> DEFINE d == SubSeq(stream, 1, n)
               u == SubSeq(stream, n + 1, Len(stream))
    <3>2. n \in 0 .. Len(stream) /\ n # 0 /\ n \in Nat
      BY <2>0
    <3>3. /\ d \in Seq(Tokens) /\ Len(d) = n /\ u \in Seq(Tokens) /\ Len(u) = Len(stream) - n
          /\ \A i \in 1 .. n : d[i] = stream[i]
          /\ \A i \in 1 .. Len(stream) - n : u[i] = stream[n + i]
      BY <2>0, <3>1, <3>2, Cut
    <3> HIDE DEF d, u
    <3>4. d # <<>>
      BY <3>2, <3>3
    <3>5. /\ d \o u \in Seq(Tokens) /\ Len(d \o u) = Len(d) + Len(u)
          /\ \A i \in 1 .. Len(d) : (d \o u)[i] = d[i]
          /\ \A i \in 1 .. Len(u) : (d \o u)[Len(d) + i] = u[i]
      <4>1. d \in Seq(Tokens) /\ u \in Seq(Tokens)
        BY <3>3
      <4> QED
        BY <4>1, Joined
    <3>6. ASSUME NEW i \in 1 .. Len(stream) PROVE stream[i] = (d \o u)[i]
      <4>1. CASE i <= n
        <5>1. i \in 1 .. n
          BY <2>0, <4>1, <3>2
        <5> QED
          BY <3>3, <3>5, <5>1
      <4>2. CASE ~(i <= n)
        <5>1. i - n \in 1 .. Len(stream) - n /\ n + (i - n) = i
          BY <2>0, <4>2, <3>2
        <5>2. u[i - n] = stream[i]
          BY <3>3, <5>1
        <5>3. (d \o u)[Len(d) + (i - n)] = u[i - n]
          BY <3>3, <3>5, <5>1
        <5> QED
          BY <3>3, <5>1, <5>2, <5>3
      <4> QED
        BY <4>1, <4>2
    <3>7. stream = d \o u
      <4>1. Len(stream) = Len(d \o u)
        BY <2>0, <3>2, <3>3, <3>5
      <4> QED
        BY <2>0, <3>5, <3>6, <4>1, SeqEqual
    <3> QED
      BY <1>2, <3>1, <3>3, <3>4, <3>7 DEF NativeReceive, Arrives, d, u
  <2>2. CASE ready' = Append(ready, Event("recv", "error", <<>>)) /\ UNCHANGED stream
    <3>1. <<>> \in Seq(Tokens) /\ stream = <<>> \o stream
      BY <2>0, EmptySeq, ConcatEmptySeq
    <3> QED
      BY <1>2, <2>0, <2>2, <3>1 DEF NativeReceive, Arrives
  <2> QED
    BY <1>2, <2>1, <2>2 DEF NativeReceive
<1>3. CASE handler_waits
  BY <1>3, CallbackReturns DEF handler_waits, Waits
<1>4. CASE send_data
  <2>1. CASE queue' = Append(queue, Piece("no")) /\ UNCHANGED complete
    BY <1>0, <1>4, <2>1, CallbackReturns DEF send_data, Sends, Piece, HandlerActive
  <2>2. CASE MayComplete /\ queue' = Append(queue, Piece("yes")) /\ complete' = "yes"
    BY <1>0, <1>4, <2>2, CallbackReturns DEF send_data, Sends, Piece
  <2> QED
    BY <1>4, <2>1, <2>2 DEF send_data
<1>5. CASE send_and_finish
  BY <1>5, CallbackReturns DEF send_and_finish, Sends, Piece
<1>6. CASE finish
  BY <1>6, CallbackReturns DEF finish, CloseConnection, Finishes, Closes
<1>7. CASE session_close
  BY <1>7, CallbackReturns DEF session_close, CloseConnection, Closes
<1>8. CASE on_socket_failed
  BY <1>8, RemovalSteps
<1>9. CASE header_incomplete
  <2>1. Len(m_header_buffer \o data) \in Nat /\ max_header_size \in Nat
    BY UnreadParts, LenProperties, HttpServerAssumption
  <2>2. CASE ~TooLong
    <3>1. ~(Len(m_header_buffer \o data) > max_header_size)
      BY <1>9, <2>2 DEF TooLong
    <3> QED
      BY <1>9, <3>1 DEF header_incomplete, More
  <2> QED
    BY <2>2, RemovalSteps
<1>10. CASE header_found
  BY <1>10, RemovalSteps, BeginStep
<1>11. CASE after_request
  <2>1. CASE data # <<>>
    <3>1. m_content_length # 0
      <4>1. m_handler # 0 /\ m_content_length \in Int
        BY <1>11 DEF after_request, ServerInv, Control, Types, Counts
      <4>2. m_content_length > 0
        BY <1>11, <2>1, <4>1, BodyFacts DEF after_request
      <4> QED
        BY <4>1, <4>2
    <3> QED
      BY <1>11, <2>1, <3>1 DEF after_request, ToBody
  <2>2. CASE data = <<>>
    BY <1>11, <2>2 DEF after_request, ReadsOn
  <2> QED
    BY <2>1, <2>2
<1>12. CASE handle_body_data
  <2>1. CASE m_handler # 0
    <3>1. pc = "body" /\ data # <<>> /\ data \in Seq(Tokens)
      BY <1>12 DEF handle_body_data, ServerInv, Control, Types, Queues
    <3>2. /\ m_received_body_size + Len(data) <= m_content_length /\ Len(data) \in Nat \ {0}
      BY <2>1, <3>1, BodyFacts
    <3>3. ReadSize = Len(data)
      BY <3>2 DEF ReadSize, ServerInv, Types, Counts
    <3>4. SubSeq(data, 1, Len(data)) = data /\ SubSeq(data, Len(data) + 1, Len(data)) = <<>>
      <4>1. Len(data) \in 0 .. Len(data)
        BY <3>2
      <4>2. SubSeq(data, Len(data) + 1, Len(data)) \in Seq(Tokens) /\ Len(SubSeq(data, Len(data) + 1, Len(data))) = 0
        BY <3>1, <3>2, <4>1, Cut
      <4>3. SubSeq(data, 1, Len(data)) = data
        BY <3>1, SubSeqFull
      <4> QED
        BY <4>2, <4>3, EmptySeq
    <3>5. /\ m_received_body_size' = m_received_body_size + ReadSize
          /\ bodies' = [bodies EXCEPT ![m_handler] = @ \o SubSeq(data, 1, ReadSize)]
          /\ data' = SubSeq(data, ReadSize + 1, Len(data)) /\ pc' = "body_data"
          /\ UNCHANGED <<registered, m_receiving_header, m_header_buffer, m_content_length, open, receiving, ready, closed>>
          /\ UNCHANGED <<m_handler, m_handled_requests, session, queue, peer, wire, complete, handled, finals, cut>>
      BY <1>12, <2>1 DEF handle_body_data
    <3> QED
      BY <2>1, <3>1, <3>3, <3>4, <3>5 DEF TakesBody
  <2> QED
    BY <1>12, <2>1, RemovalSteps
<1>13. CASE after_body
  <2>1. data = <<>> /\ open \in BOOLEAN
    BY <1>13 DEF after_body, ServerInv, Control, Types, Flags
  <2> QED
    BY <1>13, <2>1 DEF after_body, ReadsOn
<1>14. CASE after_sent
  BY <1>14 DEF after_sent, ResponseWritten, RequestFinished, KeepState, NextRequest, CloseConnection,
               Ends, EndsOpen, EndsClosed, Waits
<1> QED
  BY <1>1, <1>2, <1>3, <1>4, <1>5, <1>6, <1>7, <1>8, <1>9, <1>10, <1>11, <1>12, <1>13, <1>14
     DEF Next, Client, Handler
-----------------------------------------------------------------------------
(* Every step keeps the invariant, part by part.                           *)

\* The words.
LEMMA WordsStep ==
  ASSUME ServerInv, Step \/ UNCHANGED vars
  PROVE  Words'
<1> USE DEF client, session, socket, peer, history, clientState, Answering, Record
<1>1. CASE on_acceptor_client
  BY <1>1 DEF on_acceptor_client, ServerInv, Types, Words, Stages
<1>2. CASE PeerRequest
  BY <1>2 DEF PeerRequest, ServerInv, Types, Words, Stages
<1>3. CASE Arrives
  BY <1>3 DEF Arrives, ServerInv, Types, Words, Stages
<1>4. CASE NativeWrite
  BY <1>4 DEF NativeWrite, ServerInv, Types, Words, Stages
<1>5. CASE Waits
  BY <1>5 DEF Waits, Return, ServerInv, Types, Words, Stages
<1>6. CASE Sends("no")
  BY <1>6 DEF Sends, Return, ServerInv, Types, Words, Stages
<1>7. CASE Sends("yes")
  BY <1>7 DEF Sends, Return, ServerInv, Types, Words, Stages
<1>8. CASE Finishes
  BY <1>8 DEF Finishes, Return, ServerInv, Types, Words, Stages
<1>9. CASE Closes
  BY <1>9 DEF Closes, Return, ServerInv, Types, Words, Stages
<1>10. CASE on_socket_receive
  BY <1>10 DEF on_socket_receive, ServerInv, Types, Words, Stages
<1>11. CASE Removal
  BY <1>11 DEF Removal, ServerInv, Types, Words, Stages
<1>12. CASE More
  BY <1>12 DEF More, ServerInv, Types, Words, Stages
<1>13. CASE pc = "header" /\ \E len \in Int : Begin(len)
  BY <1>13 DEF Begin, ServerInv, Types, Words, Stages
<1>14. CASE ToBody
  BY <1>14 DEF ToBody, ServerInv, Types, Words, Stages
<1>15. CASE TakesBody
  BY <1>15 DEF TakesBody, ServerInv, Types, Words, Stages
<1>16. CASE ReadsOn
  BY <1>16 DEF ReadsOn, reset_state, ServerInv, Types, Words, Stages
<1>17. CASE on_socket_send
  BY <1>17 DEF on_socket_send, ServerInv, Types, Words, Stages
<1>18. CASE EndsOpen
  BY <1>18 DEF EndsOpen, Ends, reset_state, ServerInv, Types, Words, Stages
<1>19. CASE EndsClosed
  BY <1>19 DEF EndsClosed, Ends, ServerInv, Types, Words, Stages
<1>20. CASE stop
  BY <1>20 DEF stop, ServerInv, Types, Words, Stages
<1>21. CASE UNCHANGED vars
  BY <1>21 DEF vars, ServerInv, Types, Words, Stages
<1> QED
  BY <1>1, <1>2, <1>3, <1>4, <1>5, <1>6, <1>7, <1>8, <1>9, <1>10, <1>11, <1>12, <1>13, <1>14,
     <1>15, <1>16, <1>17, <1>18, <1>19, <1>20, <1>21 DEF Step, ClientStep

\* The flags.
LEMMA FlagsStep ==
  ASSUME ServerInv, Step \/ UNCHANGED vars
  PROVE  Flags'
<1> USE DEF client, session, socket, peer, history, clientState, Answering, Record
<1>0. Flags
  BY DEF ServerInv, Types
<1>1. CASE on_acceptor_client
  BY <1>1, <1>0 DEF on_acceptor_client, Flags
<1>2. CASE PeerRequest
  BY <1>2, <1>0 DEF PeerRequest, Flags
<1>3. CASE Arrives
  BY <1>3, <1>0 DEF Arrives, Flags
<1>4. CASE NativeWrite
  BY <1>4, <1>0 DEF NativeWrite, Flags
<1>5. CASE Waits
  BY <1>5, <1>0 DEF Waits, Return, Flags
<1>6. CASE Sends("no")
  BY <1>6, <1>0 DEF Sends, Return, Flags
<1>7. CASE Sends("yes")
  BY <1>7, <1>0 DEF Sends, Return, Flags
<1>8. CASE Finishes
  BY <1>8, <1>0 DEF Finishes, Return, Flags
<1>9. CASE Closes
  BY <1>9, <1>0 DEF Closes, Return, Flags, Reading, Completed
<1>10. CASE on_socket_receive
  BY <1>10, <1>0 DEF on_socket_receive, Flags
<1>11. CASE Removal
  BY <1>11, <1>0 DEF Removal, Flags
<1>12. CASE More
  BY <1>12, <1>0 DEF More, Flags
<1>13. CASE pc = "header" /\ \E len \in Int : Begin(len)
  BY <1>13, <1>0 DEF Begin, Flags
<1>14. CASE ToBody
  BY <1>14, <1>0 DEF ToBody, Flags
<1>15. CASE TakesBody
  BY <1>15, <1>0 DEF TakesBody, Flags
<1>16. CASE ReadsOn
  BY <1>16, <1>0 DEF ReadsOn, reset_state, Flags
<1>17. CASE on_socket_send
  BY <1>17, <1>0 DEF on_socket_send, Flags
<1>18. CASE EndsOpen
  BY <1>18, <1>0 DEF EndsOpen, Ends, reset_state, Flags
<1>19. CASE EndsClosed
  BY <1>19, <1>0 DEF EndsClosed, Ends, Flags, Reading, Completed
<1>20. CASE stop
  BY <1>20, <1>0 DEF stop, Flags
<1>21. CASE UNCHANGED vars
  BY <1>21, <1>0 DEF vars, Flags
<1> QED
  BY <1>1, <1>2, <1>3, <1>4, <1>5, <1>6, <1>7, <1>8, <1>9, <1>10, <1>11, <1>12, <1>13, <1>14,
     <1>15, <1>16, <1>17, <1>18, <1>19, <1>20, <1>21 DEF Step, ClientStep

\* The attached handler is the last request's.
LEMMA HandlerRequest ==
  ASSUME ServerInv
  PROVE  /\ m_handler # 0 => m_handler \in Requests /\ m_handler = m_handled_requests
         /\ m_handled_requests <= MaxRequests /\ m_handled_requests \in Nat /\ MaxRequests \in Nat /\ sent \in Nat
         /\ registered = "no" => m_handled_requests = 0 /\ m_handler = 0
  BY HttpServerAssumption DEF ServerInv, Numbered, NotYet, Types, Counts, Requests

\* What the peer sends is a whole request.
LEMMA SentRequest ==
  ASSUME stream \in Seq(Tokens), sent \in Nat, PeerRequest
  PROVE  stream' \in Seq(Tokens) /\ (stream = <<>> => IsRequest(stream', sent + 1))
<1>1. PICK len \in Lengths \cup {Bad}, k \in HeaderPieces :
        stream' = stream \o [i \in 1 .. k |-> Token(sent + 1, "head", i)]
                         \o <<Token(sent + 1, "end", len)>>
                         \o [i \in 1 .. len |-> Token(sent + 1, "body", i)]
  BY DEF PeerRequest
<1> DEFINE r == sent + 1
           H == [i \in 1 .. k |-> Token(r, "head", i)]
           E == <<Token(r, "end", len)>>
           B == [i \in 1 .. Amount(len) |-> Token(r, "body", i)]
<1>2. k \in Nat /\ len \in Int /\ Amount(len) \in Nat /\ 1 .. len = 1 .. Amount(len)
  BY HttpServerAssumption DEF Amount, Bad
<1>3. /\ \A i \in Int : Token(r, "head", i) \in Tokens /\ Token(r, "end", i) \in Tokens /\ Token(r, "body", i) \in Tokens
      /\ \A i \in Int : Token(r, "head", i).part = "head"
      /\ Token(r, "end", len).part = "end" /\ Token(r, "end", len).req = r /\ Token(r, "end", len).v = len
  BY DEF Token, Tokens
<1>4. H \in Seq(Tokens) /\ Len(H) = k /\ B \in Seq(Tokens) /\ Len(B) = Amount(len)
  <2>1. \A i \in 1 .. k : Token(r, "head", i) \in Tokens
    BY <1>3
  <2>2. \A i \in 1 .. Amount(len) : Token(r, "body", i) \in Tokens
    BY <1>3
  <2>3. H \in Seq(Tokens) /\ B \in Seq(Tokens)
    BY <1>2, <2>1, <2>2, IsASeq
  <2> QED
    BY <1>2, <2>3, LenProperties
<1>5. E \in Seq(Tokens) /\ Len(E) = 1 /\ E[1] = Token(r, "end", len)
  BY <1>2, <1>3
<1>6. /\ \A i \in 1 .. k : H[i].part = "head"
      /\ \A i \in 1 .. Amount(len) : B[i] = Token(r, "body", i)
  BY <1>2, <1>3
<1>7. stream' = ((stream \o H) \o E) \o B
  BY <1>1, <1>2
<1> HIDE DEF H, E, B, r
<1>8. stream' \in Seq(Tokens)
  BY <1>4, <1>5, <1>7, ConcatProperties
<1>9. ASSUME stream = <<>> PROVE IsRequest(stream', r)
  <2> DEFINE HE == H \o E
             s == HE \o B
             e == k + 1
  <2>1. stream' = s
    BY <1>4, <1>7, <1>9, ConcatEmptySeq
  <2>2. /\ HE \in Seq(Tokens) /\ Len(HE) = k + 1 /\ \A i \in 1 .. k : HE[i] = H[i]
        /\ \A i \in 1 .. 1 : HE[k + i] = E[i]
    <3>1. H \in Seq(Tokens) /\ E \in Seq(Tokens)
      BY <1>4, <1>5
    <3>2. /\ HE \in Seq(Tokens) /\ Len(HE) = Len(H) + Len(E) /\ \A i \in 1 .. Len(H) : HE[i] = H[i]
          /\ \A i \in 1 .. Len(E) : HE[Len(H) + i] = E[i]
      BY <3>1, Joined
    <3> QED
      BY <1>4, <1>5, <3>2
  <2> HIDE DEF HE
  <2>3. /\ Len(s) = (k + 1) + Amount(len) /\ DOMAIN s = 1 .. (k + 1) + Amount(len)
        /\ \A i \in 1 .. k + 1 : s[i] = HE[i]
        /\ \A i \in 1 .. Amount(len) : s[(k + 1) + i] = B[i]
    <3>1. HE \in Seq(Tokens) /\ B \in Seq(Tokens)
      BY <1>4, <2>2
    <3>2. /\ Len(s) = Len(HE) + Len(B) /\ DOMAIN s = 1 .. Len(HE) + Len(B)
          /\ \A i \in 1 .. Len(HE) : s[i] = HE[i]
          /\ \A i \in 1 .. Len(B) : s[Len(HE) + i] = B[i]
      BY <3>1, Joined
    <3> QED
      BY <1>4, <2>2, <3>2
  <2> HIDE DEF s
  <2>4. e \in DOMAIN s /\ e \in 1 .. k + 1 /\ 1 \in 1 .. 1
    BY <1>2, <2>3
  <2>5. s[e] = Token(r, "end", len)
    BY <1>5, <2>2, <2>3, <2>4
  <2>6. \A i \in 1 .. e - 1 : s[i].part = "head"
    <3>1. \A i \in 1 .. e - 1 : i \in 1 .. k /\ i \in 1 .. k + 1
      BY <1>2
    <3> QED
      BY <1>6, <2>2, <2>3, <3>1
  <2>7. \A i \in e + 1 .. Len(s) : s[i] = Token(r, "body", i - e)
    <3>1. \A i \in e + 1 .. Len(s) : i - e \in 1 .. Amount(len) /\ (k + 1) + (i - e) = i
      BY <1>2, <2>3
    <3> QED
      BY <1>6, <2>3, <3>1
  <2> QED
    BY <1>3, <2>1, <2>3, <2>4, <2>5, <2>6, <2>7 DEF IsRequest
<1> QED
  BY <1>8, <1>9 DEF r

\* The numbers.
LEMMA CountsStep ==
  ASSUME ServerInv, Step \/ UNCHANGED vars
  PROVE  Counts'
<1> USE DEF client, session, socket, peer, history, clientState, Answering, Record
<1>0. Counts
  BY DEF ServerInv, Types
<1>1. CASE on_acceptor_client
  BY <1>1, <1>0 DEF on_acceptor_client, Counts
<1>2. CASE PeerRequest
  BY <1>2, <1>0 DEF PeerRequest, Counts
<1>3. CASE Arrives
  BY <1>3, <1>0 DEF Arrives, Counts
<1>4. CASE NativeWrite
  BY <1>4, <1>0 DEF NativeWrite, Counts
<1>5. CASE Waits
  BY <1>5, <1>0 DEF Waits, Return, Counts
<1>6. CASE Sends("no")
  BY <1>6, <1>0 DEF Sends, Return, Counts
<1>7. CASE Sends("yes")
  BY <1>7, <1>0 DEF Sends, Return, Counts
<1>8. CASE Finishes
  BY <1>8, <1>0 DEF Finishes, Return, Counts
<1>9. CASE Closes
  BY <1>9, <1>0 DEF Closes, Return, Counts
<1>10. CASE on_socket_receive
  BY <1>10, <1>0 DEF on_socket_receive, Counts
<1>11. CASE Removal
  BY <1>11, <1>0, HandlerRequest DEF Removal, Counts
<1>12. CASE More
  BY <1>12, <1>0 DEF More, Counts
<1>13. CASE pc = "header" /\ \E len \in Int : Begin(len)
  BY <1>13, <1>0 DEF Begin, Counts
<1>14. CASE ToBody
  BY <1>14, <1>0 DEF ToBody, Counts
<1>15. CASE TakesBody
  <2>1. Len(data) \in Nat
    BY LenProperties DEF ServerInv, Types, Queues
  <2> QED
    BY <1>15, <1>0, <2>1 DEF TakesBody, Counts
<1>16. CASE ReadsOn
  BY <1>16, <1>0 DEF ReadsOn, reset_state, Counts
<1>17. CASE on_socket_send
  BY <1>17, <1>0 DEF on_socket_send, Counts
<1>18. CASE EndsOpen
  <2>1. m_handler \in Requests
    BY <1>18, HandlerRequest DEF EndsOpen, Ends, ServerInv, Control
  <2> QED
    BY <1>18, <1>0, <2>1 DEF EndsOpen, Ends, reset_state, Counts
<1>19. CASE EndsClosed
  <2>1. m_handler \in Requests
    BY <1>19, HandlerRequest DEF EndsClosed, Ends, ServerInv, Control
  <2> QED
    BY <1>19, <1>0, <2>1 DEF EndsClosed, Ends, Counts
<1>20. CASE stop
  BY <1>20, <1>0 DEF stop, Counts
<1>21. CASE UNCHANGED vars
  BY <1>21, <1>0 DEF vars, Counts
<1> QED
  BY <1>1, <1>2, <1>3, <1>4, <1>5, <1>6, <1>7, <1>8, <1>9, <1>10, <1>11, <1>12, <1>13, <1>14,
     <1>15, <1>16, <1>17, <1>18, <1>19, <1>20, <1>21 DEF Step, ClientStep

\* The queues and buffers.
LEMMA QueuesStep ==
  ASSUME ServerInv, Step \/ UNCHANGED vars
  PROVE  Queues'
<1> USE DEF client, session, socket, peer, history, clientState, Answering, Record
<1>0. Queues
  BY DEF ServerInv, Types
<1>1. CASE on_acceptor_client
  BY <1>1, <1>0 DEF on_acceptor_client, Queues
<1>2. CASE PeerRequest
  BY <1>2, <1>0, SentRequest DEF PeerRequest, Queues, ServerInv, Types, Counts
<1>3. CASE Arrives
  <2>1. ready' \in Seq(Events)
    BY <1>3, <1>0, QueueEvent, EventType, EmptySeq DEF Arrives, Queues
  <2> QED
    BY <1>3, <1>0, <2>1 DEF Arrives, Queues
<1>4. CASE NativeWrite
  <2>1. ready' \in Seq(Events)
    <3>1. PICK res \in {"ok", "error"} : ready' = Append(ready, Event("send", res, <<>>))
      BY <1>4 DEF NativeWrite
    <3>2. Event("send", res, <<>>) \in Events
      BY EventType, EmptySeq
    <3> QED
      BY <1>0, <3>1, <3>2, QueueEvent DEF Queues
  <2>2. Head(queue) \in Pieces
    BY <1>4, <1>0, HeadTailProperties DEF NativeWrite, Writing, Queues
  <2>3. wire' \in Seq(Pieces)
    BY <1>4, <1>0, <2>2, AppendProperties DEF NativeWrite, Queues
  <2> QED
    BY <1>4, <1>0, <2>1, <2>3 DEF NativeWrite, Queues
<1>5. CASE Waits
  BY <1>5, <1>0 DEF Waits, Return, Queues
<1>6. CASE Sends("no")
  <2>1. [req |-> m_handler, last |-> "no"] \in Pieces
    BY DEF ServerInv, Types, Counts, Pieces
  <2>2. queue' \in Seq(Pieces)
    BY <1>6, <1>0, <2>1, AppendProperties DEF Sends, Queues
  <2> QED
    BY <1>6, <1>0, <2>2 DEF Sends, Queues
<1>7. CASE Sends("yes")
  <2>1. [req |-> m_handler, last |-> "yes"] \in Pieces
    BY DEF ServerInv, Types, Counts, Pieces
  <2>2. queue' \in Seq(Pieces)
    BY <1>7, <1>0, <2>1, AppendProperties DEF Sends, Queues
  <2> QED
    BY <1>7, <1>0, <2>2 DEF Sends, Queues
<1>8. CASE Finishes
  BY <1>8, <1>0 DEF Finishes, Return, Queues
<1>9. CASE Closes
  <2>1. ready' \in Seq(Events)
    BY <1>9, <1>0, QueueAborted DEF Closes, Queues, ServerInv, Completions
  <2> QED
    BY <1>9, <1>0, <2>1 DEF Closes, Queues
<1>10. CASE on_socket_receive
  <2>1. Tail(ready) \in Seq(Events) /\ Head(ready).data \in Seq(Tokens)
    BY <1>10, <1>0, FirstEvent DEF on_socket_receive, Queues
  <2> QED
    BY <1>10, <1>0, <2>1 DEF on_socket_receive, Queues
<1>11. CASE Removal
  BY <1>11, <1>0, EmptySeq DEF Removal, Queues
<1>12. CASE More
  <2>1. ready' \in Seq(Events)
    BY <1>12, <1>0, QueueEvent, EventType, EmptySeq DEF More, Queues
  <2> QED
    BY <1>12, <1>0, <2>1, UnreadParts DEF More, Queues
<1>13. CASE pc = "header" /\ \E len \in Int : Begin(len)
  <2>1. handled' \in Seq(Nat)
    BY <1>13, <1>0, AppendProperties DEF Begin, Queues, ServerInv, Types, Counts
  <2> QED
    BY <1>13, <1>0, <2>1 DEF Begin, Queues
<1>14. CASE ToBody
  BY <1>14, <1>0 DEF ToBody, Queues
<1>15. CASE TakesBody
  <2>1. bodies' \in [Requests -> Seq(Tokens)]
    <3>1. m_handler \in Requests
      BY <1>15, HandlerRequest DEF TakesBody
    <3>2. bodies[m_handler] \o data \in Seq(Tokens)
      BY <1>0, <3>1, ConcatProperties DEF Queues
    <3> QED
      BY <1>15, <1>0, <3>1, <3>2 DEF TakesBody, Queues
  <2> QED
    BY <1>15, <1>0, <2>1, EmptySeq DEF TakesBody, Queues
<1>16. CASE ReadsOn
  BY <1>16, <1>0, EmptySeq DEF ReadsOn, reset_state, Queues
<1>17. CASE on_socket_send
  <2>1. Tail(ready) \in Seq(Events)
    BY <1>17, <1>0, FirstEvent DEF on_socket_send, Queues
  <2>2. queue # <<>>
    BY <1>17, <1>0, FirstEvent DEF on_socket_send, Queues, ServerInv, Completions
  <2>3. Tail(queue) \in Seq(Pieces)
    BY <1>0, <2>2, HeadTailProperties DEF Queues
  <2> QED
    BY <1>17, <1>0, <2>1, <2>3 DEF on_socket_send, Queues
<1>18. CASE EndsOpen
  BY <1>18, <1>0, EmptySeq DEF EndsOpen, Ends, reset_state, Queues
<1>19. CASE EndsClosed
  <2>1. ready' \in Seq(Events)
    BY <1>19, <1>0, QueueAborted DEF EndsClosed, Ends, Queues, ServerInv, Completions
  <2> QED
    BY <1>19, <1>0, <2>1 DEF EndsClosed, Ends, Queues
<1>20. CASE stop
  BY <1>20, <1>0, EmptySeq DEF stop, Queues
<1>21. CASE UNCHANGED vars
  BY <1>21, <1>0 DEF vars, Queues
<1> QED
  BY <1>1, <1>2, <1>3, <1>4, <1>5, <1>6, <1>7, <1>8, <1>9, <1>10, <1>11, <1>12, <1>13, <1>14,
     <1>15, <1>16, <1>17, <1>18, <1>19, <1>20, <1>21 DEF Step, ClientStep

\* Only a registered client's connection does anything but be accepted.
LEMMA Served ==
  ASSUME ServerInv, ClientStep
  PROVE  registered = "yes" /\ Live /\ (registered' = "yes" \/ Removal \/ stop)
<1>1. registered = "yes" /\ Live
  <2> SUFFICES ASSUME registered # "yes" PROVE FALSE
    BY DEF Live
  <2>1. pc = "idle" /\ ~receiving /\ ready = <<>> /\ (~open \/ (queue = <<>> /\ m_handler = 0))
    <3>1. CASE ~Live
      BY <3>1 DEF ServerInv, Gone
    <3>2. CASE registered = "no"
      BY <3>2, HandlerRequest DEF ServerInv, NotYet
    <3> QED
      BY <3>1, <3>2 DEF ServerInv, Types, Words, Live
  <2>2. ~HandlerActive /\ ~Reading /\ ~Writing
    BY <2>1 DEF HandlerActive, Reading, Writing
  <2> QED
    BY <2>1, <2>2 DEF ClientStep, stop, PeerRequest, Arrives, NativeWrite, Waits, Sends, Finishes, Closes,
       on_socket_receive, Removal, More, ToBody, TakesBody, ReadsOn, on_socket_send, EndsOpen, EndsClosed, Ends, Return
<1> QED
  BY <1>1 DEF ClientStep, PeerRequest, Arrives, NativeWrite, Waits, Sends, Finishes, Closes,
     on_socket_receive, More, Begin, ToBody, TakesBody, ReadsOn, on_socket_send, EndsOpen, EndsClosed, Ends

\* The peer's next request follows the response to the last one, read to its end.
LEMMA PeerFacts ==
  ASSUME ServerInv, ~Pipelining, PeerRequest
  PROVE  /\ sent = m_handled_requests /\ Unread = <<>> /\ AtHand = <<>> /\ Arriving = <<>> /\ stream = <<>>
         /\ m_handled_requests > 0 => m_keep_alive /\ complete = "yes" /\ Answered(m_handled_requests)
<1>1. Live /\ (sent = 0 \/ (m_keep_alive /\ Answered(sent)))
  BY DEF PeerRequest, Live
<1>2. m_handled_requests \in Nat /\ sent \in {m_handled_requests, m_handled_requests + 1} /\ sent \in Nat
  BY DEF ServerInv, Types, Counts, Numbered
<1>3. sent = m_handled_requests
  <2>1. \A i \in DOMAIN wire : wire[i].req <= m_handled_requests
    BY DEF ServerInv, Written
  <2> QED
    BY <1>1, <1>2, <2>1 DEF Answered
<1>4. m_handled_requests > 0 => m_keep_alive /\ complete = "yes" /\ Answered(m_handled_requests)
  BY <1>1, <1>2, <1>3 DEF ServerInv, Written
<1>5. Unread = <<>>
  <2>1. CASE m_handled_requests > 0
    BY <1>1, <1>3, <1>4, <2>1 DEF ServerInv, Input
  <2>2. CASE m_handled_requests = 0
    BY <1>1, <1>3, <2>2 DEF ServerInv, Input, Bodies
  <2> QED
    BY <1>2, <2>1, <2>2
<1> QED
  BY <1>3, <1>4, <1>5, UnreadParts

\* Nothing happens to a client that is gone, or was not accepted.
LEMMA GoneStep ==
  ASSUME ServerInv, Step \/ UNCHANGED vars
  PROVE  Gone' /\ NotYet'
<1>1. CASE on_acceptor_client
  BY <1>1 DEF on_acceptor_client, Gone, NotYet, Live
<1>2. CASE ClientStep
  BY <1>2, Served DEF Removal, stop, Gone, NotYet, Live
<1>3. CASE UNCHANGED vars
  BY <1>3 DEF vars, socket, peer, ServerInv, Gone, NotYet, Live
<1> QED
  BY <1>1, <1>2, <1>3 DEF Step

\* The numbers of the requests.
LEMMA NumberedStep ==
  ASSUME ServerInv, Step \/ UNCHANGED vars, ~Pipelining
  PROVE  Numbered'
<1> USE DEF client, session, socket, peer, history, clientState, Answering, Record
<1>0. Numbered
  BY DEF ServerInv
<1>1. CASE on_acceptor_client
  BY <1>1, <1>0 DEF on_acceptor_client, Numbered
<1>2. CASE PeerRequest
  <2>1. sent = m_handled_requests /\ sent \in Nat
    BY <1>2, PeerFacts DEF ServerInv, Types, Counts
  <2>2. sent < MaxRequests /\ sent' = sent + 1 /\ UNCHANGED <<handled, m_handled_requests, m_handler>>
    BY <1>2 DEF PeerRequest
  <2> QED
    BY <1>0, <2>1, <2>2, HttpServerAssumption DEF Numbered
<1>3. CASE Arrives
  BY <1>3, <1>0 DEF Arrives, Numbered
<1>4. CASE NativeWrite
  BY <1>4, <1>0 DEF NativeWrite, Numbered
<1>5. CASE Waits
  BY <1>5, <1>0 DEF Waits, Return, Numbered
<1>6. CASE Sends("no")
  BY <1>6, <1>0 DEF Sends, Return, Numbered
<1>7. CASE Sends("yes")
  BY <1>7, <1>0 DEF Sends, Return, Numbered
<1>8. CASE Finishes
  BY <1>8, <1>0 DEF Finishes, Return, Numbered
<1>9. CASE Closes
  BY <1>9, <1>0 DEF Closes, Return, Numbered
<1>10. CASE on_socket_receive
  BY <1>10, <1>0 DEF on_socket_receive, Numbered
<1>11. CASE Removal
  BY <1>11, <1>0 DEF Removal, Numbered
<1>12. CASE More
  BY <1>12, <1>0 DEF More, Numbered
<1>13. CASE pc = "header" /\ \E len \in Int : Begin(len)
  <2>1. sent = m_handled_requests + 1
    BY <1>13, HeaderFacts
  <2>2. handled \in Seq(Nat) /\ m_handled_requests \in Nat
    BY DEF ServerInv, Types, Queues, Counts
  <2>3. handled' = Append(handled, m_handled_requests + 1) /\ m_handled_requests' = m_handled_requests + 1
        /\ m_handler' = m_handled_requests + 1 /\ sent' = sent
    BY <1>13 DEF Begin
  <2>4. /\ Len(handled') = Len(handled) + 1 /\ Len(handled) \in Nat /\ DOMAIN handled' = 1 .. Len(handled) + 1
        /\ DOMAIN handled = 1 .. Len(handled)
        /\ handled'[Len(handled) + 1] = m_handled_requests + 1 /\ \A i \in 1 .. Len(handled) : handled'[i] = handled[i]
    <3>1. m_handled_requests + 1 \in Nat
      BY <2>2
    <3>2. /\ Append(handled, m_handled_requests + 1) \in Seq(Nat) /\ Len(Append(handled, m_handled_requests + 1)) = Len(handled) + 1
          /\ \A i \in 1 .. Len(handled) : Append(handled, m_handled_requests + 1)[i] = handled[i]
          /\ Append(handled, m_handled_requests + 1)[Len(handled) + 1] = m_handled_requests + 1
      BY <2>2, <3>1, AppendProperties
    <3> QED
      BY <2>2, <2>3, <3>2, LenProperties
  <2>5. \A i \in DOMAIN handled' : i = Len(handled) + 1 \/ i \in 1 .. Len(handled)
    BY <2>4
  <2>6. \A i \in DOMAIN handled' : handled'[i] = i
    BY <1>0, <2>4, <2>5 DEF Numbered
  <2> QED
    BY <1>0, <2>1, <2>2, <2>3, <2>4, <2>6 DEF Numbered
<1>14. CASE ToBody
  BY <1>14, <1>0 DEF ToBody, Numbered
<1>15. CASE TakesBody
  BY <1>15, <1>0 DEF TakesBody, Numbered
<1>16. CASE ReadsOn
  BY <1>16, <1>0 DEF ReadsOn, reset_state, Numbered
<1>17. CASE on_socket_send
  BY <1>17, <1>0 DEF on_socket_send, Numbered
<1>18. CASE EndsOpen
  BY <1>18, <1>0 DEF EndsOpen, Ends, reset_state, Numbered
<1>19. CASE EndsClosed
  BY <1>19, <1>0 DEF EndsClosed, Ends, Numbered
<1>20. CASE stop
  BY <1>20, <1>0 DEF stop, Numbered
<1>21. CASE UNCHANGED vars
  BY <1>21, <1>0 DEF vars, Numbered
<1> QED
  BY <1>1, <1>2, <1>3, <1>4, <1>5, <1>6, <1>7, <1>8, <1>9, <1>10, <1>11, <1>12, <1>13, <1>14,
     <1>15, <1>16, <1>17, <1>18, <1>19, <1>20, <1>21 DEF Step, ClientStep

\* Every handler but the attached one has had its final call.
LEMMA FinalCallsStep ==
  ASSUME ServerInv, Step \/ UNCHANGED vars, ~Pipelining
  PROVE  FinalCalls'
<1> USE DEF client, session, socket, peer, history, clientState, Answering, Record
<1>0. FinalCalls
  BY DEF ServerInv
<1>1. CASE on_acceptor_client
  BY <1>1, <1>0 DEF on_acceptor_client, FinalCalls
<1>2. CASE PeerRequest
  BY <1>2, <1>0 DEF PeerRequest, FinalCalls
<1>3. CASE Arrives
  BY <1>3, <1>0 DEF Arrives, FinalCalls
<1>4. CASE NativeWrite
  BY <1>4, <1>0 DEF NativeWrite, FinalCalls
<1>5. CASE Waits
  BY <1>5, <1>0 DEF Waits, Return, FinalCalls
<1>6. CASE Sends("no")
  BY <1>6, <1>0 DEF Sends, Return, FinalCalls
<1>7. CASE Sends("yes")
  BY <1>7, <1>0 DEF Sends, Return, FinalCalls
<1>8. CASE Finishes
  BY <1>8, <1>0 DEF Finishes, Return, FinalCalls
<1>9. CASE Closes
  BY <1>9, <1>0 DEF Closes, Return, FinalCalls
<1>10. CASE on_socket_receive
  BY <1>10, <1>0 DEF on_socket_receive, FinalCalls
<1>11. CASE Removal
  <2>1. m_handler # 0 => m_handler \in Requests /\ m_handler = m_handled_requests
    BY HandlerRequest
  <2>2. m_handled_requests \in Nat /\ finals \in [Requests -> Nat] /\ Requests \subseteq Nat \ {0}
    BY DEF ServerInv, Types, Counts, Requests
  <2>3. CASE m_handler = 0
    BY <1>11, <1>0, <2>2, <2>3 DEF Removal, FinalCalls
  <2>4. CASE m_handler # 0
    BY <1>11, <1>0, <2>1, <2>2, <2>4 DEF Removal, FinalCalls
  <2> QED
    BY <2>3, <2>4
<1>12. CASE More
  BY <1>12, <1>0 DEF More, FinalCalls
<1>13. CASE pc = "header" /\ \E len \in Int : Begin(len)
  <2>1. m_handler = 0 /\ registered # "removed"
    BY <1>13, HeaderFacts
  <2>2. m_handled_requests \in Nat /\ Requests \subseteq Nat \ {0}
    BY DEF ServerInv, Types, Counts, Requests
  <2>3. m_handled_requests' = m_handled_requests + 1 /\ m_handler' = m_handled_requests + 1
        /\ UNCHANGED <<registered, finals>>
    BY <1>13 DEF Begin
  <2> QED
    BY <1>0, <2>1, <2>2, <2>3 DEF FinalCalls
<1>14. CASE ToBody
  BY <1>14, <1>0 DEF ToBody, FinalCalls
<1>15. CASE TakesBody
  BY <1>15, <1>0 DEF TakesBody, FinalCalls
<1>16. CASE ReadsOn
  BY <1>16, <1>0 DEF ReadsOn, reset_state, FinalCalls
<1>17. CASE on_socket_send
  BY <1>17, <1>0 DEF on_socket_send, FinalCalls
<1>18. CASE EndsOpen
  <2>1. m_handler \in Requests /\ m_handler = m_handled_requests
    BY <1>18, HandlerRequest DEF EndsOpen, Ends, ServerInv, Control
  <2>2. m_handled_requests \in Nat /\ finals \in [Requests -> Nat] /\ Requests \subseteq Nat \ {0}
    BY DEF ServerInv, Types, Counts, Requests
  <2>3. registered # "removed" /\ finals[m_handler] = 0
    BY <1>18, <1>0, <2>1, <2>2, Served DEF ClientStep, FinalCalls
  <2>4. finals' = [finals EXCEPT ![m_handler] = @ + 1] /\ m_handler' = 0
        /\ UNCHANGED <<registered, m_handled_requests>>
    BY <1>18 DEF EndsOpen, Ends
  <2>5. \A r \in Requests : finals'[r] = IF r = m_handler THEN 1 ELSE finals[r]
    BY <2>1, <2>2, <2>3, <2>4
  <2> QED
    BY <1>0, <2>1, <2>2, <2>3, <2>4, <2>5 DEF FinalCalls
<1>19. CASE EndsClosed
  <2>1. m_handler \in Requests /\ m_handler = m_handled_requests
    BY <1>19, HandlerRequest DEF EndsClosed, Ends, ServerInv, Control
  <2>2. m_handled_requests \in Nat /\ finals \in [Requests -> Nat] /\ Requests \subseteq Nat \ {0}
    BY DEF ServerInv, Types, Counts, Requests
  <2>3. registered # "removed" /\ finals[m_handler] = 0
    BY <1>19, <1>0, <2>1, <2>2, Served DEF ClientStep, FinalCalls
  <2>4. finals' = [finals EXCEPT ![m_handler] = @ + 1] /\ m_handler' = 0
        /\ UNCHANGED <<registered, m_handled_requests>>
    BY <1>19 DEF EndsClosed, Ends
  <2>5. \A r \in Requests : finals'[r] = IF r = m_handler THEN 1 ELSE finals[r]
    BY <2>1, <2>2, <2>3, <2>4
  <2> QED
    BY <1>0, <2>1, <2>2, <2>3, <2>4, <2>5 DEF FinalCalls
<1>20. CASE stop
  BY <1>20, <1>0 DEF stop, FinalCalls
<1>21. CASE UNCHANGED vars
  BY <1>21, <1>0 DEF vars, FinalCalls
<1> QED
  BY <1>1, <1>2, <1>3, <1>4, <1>5, <1>6, <1>7, <1>8, <1>9, <1>10, <1>11, <1>12, <1>13, <1>14,
     <1>15, <1>16, <1>17, <1>18, <1>19, <1>20, <1>21 DEF Step, ClientStep

\* Where the control is.
LEMMA ControlStep ==
  ASSUME ServerInv, Step \/ UNCHANGED vars
  PROVE  Control'
<1> USE DEF client, session, socket, peer, history, clientState, Answering, Record
<1>1. CASE on_acceptor_client
  BY <1>1 DEF on_acceptor_client, ServerInv, NotYet, Control, Between
<1>2. CASE PeerRequest
  BY <1>2 DEF PeerRequest, ServerInv, Control, Between, Types, Words
<1>3. CASE Arrives
  BY <1>3 DEF Arrives, ServerInv, Control, Between, Types, Words
<1>4. CASE NativeWrite
  BY <1>4 DEF NativeWrite, ServerInv, Control, Between, Types, Words
<1>5. CASE Waits
  BY <1>5 DEF Waits, Return, ServerInv, Control, Between, Types, Words
<1>6. CASE Sends("no")
  BY <1>6 DEF Sends, Return, ServerInv, Control, Between, Types, Words
<1>7. CASE Sends("yes")
  BY <1>7 DEF Sends, Return, ServerInv, Control, Between, Types, Words
<1>8. CASE Finishes
  BY <1>8 DEF Finishes, Return, ServerInv, Control, Between, Types, Words
<1>9. CASE Closes
  BY <1>9 DEF Closes, Return, ServerInv, Control, Between, Types, Words
<1>10. CASE on_socket_receive
  <2>1. Head(ready).data # <<>>
    BY <1>10, FirstEvent DEF on_socket_receive, ServerInv, Types, Queues, Completions
  <2> QED
    BY <1>10, <2>1 DEF on_socket_receive, ServerInv, Control, Between, Types, Flags
<1>11. CASE Removal
  BY <1>11 DEF Removal, ServerInv, Control, Between, Types, Words
<1>12. CASE More
  BY <1>12 DEF More, ServerInv, Control, Between, Types, Words
<1>13. CASE pc = "header" /\ \E len \in Int : Begin(len)
  <2>1. m_handled_requests + 1 # 0 /\ ~receiving
    BY <1>13 DEF ServerInv, Types, Counts, Control, Between
  <2> QED
    BY <1>13, <2>1 DEF Begin, Control, Between
<1>14. CASE ToBody
  BY <1>14 DEF ToBody, ServerInv, Control, Between, Types, Words
<1>15. CASE TakesBody
  BY <1>15 DEF TakesBody, ServerInv, Control, Between, Types, Words
<1>16. CASE ReadsOn
  BY <1>16 DEF ReadsOn, reset_state, ServerInv, Control, Between, Types, Words
<1>17. CASE on_socket_send
  BY <1>17 DEF on_socket_send, ServerInv, Control, Between, Types, Words
<1>18. CASE EndsOpen
  BY <1>18 DEF EndsOpen, Ends, reset_state, ServerInv, Control, Between, Types, Words
<1>19. CASE EndsClosed
  BY <1>19 DEF EndsClosed, Ends, ServerInv, Control, Between, Types, Words
<1>20. CASE stop
  BY <1>20 DEF stop, ServerInv, Control, Between, Types, Words
<1>21. CASE UNCHANGED vars
  BY <1>21 DEF vars, ServerInv, Control, Between, Types, Words
<1> QED
  BY <1>1, <1>2, <1>3, <1>4, <1>5, <1>6, <1>7, <1>8, <1>9, <1>10, <1>11, <1>12, <1>13, <1>14,
     <1>15, <1>16, <1>17, <1>18, <1>19, <1>20, <1>21 DEF Step, ClientStep

\* An open connection is within its limit.
LEMMA LimitStep ==
  ASSUME ServerInv, Step \/ UNCHANGED vars, ~Pipelining
  PROVE  Limit'
<1> USE DEF client, session, socket, peer, history, clientState, Answering, Record
<1>0. Limit /\ m_handled_requests \in Nat /\ max_keep_alive_requests \in Nat \ {0}
  BY HttpServerAssumption DEF ServerInv, Types, Counts
<1>1. CASE on_acceptor_client
  BY <1>1, <1>0 DEF on_acceptor_client, Limit, Live
<1>2. CASE PeerRequest
  BY <1>2, <1>0 DEF PeerRequest, Limit, Live
<1>3. CASE Arrives
  BY <1>3, <1>0 DEF Arrives, Limit, Live
<1>4. CASE NativeWrite
  BY <1>4, <1>0 DEF NativeWrite, Limit, Live
<1>5. CASE Waits
  BY <1>5, <1>0 DEF Waits, Return, Limit, Live
<1>6. CASE Sends("no")
  BY <1>6, <1>0 DEF Sends, Return, Limit, Live
<1>7. CASE Sends("yes")
  BY <1>7, <1>0 DEF Sends, Return, Limit, Live
<1>8. CASE Finishes
  BY <1>8, <1>0 DEF Finishes, Return, Limit, Live
<1>9. CASE Closes
  BY <1>9, <1>0 DEF Closes, Return, Limit, Live
<1>10. CASE on_socket_receive
  BY <1>10, <1>0 DEF on_socket_receive, Limit, Live
<1>11. CASE Removal
  BY <1>11, <1>0 DEF Removal, Limit, Live
<1>12. CASE More
  BY <1>12, <1>0 DEF More, Limit, Live
<1>13. CASE pc = "header" /\ \E len \in Int : Begin(len)
  <2>1. m_handler = 0 /\ Live
    BY <1>13, HeaderFacts DEF Live
  <2> QED
    BY <1>13, <1>0, <2>1 DEF Begin, Limit, Live
<1>14. CASE ToBody
  BY <1>14, <1>0 DEF ToBody, Limit, Live
<1>15. CASE TakesBody
  BY <1>15, <1>0 DEF TakesBody, Limit, Live
<1>16. CASE ReadsOn
  BY <1>16, <1>0 DEF ReadsOn, reset_state, Limit, Live
<1>17. CASE on_socket_send
  BY <1>17, <1>0 DEF on_socket_send, Limit, Live
<1>18. CASE EndsOpen
  <2>1. m_handled_requests < max_keep_alive_requests
    BY <1>18, <1>0 DEF EndsOpen, LastKeptAlive
  <2> QED
    BY <1>18, <1>0, <2>1 DEF EndsOpen, Ends, reset_state, Limit
<1>19. CASE EndsClosed
  BY <1>19, <1>0 DEF EndsClosed, Ends, Limit, Live
<1>20. CASE stop
  BY <1>20, <1>0 DEF stop, Limit, Live
<1>21. CASE UNCHANGED vars
  BY <1>21, <1>0 DEF vars, Limit, Live
<1> QED
  BY <1>1, <1>2, <1>3, <1>4, <1>5, <1>6, <1>7, <1>8, <1>9, <1>10, <1>11, <1>12, <1>13, <1>14,
     <1>15, <1>16, <1>17, <1>18, <1>19, <1>20, <1>21 DEF Step, ClientStep

\* A kept connection's response is ended in the callback for its last piece.
LEMMA KeptAnswerStep ==
  ASSUME ServerInv, Step \/ UNCHANGED vars, CarefulHandlers
  PROVE  KeptAnswer'
<1> USE DEF client, session, socket, peer, history, clientState, Answering, Record
<1>0. KeptAnswer
  BY DEF ServerInv
<1>1. CASE on_acceptor_client
  BY <1>1, <1>0, HandlerRequest DEF on_acceptor_client, KeptAnswer, Live
<1>2. CASE PeerRequest
  BY <1>2, <1>0 DEF PeerRequest, KeptAnswer, Live
<1>3. CASE Arrives
  BY <1>3, <1>0 DEF Arrives, KeptAnswer, Live
<1>4. CASE NativeWrite
  BY <1>4, <1>0 DEF NativeWrite, KeptAnswer, Live
<1>5. CASE Waits
  BY <1>5, <1>0, Served DEF ClientStep, Waits, Return, MustFinish, HandlerActive, KeptAnswer, Live
<1>6. CASE Sends("no")
  BY <1>6, <1>0 DEF Sends, KeptAnswer
<1>7. CASE Sends("yes")
  <2>1. queue' # <<>>
    <3>1. queue \in Seq(Pieces) /\ [req |-> m_handler, last |-> "yes"] \in Pieces
      BY DEF ServerInv, Types, Queues, Counts, Pieces
    <3> QED
      BY <1>7, <3>1, AppendProperties DEF Sends
  <2> QED
    BY <1>7, <2>1 DEF Sends, HandlerActive, KeptAnswer
<1>8. CASE Finishes
  BY <1>8, <1>0 DEF Finishes, Return, HandlerActive, MayFinish, KeptAnswer, Live
<1>9. CASE Closes
  BY <1>9, <1>0 DEF Closes, KeptAnswer, ServerInv, Pending
<1>10. CASE on_socket_receive
  BY <1>10, <1>0 DEF on_socket_receive, KeptAnswer, Live
<1>11. CASE Removal
  BY <1>11, <1>0 DEF Removal, KeptAnswer, Live
<1>12. CASE More
  BY <1>12, <1>0 DEF More, KeptAnswer, Live
<1>13. CASE pc = "header" /\ \E len \in Int : Begin(len)
  BY <1>13, <1>0 DEF Begin, KeptAnswer, Live
<1>14. CASE ToBody
  BY <1>14, <1>0 DEF ToBody, KeptAnswer, Live
<1>15. CASE TakesBody
  BY <1>15, <1>0 DEF TakesBody, KeptAnswer, Live
<1>16. CASE ReadsOn
  BY <1>16, <1>0 DEF ReadsOn, reset_state, KeptAnswer, Live
<1>17. CASE on_socket_send
  BY <1>17, <1>0 DEF on_socket_send, KeptAnswer, Live
<1>18. CASE EndsOpen
  BY <1>18, <1>0 DEF EndsOpen, Ends, reset_state, KeptAnswer, Live
<1>19. CASE EndsClosed
  BY <1>19, <1>0 DEF EndsClosed, Ends, KeptAnswer, Live
<1>20. CASE stop
  BY <1>20, <1>0 DEF stop, KeptAnswer, Live
<1>21. CASE UNCHANGED vars
  BY <1>21, <1>0 DEF vars, KeptAnswer, Live
<1> QED
  BY <1>1, <1>2, <1>3, <1>4, <1>5, <1>6, <1>7, <1>8, <1>9, <1>10, <1>11, <1>12, <1>13, <1>14,
     <1>15, <1>16, <1>17, <1>18, <1>19, <1>20, <1>21 DEF Step, ClientStep

\* Appending a piece of the response.
LEMMA QueuePiece ==
  ASSUME ServerInv, NEW last \in {"yes", "no"}
  PROVE  LET q == Append(queue, [req |-> m_handler, last |-> last])
         IN  /\ q # <<>> /\ Len(q) = Len(queue) + 1 /\ Len(queue) \in Nat
             /\ DOMAIN q = 1 .. Len(queue) + 1 /\ DOMAIN queue = 1 .. Len(queue)
             /\ q[Len(queue) + 1] = [req |-> m_handler, last |-> last]
             /\ \A i \in DOMAIN queue : q[i] = queue[i]
             /\ queue # <<>> => Head(q) = Head(queue)
<1> DEFINE p == [req |-> m_handler, last |-> last]
           q == Append(queue, p)
<1>1. queue \in Seq(Pieces) /\ p \in Pieces
  BY DEF ServerInv, Types, Queues, Counts, Pieces
<1> HIDE DEF p
<1>2. /\ q \in Seq(Pieces) /\ q # <<>> /\ Len(q) = Len(queue) + 1 /\ q[Len(queue) + 1] = p
      /\ \A i \in 1 .. Len(queue) : q[i] = queue[i]
  BY <1>1, AppendProperties
<1>3. Len(queue) \in Nat /\ DOMAIN queue = 1 .. Len(queue) /\ DOMAIN q = 1 .. Len(queue) + 1
  BY <1>1, <1>2, LenProperties
<1>4. ASSUME queue # <<>> PROVE Head(q) = Head(queue)
  <2>1. Len(queue) # 0
    BY <1>1, <1>4, EmptySeq
  <2>2. 1 \in 1 .. Len(queue)
    BY <1>3, <2>1
  <2>3. Head(q) = q[1] /\ Head(queue) = queue[1]
    BY <1>1, <1>2, <1>4, HeadTailProperties
  <2> QED
    BY <1>2, <2>2, <2>3
<1> QED
  BY <1>2, <1>3, <1>4 DEF p

\* Completions without data.
LEMMA NoData ==
  \A k \in {"recv", "send"}, r \in {"ok", "error"} :
    /\ Event(k, r, <<>>) \in Events
    /\ Event(k, r, <<>>).kind = k /\ Event(k, r, <<>>).res = r /\ Event(k, r, <<>>).data = <<>>
<1>1. <<>> \in Seq(Tokens)
  BY EmptySeq
<1> QED
  BY <1>1 DEF Event, Events

\* The completions that wait.
LEMMA CompletionsStep ==
  ASSUME ServerInv, Step \/ UNCHANGED vars
  PROVE  Completions'
<1> USE DEF client, session, socket, peer, history, clientState, Answering, Record
<1>0. /\ Completions /\ ready \in Seq(Events) /\ queue \in Seq(Pieces) /\ wire \in Seq(Pieces)
  BY DEF ServerInv, Types, Queues
<1>1. CASE on_acceptor_client
  BY <1>1, <1>0 DEF on_acceptor_client, ServerInv, NotYet, Completions, OneOfAKind
<1>2. CASE PeerRequest
  BY <1>2, <1>0 DEF PeerRequest, Completions
<1>3. CASE Arrives
  <2>1. PICK d \in Seq(Tokens), res \in {"ok", "error"} :
          (res = "ok" <=> d # <<>>) /\ ready' = Append(ready, Event("recv", res, d))
    BY <1>3 DEF Arrives
  <2> DEFINE e == Event("recv", res, d)
  <2>2. e \in Events /\ e.kind = "recv" /\ e.res = res /\ e.data = d
    BY EventType
  <2> HIDE DEF e
  <2>3. /\ DOMAIN ready' = DOMAIN ready \cup {Len(ready) + 1} /\ ready'[Len(ready) + 1] = e
        /\ \A i \in DOMAIN ready : ready'[i] = ready[i]
    BY <1>0, <2>1, <2>2, QueueEvent DEF e
  <2>4. receiving /\ (\A i \in DOMAIN ready : ready[i].kind # "recv") /\ UNCHANGED <<receiving, queue, wire>>
    BY <1>3 DEF Arrives, Reading, Completed
  <2>5. OneOfAKind(ready')
    BY <1>0, <2>2, <2>3, <2>4 DEF Completions, OneOfAKind
  <2>6. ASSUME NEW i \in DOMAIN ready'
        PROVE  IF ready'[i].kind = "recv"
               THEN receiving /\ (ready'[i].res = "ok" <=> ready'[i].data # <<>>)
               ELSE /\ queue # <<>> /\ ready'[i].data = <<>>
                    /\ ready'[i].res = "ok" => wire # <<>> /\ wire[Len(wire)] = Head(queue)
    <3>1. CASE i \in DOMAIN ready
      BY <1>0, <2>3, <3>1 DEF Completions
    <3>2. CASE i = Len(ready) + 1
      BY <2>1, <2>2, <2>3, <2>4, <3>2
    <3> QED
      BY <2>3, <3>1, <3>2
  <2> QED
    BY <2>4, <2>5, <2>6 DEF Completions
<1>4. CASE NativeWrite
  <2>1. PICK res \in {"ok", "error"} :
          /\ ready' = Append(ready, Event("send", res, <<>>))
          /\ wire' = IF res = "ok" THEN Append(wire, Head(queue)) ELSE wire
    BY <1>4 DEF NativeWrite
  <2> DEFINE e == Event("send", res, <<>>)
  <2>2. e \in Events /\ e.kind = "send" /\ e.res = res /\ e.data = <<>>
    BY NoData
  <2> HIDE DEF e
  <2>3. /\ DOMAIN ready' = DOMAIN ready \cup {Len(ready) + 1} /\ ready'[Len(ready) + 1] = e
        /\ \A i \in DOMAIN ready : ready'[i] = ready[i]
    BY <1>0, <2>1, <2>2, QueueEvent DEF e
  <2>4. queue # <<>> /\ (\A i \in DOMAIN ready : ready[i].kind # "send") /\ UNCHANGED <<receiving, queue>>
    BY <1>4 DEF NativeWrite, Writing, Completed
  <2>5. OneOfAKind(ready')
    BY <1>0, <2>2, <2>3, <2>4 DEF Completions, OneOfAKind
  <2>6. res = "ok" => wire' # <<>> /\ wire'[Len(wire')] = Head(queue)
    <3>1. Head(queue) \in Pieces
      BY <1>0, <2>4, HeadTailProperties
    <3>2. /\ Append(wire, Head(queue)) # <<>> /\ Len(Append(wire, Head(queue))) = Len(wire) + 1
          /\ Append(wire, Head(queue))[Len(wire) + 1] = Head(queue)
      BY <1>0, <3>1, AppendProperties
    <3> QED
      BY <2>1, <3>2
  <2>7. \A i \in DOMAIN ready : ready'[i].kind = ready[i].kind /\ ready[i].kind = "recv"
    <3>1. \A i \in DOMAIN ready : ready[i] \in Events
      BY <1>0, ElementOfSeq, LenProperties
    <3> QED
      BY <2>3, <2>4, <3>1 DEF Events
  <2>8. \A i \in DOMAIN ready : ready'[i].kind = "recv" /\ receiving' /\ (ready'[i].res = "ok" <=> ready'[i].data # <<>>)
    BY <1>0, <2>3, <2>4, <2>7 DEF Completions
  <2> QED
    BY <2>2, <2>3, <2>4, <2>5, <2>6, <2>8 DEF Completions
<1>5. CASE Waits
  BY <1>5, <1>0 DEF Waits, Return, Completions
<1>6. CASE Sends("no")
  <2>1. queue # <<>> => queue' # <<>> /\ Head(queue') = Head(queue)
    BY <1>6, <1>0, QueuePiece DEF Sends
  <2> QED
    BY <1>6, <1>0, <2>1 DEF Sends, Completions
<1>7. CASE Sends("yes")
  <2>1. queue # <<>> => queue' # <<>> /\ Head(queue') = Head(queue)
    BY <1>7, <1>0, QueuePiece DEF Sends
  <2> QED
    BY <1>7, <1>0, <2>1 DEF Sends, Completions
<1>8. CASE Finishes
  BY <1>8, <1>0 DEF Finishes, Return, Completions
<1>9. CASE Closes
  <2>1. /\ OneOfAKind(ready')
        /\ \A i \in DOMAIN ready' :
             \/ i \in DOMAIN ready /\ ready'[i] = ready[i]
             \/ Reading /\ ready'[i] = Event("recv", "error", <<>>)
             \/ Writing /\ ready'[i] = Event("send", "error", <<>>)
    BY <1>9, <1>0, QueueAborted DEF Closes, Completions
  <2>2. UNCHANGED <<receiving, queue, wire>>
    BY <1>9 DEF Closes
  <2>3. /\ Event("recv", "error", <<>>).kind = "recv" /\ Event("send", "error", <<>>).kind = "send"
        /\ Event("recv", "error", <<>>).res = "error" /\ Event("send", "error", <<>>).res = "error"
        /\ Event("recv", "error", <<>>).data = <<>> /\ Event("send", "error", <<>>).data = <<>>
    BY NoData
  <2>4. ASSUME NEW i \in DOMAIN ready'
        PROVE  IF ready'[i].kind = "recv"
               THEN receiving /\ (ready'[i].res = "ok" <=> ready'[i].data # <<>>)
               ELSE /\ queue # <<>> /\ ready'[i].data = <<>>
                    /\ ready'[i].res = "ok" => wire # <<>> /\ wire[Len(wire)] = Head(queue)
    <3>1. CASE i \in DOMAIN ready /\ ready'[i] = ready[i]
      BY <1>0, <3>1 DEF Completions
    <3>2. CASE Reading /\ ready'[i] = Event("recv", "error", <<>>)
      BY <2>3, <3>2 DEF Reading
    <3>3. CASE Writing /\ ready'[i] = Event("send", "error", <<>>)
      BY <2>3, <3>3 DEF Writing
    <3> QED
      BY <2>1, <3>1, <3>2, <3>3
  <2> QED
    BY <2>1, <2>2, <2>4 DEF Completions
<1>10. CASE on_socket_receive
  <2>1. /\ ready' = Tail(ready) /\ ready[1].kind = "recv" /\ ready # <<>> /\ 1 \in DOMAIN ready
        /\ \A i \in DOMAIN ready' : i + 1 \in DOMAIN ready /\ ready'[i] = ready[i + 1] /\ i \in Nat \ {0}
    BY <1>10, <1>0, FirstEvent DEF on_socket_receive
  <2>2. /\ OneOfAKind(ready') /\ \A i \in DOMAIN ready' : ready'[i].kind # "recv"
    BY <1>0, <2>1 DEF Completions, OneOfAKind
  <2>3. UNCHANGED <<queue, wire>>
    BY <1>10 DEF on_socket_receive
  <2> QED
    BY <1>0, <2>1, <2>2, <2>3 DEF Completions
<1>11. CASE Removal
  BY <1>11 DEF Removal, Completions, OneOfAKind
<1>12. CASE More
  <2>1. CASE open
    BY <1>12, <1>0, <2>1 DEF More, Completions
  <2>2. CASE ~open
    <3> DEFINE e == Event("recv", "error", <<>>)
    <3>1. e \in Events /\ e.kind = "recv" /\ e.res = "error" /\ e.data = <<>>
      BY NoData
    <3>2. ready' = Append(ready, e) /\ receiving' /\ UNCHANGED <<queue, wire>>
      BY <1>12, <2>2 DEF More
    <3> HIDE DEF e
    <3>3. /\ DOMAIN ready' = DOMAIN ready \cup {Len(ready) + 1} /\ ready'[Len(ready) + 1] = e
          /\ \A i \in DOMAIN ready : ready'[i] = ready[i]
      BY <1>0, <3>1, <3>2, QueueEvent
    <3>4. \A i \in DOMAIN ready : ready[i].kind # "recv"
      BY <1>12, <1>0 DEF More, Completions, ServerInv, Control, Between
    <3>5. OneOfAKind(ready')
      BY <1>0, <3>1, <3>3, <3>4 DEF Completions, OneOfAKind
    <3> QED
      BY <1>0, <3>1, <3>2, <3>3, <3>4, <3>5 DEF Completions
  <2> QED
    BY <2>1, <2>2
<1>13. CASE pc = "header" /\ \E len \in Int : Begin(len)
  BY <1>13, <1>0 DEF Begin, Completions
<1>14. CASE ToBody
  BY <1>14, <1>0 DEF ToBody, Completions
<1>15. CASE TakesBody
  BY <1>15, <1>0 DEF TakesBody, Completions
<1>16. CASE ReadsOn
  <2>1. \A i \in DOMAIN ready : ready[i].kind # "recv"
    BY <1>16, <1>0 DEF ReadsOn, Completions, ServerInv, Control, Between
  <2> QED
    BY <1>16, <1>0, <2>1 DEF ReadsOn, Completions
<1>17. CASE on_socket_send
  <2>1. /\ ready' = Tail(ready) /\ ready[1].kind = "send" /\ ready # <<>> /\ 1 \in DOMAIN ready
        /\ \A i \in DOMAIN ready' : i + 1 \in DOMAIN ready /\ ready'[i] = ready[i + 1] /\ i \in Nat \ {0}
    BY <1>17, <1>0, FirstEvent DEF on_socket_send
  <2>2. /\ OneOfAKind(ready') /\ \A i \in DOMAIN ready' : ready'[i].kind # "send" /\ ready'[i] \in Events
    <3>1. \A i \in DOMAIN ready : ready[i] \in Events
      BY <1>0, ElementOfSeq, LenProperties
    <3> QED
      BY <1>0, <2>1, <3>1 DEF Completions, OneOfAKind
  <2>3. UNCHANGED <<receiving, wire>>
    BY <1>17 DEF on_socket_send
  <2> QED
    BY <1>0, <2>1, <2>2, <2>3 DEF Completions, Events
<1>18. CASE EndsOpen
  BY <1>18, <1>0 DEF EndsOpen, Ends, reset_state, Completions
<1>19. CASE EndsClosed
  <2>1. CASE ~open
    BY <1>19, <1>0, <2>1 DEF EndsClosed, Ends, Completions
  <2>2. CASE open
    <3>1. /\ OneOfAKind(ready')
          /\ \A i \in DOMAIN ready' :
               \/ i \in DOMAIN ready /\ ready'[i] = ready[i]
               \/ Reading /\ ready'[i] = Event("recv", "error", <<>>)
               \/ Writing /\ ready'[i] = Event("send", "error", <<>>)
      BY <1>19, <1>0, <2>2, QueueAborted DEF EndsClosed, Ends, Completions
    <3>2. UNCHANGED <<receiving, queue, wire>>
      BY <1>19 DEF EndsClosed, Ends
    <3>3. /\ Event("recv", "error", <<>>).kind = "recv" /\ Event("send", "error", <<>>).kind = "send"
          /\ Event("recv", "error", <<>>).res = "error" /\ Event("send", "error", <<>>).res = "error"
          /\ Event("recv", "error", <<>>).data = <<>> /\ Event("send", "error", <<>>).data = <<>>
      BY NoData
    <3>4. ASSUME NEW i \in DOMAIN ready'
          PROVE  IF ready'[i].kind = "recv"
                 THEN receiving /\ (ready'[i].res = "ok" <=> ready'[i].data # <<>>)
                 ELSE /\ queue # <<>> /\ ready'[i].data = <<>>
                      /\ ready'[i].res = "ok" => wire # <<>> /\ wire[Len(wire)] = Head(queue)
      <4>1. CASE i \in DOMAIN ready /\ ready'[i] = ready[i]
        BY <1>0, <4>1 DEF Completions
      <4>2. CASE Reading /\ ready'[i] = Event("recv", "error", <<>>)
        BY <3>3, <4>2 DEF Reading
      <4>3. CASE Writing /\ ready'[i] = Event("send", "error", <<>>)
        BY <3>3, <4>3 DEF Writing
      <4> QED
        BY <3>1, <4>1, <4>2, <4>3
    <3> QED
      BY <3>1, <3>2, <3>4 DEF Completions
  <2> QED
    BY <2>1, <2>2
<1>20. CASE stop
  BY <1>20 DEF stop, Completions, OneOfAKind
<1>21. CASE UNCHANGED vars
  BY <1>21, <1>0 DEF vars, Completions
<1> QED
  BY <1>1, <1>2, <1>3, <1>4, <1>5, <1>6, <1>7, <1>8, <1>9, <1>10, <1>11, <1>12, <1>13, <1>14,
     <1>15, <1>16, <1>17, <1>18, <1>19, <1>20, <1>21 DEF Step, ClientStep

\* A piece that was written leaves the queue.
LEMMA SentPiece ==
  ASSUME ServerInv, on_socket_send
  PROVE  /\ queue # <<>> /\ wire # <<>> /\ wire[Len(wire)] = queue[1] /\ Len(queue) \in Nat \ {0}
         /\ Len(queue') = Len(queue) - 1 /\ (queue' = <<>> <=> Len(queue) = 1)
         /\ DOMAIN queue = 1 .. Len(queue) /\ DOMAIN queue' = 1 .. Len(queue) - 1
         /\ \A i \in DOMAIN queue' : queue'[i] = queue[i + 1]
<1>1. ready \in Seq(Events) /\ queue \in Seq(Pieces) /\ Completions
  BY DEF ServerInv, Types, Queues
<1>2. ready # <<>> /\ ready[1].kind = "send" /\ ready[1].res = "ok" /\ 1 \in DOMAIN ready
  BY <1>1, FirstEvent DEF on_socket_send
<1>3. queue # <<>> /\ wire # <<>> /\ wire[Len(wire)] = Head(queue)
  BY <1>1, <1>2 DEF Completions
<1>4. /\ Head(queue) = queue[1] /\ Tail(queue) \in Seq(Pieces) /\ Len(Tail(queue)) = Len(queue) - 1
      /\ \A i \in 1 .. Len(Tail(queue)) : Tail(queue)[i] = queue[i + 1]
  BY <1>1, <1>3, HeadTailProperties
<1>5. /\ Len(queue) \in Nat /\ Len(queue) # 0 /\ DOMAIN queue = 1 .. Len(queue)
      /\ DOMAIN Tail(queue) = 1 .. Len(Tail(queue)) /\ (Tail(queue) = <<>> <=> Len(Tail(queue)) = 0)
  BY <1>1, <1>3, <1>4, EmptySeq, LenProperties
<1>6. queue' = Tail(queue)
  BY DEF on_socket_send
<1> QED
  BY <1>3, <1>4, <1>5, <1>6

\* What a write adds to the wire.
LEMMA WrittenPiece ==
  ASSUME ServerInv, NativeWrite
  PROVE  /\ queue # <<>> /\ Head(queue) = queue[1] /\ 1 \in DOMAIN queue /\ open
         /\ wire \in Seq(Pieces) /\ Len(wire) \in Nat /\ DOMAIN wire = 1 .. Len(wire)
         /\ \/ wire' = wire
            \/ /\ DOMAIN wire' = 1 .. Len(wire) + 1 /\ wire'[Len(wire) + 1] = queue[1]
               /\ \A i \in DOMAIN wire : wire'[i] = wire[i]
               /\ \E i \in DOMAIN ready' : ready'[i].kind = "send" /\ ready'[i].res = "ok"
<1>1. ready \in Seq(Events) /\ queue \in Seq(Pieces) /\ wire \in Seq(Pieces)
  BY DEF ServerInv, Types, Queues
<1>2. queue # <<>> /\ open
  BY DEF NativeWrite, Writing
<1>3. Head(queue) = queue[1] /\ Head(queue) \in Pieces /\ 1 \in DOMAIN queue
  <2>1. Len(queue) \in Nat /\ Len(queue) # 0 /\ DOMAIN queue = 1 .. Len(queue)
    BY <1>1, <1>2, EmptySeq, LenProperties
  <2> QED
    BY <1>1, <1>2, <2>1, HeadTailProperties
<1>4. Len(wire) \in Nat /\ DOMAIN wire = 1 .. Len(wire)
  BY <1>1, LenProperties
<1>5. PICK res \in {"ok", "error"} :
        /\ ready' = Append(ready, Event("send", res, <<>>))
        /\ wire' = IF res = "ok" THEN Append(wire, Head(queue)) ELSE wire
  BY DEF NativeWrite
<1>6. CASE res = "ok"
  <2>1. /\ DOMAIN ready' = DOMAIN ready \cup {Len(ready) + 1} /\ ready'[Len(ready) + 1] = Event("send", res, <<>>)
    BY <1>1, <1>5, NoData, QueueEvent
  <2>2. ready'[Len(ready) + 1].kind = "send" /\ ready'[Len(ready) + 1].res = "ok"
    BY <1>6, <2>1, NoData
  <2>3. /\ Append(wire, Head(queue)) \in Seq(Pieces) /\ Len(Append(wire, Head(queue))) = Len(wire) + 1
        /\ Append(wire, Head(queue))[Len(wire) + 1] = Head(queue)
        /\ \A i \in 1 .. Len(wire) : Append(wire, Head(queue))[i] = wire[i]
    BY <1>1, <1>3, AppendProperties
  <2>4. DOMAIN Append(wire, Head(queue)) = 1 .. Len(wire) + 1
    BY <2>3, LenProperties
  <2>5. wire' = Append(wire, Head(queue))
    BY <1>5, <1>6
  <2>6. \E i \in DOMAIN ready' : ready'[i].kind = "send" /\ ready'[i].res = "ok"
    BY <2>1, <2>2
  <2> QED
    BY <1>1, <1>2, <1>3, <1>4, <2>3, <2>4, <2>5, <2>6
<1>7. CASE res # "ok"
  BY <1>1, <1>2, <1>3, <1>4, <1>5, <1>7
<1> QED
  BY <1>6, <1>7

\* The pieces of the response that wait.
LEMMA PendingStep ==
  ASSUME ServerInv, Step \/ UNCHANGED vars, ~Pipelining
  PROVE  Pending'
<1> USE DEF client, session, socket, peer, history, clientState, Answering, Record
<1>0. Pending
  BY DEF ServerInv
<1>1. CASE on_acceptor_client
  BY <1>1, <1>0 DEF on_acceptor_client, Pending
<1>2. CASE PeerRequest
  BY <1>2, <1>0 DEF PeerRequest, Pending
<1>3. CASE Arrives
  BY <1>3, <1>0 DEF Arrives, Pending
<1>4. CASE NativeWrite
  <2>1. queue # <<>>
    BY <1>4, WrittenPiece
  <2> QED
    BY <1>4, <1>0, <2>1 DEF NativeWrite, Pending
<1>5. CASE Waits
  BY <1>5, <1>0 DEF Waits, Return, Pending
<1>6. CASE Sends("no")
  <2>1. /\ queue' # <<>> /\ Len(queue') = Len(queue) + 1 /\ Len(queue) \in Nat /\ DOMAIN queue' = 1 .. Len(queue) + 1
        /\ DOMAIN queue = 1 .. Len(queue) /\ queue'[Len(queue) + 1] = [req |-> m_handler, last |-> "no"]
        /\ \A i \in DOMAIN queue : queue'[i] = queue[i]
    BY <1>6, QueuePiece DEF Sends
  <2>2. /\ complete = "no" /\ complete' = "no" /\ (m_finished' => "no" = "yes") /\ m_handler # 0
        /\ m_handler = m_handled_requests /\ m_handled_requests' = m_handled_requests /\ m_handler' = m_handler
    BY <1>6, HandlerRequest DEF Sends, HandlerActive
  <2>3. \A i \in DOMAIN queue' : i = Len(queue) + 1 \/ (i \in DOMAIN queue /\ i # Len(queue) + 1)
    BY <2>1
  <2>4. \A i \in DOMAIN queue' :
          queue'[i].req = m_handled_requests' /\ (queue'[i].last = "yes" <=> i = Len(queue') /\ complete' = "yes")
    BY <1>0, <2>1, <2>2, <2>3 DEF Pending
  <2> QED
    BY <2>1, <2>2, <2>4 DEF Pending
<1>7. CASE Sends("yes")
  <2>1. /\ queue' # <<>> /\ Len(queue') = Len(queue) + 1 /\ Len(queue) \in Nat /\ DOMAIN queue' = 1 .. Len(queue) + 1
        /\ DOMAIN queue = 1 .. Len(queue) /\ queue'[Len(queue) + 1] = [req |-> m_handler, last |-> "yes"]
        /\ \A i \in DOMAIN queue : queue'[i] = queue[i]
    BY <1>7, QueuePiece DEF Sends
  <2>2. /\ complete = "no" /\ complete' = "yes" /\ (m_finished' => "yes" = "yes") /\ m_handler # 0
        /\ m_handler = m_handled_requests /\ m_handled_requests' = m_handled_requests /\ m_handler' = m_handler
    BY <1>7, HandlerRequest DEF Sends, HandlerActive
  <2>3. \A i \in DOMAIN queue' : i = Len(queue) + 1 \/ (i \in DOMAIN queue /\ i # Len(queue) + 1)
    BY <2>1
  <2>4. \A i \in DOMAIN queue' :
          queue'[i].req = m_handled_requests' /\ (queue'[i].last = "yes" <=> i = Len(queue') /\ complete' = "yes")
    BY <1>0, <2>1, <2>2, <2>3 DEF Pending
  <2> QED
    BY <2>1, <2>2, <2>4 DEF Pending
<1>8. CASE Finishes
  BY <1>8, <1>0 DEF Finishes, Return, Pending
<1>9. CASE Closes
  BY <1>9, <1>0 DEF Closes, Return, Pending
<1>10. CASE on_socket_receive
  BY <1>10, <1>0 DEF on_socket_receive, Pending
<1>11. CASE Removal
  BY <1>11, <1>0 DEF Removal, Pending
<1>12. CASE More
  BY <1>12, <1>0 DEF More, Pending
<1>13. CASE pc = "header" /\ \E len \in Int : Begin(len)
  <2>1. m_handler = 0 /\ m_handled_requests \in Nat
    BY <1>13, HeaderFacts DEF ServerInv, Types, Counts
  <2>2. queue = <<>>
    BY <1>0, <2>1 DEF Pending
  <2> QED
    BY <1>13, <2>1, <2>2 DEF Begin, Pending
<1>14. CASE ToBody
  BY <1>14, <1>0 DEF ToBody, Pending
<1>15. CASE TakesBody
  BY <1>15, <1>0 DEF TakesBody, Pending
<1>16. CASE ReadsOn
  BY <1>16, <1>0 DEF ReadsOn, reset_state, Pending
<1>17. CASE on_socket_send
  <2>1. UNCHANGED <<m_handler, m_handled_requests, complete, m_finished, wire>>
    BY <1>17 DEF on_socket_send
  <2>2. /\ queue # <<>> /\ wire # <<>> /\ wire[Len(wire)] = queue[1] /\ Len(queue) \in Nat \ {0}
        /\ Len(queue') = Len(queue) - 1 /\ (queue' = <<>> <=> Len(queue) = 1)
        /\ DOMAIN queue = 1 .. Len(queue) /\ DOMAIN queue' = 1 .. Len(queue) - 1
        /\ \A i \in DOMAIN queue' : queue'[i] = queue[i + 1]
    BY <1>17, SentPiece
  <2>3. \A i \in DOMAIN queue' : i + 1 \in DOMAIN queue /\ (i + 1 = Len(queue) <=> i = Len(queue'))
    BY <2>2
  <2>4. \A i \in DOMAIN queue' :
          queue'[i].req = m_handled_requests /\ (queue'[i].last = "yes" <=> i = Len(queue') /\ complete = "yes")
    BY <1>0, <2>2, <2>3 DEF Pending
  <2>5. complete = "yes" /\ queue' = <<>> => wire[Len(wire)].last = "yes"
    <3>1. 1 \in DOMAIN queue
      BY <2>2
    <3> QED
      BY <1>0, <2>2, <3>1 DEF Pending
  <2> QED
    BY <1>0, <2>1, <2>2, <2>4, <2>5 DEF Pending
<1>18. CASE EndsOpen
  BY <1>18, <1>0 DEF EndsOpen, Ends, reset_state, Pending
<1>19. CASE EndsClosed
  BY <1>19, <1>0 DEF EndsClosed, Ends, Pending
<1>20. CASE stop
  BY <1>20, <1>0 DEF stop, Pending
<1>21. CASE UNCHANGED vars
  BY <1>21, <1>0 DEF vars, Pending
<1> QED
  BY <1>1, <1>2, <1>3, <1>4, <1>5, <1>6, <1>7, <1>8, <1>9, <1>10, <1>11, <1>12, <1>13, <1>14,
     <1>15, <1>16, <1>17, <1>18, <1>19, <1>20, <1>21 DEF Step, ClientStep

\* What was written.
LEMMA WrittenStep ==
  ASSUME ServerInv, Step \/ UNCHANGED vars, ~Pipelining
  PROVE  Written'
<1> USE DEF client, session, socket, peer, history, clientState, Answering, Record
<1>0. Written
  BY DEF ServerInv
<1>1. CASE on_acceptor_client
  <2>1. Live
    BY <1>1 DEF on_acceptor_client, Live
  <2> QED
    BY <1>1, <1>0, <2>1 DEF on_acceptor_client, Written, Answered
<1>2. CASE PeerRequest
  BY <1>2, <1>0 DEF PeerRequest, Written, Answered, Live
<1>3. CASE Arrives
  <2>1. \A i \in DOMAIN ready : i \in DOMAIN ready' /\ ready'[i] = ready[i]
    <3>1. ready \in Seq(Events)
      BY DEF ServerInv, Types, Queues
    <3> QED
      BY <1>3, <3>1, QueueEvent, EventType DEF Arrives
  <2> QED
    BY <1>3, <1>0, <2>1 DEF Arrives, Written, Answered, Live
<1>4. CASE NativeWrite
  <2>1. UNCHANGED <<queue, complete, m_handled_requests, registered>> /\ ~Completed("send")
    BY <1>4 DEF NativeWrite, Writing
  <2>2. /\ queue # <<>> /\ 1 \in DOMAIN queue /\ open /\ wire \in Seq(Pieces) /\ Len(wire) \in Nat /\ DOMAIN wire = 1 .. Len(wire)
        /\ \/ wire' = wire
           \/ /\ DOMAIN wire' = 1 .. Len(wire) + 1 /\ wire'[Len(wire) + 1] = queue[1]
              /\ \A i \in DOMAIN wire : wire'[i] = wire[i]
              /\ \E i \in DOMAIN ready' : ready'[i].kind = "send" /\ ready'[i].res = "ok"
    BY <1>4, WrittenPiece
  <2>3. Live /\ ~Answered(m_handled_requests)
    BY <1>4, <1>0, <2>1, <2>2, Served DEF ClientStep, Written, Completed
  <2>4. queue[1].req = m_handled_requests /\ (queue[1].last = "yes" => 1 = Len(queue) /\ complete = "yes")
        /\ m_handled_requests <= max_keep_alive_requests /\ m_handled_requests \in Nat
    BY <2>2 DEF ServerInv, Pending, Limit, Types, Counts
  <2>5. CASE wire' = wire
    BY <1>0, <2>1, <2>3, <2>5 DEF Written, Answered, Live
  <2>6. CASE wire' # wire
    <3>1. \A i \in DOMAIN wire' : i = Len(wire) + 1 \/ i \in DOMAIN wire
      BY <2>2, <2>6
    <3>2. \A i \in DOMAIN wire' : wire'[i].req <= m_handled_requests /\ wire'[i].req <= max_keep_alive_requests
      BY <1>0, <2>2, <2>4, <2>6, <3>1 DEF Written
    <3>3. ASSUME NEW i \in DOMAIN wire', wire'[i].req = m_handled_requests, wire'[i].last = "yes"
          PROVE  1 = Len(queue) /\ complete = "yes"
      BY <2>2, <2>3, <2>4, <2>6, <3>1, <3>3 DEF Answered
    <3> QED
      BY <2>1, <2>2, <2>6, <3>2, <3>3 DEF Written, Answered
  <2> QED
    BY <2>5, <2>6
<1>5. CASE Waits
  BY <1>5, <1>0 DEF Waits, Return, Written, Answered, Live
<1>6. CASE Sends("no")
  <2>1. ~Answered(m_handled_requests)
    BY <1>6, <1>0, Served DEF ClientStep, Sends, Written
  <2> QED
    BY <1>6, <1>0, <2>1 DEF Sends, Written, Answered
<1>7. CASE Sends("yes")
  <2>1. ~Answered(m_handled_requests)
    BY <1>7, <1>0, Served DEF ClientStep, Sends, Written
  <2> QED
    BY <1>7, <1>0, <2>1 DEF Sends, Written, Answered
<1>8. CASE Finishes
  BY <1>8, <1>0 DEF Finishes, Return, Written, Answered, Live
<1>9. CASE Closes
  <2>1. \A i \in DOMAIN ready : i \in DOMAIN ready' /\ ready'[i] = ready[i]
    BY <1>9, QueueAborted DEF Closes, ServerInv, Completions, Types, Queues
  <2> QED
    BY <1>9, <1>0, <2>1 DEF Closes, Written, Answered, Live
<1>10. CASE on_socket_receive
  <2>1. /\ ready' = Tail(ready) /\ ready[1].kind = "recv" /\ UNCHANGED <<queue, complete, m_handled_requests, registered, wire>>
        /\ \A i \in DOMAIN ready : i # 1 => i - 1 \in DOMAIN ready' /\ ready'[i - 1] = ready[i]
    BY <1>10, FirstEvent DEF on_socket_receive, ServerInv, Types, Queues
  <2>2. (\E i \in DOMAIN ready : ready[i].kind = "send" /\ ready[i].res = "ok")
          => \E i \in DOMAIN ready' : ready'[i].kind = "send" /\ ready'[i].res = "ok"
    BY <2>1
  <2> QED
    BY <1>0, <2>1, <2>2 DEF Written, Answered, Live
<1>11. CASE Removal
  BY <1>11, <1>0 DEF Removal, Written, Answered, Live
<1>12. CASE More
  <2>1. \A i \in DOMAIN ready : i \in DOMAIN ready' /\ ready'[i] = ready[i]
    <3>1. ready \in Seq(Events)
      BY DEF ServerInv, Types, Queues
    <3> QED
      BY <1>12, <3>1, QueueEvent, NoData DEF More
  <2> QED
    BY <1>12, <1>0, <2>1 DEF More, Written, Answered, Live
<1>13. CASE pc = "header" /\ \E len \in Int : Begin(len)
  <2>1. m_handled_requests \in Nat /\ m_handled_requests' = m_handled_requests + 1 /\ wire' = wire
    BY <1>13 DEF Begin, ServerInv, Types, Counts
  <2>2. wire \in Seq(Pieces)
    BY DEF ServerInv, Types, Queues
  <2>3. \A i \in DOMAIN wire : wire[i].req \in Nat
    <3>1. \A i \in DOMAIN wire : wire[i] \in Pieces
      BY <2>2, ElementOfSeq, LenProperties
    <3> QED
      BY <3>1 DEF Pieces
  <2> QED
    BY <1>0, <2>1, <2>3 DEF Written, Answered
<1>14. CASE ToBody
  BY <1>14, <1>0 DEF ToBody, Written, Answered, Live
<1>15. CASE TakesBody
  BY <1>15, <1>0 DEF TakesBody, Written, Answered, Live
<1>16. CASE ReadsOn
  BY <1>16, <1>0 DEF ReadsOn, reset_state, Written, Answered, Live
<1>17. CASE on_socket_send
  <2>1. UNCHANGED <<complete, m_handled_requests, registered, wire>>
    BY <1>17 DEF on_socket_send
  <2>2. queue # <<>> /\ (queue' = <<>> <=> Len(queue) = 1)
    BY <1>17, SentPiece
  <2> QED
    BY <1>0, <2>1, <2>2 DEF Written, Answered, Live
<1>18. CASE EndsOpen
  BY <1>18, <1>0 DEF EndsOpen, Ends, reset_state, Written, Answered, Live
<1>19. CASE EndsClosed
  <2>1. \A i \in DOMAIN ready : i \in DOMAIN ready' /\ ready'[i] = ready[i]
    BY <1>19, QueueAborted DEF EndsClosed, Ends, ServerInv, Completions, Types, Queues
  <2> QED
    BY <1>19, <1>0, <2>1 DEF EndsClosed, Ends, Written, Answered, Live
<1>20. CASE stop
  BY <1>20, <1>0 DEF stop, Written, Answered, Live
<1>21. CASE UNCHANGED vars
  BY <1>21, <1>0 DEF vars, Written, Answered, Live
<1> QED
  BY <1>1, <1>2, <1>3, <1>4, <1>5, <1>6, <1>7, <1>8, <1>9, <1>10, <1>11, <1>12, <1>13, <1>14,
     <1>15, <1>16, <1>17, <1>18, <1>19, <1>20, <1>21 DEF Step, ClientStep

\* An open connection reads.
LEMMA ReadsStep ==
  ASSUME ServerInv, Step \/ UNCHANGED vars
  PROVE  Reads'
<1> USE DEF client, session, socket, peer, history, clientState, Answering, Record
<1>0. Reads /\ Control /\ Completions /\ ready \in Seq(Events) /\ pc \in Stages
  BY DEF ServerInv, Types, Queues, Words
<1>1. CASE on_acceptor_client
  BY <1>1 DEF on_acceptor_client, ServerInv, NotYet, Reads
<1>2. CASE PeerRequest
  BY <1>2, <1>0 DEF PeerRequest, Reads, Between
<1>3. CASE Arrives
  BY <1>3, <1>0 DEF Arrives, Reading, Reads
<1>4. CASE NativeWrite
  BY <1>4, <1>0 DEF NativeWrite, Writing, Reads
<1>5. CASE Waits
  BY <1>5, <1>0 DEF Waits, Return, Reads, Between
<1>6. CASE Sends("no")
  BY <1>6, <1>0 DEF Sends, Return, Reads, Between
<1>7. CASE Sends("yes")
  BY <1>7, <1>0 DEF Sends, Return, Reads, Between
<1>8. CASE Finishes
  BY <1>8, <1>0 DEF Finishes, Return, Reads, Between
<1>9. CASE Closes
  <2>1. /\ \A i \in DOMAIN ready' :
             \/ i \in DOMAIN ready /\ ready'[i] = ready[i]
             \/ Reading /\ ready'[i] = Event("recv", "error", <<>>)
             \/ Writing /\ ready'[i] = Event("send", "error", <<>>)
        /\ Reading => \E i \in DOMAIN ready' : ready'[i] = Event("recv", "error", <<>>)
    BY <1>9, <1>0, QueueAborted DEF Closes, Completions
  <2>2. /\ Event("recv", "error", <<>>).kind = "recv" /\ Event("send", "error", <<>>).kind = "send"
        /\ Event("recv", "error", <<>>).res = "error"
    BY NoData
  <2>3. ASSUME ~cut' PROVE receiving' /\ pc' \in Between /\ (\A i \in DOMAIN ready : ready[i].kind # "recv") /\ Reading
    BY <1>9, <1>0, <2>3 DEF Closes, Return, Reading, Completed, Control, Between
  <2> QED
    BY <2>1, <2>2, <2>3 DEF Reads
<1>10. CASE on_socket_receive
  <2>1. 1 \in DOMAIN ready /\ ready[1].kind = "recv" /\ ready[1].res = "ok"
    BY <1>10, <1>0, FirstEvent DEF on_socket_receive
  <2> QED
    BY <1>10, <1>0, <2>1 DEF on_socket_receive, Reads, Between
<1>11. CASE Removal
  BY <1>11, <1>0 DEF Removal, Reads, Between
<1>12. CASE More
  BY <1>12, <1>0 DEF More, Reads, Between
<1>13. CASE pc = "header" /\ \E len \in Int : Begin(len)
  BY <1>13, <1>0 DEF Begin, Reads, Between
<1>14. CASE ToBody
  BY <1>14, <1>0 DEF ToBody, Reads, Between
<1>15. CASE TakesBody
  BY <1>15, <1>0 DEF TakesBody, Reads, Between
<1>16. CASE ReadsOn
  BY <1>16, <1>0 DEF ReadsOn, reset_state, Reads, Between
<1>17. CASE on_socket_send
  <2>1. /\ ready[1].kind = "send" /\ ready' = Tail(ready)
        /\ \A i \in DOMAIN ready' : i + 1 \in DOMAIN ready /\ ready'[i] = ready[i + 1]
        /\ \A i \in DOMAIN ready : i # 1 => i - 1 \in DOMAIN ready' /\ ready'[i - 1] = ready[i]
    BY <1>17, <1>0, FirstEvent DEF on_socket_send
  <2>2. (\E i \in DOMAIN ready : ready[i].kind = "recv") => \E i \in DOMAIN ready' : ready'[i].kind = "recv"
    BY <2>1
  <2> QED
    BY <1>17, <1>0, <2>1, <2>2 DEF on_socket_send, Reads, Between
<1>18. CASE EndsOpen
  BY <1>18, <1>0 DEF EndsOpen, Ends, reset_state, Reads, Between
<1>19. CASE EndsClosed
  <2>1. CASE ~open
    BY <1>19, <1>0, <2>1 DEF EndsClosed, Ends, Reads, Between
  <2>2. CASE open
    <3>1. /\ \A i \in DOMAIN ready' :
               \/ i \in DOMAIN ready /\ ready'[i] = ready[i]
               \/ Reading /\ ready'[i] = Event("recv", "error", <<>>)
               \/ Writing /\ ready'[i] = Event("send", "error", <<>>)
          /\ Reading => \E i \in DOMAIN ready' : ready'[i] = Event("recv", "error", <<>>)
      BY <1>19, <1>0, <2>2, QueueAborted DEF EndsClosed, Ends, Completions
    <3>2. /\ Event("recv", "error", <<>>).kind = "recv" /\ Event("send", "error", <<>>).kind = "send"
          /\ Event("recv", "error", <<>>).res = "error"
      BY NoData
    <3>3. ASSUME ~cut' PROVE receiving' /\ pc' \in Between /\ (\A i \in DOMAIN ready : ready[i].kind # "recv") /\ Reading
      BY <1>19, <1>0, <2>2, <3>3 DEF EndsClosed, Ends, Reading, Completed, Control, Between
    <3> QED
      BY <3>1, <3>2, <3>3 DEF Reads
  <2> QED
    BY <2>1, <2>2
<1>20. CASE stop
  BY <1>20, <1>0 DEF stop, Reads, Between
<1>21. CASE UNCHANGED vars
  BY <1>21, <1>0 DEF vars, Reads, Between
<1> QED
  BY <1>1, <1>2, <1>3, <1>4, <1>5, <1>6, <1>7, <1>8, <1>9, <1>10, <1>11, <1>12, <1>13, <1>14,
     <1>15, <1>16, <1>17, <1>18, <1>19, <1>20, <1>21 DEF Step, ClientStep

\* A connection closed after the response has sent all of it.
LEMMA ClosedStep ==
  ASSUME ServerInv, Step \/ UNCHANGED vars
  PROVE  ClosedFinished'
<1> USE DEF client, session, socket, peer, history, clientState, Answering, Record
<1>0. ClosedFinished
  BY DEF ServerInv
<1>1. CASE on_acceptor_client
  BY <1>1, <1>0 DEF on_acceptor_client, ClosedFinished
<1>2. CASE PeerRequest
  BY <1>2, <1>0 DEF PeerRequest, ClosedFinished
<1>3. CASE Arrives
  BY <1>3, <1>0 DEF Arrives, ClosedFinished
<1>4. CASE NativeWrite
  BY <1>4, <1>0 DEF NativeWrite, Writing, ClosedFinished
<1>5. CASE Waits
  BY <1>5, <1>0 DEF Waits, Return, ClosedFinished
<1>6. CASE Sends("no")
  BY <1>6, <1>0 DEF Sends, HandlerActive, ClosedFinished
<1>7. CASE Sends("yes")
  BY <1>7, <1>0 DEF Sends, HandlerActive, ClosedFinished
<1>8. CASE Finishes
  BY <1>8, <1>0 DEF Finishes, Return, ClosedFinished
<1>9. CASE Closes
  BY <1>9 DEF Closes, ServerInv, Pending, ClosedFinished
<1>10. CASE on_socket_receive
  BY <1>10, <1>0 DEF on_socket_receive, ClosedFinished
<1>11. CASE Removal
  BY <1>11, <1>0 DEF Removal, ClosedFinished
<1>12. CASE More
  BY <1>12, <1>0 DEF More, ClosedFinished
<1>13. CASE pc = "header" /\ \E len \in Int : Begin(len)
  BY <1>13, <1>0 DEF Begin, ClosedFinished
<1>14. CASE ToBody
  BY <1>14, <1>0 DEF ToBody, ClosedFinished
<1>15. CASE TakesBody
  BY <1>15, <1>0 DEF TakesBody, ClosedFinished
<1>16. CASE ReadsOn
  BY <1>16, <1>0 DEF ReadsOn, reset_state, ClosedFinished
<1>17. CASE on_socket_send
  <2>1. queue # <<>>
    BY <1>17, SentPiece
  <2> QED
    BY <1>17, <1>0, <2>1 DEF on_socket_send, ClosedFinished
<1>18. CASE EndsOpen
  BY <1>18, <1>0 DEF EndsOpen, Ends, reset_state, ClosedFinished
<1>19. CASE EndsClosed
  BY <1>19, <1>0 DEF EndsClosed, Ends, ServerInv, Pending, ClosedFinished
<1>20. CASE stop
  BY <1>20, <1>0 DEF stop, ClosedFinished
<1>21. CASE UNCHANGED vars
  BY <1>21, <1>0 DEF vars, ClosedFinished
<1> QED
  BY <1>1, <1>2, <1>3, <1>4, <1>5, <1>6, <1>7, <1>8, <1>9, <1>10, <1>11, <1>12, <1>13, <1>14,
     <1>15, <1>16, <1>17, <1>18, <1>19, <1>20, <1>21 DEF Step, ClientStep

\* Handlers get their bodies.
LEMMA BodiesStep ==
  ASSUME ServerInv, Step \/ UNCHANGED vars, ~Pipelining
  PROVE  Bodies'
<1> USE DEF client, session, socket, peer, history, clientState, Answering, Record
<1>0. Bodies /\ m_handled_requests \in Nat /\ bodies \in [Requests -> Seq(Tokens)]
  BY DEF ServerInv, Types, Counts, Queues
<1>1. CASE on_acceptor_client
  <2>1. Live
    BY <1>1 DEF on_acceptor_client, Live
  <2> QED
    BY <1>1, <1>0, <2>1 DEF on_acceptor_client, Bodies
<1>2. CASE PeerRequest
  BY <1>2, <1>0 DEF PeerRequest, Bodies, Live
<1>3. CASE Arrives
  BY <1>3, <1>0 DEF Arrives, Bodies, Live
<1>4. CASE NativeWrite
  BY <1>4, <1>0 DEF NativeWrite, Bodies, Live
<1>5. CASE Waits
  BY <1>5, <1>0 DEF Waits, Return, Bodies, Live
<1>6. CASE Sends("no")
  BY <1>6, <1>0 DEF Sends, Return, Bodies, Live
<1>7. CASE Sends("yes")
  BY <1>7, <1>0 DEF Sends, Return, Bodies, Live
<1>8. CASE Finishes
  BY <1>8, <1>0 DEF Finishes, Return, Bodies, Live
<1>9. CASE Closes
  BY <1>9, <1>0 DEF Closes, Return, Bodies, Live
<1>10. CASE on_socket_receive
  BY <1>10, <1>0 DEF on_socket_receive, Bodies, Live
<1>11. CASE Removal
  BY <1>11, <1>0 DEF Removal, Bodies, Live
<1>12. CASE More
  BY <1>12, <1>0 DEF More, Bodies, Live
<1>13. CASE pc = "header" /\ \E len \in Int : Begin(len)
  <2>1. m_receiving_header /\ sent = m_handled_requests + 1
    BY <1>13, HeaderFacts
  <2>2. m_handled_requests + 1 \in Requests /\ Requests \subseteq Nat
    BY <1>0, <2>1, HttpServerAssumption DEF ServerInv, Numbered, Requests
  <2>3. bodies[m_handled_requests + 1] = <<>> /\ m_received_body_size = 0
    BY <1>0, <2>1, <2>2 DEF Bodies
  <2>4. /\ m_handled_requests' = m_handled_requests + 1 /\ m_receiving_header' = FALSE
        /\ UNCHANGED <<bodies, m_received_body_size, registered>>
    BY <1>13 DEF Begin
  <2> QED
    BY <1>0, <2>2, <2>3, <2>4 DEF Bodies
<1>14. CASE ToBody
  BY <1>14, <1>0 DEF ToBody, Bodies, Live
<1>15. CASE TakesBody
  <2> DEFINE n == m_handled_requests
             b == bodies[n]
  <2>1. data # <<>> /\ pc = "body" /\ m_handler # 0
    BY <1>15 DEF TakesBody, ServerInv, Control
  <2>2. /\ Live /\ n > 0 /\ m_handler = n /\ ~m_receiving_header /\ AtHand = data /\ n \in Requests
        /\ IsBody(Unread, n, m_received_body_size, m_content_length)
    BY <2>1, BodyFacts DEF Live
  <2>3. b \in Seq(Tokens) /\ data \in Seq(Tokens) /\ Len(b) = m_received_body_size
    BY <1>0, <2>2 DEF Bodies, ServerInv, Types, Queues
  <2>4. /\ b \o data \in Seq(Tokens) /\ Len(b \o data) = Len(b) + Len(data) /\ Len(b) \in Nat /\ Len(data) \in Nat
        /\ \A i \in 1 .. Len(b) : (b \o data)[i] = b[i]
        /\ \A i \in 1 .. Len(data) : (b \o data)[Len(b) + i] = data[i]
        /\ DOMAIN b = 1 .. Len(b) /\ DOMAIN (b \o data) = 1 .. Len(b) + Len(data)
    <3>1. b \in Seq(Tokens) /\ data \in Seq(Tokens)
      BY <2>3
    <3> HIDE DEF b
    <3> QED
      BY <3>1, Joined
  <2>5. \A i \in 1 .. Len(data) : data[i] = Token(n, "body", Len(b) + i)
    BY <2>2, <2>3, UnreadParts DEF IsBody
  <2>6. /\ m_received_body_size' = m_received_body_size + Len(data) /\ bodies' = [bodies EXCEPT ![n] = b \o data]
        /\ UNCHANGED <<m_receiving_header, m_handled_requests, registered>>
    BY <1>15, <2>2 DEF TakesBody
  <2>7. ASSUME NEW i \in DOMAIN (b \o data) PROVE (b \o data)[i] = Token(n, "body", i)
    <3>1. CASE i <= Len(b)
      <4>1. i \in 1 .. Len(b)
        BY <2>4, <3>1
      <4>2. b[i] = Token(n, "body", i)
        BY <1>0, <2>2, <2>4, <4>1 DEF Bodies
      <4> QED
        BY <2>4, <4>1, <4>2
    <3>2. CASE ~(i <= Len(b))
      <4> DEFINE j == i - Len(b)
      <4>1. j \in 1 .. Len(data) /\ Len(b) + j = i
        <5> HIDE DEF b
        <5> QED
          BY <2>4, <3>2
      <4> QED
        BY <2>4, <2>5, <4>1
    <3> QED
      BY <3>1, <3>2
  <2> HIDE DEF b
  <2>8. \A r \in Requests : bodies'[r] = IF r = n THEN b \o data ELSE bodies[r]
    BY <1>0, <2>2, <2>6
  <2>9. \A r \in Requests : \A i \in DOMAIN bodies'[r] : bodies'[r][i] = Token(r, "body", i)
    BY <1>0, <2>7, <2>8 DEF Bodies
  <2>10. \A r \in Requests : r > n => bodies'[r] = <<>>
    BY <1>0, <2>8 DEF Bodies
  <2> QED
    BY <1>0, <2>2, <2>3, <2>4, <2>6, <2>8, <2>9, <2>10 DEF Bodies
<1>16. CASE ReadsOn
  BY <1>16, <1>0 DEF ReadsOn, reset_state, Bodies, Live
<1>17. CASE on_socket_send
  BY <1>17, <1>0 DEF on_socket_send, Bodies, Live
<1>18. CASE EndsOpen
  BY <1>18, <1>0 DEF EndsOpen, Ends, reset_state, Bodies, Live
<1>19. CASE EndsClosed
  BY <1>19, <1>0 DEF EndsClosed, Ends, Bodies, Live
<1>20. CASE stop
  BY <1>20, <1>0 DEF stop, Bodies, Live
<1>21. CASE UNCHANGED vars
  BY <1>21, <1>0 DEF vars, Bodies, Live
<1> QED
  BY <1>1, <1>2, <1>3, <1>4, <1>5, <1>6, <1>7, <1>8, <1>9, <1>10, <1>11, <1>12, <1>13, <1>14,
     <1>15, <1>16, <1>17, <1>18, <1>19, <1>20, <1>21 DEF Step, ClientStep

\* Completions with the same data of a read.
LEMMA SameData ==
  ASSUME NEW a, NEW b, OneOfAKind(b),
         \A j \in DOMAIN b : b[j].kind = "recv" => b[j].data = ReadData(a),
         (\A j \in DOMAIN b : b[j].kind # "recv") => ReadData(a) = <<>>
  PROVE  ReadData(b) = ReadData(a)
  BY ReadDataIs

\* The steps that only move what was not read.
Quiet ==
  \/ on_acceptor_client \/ Arrives \/ NativeWrite \/ Waits \/ Sends("no") \/ Sends("yes") \/ Finishes \/ Closes
  \/ on_socket_receive \/ More \/ ToBody \/ ReadsOn \/ on_socket_send \/ EndsOpen \/ EndsClosed \/ UNCHANGED vars

\* Writes, and closing the connection, leave the data of a read alone.
LEMMA ArrivingKept ==
  ASSUME ServerInv, Completions',
         NativeWrite \/ Closes \/ More \/ on_socket_send \/ EndsClosed
  PROVE  Arriving' = Arriving
<1>0. /\ OneOfAKind(ready) /\ OneOfAKind(ready') /\ ready \in Seq(Events)
      /\ \A i \in DOMAIN ready : ready[i].kind = "recv" => Arriving = ready[i].data
      /\ (\A i \in DOMAIN ready : ready[i].kind # "recv") => Arriving = <<>>
  BY ReadDataIs DEF ServerInv, Types, Queues, Completions, Arriving
<1> SUFFICES /\ \A j \in DOMAIN ready' : ready'[j].kind = "recv" => ready'[j].data = Arriving
             /\ (\A j \in DOMAIN ready' : ready'[j].kind # "recv") => Arriving = <<>>
  BY <1>0, SameData DEF Arriving
<1> HIDE DEF Arriving
<1>1. /\ Event("recv", "error", <<>>).kind = "recv" /\ Event("send", "error", <<>>).kind = "send"
      /\ Event("recv", "error", <<>>).data = <<>>
  BY NoData
<1>2. CASE NativeWrite
  <2>1. PICK res \in {"ok", "error"} : ready' = Append(ready, Event("send", res, <<>>))
    BY <1>2 DEF NativeWrite
  <2>2. /\ DOMAIN ready' = DOMAIN ready \cup {Len(ready) + 1} /\ ready'[Len(ready) + 1].kind = "send"
        /\ \A i \in DOMAIN ready : ready'[i] = ready[i]
    BY <1>0, <2>1, QueueEvent, NoData
  <2> QED
    BY <1>0, <2>2
<1>3. CASE ready' = ready \o Aborted
  <2>1. /\ \A i \in DOMAIN ready : i \in DOMAIN ready' /\ ready'[i] = ready[i]
        /\ \A i \in DOMAIN ready' : i \in DOMAIN ready \/ (Reading /\ ready'[i] = Event("recv", "error", <<>>))
                                                       \/ ready'[i] = Event("send", "error", <<>>)
    BY <1>0, <1>3, QueueAborted
  <2>2. Reading => \A i \in DOMAIN ready : ready[i].kind # "recv"
    BY DEF Reading, Completed
  <2>3. ASSUME NEW j \in DOMAIN ready', ready'[j].kind = "recv" PROVE ready'[j].data = Arriving
    <3>1. CASE j \in DOMAIN ready
      BY <1>0, <2>1, <2>3, <3>1
    <3>2. CASE j \notin DOMAIN ready
      BY <1>0, <1>1, <2>1, <2>2, <2>3, <3>2
    <3> QED
      BY <3>1, <3>2
  <2> QED
    BY <1>0, <2>1, <2>3
<1>4. CASE ready' = ready
  BY <1>0, <1>4
<1>5. CASE More
  <2>1. CASE open
    BY <1>4, <1>5, <2>1 DEF More
  <2>2. CASE ~open
    <3>1. \A i \in DOMAIN ready : ready[i].kind # "recv"
      BY <1>5 DEF More, ServerInv, Control, Between, Completions
    <3>2. /\ DOMAIN ready' = DOMAIN ready \cup {Len(ready) + 1} /\ ready'[Len(ready) + 1] = Event("recv", "error", <<>>)
          /\ \A i \in DOMAIN ready : ready'[i] = ready[i]
      BY <1>0, <1>5, <2>2, QueueEvent, NoData DEF More
    <3> QED
      BY <1>0, <1>1, <3>1, <3>2
  <2> QED
    BY <2>1, <2>2
<1>6. CASE on_socket_send
  <2>1. /\ ready[1].kind = "send" /\ \A i \in DOMAIN ready' : i + 1 \in DOMAIN ready /\ ready'[i] = ready[i + 1]
        /\ \A i \in DOMAIN ready : i # 1 => i - 1 \in DOMAIN ready' /\ ready'[i - 1] = ready[i]
    BY <1>0, <1>6, FirstEvent DEF on_socket_send
  <2> QED
    BY <1>0, <2>1
<1> QED
  BY <1>2, <1>3, <1>4, <1>5, <1>6 DEF Closes, EndsClosed

\* The request ends with nothing at hand when the connection is kept.
LEMMA NothingAtHand ==
  ASSUME ServerInv, EndsOpen
  PROVE  AtHand = <<>> /\ Live /\ complete = "yes" /\ m_keep_alive
<1>1. pc = "after_sent" /\ m_finished /\ m_keep_alive /\ m_handler # 0
  BY DEF EndsOpen, Ends, LastKeptAlive, ServerInv, Control
<1>2. complete = "yes" /\ Live
  BY <1>1 DEF ServerInv, Pending, Gone
<1>3. CASE sent = m_handled_requests
  BY <1>1, <1>2, <1>3, UnreadParts DEF ServerInv, Input
<1>4. CASE sent # m_handled_requests
  <2>1. sent > m_handled_requests /\ m_handled_requests > 0
    BY <1>1, <1>4, HandlerRequest DEF ServerInv, Numbered, Types, Counts, Requests
  <2> QED
    BY <1>1, <1>2, <2>1 DEF ServerInv, Ahead
<1> QED
  BY <1>1, <1>2, <1>3, <1>4

\* What was not read stays the same when a read completes or is taken, and
\* when the connection is read on.
LEMMA UnreadKept ==
  ASSUME ServerInv, Completions', Quiet
  PROVE  Unread' = Unread
<1> USE DEF client, session, socket, peer, history, clientState, Answering, Record
<1>0. /\ m_header_buffer \in Seq(Tokens) /\ data \in Seq(Tokens) /\ stream \in Seq(Tokens) /\ ready \in Seq(Events)
      /\ AtHand \in Seq(Tokens) /\ Arriving \in Seq(Tokens) /\ OneOfAKind(ready) /\ OneOfAKind(ready')
  BY UnreadParts DEF ServerInv, Types, Queues, Completions
<1>1. CASE on_acceptor_client \/ Waits \/ Sends("no") \/ Sends("yes") \/ Finishes \/ ToBody \/ UNCHANGED vars
  <2>1. UNCHANGED <<m_receiving_header, m_header_buffer, data, stream, ready>>
    BY <1>1 DEF on_acceptor_client, Waits, Sends, Finishes, ToBody, vars
  <2> QED
    BY <2>1 DEF Unread, AtHand, Arriving
<1>2. CASE NativeWrite \/ Closes \/ on_socket_send \/ EndsClosed
  <2>1. Arriving' = Arriving
    BY <1>2, ArrivingKept
  <2>2. AtHand' = AtHand /\ stream' = stream
    BY <1>2 DEF NativeWrite, Closes, on_socket_send, EndsClosed, Ends, AtHand
  <2> QED
    BY <2>1, <2>2 DEF Unread
<1>3. CASE More
  <2>1. Arriving' = Arriving
    BY <1>3, ArrivingKept
  <2>2. m_receiving_header /\ m_header_buffer \o data \in Seq(Tokens)
    BY <1>3, UnreadParts DEF More, ServerInv, Control
  <2>3. (m_header_buffer \o data) \o <<>> = m_header_buffer \o data
    BY <2>2, ConcatEmptySeq
  <2>4. AtHand' = AtHand /\ stream' = stream
    BY <1>3, <2>2, <2>3 DEF More, AtHand
  <2> QED
    BY <2>1, <2>4 DEF Unread
<1>4. CASE ReadsOn \/ EndsOpen
  <2>1. Arriving' = Arriving /\ stream' = stream
    BY <1>4 DEF ReadsOn, EndsOpen, Ends, Arriving
  <2>2. <<>> \o <<>> = <<>> /\ <<>> \in Seq(Tokens)
    BY EmptySeq, ConcatEmptySeq
  <2>3. AtHand' = AtHand
    <3>1. CASE UNCHANGED clientState /\ ReadsOn
      BY <3>1 DEF ReadsOn, AtHand
    <3>2. CASE reset_state /\ ReadsOn /\ pc = "after_body"
      BY <2>2, <3>2 DEF ReadsOn, reset_state, AtHand, ServerInv, Control
    <3>3. CASE EndsOpen
      <4>1. data = <<>>
        BY <3>3 DEF EndsOpen, Ends, ServerInv, Control, Between
      <4> QED
        BY <2>2, <3>3, <4>1, NothingAtHand DEF EndsOpen, Ends, reset_state, AtHand
    <3> QED
      BY <1>4, <3>1, <3>2, <3>3 DEF ReadsOn
  <2> QED
    BY <2>1, <2>3 DEF Unread
<1>5. CASE Arrives
  <2>1. PICK d \in Seq(Tokens), res \in {"ok", "error"} :
          ready' = Append(ready, Event("recv", res, d)) /\ stream' \in Seq(Tokens) /\ stream = d \o stream'
    BY <1>5 DEF Arrives
  <2>2. Arriving = <<>>
    BY <1>0, <1>5, ReadDataIs DEF Arrives, Reading, Completed, Arriving
  <2>3. ReadData(ready') = d
    <3>1. Len(ready) + 1 \in DOMAIN ready' /\ ready'[Len(ready) + 1].kind = "recv" /\ ready'[Len(ready) + 1].data = d
      BY <1>0, <2>1, QueueEvent, EventType
    <3> QED
      BY <1>0, <3>1, ReadDataIs
  <2>4. AtHand' = AtHand
    BY <1>5 DEF Arrives, AtHand
  <2>5. <<>> \o stream = stream
    BY <1>0, ConcatEmptySeq
  <2> QED
    BY <2>1, <2>2, <2>3, <2>4, <2>5 DEF Unread, Arriving
<1>6. CASE on_socket_receive
  <2> DEFINE d == Head(ready).data
  <2>1. /\ 1 \in DOMAIN ready /\ ready[1].kind = "recv" /\ d = ready[1].data /\ d \in Seq(Tokens) /\ ready' = Tail(ready)
        /\ \A i \in DOMAIN ready' : i + 1 \in DOMAIN ready /\ ready'[i] = ready[i + 1] /\ i \in Nat \ {0}
    BY <1>0, <1>6, FirstEvent DEF on_socket_receive
  <2>2. Arriving = d
    BY <1>0, <2>1, ReadDataIs DEF Arriving
  <2>3. ReadData(ready') = <<>>
    <3>1. \A i \in DOMAIN ready' : ready'[i].kind # "recv"
      BY <1>0, <2>1 DEF OneOfAKind
    <3> QED
      BY <1>0, <3>1, ReadDataIs
  <2>4. data = <<>> /\ data' = d /\ UNCHANGED <<m_receiving_header, m_header_buffer, stream>>
    BY <1>6 DEF on_socket_receive, ServerInv, Control, Between
  <2> HIDE DEF d
  <2>5. <<>> \o stream = stream /\ m_header_buffer \o <<>> = m_header_buffer /\ <<>> \o (d \o stream) = d \o stream
    <3>1. d \o stream \in Seq(Tokens)
      BY <1>0, <2>1, ConcatProperties
    <3> QED
      BY <1>0, <3>1, ConcatEmptySeq
  <2>6. (m_header_buffer \o d) \o stream = m_header_buffer \o (d \o stream)
    <3>1. m_header_buffer \in Seq(Tokens) /\ d \in Seq(Tokens) /\ stream \in Seq(Tokens)
      BY <1>0, <2>1
    <3> QED
      BY <3>1, ConcatAssociative
  <2>7. Unread = AtHand \o (d \o stream) /\ Unread' = AtHand' \o stream
    BY <2>2, <2>3, <2>4, <2>5 DEF Unread, Arriving
  <2> QED
    BY <2>4, <2>5, <2>6, <2>7 DEF AtHand
<1> QED
  BY <1>1, <1>2, <1>3, <1>4, <1>5, <1>6 DEF Quiet

\* What was not read yet.
LEMMA InputStep ==
  ASSUME ServerInv, Step \/ UNCHANGED vars, Completions', ~Pipelining, CarefulHandlers
  PROVE  Input'
<1> USE DEF client, session, socket, peer, history, clientState, Answering, Record
<1>0. Input
  BY DEF ServerInv
<1>1. CASE on_acceptor_client
  <2>1. Unread' = Unread /\ Live
    BY <1>1, UnreadKept DEF Quiet, on_acceptor_client, Live
  <2> QED
    BY <1>1, <1>0, <2>1 DEF on_acceptor_client, Input
<1>2. CASE PeerRequest
  <2>1. /\ sent = m_handled_requests /\ AtHand = <<>> /\ Arriving = <<>> /\ stream = <<>>
    BY <1>2, PeerFacts
  <2>2. stream \in Seq(Tokens) /\ sent \in Nat
    BY DEF ServerInv, Types, Queues, Counts
  <2>3. stream' \in Seq(Tokens) /\ IsRequest(stream', sent + 1)
    BY <1>2, <2>1, <2>2, SentRequest
  <2>4. sent' = sent + 1 /\ AtHand' = <<>> /\ Arriving' = <<>> /\ UNCHANGED m_handled_requests
    BY <1>2, <2>1 DEF PeerRequest, AtHand, Arriving
  <2>5. Unread' = stream'
    BY <2>3, <2>4, ConcatEmptySeq DEF Unread
  <2> QED
    BY <2>1, <2>2, <2>3, <2>4, <2>5 DEF Input
<1>3. CASE Arrives
  <2>1. Unread' = Unread /\ Live
    BY <1>3, UnreadKept, Served DEF Quiet, ClientStep
  <2> QED
    BY <1>3, <1>0, <2>1 DEF Arrives, Input
<1>4. CASE NativeWrite
  <2>1. Unread' = Unread /\ Live
    BY <1>4, UnreadKept, Served DEF Quiet, ClientStep
  <2> QED
    BY <1>4, <1>0, <2>1 DEF NativeWrite, Input
<1>5. CASE Waits
  <2>1. Unread' = Unread /\ Live
    BY <1>5, UnreadKept, Served DEF Quiet, ClientStep
  <2> QED
    BY <1>5, <1>0, <2>1 DEF Waits, Input
<1>6. CASE Sends("no")
  <2>1. Unread' = Unread /\ Live
    BY <1>6, UnreadKept, Served DEF Quiet, ClientStep
  <2> QED
    BY <1>6, <1>0, <2>1 DEF Sends, Input
<1>7. CASE Sends("yes")
  <2>1. Unread' = Unread /\ Live
    BY <1>7, UnreadKept, Served DEF Quiet, ClientStep
  <2>2. /\ complete' = "yes" /\ (m_keep_alive => WholeBody)
        /\ UNCHANGED <<sent, m_handled_requests, m_receiving_header, m_received_body_size, m_content_length, m_keep_alive, registered>>
    BY <1>7 DEF Sends, MayComplete
  <2>3. ASSUME sent = m_handled_requests, m_keep_alive PROVE Unread = <<>>
    <3>1. CASE m_receiving_header
      BY <1>0, <2>1, <2>3, <3>1 DEF Input
    <3>2. CASE ~m_receiving_header
      <4>1. IsBody(Unread, m_handled_requests, m_received_body_size, m_content_length) /\ m_content_length <= m_received_body_size
        BY <1>0, <2>1, <2>2, <2>3, <3>2 DEF Input, WholeBody
      <4>2. Unread \in Seq(Tokens) /\ Len(Unread) \in Nat /\ m_received_body_size \in Nat /\ m_content_length \in Int
        BY UnreadParts, LenProperties DEF ServerInv, Types, Counts
      <4>3. Len(Unread) = 0
        BY <4>1, <4>2 DEF IsBody, Amount
      <4> QED
        BY <4>2, <4>3, EmptySeq
    <3> QED
      BY <3>1, <3>2
  <2> QED
    BY <1>0, <2>1, <2>2, <2>3 DEF Input
<1>8. CASE Finishes
  <2>1. Unread' = Unread /\ Live
    BY <1>8, UnreadKept, Served DEF Quiet, ClientStep
  <2> QED
    BY <1>8, <1>0, <2>1 DEF Finishes, Input
<1>9. CASE Closes
  <2>1. Unread' = Unread /\ Live
    BY <1>9, UnreadKept, Served DEF Quiet, ClientStep
  <2> QED
    BY <1>9, <1>0, <2>1 DEF Closes, Input
<1>10. CASE on_socket_receive
  <2>1. Unread' = Unread /\ Live
    BY <1>10, UnreadKept, Served DEF Quiet, ClientStep
  <2> QED
    BY <1>10, <1>0, <2>1 DEF on_socket_receive, Input
<1>11. CASE Removal
  BY <1>11 DEF Removal, Input, Live
<1>12. CASE More
  <2>1. Unread' = Unread /\ Live
    BY <1>12, UnreadKept, Served DEF Quiet, ClientStep
  <2> QED
    BY <1>12, <1>0, <2>1 DEF More, Input
<1>13. CASE pc = "header" /\ \E len \in Int : Begin(len)
  <2>1. PICK len \in Int : Begin(len)
    BY <1>13
  <2>2. Arriving = <<>> /\ sent = m_handled_requests + 1 /\ m_receiving_header /\ m_handled_requests \in Nat
    BY <1>13, HeaderFacts DEF ServerInv, Types, Counts
  <2>3. m_received_body_size = 0
    BY <2>2 DEF ServerInv, Bodies
  <2>4. /\ ~m_receiving_header' /\ m_handled_requests' = m_handled_requests + 1 /\ complete' = "no" /\ m_content_length' = len
        /\ UNCHANGED <<sent, m_received_body_size, stream, ready>>
        /\ IsBody(data' \o (<<>> \o stream), m_handled_requests + 1, 0, len)
    BY <2>1 DEF Begin
  <2>5. Unread' = data' \o (<<>> \o stream)
    BY <2>2, <2>4 DEF Unread, AtHand, Arriving
  <2> QED
    BY <2>2, <2>3, <2>4, <2>5 DEF Input
<1>14. CASE ToBody
  <2>1. Unread' = Unread /\ Live
    BY <1>14, UnreadKept, Served DEF Quiet, ClientStep
  <2> QED
    BY <1>14, <1>0, <2>1 DEF ToBody, Input
<1>15. CASE TakesBody
  <2>1. data # <<>> /\ pc = "body" /\ m_handler # 0
    BY <1>15 DEF TakesBody, ServerInv, Control
  <2> DEFINE n == m_handled_requests
             m == m_received_body_size
  <2>2. /\ Live /\ sent = n /\ ~m_receiving_header /\ AtHand = data /\ Arriving = <<>>
        /\ IsBody(Unread, n, m, m_content_length)
    BY <2>1, BodyFacts DEF Live
  <2>3. data \in Seq(Tokens) /\ stream \in Seq(Tokens) /\ m \in Nat /\ m_content_length \in Int
    BY DEF ServerInv, Types, Queues, Counts
  <2>4. <<>> \o stream = stream /\ Unread = data \o stream /\ Unread # <<>>
    BY <2>1, <2>2, <2>3, ConcatEmptySeq, UnreadParts DEF Unread
  <2>5. /\ Len(data \o stream) = Len(data) + Len(stream) /\ Len(data) \in Nat /\ Len(stream) \in Nat
        /\ \A i \in 1 .. Len(stream) : (data \o stream)[Len(data) + i] = stream[i]
        /\ DOMAIN stream = 1 .. Len(stream) /\ DOMAIN (data \o stream) = 1 .. Len(data) + Len(stream)
    BY <2>3, Joined
  <2>6. /\ m_received_body_size' = m + Len(data) /\ data' = <<>>
        /\ UNCHANGED <<m_receiving_header, m_content_length, m_handled_requests, sent, stream, ready, complete, m_keep_alive, registered>>
    BY <1>15 DEF TakesBody
  <2>7. Unread' = stream
    BY <2>2, <2>4, <2>6 DEF Unread, AtHand, Arriving
  <2>8. IsBody(stream, n, m + Len(data), m_content_length)
    <3>1. (m + Len(data)) + Len(stream) = Amount(m_content_length)
      BY <2>2, <2>3, <2>4, <2>5 DEF IsBody
    <3>2. ASSUME NEW i \in DOMAIN stream PROVE stream[i] = Token(n, "body", (m + Len(data)) + i)
      <4>1. i \in 1 .. Len(stream) /\ Len(data) + i \in DOMAIN Unread /\ m + (Len(data) + i) = (m + Len(data)) + i
        BY <2>3, <2>4, <2>5
      <4>2. Unread[Len(data) + i] = Token(n, "body", m + (Len(data) + i))
        BY <2>2, <4>1 DEF IsBody
      <4> QED
        BY <2>4, <2>5, <4>1, <4>2
    <3> QED
      BY <3>1, <3>2 DEF IsBody
  <2>9. ~(complete = "yes" /\ m_keep_alive)
    BY <1>0, <2>2, <2>4 DEF Input
  <2>10. IsBody(Unread', m_handled_requests', m_received_body_size', m_content_length')
    BY <2>6, <2>7, <2>8
  <2>11. sent' = m_handled_requests' /\ sent' \in Nat /\ ~m_receiving_header' /\ ~(complete' = "yes" /\ m_keep_alive')
    BY <2>2, <2>6, <2>9 DEF ServerInv, Types, Counts
  <2> QED
    BY <2>10, <2>11 DEF Input
<1>16. CASE ReadsOn
  <2>1. Unread' = Unread /\ Live
    BY <1>16, UnreadKept, Served DEF Quiet, ClientStep
  <2>2. CASE UNCHANGED clientState
    BY <1>16, <1>0, <2>1, <2>2 DEF ReadsOn, Input
  <2>3. CASE pc = "after_body" /\ m_received_body_size = m_content_length /\ reset_state
    <3>1. ~m_receiving_header
      BY <2>3 DEF ServerInv, Control
    <3>2. ASSUME sent = m_handled_requests PROVE Unread = <<>>
      <4>1. IsBody(Unread, m_handled_requests, m_received_body_size, m_content_length)
        BY <1>0, <2>1, <3>1, <3>2 DEF Input
      <4>2. Unread \in Seq(Tokens) /\ Len(Unread) \in Nat /\ m_received_body_size \in Nat
        BY UnreadParts, LenProperties DEF ServerInv, Types, Counts
      <4>3. Len(Unread) = 0
        BY <2>3, <4>1, <4>2 DEF IsBody, Amount
      <4> QED
        BY <4>2, <4>3, EmptySeq
    <3> QED
      BY <1>16, <1>0, <2>1, <2>3, <3>2 DEF ReadsOn, reset_state, Input
  <2> QED
    BY <1>16, <2>2, <2>3 DEF ReadsOn
<1>17. CASE on_socket_send
  <2>1. Unread' = Unread /\ Live
    BY <1>17, UnreadKept, Served DEF Quiet, ClientStep
  <2> QED
    BY <1>17, <1>0, <2>1 DEF on_socket_send, Input
<1>18. CASE EndsOpen
  <2>1. Unread' = Unread /\ Live /\ complete = "yes" /\ m_keep_alive
    BY <1>18, UnreadKept, NothingAtHand DEF Quiet
  <2> QED
    BY <1>18, <1>0, <2>1 DEF EndsOpen, Ends, reset_state, Input
<1>19. CASE EndsClosed
  <2>1. Unread' = Unread /\ Live
    BY <1>19, UnreadKept, Served DEF Quiet, ClientStep
  <2> QED
    BY <1>19, <1>0, <2>1 DEF EndsClosed, Ends, Input
<1>20. CASE stop
  BY <1>20 DEF stop, Input, Live
<1>21. CASE UNCHANGED vars
  <2>1. Unread' = Unread
    BY <1>21, UnreadKept DEF Quiet
  <2> QED
    BY <1>21, <1>0, <2>1 DEF vars, Input, Live
<1> QED
  BY <1>1, <1>2, <1>3, <1>4, <1>5, <1>6, <1>7, <1>8, <1>9, <1>10, <1>11, <1>12, <1>13, <1>14,
     <1>15, <1>16, <1>17, <1>18, <1>19, <1>20, <1>21 DEF Step, ClientStep

\* The next request waits for the response.
LEMMA AheadStep ==
  ASSUME ServerInv, Step \/ UNCHANGED vars, ~Pipelining, CarefulHandlers
  PROVE  Ahead'
<1> USE DEF client, session, socket, peer, history, clientState, Answering, Record
<1>0. /\ Ahead /\ m_handled_requests \in Nat /\ sent \in Nat /\ ready \in Seq(Events)
  BY DEF ServerInv, Types, Counts, Queues
<1>1. CASE on_acceptor_client
  <2>1. sent = 0
    BY <1>1 DEF on_acceptor_client, ServerInv, NotYet
  <2> QED
    BY <1>1, <1>0, <2>1 DEF on_acceptor_client, Ahead
<1>2. CASE PeerRequest
  <2>1. /\ Live /\ AtHand = <<>> /\ Arriving = <<>>
        /\ m_handled_requests > 0 => m_keep_alive /\ complete = "yes" /\ Answered(m_handled_requests)
    BY <1>2, PeerFacts, Served DEF ClientStep
  <2>2. /\ AtHand' = AtHand
        /\ UNCHANGED <<m_handled_requests, m_handler, m_keep_alive, complete, queue, ready>>
    BY <1>2 DEF PeerRequest, AtHand
  <2>3. ASSUME m_handled_requests > 0
        PROVE  /\ Len(queue) <= 1
               /\ queue # <<>> => ready # <<>> /\ ~(Head(ready).kind = "recv" /\ Head(ready).res = "ok")
    <3>1. queue = <<>> \/ (Len(queue) = 1 /\ \E i \in DOMAIN ready : ready[i].kind = "send" /\ ready[i].res = "ok")
      BY <2>1, <2>3 DEF ServerInv, Written
    <3>2. CASE queue = <<>>
      BY <3>2
    <3>3. CASE queue # <<>>
      <4>1. ready # <<>> /\ Len(queue) = 1
        BY <3>1, <3>3
      <4>2. Head(ready) = ready[1] /\ 1 \in DOMAIN ready
        BY <1>0, <4>1, FirstEvent
      <4>3. \A i \in DOMAIN ready : ready[i].kind = "recv" => ready[i].data = <<>> /\ ready[i].res # "ok"
        BY <2>1, ReadDataIs DEF Arriving, ServerInv, Completions
      <4> QED
        BY <4>1, <4>2, <4>3
    <3> QED
      BY <3>2, <3>3
  <2> QED
    BY <2>1, <2>2, <2>3 DEF Ahead
<1>3. CASE Arrives
  <2>1. ready' # <<>> /\ (ready # <<>> => Head(ready') = Head(ready))
    BY <1>3, <1>0, QueueEvent, EventType DEF Arrives
  <2>2. AtHand' = AtHand /\ Live
    BY <1>3, Served DEF ClientStep, Arrives, AtHand
  <2> QED
    BY <1>3, <1>0, <2>1, <2>2 DEF Arrives, Ahead
<1>4. CASE NativeWrite
  <2>1. ready' # <<>> /\ (ready # <<>> => Head(ready') = Head(ready))
    BY <1>4, <1>0, QueueEvent, NoData DEF NativeWrite
  <2>2. AtHand' = AtHand /\ Live
    BY <1>4, Served DEF ClientStep, NativeWrite, AtHand
  <2> QED
    BY <1>4, <1>0, <2>1, <2>2 DEF NativeWrite, Ahead
<1>5. CASE Waits
  <2>1. AtHand' = AtHand /\ Live
    BY <1>5, Served DEF ClientStep, Waits, AtHand
  <2> QED
    BY <1>5, <1>0, <2>1 DEF Waits, Ahead
<1>6. CASE Sends("no")
  BY <1>6, <1>0, Served DEF ClientStep, Sends, Ahead
<1>7. CASE Sends("yes")
  BY <1>7, <1>0, Served DEF ClientStep, Sends, Ahead
<1>8. CASE Finishes
  <2>1. AtHand' = AtHand /\ Live
    BY <1>8, Served DEF ClientStep, Finishes, AtHand
  <2> QED
    BY <1>8, <1>0, <2>1 DEF Finishes, Ahead
<1>9. CASE Closes
  BY <1>9, <1>0, Served DEF ClientStep, Closes, Ahead
<1>10. CASE on_socket_receive
  <2>1. pc = "idle" /\ ready # <<>> /\ Head(ready).kind = "recv" /\ Head(ready).res = "ok"
        /\ UNCHANGED <<m_handler, m_keep_alive, complete, queue, sent, m_handled_requests>>
    BY <1>10 DEF on_socket_receive
  <2>2. Live
    BY <1>10, Served DEF ClientStep
  <2>3. sent > m_handled_requests /\ m_handled_requests > 0 => m_handler = 0
    BY <1>0, <2>1, <2>2 DEF Ahead, ServerInv, KeptAnswer
  <2> QED
    BY <1>0, <2>1, <2>2, <2>3 DEF Ahead
<1>11. CASE Removal
  BY <1>11 DEF Removal, Ahead, Live
<1>12. CASE More
  <2>1. m_handler = 0 /\ Live
    BY <1>12, HeaderFacts DEF More, Live
  <2> QED
    BY <1>12, <1>0, <2>1 DEF More, Ahead
<1>13. CASE pc = "header" /\ \E len \in Int : Begin(len)
  <2>1. sent = m_handled_requests + 1
    BY <1>13, HeaderFacts
  <2> QED
    BY <1>13, <1>0, <2>1 DEF Begin, Ahead
<1>14. CASE ToBody
  <2>1. sent = m_handled_requests
    BY <1>14, BodyFacts DEF ToBody, ServerInv, Control
  <2> QED
    BY <1>14, <1>0, <2>1 DEF ToBody, Ahead
<1>15. CASE TakesBody
  <2>1. sent = m_handled_requests
    BY <1>15, BodyFacts DEF TakesBody, ServerInv, Control
  <2> QED
    BY <1>15, <1>0, <2>1 DEF TakesBody, Ahead
<1>16. CASE ReadsOn
  <2>1. Live
    BY <1>16, Served DEF ClientStep
  <2>2. AtHand' = <<>>
    <3>1. ~m_receiving_header /\ data = <<>> /\ <<>> \o <<>> = <<>>
      BY <1>16, EmptySeq, ConcatEmptySeq DEF ReadsOn, ServerInv, Control
    <3> QED
      BY <1>16, <3>1 DEF ReadsOn, reset_state, AtHand
  <2> QED
    BY <1>16, <1>0, <2>1, <2>2 DEF ReadsOn, Ahead
<1>17. CASE on_socket_send
  <2>1. Live /\ AtHand' = AtHand
    BY <1>17, Served DEF ClientStep, on_socket_send, AtHand
  <2>2. Len(queue) \in Nat \ {0} /\ Len(queue') = Len(queue) - 1 /\ (queue' = <<>> <=> Len(queue) = 1)
    BY <1>17, SentPiece
  <2>3. Len(queue) <= 1 => queue' = <<>> /\ Len(queue') <= 1
    BY <2>2
  <2> QED
    BY <1>17, <1>0, <2>1, <2>3 DEF on_socket_send, Ahead
<1>18. CASE EndsOpen
  BY <1>18, <1>0, NothingAtHand DEF EndsOpen, Ends, Ahead
<1>19. CASE EndsClosed
  BY <1>19, <1>0, Served DEF ClientStep, EndsClosed, Ends, Ahead
<1>20. CASE stop
  BY <1>20 DEF stop, Ahead, Live
<1>21. CASE UNCHANGED vars
  BY <1>21, <1>0 DEF vars, Ahead, AtHand, Live
<1> QED
  BY <1>1, <1>2, <1>3, <1>4, <1>5, <1>6, <1>7, <1>8, <1>9, <1>10, <1>11, <1>12, <1>13, <1>14,
     <1>15, <1>16, <1>17, <1>18, <1>19, <1>20, <1>21 DEF Step, ClientStep

-----------------------------------------------------------------------------
(* The theorems.                                                           *)

\* The invariant holds when the server starts.
LEMMA ServerInit ==
  ASSUME Init
  PROVE  ServerInv
<1>1. /\ registered = "no" /\ pc = "idle" /\ complete = "no" /\ closed = "" /\ cut = FALSE
      /\ m_receiving_header = TRUE /\ m_finished = FALSE /\ m_keep_alive = FALSE /\ open = TRUE /\ receiving = FALSE
      /\ m_handler = 0 /\ m_content_length = 0 /\ m_received_body_size = 0 /\ m_handled_requests = 0 /\ sent = 0
      /\ finals = [r \in Requests |-> 0]
  BY DEF Init
<1>2. /\ m_header_buffer = <<>> /\ data = <<>> /\ stream = <<>> /\ queue = <<>> /\ ready = <<>> /\ wire = <<>>
      /\ handled = <<>> /\ bodies = [r \in Requests |-> <<>>]
  BY DEF Init
<1>zero. m_handled_requests = 0 /\ sent = 0 /\ m_handler = 0 /\ finals = [r \in Requests |-> 0]
  BY <1>1
<1>3. Words /\ Flags /\ Counts
  <2>1. Words
    BY <1>1 DEF Words, Stages
  <2>2. Flags
    BY <1>1 DEF Flags
  <2>3. m_content_length = 0 /\ m_received_body_size = 0
    BY <1>1
  <2>4. Counts
    BY <1>zero, <2>3 DEF Counts
  <2> QED
    BY <2>1, <2>2, <2>4
<1>4. Queues
  BY <1>2, EmptySeq DEF Queues
<1>5. /\ Len(<<>>) = 0 /\ <<>> \o <<>> = <<>> /\ DOMAIN <<>> = {} /\ Requests \subseteq Nat \ {0} /\ MaxRequests \in Nat
      /\ max_keep_alive_requests \in Nat \ {0}
  BY EmptySeq, ConcatEmptySeq, HttpServerAssumption DEF Requests
<1>6. Gone /\ NotYet /\ Control /\ KeptAnswer
  BY <1>1, <1>2 DEF Gone, NotYet, Live, Control, Between, KeptAnswer
<1>7. Pending /\ Ahead /\ Reads /\ ClosedFinished /\ Limit
  <2>1. Reads /\ ClosedFinished
    BY <1>1 DEF Reads, ClosedFinished
  <2>2. ~(m_handled_requests > 0) /\ m_handled_requests <= max_keep_alive_requests /\ m_handled_requests < max_keep_alive_requests
        /\ ~(sent > m_handled_requests)
    BY <1>zero, <1>5
  <2>3. m_receiving_header /\ ~m_finished /\ complete # "yes"
    BY <1>1
  <2>4. Pending /\ Ahead /\ Limit
    BY <1>2, <1>5, <2>2, <2>3 DEF Pending, Ahead, Limit
  <2> QED
    BY <2>1, <2>4
<1>8. Numbered /\ FinalCalls
  <2>1. registered # "removed"
    BY <1>1
  <2> QED
    BY <1>zero, <1>2, <1>5, <2>1 DEF Numbered, FinalCalls
<1>9. Completions /\ Written /\ Bodies
  BY <1>1, <1>2, <1>5 DEF Completions, OneOfAKind, Written, Answered, Bodies
<1>10. Input
  <2>1. Arriving = <<>>
    BY <1>2, <1>5 DEF Arriving, ReadData
  <2>2. Unread = <<>>
    BY <1>2, <1>5, <2>1 DEF Unread, AtHand
  <2>3. m_receiving_header
    BY <1>1
  <2>4. ~(sent > m_handled_requests)
    BY <1>zero
  <2> QED
    BY <2>2, <2>3, <2>4 DEF Input
<1> QED
  BY <1>3, <1>4, <1>6, <1>7, <1>8, <1>9, <1>10 DEF ServerInv, Types

\* Every step of the server, the peer and the handlers keeps it.
LEMMA ServerStep ==
  ASSUME ServerInv, [Next]_vars, ~Pipelining, CarefulHandlers
  PROVE  ServerInv'
<1>1. Step \/ UNCHANGED vars
  BY Steps
<1>2. Types'
  BY <1>1, WordsStep, FlagsStep, CountsStep, QueuesStep DEF Types
<1>3. Completions'
  BY <1>1, CompletionsStep
<1> QED
  BY <1>1, <1>2, <1>3, GoneStep, NumberedStep, FinalCallsStep, ControlStep, PendingStep, WrittenStep, KeptAnswerStep,
     InputStep, AheadStep, BodiesStep, ReadsStep, LimitStep, ClosedStep DEF ServerInv

\* The invariant holds of a peer that waits for its responses and handlers that
\* keep to the session's contract.
THEOREM ServerInvariant ==
  ASSUME ~Pipelining, CarefulHandlers
  PROVE  Spec => []ServerInv
<1>1. Init => ServerInv
  BY ServerInit
<1>2. ServerInv /\ [Next]_vars => ServerInv'
  BY ServerStep
<1> QED
  BY <1>1, <1>2, PTL DEF Spec

\* Requests reach handlers once each and in order, with their own bodies,
\* however the peer's bytes are cut into reads (on_socket_receive,
\* parse_header_data, handle_body_data), and handle_body_data's assert holds.
THEOREM InputInOrderHolds ==
  ASSUME ~Pipelining, CarefulHandlers
  PROVE  Spec => []InputInOrder
<1>1. ServerInv => InputInOrder
  <2> SUFFICES ASSUME ServerInv PROVE InputInOrder
    OBVIOUS
  <2>1. ASSUME pc = "body", m_handler # 0 PROVE ReadSize > 0
    <3>1. data # <<>> /\ m_content_length \in Int /\ m_received_body_size \in Nat
      BY <2>1 DEF ServerInv, Control, Types, Counts
    <3>2. m_received_body_size + Len(data) <= m_content_length /\ Len(data) \in Nat \ {0}
      BY <2>1, <3>1, BodyFacts
    <3> QED
      BY <3>1, <3>2 DEF ReadSize
  <2> QED
    BY <2>1 DEF InputInOrder, ReadSizeAssert, ServerInv, Numbered, Bodies
<1> QED
  BY <1>1, ServerInvariant, PTL

\* A connection that is closed because the response is finished has sent all of
\* it, and answers no more than max_keep_alive_requests requests
\* (on_socket_send, url_session_impl::finish).
THEOREM ResponseNotTruncatedHolds ==
  ASSUME ~Pipelining, CarefulHandlers
  PROVE  Spec => []ResponseNotTruncated
<1>1. ServerInv => ResponseNotTruncated
  <2> SUFFICES ASSUME ServerInv PROVE ResponseNotTruncated
    OBVIOUS
  <2>1. m_handled_requests \in Nat /\ max_keep_alive_requests \in Nat /\ open \in BOOLEAN
    BY HttpServerAssumption DEF ServerInv, Types, Counts, Flags
  <2>2. m_handled_requests > max_keep_alive_requests => ~open
    BY <2>1 DEF ServerInv, Limit
  <2> QED
    BY <2>2 DEF ResponseNotTruncated, ServerInv, ClosedFinished, Written
<1> QED
  BY <1>1, ServerInvariant, PTL

\* A handler gets one final call, handle_request_finished or handle_error, and
\* has had it when its client is removed (on_socket_send, on_client_error).
THEOREM OneFinalCallHolds ==
  ASSUME ~Pipelining, CarefulHandlers
  PROVE  Spec => []OneFinalCall
<1>1. ServerInv => OneFinalCall
  <2> SUFFICES ASSUME ServerInv, NEW i \in DOMAIN handled
               PROVE  finals[handled[i]] <= 1 /\ (registered = "removed" => finals[handled[i]] = 1)
    BY DEF OneFinalCall
  <2>1. handled \in Seq(Nat) /\ m_handled_requests \in Nat /\ m_handled_requests <= MaxRequests /\ MaxRequests \in Nat
    BY HandlerRequest DEF ServerInv, Types, Queues
  <2>2. handled[i] = i /\ Len(handled) = m_handled_requests /\ DOMAIN handled = 1 .. Len(handled)
    BY <2>1, LenProperties DEF ServerInv, Numbered
  <2>3. i \in Requests /\ ~(i > m_handled_requests)
    BY <2>1, <2>2 DEF Requests
  <2> QED
    BY <2>2, <2>3 DEF ServerInv, FinalCalls
<1> QED
  BY <1>1, ServerInvariant, PTL

\* A registered client has an operation outstanding, unless its connection was
\* closed with no read in flight, and what it reads on an open connection finds
\* a handler or is a header (parse_header_data, handle_body_data).
THEOREM ClientNotStrandedHolds ==
  ASSUME ~Pipelining, CarefulHandlers
  PROVE  Spec => []ClientNotStranded
<1>1. ServerInv => ClientNotStranded
  <2> SUFFICES ASSUME ServerInv PROVE ClientNotStranded
    OBVIOUS
  <2>1. registered = "yes" /\ pc = "idle" /\ ~cut => receiving
    BY DEF ServerInv, Reads, Between
  <2>2. pc = "body" /\ open => m_handler # 0
    BY DEF ServerInv, Limit, Control, Gone
  <2> QED
    BY <2>1, <2>2 DEF ClientNotStranded
<1> QED
  BY <1>1, ServerInvariant, PTL
=============================================================================
