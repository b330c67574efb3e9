------------------------ MODULE ConcurrentHttpProofs ------------------------
(***************************************************************************)
(* Theorems about the concurrent HTTP connection of ConcurrentHttp, for    *)
(* every bound, set of sites, set of named hosts and set of lengths.       *)
(***************************************************************************)
EXTENDS ConcurrentHttp, SequenceTheorems, WellFoundedInduction, TLAPS

\* What the theorems assume of the constants: a response announces its length,
\* zero included, or is a redirection.
ConnectionConstants == MaxRequests \in Nat /\ BodySizes \subseteq Nat \cup {Redirect}

-----------------------------------------------------------------------------
(* The inductive invariant.                                                *)

Lengths == Nat \cup {Redirect}
Tokens == [req : Nat, part : {"end", "body"}, v : Int]
Infos == [site : Sites \cup {NoSite}, header_send : BOOLEAN, header_finished : BOOLEAN,
          content_length : Int, received_size : Nat]
Events == [kind : {"connect", "resolve", "recv"}, res : {"ok", "error", "eof"}, data : Seq(Tokens)]
Completing == {"on_complete", "on_complete_empty"}
Steps == {"idle", "process", "refused"} \cup Callbacks \cup Completing

TypeOK ==
  /\ requests \in 0 .. MaxRequests /\ m_requests \in Seq(1 .. requests)
  /\ m_site \in Sites \cup {NoSite} /\ m_socket \in {"new", "connecting", "connected"}
  /\ m_receiving \in BOOLEAN /\ m_resolving \in BOOLEAN /\ paused \in BOOLEAN /\ failed \in BOOLEAN
  /\ info \in [Requests -> Infos] /\ got \in [Requests -> Seq(Tokens)]
  /\ events \in Seq(Events) /\ onwire \in Seq(Nat) /\ arriving \in Seq(Tokens)
  /\ step \in Steps /\ data \in Seq(Tokens)

\* Nothing is delivered for a request before it is made.
FutureUntouched == \A r \in Requests : r > requests => got[r] = <<>>

\* The three phases of a connection.
Closed == m_socket = "new" /\ ~m_resolving
Opening == m_socket = "connecting" \/ m_resolving
Open == m_socket = "connected"

\* One completion is under way at most, of what the phase is waiting for.
OneCompletion ==
  /\ Len(events) <= 1
  /\ events # <<>> =>
       /\ events[1].kind = "connect" => m_socket = "connecting"
       /\ events[1].kind = "resolve" => m_resolving
       /\ events[1].kind = "recv" => m_receiving
       /\ events[1].kind # "recv" => events[1].res # "eof"
       /\ events[1].kind # "recv" \/ events[1].res # "ok" => events[1].data = <<>>
Phases ==
  /\ m_resolving => m_socket = "new"
  /\ m_receiving => Open /\ step = "idle"
  /\ ~Open => onwire = <<>> /\ arriving = <<>> /\ data = <<>>
  /\ Closed => step = "idle"
  /\ Opening => step \in {"idle", "process"} \cup Callbacks
  /\ step \in {"idle", "refused"} => data = <<>>
  /\ step = "refused" => m_requests # <<>>

\* The queue holds the last requests that were made, in order, and nothing was
\* delivered for those behind the front.
First == requests - Len(m_requests) + 1
Queued == First .. requests
InOrder ==
  ~Closed =>
    /\ \A i \in DOMAIN m_requests : m_requests[i] = requests - Len(m_requests) + i
    /\ \A q \in Queued :
         /\ Len(got[q]) = info[q].received_size
         /\ ~info[q].header_finished => info[q].received_size = 0
         /\ q # First \/ Opening => ~info[q].header_finished
         /\ Opening => ~info[q].header_send

\* The response tokens that have not been processed.
Unread == data \o (IF events = <<>> THEN <<>> ELSE events[1].data) \o arriving

\* With the length of every response: whether a token ends its response, which
\* token comes after it, and which one is processed next.
Final(len, t) == IF t.part = "end" THEN len[t.req] <= 0 ELSE t.v = len[t.req]
Follow(len, t) ==
  IF Final(len, t) THEN Token(t.req + 1, "end", len[t.req + 1])
  ELSE Token(t.req, "body", IF t.part = "end" THEN 1 ELSE t.v + 1)
Expected(len) ==
  IF step \in Completing THEN Token(First + 1, "end", len[First + 1])
  ELSE IF m_requests # <<>> /\ info[First].header_finished
       THEN Token(First, "body", info[First].received_size + 1)
       ELSE Token(First, "end", len[First])

\* The requests up to a are answered, those after them up to a + Len(onwire) are
\* written, in the order of the queue, and the next one is for another site.
Written(a) ==
  /\ \A i \in DOMAIN onwire : onwire[i] = a + i
  /\ a + Len(onwire) <= requests
  /\ \A q \in Queued : info[q].header_send <=> q <= a + Len(onwire)
  /\ a + Len(onwire) < requests /\ m_requests # <<>> => info[a + Len(onwire) + 1].site # m_site

\* Tokens of consecutive responses up to the end of the one to a.
Chain(a, len, u) ==
  /\ \A k \in DOMAIN u : u[k].req <= a
  /\ \A k \in 1 .. Len(u) - 1 : u[k + 1] = Follow(len, u[k])
  /\ u # <<>> => u[Len(u)].req = a /\ Final(len, u[Len(u)])

\* The next token is the one expected by the front, whose body is not complete.
Begins(a, len) ==
  /\ IF Unread = <<>> THEN Expected(len).req = a + 1 /\ Expected(len).part = "end"
                      ELSE Unread[1] = Expected(len)
  /\ m_requests # <<>> /\ info[First].header_finished /\ step \notin Completing =>
       info[First].content_length = len[First] /\ info[First].received_size < len[First]

Aligned(a, len) == Written(a) /\ Chain(a, len, Unread) /\ Begins(a, len)

Pipelined ==
  Open /\ step # "refused" =>
    \E a \in Nat, len \in [Nat -> Lengths] : Aligned(a, len)

\* Reading goes on while the connection is open, and without a failure a queue
\* has a connection.
Reading == Open /\ step = "idle" => m_receiving \/ paused
NotForgotten == ~failed => step # "refused" /\ (Closed => m_requests = <<>>)

ConnectionInv ==
  /\ TypeOK /\ FutureUntouched /\ OneCompletion /\ Phases /\ InOrder /\ Pipelined /\ Reading /\ NotForgotten
  /\ PipelinedOwnData
-----------------------------------------------------------------------------
(* Numbers and sequences.                                                  *)

\* A set of naturals has a least element.
LEMMA Least == ASSUME NEW T \in SUBSET Nat, T # {} PROVE \E m \in T : \A k \in T : m <= k
<1> DEFINE R == OpToRel(<, Nat)
<1>1. IsWellFoundedOn(R, Nat)
  BY NatLessThanWellFounded
<1>2. \A x, y \in Nat : <<y, x>> \in R <=> y < x
  BY DEF OpToRel
<1> HIDE DEF R
<1>3. PICK x \in T : \A y \in T : ~ (<<y, x>> \in R)
  BY <1>1, WFMin
<1>4. \A y \in T : ~ (y < x)
  BY <1>3, <1>2, Zenon
<1>5. \A y \in T : x <= y
  BY <1>4
<1> QED
  BY <1>5

\* Cutting a sequence in two.
LEMMA Cut ==
  ASSUME NEW E, NEW s \in Seq(E), NEW k \in 0 .. Len(s)
  PROVE  /\ SubSeq(s, 1, k) \in Seq(E) /\ Len(SubSeq(s, 1, k)) = k
         /\ \A i \in 1 .. k : SubSeq(s, 1, k)[i] = s[i]
         /\ SubSeq(s, k + 1, Len(s)) \in Seq(E) /\ Len(SubSeq(s, k + 1, Len(s))) = Len(s) - k
         /\ \A i \in 1 .. Len(s) - k : SubSeq(s, k + 1, Len(s))[i] = s[k + i]
<1>1. Len(s) \in Nat /\ \A i \in 1 .. Len(s) : s[i] \in E
  BY LenProperties, ElementOfSeq
<1>2. /\ SubSeq(s, 1, k) \in Seq(E) /\ Len(SubSeq(s, 1, k)) = k
      /\ \A i \in 1 .. k : SubSeq(s, 1, k)[i] = s[i]
  <2>1. \A i \in 1 .. k : s[i] \in E
    BY <1>1
  <2>2. /\ SubSeq(s, 1, k) \in Seq(E)
        /\ Len(SubSeq(s, 1, k)) = IF 1 <= k THEN k - 1 + 1 ELSE 0
        /\ \A i \in 1 .. k - 1 + 1 : SubSeq(s, 1, k)[i] = s[1 + i - 1]
    BY <2>1, SubSeqProperties
  <2>3. \A i \in 1 .. k : 1 + i - 1 = i /\ i \in 1 .. k - 1 + 1
    OBVIOUS
  <2> QED
    BY <1>1, <2>2, <2>3
<1>3. /\ SubSeq(s, k + 1, Len(s)) \in Seq(E) /\ Len(SubSeq(s, k + 1, Len(s))) = Len(s) - k
      /\ \A i \in 1 .. Len(s) - k : SubSeq(s, k + 1, Len(s))[i] = s[k + i]
  <2>1. \A i \in k + 1 .. Len(s) : s[i] \in E
    BY <1>1
  <2>2. /\ SubSeq(s, k + 1, Len(s)) \in Seq(E)
        /\ Len(SubSeq(s, k + 1, Len(s))) = IF k + 1 <= Len(s) THEN Len(s) - (k + 1) + 1 ELSE 0
        /\ \A i \in 1 .. Len(s) - (k + 1) + 1 : SubSeq(s, k + 1, Len(s))[i] = s[(k + 1) + i - 1]
    <3>1. k + 1 \in Int /\ Len(s) \in Int
      BY <1>1
    <3> QED
      BY <2>1, <3>1, SubSeqProperties
  <2>3. \A i \in 1 .. Len(s) - k : i \in 1 .. Len(s) - (k + 1) + 1 /\ (k + 1) + i - 1 = k + i
    BY <1>1
  <2> QED
    BY <1>1, <2>2, <2>3
<1> QED
  BY <1>2, <1>3

\* Two sequences joined, element by element.
LEMMA Joined ==
  ASSUME NEW E, NEW s \in Seq(E), NEW t \in Seq(E)
  PROVE  /\ s \o t \in Seq(E) /\ Len(s \o t) = Len(s) + Len(t) /\ Len(s) \in Nat /\ Len(t) \in Nat
         /\ \A i \in 1 .. Len(s) : (s \o t)[i] = s[i]
         /\ \A i \in 1 .. Len(t) : (s \o t)[Len(s) + i] = t[i]
         /\ DOMAIN s = 1 .. Len(s) /\ DOMAIN t = 1 .. Len(t) /\ DOMAIN (s \o t) = 1 .. Len(s) + Len(t)
         /\ s \o t = <<>> <=> s = <<>> /\ t = <<>>
<1>1. /\ s \o t \in Seq(E) /\ Len(s \o t) = Len(s) + Len(t)
      /\ \A i \in 1 .. Len(s) + Len(t) : (s \o t)[i] = IF i <= Len(s) THEN s[i] ELSE t[i - Len(s)]
  BY ConcatProperties
<1>2. /\ Len(s) \in Nat /\ Len(t) \in Nat /\ DOMAIN s = 1 .. Len(s) /\ DOMAIN t = 1 .. Len(t)
      /\ DOMAIN (s \o t) = 1 .. Len(s) + Len(t)
  BY <1>1, LenProperties
<1>3. \A i \in 1 .. Len(s) : (s \o t)[i] = s[i]
  BY <1>1, <1>2
<1>4. \A i \in 1 .. Len(t) : Len(s) + i \in 1 .. Len(s) + Len(t) /\ ~(Len(s) + i <= Len(s)) /\ (Len(s) + i) - Len(s) = i
  BY <1>2
<1>5. \A i \in 1 .. Len(t) : (s \o t)[Len(s) + i] = t[i]
  BY <1>1, <1>4
<1>6. s \o t = <<>> <=> s = <<>> /\ t = <<>>
  <2>1. \A u \in Seq(E) : u = <<>> <=> Len(u) = 0
    BY EmptySeq
  <2> QED
    BY <1>1, <1>2, <2>1
<1> QED
  BY <1>1, <1>2, <1>3, <1>5, <1>6

\* What Head and Tail return.
LEMMA Removed ==
  ASSUME NEW E, NEW s \in Seq(E), s # <<>>
  PROVE  /\ Head(s) = s[1] /\ s[1] \in E /\ Tail(s) \in Seq(E) /\ Len(s) \in Nat \ {0}
         /\ Len(Tail(s)) = Len(s) - 1 /\ DOMAIN s = 1 .. Len(s) /\ DOMAIN Tail(s) = 1 .. Len(s) - 1
         /\ \A i \in 1 .. Len(s) - 1 : Tail(s)[i] = s[i + 1]
<1>1. /\ Head(s) \in E /\ Tail(s) \in Seq(E) /\ Len(Tail(s)) = Len(s) - 1
      /\ \A i \in 1 .. Len(Tail(s)) : Tail(s)[i] = s[i + 1]
  BY HeadTailProperties
<1>2. Len(s) \in Nat \ {0} /\ DOMAIN s = 1 .. Len(s) /\ DOMAIN Tail(s) = 1 .. Len(Tail(s))
  BY <1>1, EmptySeq, LenProperties
<1>3. Head(s) = s[1]
  BY <1>2
<1> QED
  BY <1>1, <1>2, <1>3

\* What Append returns.
LEMMA Added ==
  ASSUME NEW E, NEW s \in Seq(E), NEW e \in E
  PROVE  /\ Append(s, e) \in Seq(E) /\ Len(s) \in Nat /\ Len(Append(s, e)) = Len(s) + 1
         /\ DOMAIN s = 1 .. Len(s) /\ DOMAIN Append(s, e) = 1 .. Len(s) + 1
         /\ \A i \in 1 .. Len(s) : Append(s, e)[i] = s[i]
         /\ Append(s, e)[Len(s) + 1] = e
<1>1. /\ Append(s, e) \in Seq(E) /\ Len(Append(s, e)) = Len(s) + 1
      /\ \A i \in 1 .. Len(s) : Append(s, e)[i] = s[i]
  BY AppendProperties
<1>2. Append(s, e)[Len(s) + 1] = e
  BY AppendProperties
<1>3. Len(s) \in Nat /\ DOMAIN s = 1 .. Len(s) /\ DOMAIN Append(s, e) = 1 .. Len(Append(s, e))
  BY <1>1, LenProperties
<1> QED
  BY <1>1, <1>2, <1>3

\* An interval determines its bound.
LEMMA SameInterval ==
  ASSUME NEW m \in Nat, NEW n \in Nat, 1 .. m = 1 .. n
  PROVE  m = n
<1>1. (n \in 1 .. n <=> n \in 1 .. m) /\ (m \in 1 .. n <=> m \in 1 .. m)
  OBVIOUS
<1> QED
  BY <1>1

\* The units of a response's body.
LEMMA BodyUnits ==
  ASSUME NEW r \in Nat, NEW len \in Lengths
  PROVE  LET body == [i \in 1 .. len |-> Token(r, "body", i)]
             n == IF len > 0 THEN len ELSE 0
         IN  body \in Seq(Tokens) /\ Len(body) = n /\ \A i \in 1 .. n : body[i] = Token(r, "body", i)
<1> DEFINE body == [i \in 1 .. len |-> Token(r, "body", i)]
           n == IF len > 0 THEN len ELSE 0
<1>1. n \in Nat /\ 1 .. len = 1 .. n
  BY DEF Lengths, Redirect
<1>2. \A i \in 1 .. n : Token(r, "body", i) \in Tokens
  BY DEF Token, Tokens
<1>3. body = [i \in 1 .. n |-> Token(r, "body", i)]
  BY <1>1
<1> HIDE DEF n
<1>4. body \in [1 .. n -> Tokens]
  BY <1>2, <1>3
<1>5. body \in Seq(Tokens) /\ DOMAIN body = 1 .. n
  BY <1>1, <1>3, <1>4, SeqDef, ZenonT(60)
<1>6. Len(body) = n
  <2> HIDE DEF body
  <2>1. Len(body) \in Nat /\ DOMAIN body = 1 .. Len(body)
    BY <1>5, LenProperties
  <2>2. 1 .. Len(body) = 1 .. n
    BY <1>5, <2>1
  <2>3. Len(body) \in Nat /\ n \in Nat
    BY <1>1, <2>1
  <2> QED
    BY <2>2, <2>3, SameInterval
<1> QED
  BY <1>3, <1>5, <1>6 DEF n
-----------------------------------------------------------------------------
(* The steps, with what the invariant says of them.                        *)

\* Closed: do_close() with whatever is left of the queue.
Closes ==
  /\ do_close
  /\ step' = "idle" /\ data' = <<>> /\ UNCHANGED <<requests, got>>
  /\ m_requests' \in Seq(1 .. requests) /\ info' \in [Requests -> Infos]
  /\ failed' \in BOOLEAN /\ (failed' \/ m_requests' = <<>>)

\* Connecting anew: nothing was written or received for what is queued.
Connects ==
  /\ \E s \in Sites \cup {NoSite} : connect_host(s)
  /\ requests' \in requests .. MaxRequests /\ m_requests' \in Seq(1 .. requests')
  /\ info' \in [Requests -> Infos] /\ failed' \in BOOLEAN
  /\ \A i \in DOMAIN m_requests' : m_requests'[i] = requests' - Len(m_requests') + i
  /\ \A q \in requests' - Len(m_requests') + 1 .. requests' :
       /\ got[q] = <<>> /\ ~info'[q].header_send /\ ~info'[q].header_finished
       /\ info'[q].received_size = 0
  /\ step \in {"idle"} \cup Callbacks /\ UNCHANGED <<step, data, got>> /\ data = <<>>

Completes ==
  /\ events = <<>>
  /\ \E e \in Events :
       /\ events' = << e >> /\ e.data = <<>>
       /\ \/ e.kind = "connect" /\ m_socket = "connecting" /\ e.res # "eof"
          \/ e.kind = "resolve" /\ m_resolving /\ e.res # "eof"
          \/ e.kind = "recv" /\ m_receiving /\ e.res # "ok"
  /\ UNCHANGED <<m_requests, conn, info, requests, onwire, arriving, step, data, got, failed>>

Reads ==
  /\ events = <<>> /\ m_receiving
  /\ \E n \in 1 .. Len(arriving) :
       /\ events' = << Event("recv", "ok", SubSeq(arriving, 1, n)) >>
       /\ arriving' = SubSeq(arriving, n + 1, Len(arriving))
  /\ UNCHANGED <<m_requests, conn, info, requests, onwire, step, data, got, failed>>

\* request() that writes to the open connection, or queues only.
Asks(sent) ==
  /\ step \in {"idle", "refused"} \cup Callbacks /\ requests < MaxRequests
  /\ requests' = requests + 1
  /\ m_requests' = Append(m_requests, requests + 1)
  /\ \E s \in Sites :
       /\ info' = [info EXCEPT ![requests + 1] = [NewInfo(s) EXCEPT !.header_send = sent]]
       /\ Open /\ ~sent /\ (m_requests # <<>> => info[m_requests[Len(m_requests)]].header_send) => s # m_site
  /\ sent => Open /\ (m_requests # <<>> => info[m_requests[Len(m_requests)]].header_send)
  /\ ~sent => m_requests # <<>>
  /\ onwire' = IF sent THEN Append(onwire, requests + 1) ELSE onwire
  /\ UNCHANGED <<conn, events, arriving, step, data, got, failed>>

Receives ==
  /\ Dispatch("recv", "ok") /\ m_requests # <<>>
  /\ data' = events[1].data /\ step' = "process" /\ m_receiving' = FALSE /\ events' = <<>>
  /\ UNCHANGED <<m_site, m_socket, m_resolving, paused, onwire, arriving>>
  /\ UNCHANGED <<m_requests, info, requests, got, failed>>

\* The connection is made and the requests for its site are written.
Opens ==
  /\ Dispatch("connect", "ok") /\ m_requests # <<>>
  /\ m_socket' = "connected" /\ m_receiving' = TRUE
  /\ info' = [r \in Requests |->
                IF \E i \in Writable : m_requests[i] = r
                THEN [info[r] EXCEPT !.header_send = TRUE] ELSE info[r]]
  /\ onwire' = [i \in Writable |-> m_requests[i]]
  /\ events' = Tail(events)
  /\ UNCHANGED <<m_site, m_resolving, paused, arriving, failed, m_requests, requests, step, data, got>>

HeaderUnit ==
  /\ step = "process" /\ data # <<>> /\ m_requests # <<>> /\ ~info[First].header_finished
  /\ data[1].v # Redirect
  /\ info' = [info EXCEPT ![First].header_finished = TRUE, ![First].content_length = data[1].v]
  /\ UNCHANGED <<m_requests, conn, net, requests, got>>

HeaderEnds ==
  /\ HeaderUnit
  /\ data' = Tail(data) /\ UNCHANGED failed
  /\ step' = IF data[1].v = 0 THEN "on_complete_empty" ELSE "process"

HeaderRefused == HeaderUnit /\ step' = "refused" /\ data' = <<>> /\ failed' = TRUE

BodyUnit ==
  /\ step = "process" /\ data # <<>> /\ m_requests # <<>> /\ info[First].header_finished
  /\ got' = [got EXCEPT ![First] = Append(@, data[1])]
  /\ info' = [info EXCEPT ![First].received_size = @ + 1]
  /\ UNCHANGED <<m_requests, conn, net, requests>>

Takes ==
  /\ BodyUnit
  /\ step' = IF info[First].received_size + 1 >= info[First].content_length
             THEN "on_complete" ELSE "process"
  /\ data' = Tail(data) /\ UNCHANGED failed

Refuses == BodyUnit /\ step' = "refused" /\ data' = <<>> /\ failed' = TRUE

Leaves ==
  /\ step \in Completing /\ m_requests # <<>>
  /\ m_requests' = Tail(m_requests)
  /\ step' \in Callbacks
  /\ UNCHANGED <<conn, net, info, requests, data, got, failed>>

Returns ==
  /\ step \in Callbacks /\ step' = "process"
  /\ UNCHANGED <<conn, net, data, failed, m_requests, info, requests, got>>

Step ==
  \/ Closes \/ Connects \/ Completes \/ Reads \/ Respond \/ Asks(TRUE) \/ Asks(FALSE)
  \/ pause_or_resume \/ on_resolver_address \/ Opens
  \/ Receives \/ HeaderEnds \/ HeaderRefused \/ Takes \/ Refuses \/ Leaves \/ Returns \/ check_receive

\* The completion at hand is the only one.
LEMMA EventFacts ==
  ASSUME ConnectionInv, events # <<>>
  PROVE  /\ Head(events) = events[1] /\ events[1] \in Events /\ events[1].data \in Seq(Tokens)
         /\ Tail(events) = <<>>
<1>1. events \in Seq(Events) /\ Len(events) <= 1
  BY DEF ConnectionInv, TypeOK, OneCompletion
<1>2. /\ Head(events) = events[1] /\ events[1] \in Events /\ Tail(events) \in Seq(Events)
      /\ Len(Tail(events)) = Len(events) - 1 /\ Len(events) \in Nat \ {0}
  BY <1>1, Removed
<1>3. Len(Tail(events)) = 0
  BY <1>1, <1>2
<1>4. Tail(events) = <<>>
  BY <1>2, <1>3, EmptySeq
<1> QED
  BY <1>2, <1>4 DEF Events

\* The numbers of the queued requests.
LEMMA QueueFacts ==
  ASSUME ConnectionConstants, ConnectionInv
  PROVE  /\ requests \in Nat /\ MaxRequests \in Nat /\ requests <= MaxRequests
         /\ m_requests \in Seq(1 .. requests) /\ Len(m_requests) \in Nat
         /\ DOMAIN m_requests = 1 .. Len(m_requests)
         /\ m_requests = <<>> <=> Len(m_requests) = 0
         /\ First \in Int /\ First = requests - Len(m_requests) + 1
         /\ m_requests # <<>> => Front = m_requests[1] /\ Front \in Requests
         /\ ~Closed => First >= 1
         /\ ~Closed /\ m_requests # <<>> =>
              /\ Front = First /\ First \in Requests /\ First <= requests
              /\ m_requests[Len(m_requests)] = requests
<1>1. /\ requests \in Nat /\ MaxRequests \in Nat /\ requests <= MaxRequests
      /\ m_requests \in Seq(1 .. requests)
  BY DEF ConnectionInv, TypeOK, ConnectionConstants
<1>2. /\ Len(m_requests) \in Nat /\ DOMAIN m_requests = 1 .. Len(m_requests)
      /\ m_requests = <<>> <=> Len(m_requests) = 0
  BY <1>1, LenProperties, EmptySeq
<1>3. First \in Int /\ First = requests - Len(m_requests) + 1
  BY <1>1, <1>2 DEF First
<1>4. m_requests # <<>> => Front = m_requests[1] /\ m_requests[1] \in 1 .. requests
  BY <1>1, Removed DEF Front
<1>5. m_requests # <<>> => Front \in Requests
  BY <1>1, <1>4 DEF Requests
<1>6. ~Closed => \A i \in DOMAIN m_requests : m_requests[i] = requests - Len(m_requests) + i
  BY DEF ConnectionInv, InOrder
<1>7. ~Closed /\ m_requests # <<>> =>
        /\ m_requests[1] = requests - Len(m_requests) + 1
        /\ m_requests[Len(m_requests)] = requests - Len(m_requests) + Len(m_requests)
  BY <1>2, <1>6
<1> QED
  BY <1>1, <1>2, <1>3, <1>4, <1>5, <1>7 DEF Requests

\* What Unread is.
LEMMA UnreadFacts ==
  ASSUME ConnectionInv
  PROVE  /\ Unread \in Seq(Tokens) /\ Len(Unread) \in Nat /\ DOMAIN Unread = 1 .. Len(Unread)
         /\ Unread = <<>> <=> Len(Unread) = 0
         /\ data # <<>> => Unread # <<>> /\ Unread[1] = data[1] /\ data[1] \in Tokens
<1> DEFINE e == IF events = <<>> THEN <<>> ELSE events[1].data
<1>1. data \in Seq(Tokens) /\ arriving \in Seq(Tokens)
  BY DEF ConnectionInv, TypeOK
<1>2. e \in Seq(Tokens)
  BY EventFacts, EmptySeq
<1>3. Unread = (data \o e) \o arriving
  BY DEF Unread
<1> HIDE DEF e
<1>4. /\ data \o e \in Seq(Tokens) /\ Len(data \o e) = Len(data) + Len(e)
      /\ \A i \in 1 .. Len(data) : (data \o e)[i] = data[i]
      /\ Len(data) \in Nat /\ Len(e) \in Nat
  BY <1>1, <1>2, Joined
<1> DEFINE f == data \o e
<1>5. /\ f \in Seq(Tokens) /\ Len(f) = Len(data) + Len(e)
      /\ \A i \in 1 .. Len(data) : f[i] = data[i]
  BY <1>4
<1>6. Unread = f \o arriving
  BY <1>3
<1> HIDE DEF f
<1>7. /\ Unread \in Seq(Tokens) /\ Len(Unread) = Len(f) + Len(arriving) /\ Len(arriving) \in Nat
      /\ \A i \in 1 .. Len(f) : Unread[i] = f[i]
  <2>0. f \in Seq(Tokens) /\ arriving \in Seq(Tokens)
    BY <1>1, <1>5
  <2>1. /\ f \o arriving \in Seq(Tokens) /\ Len(f \o arriving) = Len(f) + Len(arriving) /\ Len(arriving) \in Nat
        /\ \A i \in 1 .. Len(f) : (f \o arriving)[i] = f[i]
    BY <2>0, Joined
  <2> QED
    BY <1>6, <2>1
<1>8. Len(Unread) \in Nat /\ DOMAIN Unread = 1 .. Len(Unread) /\ (Unread = <<>> <=> Len(Unread) = 0)
  BY <1>7, LenProperties, EmptySeq
<1>9. ASSUME data # <<>> PROVE Unread # <<>> /\ Unread[1] = data[1] /\ data[1] \in Tokens
  <2>1. Len(data) \in Nat \ {0} /\ data[1] \in Tokens
    BY <1>1, <1>9, Removed
  <2>2. 1 \in 1 .. Len(data) /\ 1 \in 1 .. Len(f) /\ Len(Unread) # 0
    BY <1>4, <1>5, <1>7, <2>1
  <2> QED
    BY <1>5, <1>7, <1>8, <2>1, <2>2
<1> QED
  BY <1>7, <1>8, <1>9

\* A read that is being processed is for the front of the queue.
LEMMA ProcessFacts ==
  ASSUME ConnectionConstants, ConnectionInv, step \notin Completing, data # <<>>
  PROVE  /\ Open /\ ~Closed /\ ~Opening /\ events = <<>> /\ m_requests # <<>> /\ Front = First
         /\ Head(data) = data[1] /\ data[1] \in Tokens
<1>1. Open /\ ~m_receiving /\ ~Closed /\ ~Opening /\ step # "refused"
  BY DEF ConnectionInv, Phases, Open, Closed, Opening
<1>2. events = <<>>
  <2> SUFFICES ASSUME events # <<>> PROVE FALSE
    OBVIOUS
  <2>1. events[1].kind \in {"connect", "resolve", "recv"}
    BY EventFacts DEF Events
  <2> QED
    BY <1>1, <2>1 DEF ConnectionInv, OneCompletion, Opening
<1>3. PICK a \in Nat, len \in [Nat -> Lengths] : Aligned(a, len)
  BY <1>1 DEF ConnectionInv, Pipelined
<1>4. Unread # <<>> /\ Unread[1] = data[1] /\ data[1] \in Tokens /\ DOMAIN Unread = 1 .. Len(Unread) /\ Len(Unread) \in Nat \ {0}
  BY UnreadFacts
<1>5. Unread[1].req <= a /\ Unread[1] = Expected(len)
  BY <1>3, <1>4 DEF Aligned, Written, Chain, Begins
<1>6. Expected(len).req = First
  BY DEF Expected, Token
<1>7. a <= requests
  <2>1. Len(onwire) \in Nat
    BY LenProperties DEF ConnectionInv, TypeOK
  <2> QED
    BY <1>3, <2>1, QueueFacts DEF Aligned, Written, Chain, Begins
<1>8. m_requests # <<>>
  BY <1>5, <1>6, <1>7, QueueFacts
<1>9. Head(data) = data[1]
  BY Removed DEF ConnectionInv, TypeOK
<1> QED
  BY <1>1, <1>2, <1>4, <1>8, <1>9, QueueFacts

\* A response that is complete is the front's.
LEMMA CompletingFacts ==
  ASSUME ConnectionConstants, ConnectionInv, step \in Completing
  PROVE  Open /\ ~Closed /\ ~Opening /\ events = <<>> /\ m_requests # <<>>
<1>1. Open /\ ~m_receiving /\ ~Closed /\ ~Opening /\ step # "refused"
  BY DEF ConnectionInv, TypeOK, Phases, Open, Closed, Opening, Completing, Callbacks
<1>2. events = <<>>
  <2> SUFFICES ASSUME events # <<>> PROVE FALSE
    OBVIOUS
  <2>1. events[1].kind \in {"connect", "resolve", "recv"}
    BY EventFacts DEF Events
  <2> QED
    BY <1>1, <2>1 DEF ConnectionInv, OneCompletion, Opening
<1>3. PICK a \in Nat, len \in [Nat -> Lengths] : Aligned(a, len)
  BY <1>1 DEF ConnectionInv, Pipelined
<1>4. Expected(len).req = First + 1
  BY DEF Expected, Token
<1>5. DOMAIN Unread = 1 .. Len(Unread) /\ (Unread # <<>> => Len(Unread) \in Nat \ {0})
  BY UnreadFacts
<1>6. First + 1 <= a + 1
  <2>1. CASE Unread = <<>>
    BY <1>3, <1>4, <2>1 DEF Aligned, Written, Chain, Begins
  <2>2. CASE Unread # <<>>
    <3>1. Unread[1].req <= a /\ Unread[1] = Expected(len)
      BY <1>3, <1>5, <2>2 DEF Aligned, Written, Chain, Begins
    <3> QED
      BY <1>4, <3>1, QueueFacts
  <2> QED
    BY <2>1, <2>2
<1>7. a <= requests
  <2>1. Len(onwire) \in Nat
    BY LenProperties DEF ConnectionInv, TypeOK
  <2> QED
    BY <1>3, <2>1, QueueFacts DEF Aligned, Written, Chain, Begins
<1> QED
  BY <1>1, <1>2, <1>6, <1>7, QueueFacts

\* A completion is appended to an empty queue.
LEMMA NativeStep ==
  ASSUME ConnectionConstants, ConnectionInv, Native
  PROVE  Completes \/ Reads
<1>1. ASSUME \/ m_socket = "connecting" /\ ~Waiting("connect")
             \/ m_resolving /\ ~Waiting("resolve")
             \/ m_receiving /\ ~Waiting("recv")
      PROVE  events = <<>>
  <2> SUFFICES ASSUME events # <<>> PROVE FALSE
    OBVIOUS
  <2>1. events[1].kind \in {"connect", "resolve", "recv"}
    BY EventFacts DEF Events
  <2>2. 1 \in DOMAIN events
    BY Removed DEF ConnectionInv, TypeOK
  <2>3. Waiting(events[1].kind)
    BY <2>2 DEF Waiting
  <2>4. /\ events[1].kind = "connect" => m_socket = "connecting"
        /\ events[1].kind = "resolve" => m_resolving
        /\ events[1].kind = "recv" => m_receiving
        /\ m_resolving => m_socket = "new" 
        /\ m_receiving => m_socket = "connected"
    BY DEF ConnectionInv, OneCompletion, Phases, Open
  <2> QED
    BY <1>1, <2>1, <2>3, <2>4
<1>2. ASSUME NEW k \in {"connect", "resolve", "recv"}, NEW res \in {"ok", "error", "eof"},
             NEW d \in Seq(Tokens)
      PROVE  Event(k, res, d) \in Events /\ Append(<<>>, Event(k, res, d)) = << Event(k, res, d) >>
  BY <1>2 DEF Event, Events
<1>3. CASE /\ m_socket = "connecting" /\ ~Waiting("connect")
           /\ \E res \in {"ok", "error"} : events' = Append(events, Event("connect", res, <<>>))
           /\ UNCHANGED arriving
  <2>1. PICK res \in {"ok", "error"} : events' = Append(events, Event("connect", res, <<>>))
    BY <1>3
  <2> DEFINE e == Event("connect", res, <<>>)
  <2>2. e \in Events /\ events' = << e >> /\ e.data = <<>> /\ e.kind = "connect" /\ e.res # "eof"
    BY <1>1, <1>2, <1>3, <2>1, EmptySeq DEF Event
  <2> QED
    BY <1>1, <1>3, <2>2 DEF Native, Completes
<1>4. CASE /\ m_resolving /\ ~Waiting("resolve")
           /\ \E res \in {"ok", "error"} : events' = Append(events, Event("resolve", res, <<>>))
           /\ UNCHANGED arriving
  <2>1. PICK res \in {"ok", "error"} : events' = Append(events, Event("resolve", res, <<>>))
    BY <1>4
  <2> DEFINE e == Event("resolve", res, <<>>)
  <2>2. e \in Events /\ events' = << e >> /\ e.data = <<>> /\ e.kind = "resolve" /\ e.res # "eof"
    BY <1>1, <1>2, <1>4, <2>1, EmptySeq DEF Event
  <2> QED
    BY <1>1, <1>4, <2>2 DEF Native, Completes
<1>5. CASE /\ m_receiving /\ ~Waiting("recv")
           /\ \E n \in 1 .. Len(arriving) :
                /\ events' = Append(events, Event("recv", "ok", SubSeq(arriving, 1, n)))
                /\ arriving' = SubSeq(arriving, n + 1, Len(arriving))
  <2>1. PICK n \in 1 .. Len(arriving) :
           /\ events' = Append(events, Event("recv", "ok", SubSeq(arriving, 1, n)))
           /\ arriving' = SubSeq(arriving, n + 1, Len(arriving))
    BY <1>5
  <2>2. arriving \in Seq(Tokens) /\ n \in 0 .. Len(arriving)
    BY <2>1, LenProperties DEF ConnectionInv, TypeOK
  <2>3. SubSeq(arriving, 1, n) \in Seq(Tokens)
    BY <2>2, Cut
  <2>4. events' = << Event("recv", "ok", SubSeq(arriving, 1, n)) >>
    BY <1>1, <1>2, <1>5, <2>1, <2>3
  <2> QED
    BY <1>1, <1>5, <2>1, <2>4 DEF Native, Reads
<1>6. CASE /\ m_receiving /\ ~Waiting("recv") /\ arriving = <<>>
           /\ \E res \in {"eof", "error"} : events' = Append(events, Event("recv", res, <<>>))
           /\ UNCHANGED arriving
  <2>1. PICK res \in {"eof", "error"} : events' = Append(events, Event("recv", res, <<>>))
    BY <1>6
  <2> DEFINE e == Event("recv", res, <<>>)
  <2>2. e \in Events /\ events' = << e >> /\ e.data = <<>> /\ e.kind = "recv" /\ e.res # "ok"
    BY <1>1, <1>2, <1>6, <2>1, EmptySeq DEF Event
  <2> QED
    BY <1>1, <1>6, <2>2 DEF Native, Completes
<1> QED
  BY <1>3, <1>4, <1>5, <1>6 DEF Native

\* A fresh request's record.
LEMMA NewInfoType ==
  ASSUME NEW s \in Sites \cup {NoSite}, NEW b \in BOOLEAN
  PROVE  /\ NewInfo(s) \in Infos /\ [NewInfo(s) EXCEPT !.header_send = b] \in Infos
         /\ [NewInfo(s) EXCEPT !.header_send = b].header_send = b
         /\ ~[NewInfo(s) EXCEPT !.header_send = b].header_finished
         /\ [NewInfo(s) EXCEPT !.header_send = b].received_size = 0
         /\ [NewInfo(s) EXCEPT !.header_send = b].site = s
         /\ ~NewInfo(s).header_send /\ ~NewInfo(s).header_finished /\ NewInfo(s).received_size = 0
<1>1. -1 \in Int /\ 0 \in Nat
  OBVIOUS
<1> QED
  BY <1>1 DEF NewInfo, Infos

\* A call of request() writes, queues or connects.
LEMMA RequestStep ==
  ASSUME ConnectionConstants, ConnectionInv, request
  PROVE  Asks(TRUE) \/ Asks(FALSE) \/ Connects
<1>1. PICK s \in Sites : do_request(requests + 1, s)
  BY DEF request
<1> DEFINE unsent == m_requests # <<>> /\ ~info[m_requests[Len(m_requests)]].header_send
           reuse == ~unsent /\ m_socket = "connected" /\ is_same_host(s)
<1>2. /\ m_requests' = Append(m_requests, requests + 1)
      /\ info' = [info EXCEPT ![requests + 1] = [NewInfo(s) EXCEPT !.header_send = reuse]]
      /\ \/ reuse /\ onwire' = Append(onwire, requests + 1) /\ UNCHANGED <<conn, events, arriving>>
         \/ ~reuse /\ m_requests = <<>> /\ connect_host(s)
         \/ ~reuse /\ m_requests # <<>> /\ UNCHANGED <<conn, net>>
  BY <1>1 DEF do_request
<1>3. is_same_host(m_site)
  BY DEF is_same_host
<1>4. /\ step \in {"idle", "refused"} \cup Callbacks /\ requests < MaxRequests /\ requests' = requests + 1
      /\ UNCHANGED <<step, data, got, failed>>
  BY DEF request
<1>5. CASE reuse
  <2>1. info' = [info EXCEPT ![requests + 1] = [NewInfo(s) EXCEPT !.header_send = TRUE]]
    BY <1>2, <1>5
  <2> QED
    BY <1>2, <1>4, <1>5, <2>1 DEF Asks, Open
<1>6. CASE ~reuse /\ m_requests # <<>>
  <2>1. info' = [info EXCEPT ![requests + 1] = [NewInfo(s) EXCEPT !.header_send = FALSE]]
    BY <1>2, <1>6
  <2>2. Open /\ (m_requests # <<>> => info[m_requests[Len(m_requests)]].header_send) => s # m_site
    BY <1>3, <1>6 DEF Open
  <2>3. UNCHANGED <<conn, events, arriving, onwire>>
    BY <1>2, <1>6 DEF net
  <2> QED
    BY <1>2, <1>4, <1>6, <2>1, <2>2, <2>3 DEF Asks
<1>7. CASE ~reuse /\ m_requests = <<>>
  <2>1. info' = [info EXCEPT ![requests + 1] = [NewInfo(s) EXCEPT !.header_send = FALSE]] /\ connect_host(s)
    BY <1>2, <1>7
  <2>2. requests \in Nat /\ requests + 1 \in Requests /\ requests + 1 \in 1 .. requests + 1
        /\ requests' \in requests .. MaxRequests
    BY <1>4, QueueFacts DEF Requests
  <2>3. m_requests' = << requests + 1 >> /\ m_requests' \in Seq(1 .. requests') /\ Len(m_requests') = 1
        /\ DOMAIN m_requests' = 1 .. 1 /\ m_requests'[1] = requests + 1
    BY <1>2, <1>4, <1>7, <2>2
  <2>4. info \in [Requests -> Infos] /\ failed \in BOOLEAN
    BY DEF ConnectionInv, TypeOK
  <2>5. info' \in [Requests -> Infos] /\ info'[requests + 1] = [NewInfo(s) EXCEPT !.header_send = FALSE]
    BY <2>1, <2>2, <2>4, NewInfoType
  <2>6. ~info'[requests + 1].header_send /\ ~info'[requests + 1].header_finished /\ info'[requests + 1].received_size = 0
    BY <2>5, NewInfoType, ZenonT(60)
  <2>7. got[requests + 1] = <<>>
    BY <2>2 DEF ConnectionInv, FutureUntouched
  <2>8. \A q \in requests' - Len(m_requests') + 1 .. requests' : q = requests + 1
    BY <1>4, <2>2, <2>3
  <2>9. \A i \in DOMAIN m_requests' : m_requests'[i] = requests' - Len(m_requests') + i
    BY <1>4, <2>2, <2>3
  <2>10. step # "refused" /\ data = <<>>
    BY <1>4, <1>7, ProcessFacts DEF ConnectionInv, Phases, Completing, Callbacks
  <2> QED
    BY <1>4, <2>1, <2>2, <2>3, <2>4, <2>5, <2>6, <2>7, <2>8, <2>9, <2>10 DEF Connects
<1> QED
  BY <1>5, <1>6, <1>7

\* Nothing was delivered for a request behind the front.
LEMMA BehindFront ==
  ASSUME ConnectionConstants, ConnectionInv, ~Closed, NEW q \in Queued, q # First \/ Opening
  PROVE  q \in Requests /\ got[q] = <<>>
<1>1. q \in Requests
  BY QueueFacts DEF Queued, Requests
<1>2. Len(got[q]) = 0
  BY DEF ConnectionInv, InOrder
<1> QED
  BY <1>1, <1>2, EmptySeq DEF ConnectionInv, TypeOK

\* handle_error() closes, or connects for what is queued behind the next one.
LEMMA ErrorStep ==
  ASSUME ConnectionConstants, ConnectionInv, NEW eof \in BOOLEAN, handle_error(eof),
         step = "idle", events # <<>>, UNCHANGED <<requests, step, data, got>>
  PROVE  Closes \/ Connects
<1> DEFINE rest == Tail(m_requests)
           reset == [q \in Requests |-> IF \E i \in DOMAIN rest : rest[i] = q
                                        THEN NewInfo(info[q].site) ELSE info[q]]
<1>1. /\ info \in [Requests -> Infos] /\ data = <<>>
      /\ \A q \in Requests : info[q].site \in Sites \cup {NoSite}
  BY DEF ConnectionInv, TypeOK, Phases, Infos
<1>2. failed' = TRUE
  BY DEF handle_error
<1>3. ~Closed
  <2>1. events[1].kind \in {"connect", "resolve", "recv"}
    BY EventFacts DEF Events
  <2> QED
    BY <2>1 DEF ConnectionInv, OneCompletion, Phases, Closed, Open
<1>4. /\ requests \in Nat /\ MaxRequests \in Nat /\ requests <= MaxRequests /\ 1 .. requests \subseteq Requests
      /\ First = requests - Len(m_requests) + 1 /\ First >= 1 /\ First \in Int
  BY <1>3, QueueFacts DEF Requests
<1>5. CASE m_requests = <<>>
  <2>1. do_close /\ UNCHANGED <<m_requests, info>>
    BY <1>5 DEF handle_error
  <2> QED
    BY <1>1, <1>2, <1>5, <2>1, EmptySeq DEF Closes
<1>6. CASE m_requests # <<>>
  <2>1. /\ rest \in Seq(1 .. requests) /\ Len(rest) = Len(m_requests) - 1 /\ Len(m_requests) \in Nat \ {0}
        /\ DOMAIN rest = 1 .. Len(m_requests) - 1
        /\ \A i \in 1 .. Len(m_requests) - 1 : rest[i] = m_requests[i + 1]
    BY <1>6, QueueFacts, Removed
  <2>2. reset \in [Requests -> Infos]
    BY <1>1, NewInfoType
  <2>3. info' = reset
    BY <1>6 DEF handle_error
  <2>4. CASE eof /\ info[Head(m_requests)].header_finished /\ rest # <<>>
    <3>1. m_requests' = Tail(rest) /\ connect_host(info[Head(rest)].site)
      BY <1>6, <2>4 DEF handle_error
    <3>2. /\ Tail(rest) \in Seq(1 .. requests) /\ Len(Tail(rest)) = Len(rest) - 1
          /\ DOMAIN Tail(rest) = 1 .. Len(rest) - 1
          /\ \A i \in 1 .. Len(rest) - 1 : Tail(rest)[i] = rest[i + 1]
          /\ Head(rest) = rest[1] /\ rest[1] \in 1 .. requests
      BY <2>1, <2>4, Removed
    <3>3. info[Head(rest)].site \in Sites \cup {NoSite}
      BY <1>1, <1>4, <3>2
    <3>4. \A i \in 1 .. Len(m_requests) : m_requests[i] = requests - Len(m_requests) + i
      BY <1>3, QueueFacts DEF ConnectionInv, InOrder
    <3>5. \A i \in DOMAIN m_requests' : m_requests'[i] = requests' - Len(m_requests') + i
      <4> SUFFICES ASSUME NEW i \in 1 .. Len(m_requests) - 2
                   PROVE  Tail(rest)[i] = requests - (Len(m_requests) - 2) + i
        BY <2>1, <3>1, <3>2
      <4>1. Tail(rest)[i] = rest[i + 1] /\ rest[i + 1] = m_requests[i + 2]
        BY <2>1, <3>2
      <4> QED
        BY <1>4, <2>1, <3>4, <4>1
    <3>6. ASSUME NEW q \in requests' - Len(m_requests') + 1 .. requests'
          PROVE  /\ got[q] = <<>> /\ ~info'[q].header_send /\ ~info'[q].header_finished
                 /\ info'[q].received_size = 0
      <4>1. q \in requests - (Len(m_requests) - 2) + 1 .. requests
        BY <2>1, <3>1, <3>2
      <4>2. q \in Queued /\ q # First /\ q \in Requests /\ q - First \in DOMAIN rest
        BY <1>4, <2>1, <4>1 DEF Queued
      <4>3. rest[q - First] = q
        <5>1. q - First \in 1 .. Len(m_requests) - 1 /\ q \in Int
          BY <1>4, <2>1, <4>2 DEF Queued
        <5>2. rest[q - First] = m_requests[(q - First) + 1] /\ (q - First) + 1 \in 1 .. Len(m_requests)
          BY <2>1, <5>1
        <5>3. m_requests[(q - First) + 1] = requests - Len(m_requests) + ((q - First) + 1)
          BY <3>4, <5>2
        <5> QED
          BY <1>4, <2>1, <5>1, <5>2, <5>3
      <4>4. info'[q] = NewInfo(info[q].site)
        BY <2>3, <4>2, <4>3
      <4> QED
        <5>1. got[q] = <<>>
          BY <1>3, <4>2, BehindFront
        <5>2. info[q].site \in Sites \cup {NoSite}
          BY <1>1, <4>2
        <5>3. ~info'[q].header_send /\ ~info'[q].header_finished /\ info'[q].received_size = 0
          BY <4>4, <5>2, NewInfoType
        <5> QED
          BY <5>1, <5>3
    <3>7. requests' \in requests .. MaxRequests /\ m_requests' \in Seq(1 .. requests')
      <4>1. requests' = requests
        OBVIOUS
      <4>2. requests' \in requests .. MaxRequests
        BY <1>4, <4>1
      <4> QED
        BY <3>1, <3>2, <4>1, <4>2
    <3> QED
      BY <1>1, <1>2, <2>2, <2>3, <3>1, <3>3, <3>5, <3>6, <3>7 DEF Connects
  <2>5. CASE ~(eof /\ info[Head(m_requests)].header_finished /\ rest # <<>>)
    <3>1. m_requests' = rest /\ do_close
      BY <1>6, <2>5 DEF handle_error
    <3> QED
      BY <1>1, <1>2, <2>1, <2>2, <2>3, <3>1 DEF Closes
  <2> QED
    BY <2>4, <2>5
<1> QED
  BY <1>5, <1>6

\* The header of the front's response.
LEMMA HeaderStep ==
  ASSUME ConnectionConstants, ConnectionInv, process_header
  PROVE  Closes \/ HeaderEnds \/ HeaderRefused
<1>1. /\ step = "process" /\ data # <<>> /\ step \notin Completing
      /\ ~info[Front].header_finished /\ UNCHANGED <<requests, got>>
  BY DEF process_header, Completing
<1>2. m_requests # <<>> /\ Front = First /\ Head(data) = data[1] /\ First \in Requests /\ First \in 1 .. requests
  BY <1>1, ProcessFacts, QueueFacts DEF Requests
<1>3. CASE Head(data).v = Redirect
  <2>1. /\ do_close
        /\ info' = [info EXCEPT ![First] = NewInfo(info[First].site)]
        /\ m_requests' = Append(m_requests, First)
        /\ step' = "idle" /\ data' = <<>> /\ failed' = TRUE
    BY <1>2, <1>3 DEF process_header
  <2>2. m_requests' \in Seq(1 .. requests)
    BY <1>2, <2>1, QueueFacts, Added
  <2>3. info \in [Requests -> Infos] /\ info[First].site \in Sites \cup {NoSite}
    BY <1>2 DEF ConnectionInv, TypeOK, Infos
  <2>4. info' \in [Requests -> Infos]
    BY <2>1, <2>3, NewInfoType
  <2> QED
    BY <1>1, <2>1, <2>2, <2>4 DEF Closes
<1>4. CASE Head(data).v # Redirect
  BY <1>1, <1>2, <1>4 DEF process_header, HeaderEnds, HeaderRefused, HeaderUnit
<1> QED
  BY <1>3, <1>4

\* A unit of the front's body.
LEMMA BodyStep ==
  ASSUME ConnectionConstants, ConnectionInv, process_body
  PROVE  Takes \/ Refuses
<1>1. step = "process" /\ data # <<>> /\ step \notin Completing /\ info[Front].header_finished
  BY DEF process_body, Completing
<1>2. m_requests # <<>> /\ Front = First /\ Head(data) = data[1] /\ First \in Requests
  BY <1>1, ProcessFacts, QueueFacts
<1>3. /\ got' = [got EXCEPT ![First] = Append(@, data[1])]
      /\ info' = [info EXCEPT ![First].received_size = @ + 1]
      /\ UNCHANGED <<m_requests, conn, net, requests>>
      /\ \/ /\ step' = IF Whole(info'[Front]) THEN "on_complete" ELSE "process"
            /\ data' = Tail(data) /\ UNCHANGED failed
         \/ step' = "refused" /\ data' = <<>> /\ failed' = TRUE
  BY <1>2 DEF process_body
<1>4. BodyUnit
  BY <1>1, <1>2, <1>3 DEF BodyUnit
<1>5. info \in [Requests -> Infos]
  BY DEF ConnectionInv, TypeOK
<1>6. /\ info'[First].header_finished = info[First].header_finished
      /\ info'[First].received_size = info[First].received_size + 1
      /\ info'[First].content_length = info[First].content_length
  BY <1>2, <1>3, <1>5 DEF Infos
<1>7. Whole(info'[Front]) <=> info[First].received_size + 1 >= info[First].content_length
  BY <1>1, <1>2, <1>6 DEF Whole
<1> QED
  BY <1>3, <1>4, <1>7 DEF Takes, Refuses

\* Every step of the connection is one of Step.
LEMMA StepsOfNext ==
  ASSUME ConnectionConstants, ConnectionInv, Next
  PROVE  Step
<1>1. CASE Native
  BY <1>1, NativeStep DEF Step
<1>2. CASE Respond
  BY <1>2 DEF Step
<1>3. CASE request
  BY <1>3, RequestStep DEF Step
<1>4. info \in [Requests -> Infos] /\ failed \in BOOLEAN /\ <<>> \in Seq(1 .. requests)
  BY EmptySeq DEF ConnectionInv, TypeOK
<1>5. step \in {"idle", "refused"} => data = <<>>
  BY DEF ConnectionInv, Phases
<1>6. CASE close
  BY <1>4, <1>5, <1>6 DEF Step, close, Closes
<1>7. CASE pause_or_resume \/ on_resolver_address \/ check_receive
  BY <1>7 DEF Step
<1>15. CASE on_socket_connect
  <2>1. step = "idle" /\ Dispatch("connect", "ok") /\ UNCHANGED <<m_requests, requests, step, data, got>>
    BY <1>15 DEF on_socket_connect, Dispatch
  <2>2. CASE m_requests = <<>>
    <3>1. do_close /\ failed' = TRUE /\ UNCHANGED info
      BY <1>15, <2>2 DEF on_socket_connect
    <3> QED
      BY <1>4, <1>5, <2>1, <2>2, <3>1 DEF Step, Closes
  <2>3. CASE m_requests # <<>>
    BY <1>15, <2>1, <2>3 DEF Step, Opens, on_socket_connect
  <2> QED
    BY <2>2, <2>3
<1>8. CASE on_socket_connect_failed
  <2>1. step = "idle" /\ events # <<>> /\ handle_error(FALSE) /\ UNCHANGED <<requests, step, data, got>>
    BY <1>8 DEF on_socket_connect_failed, Dispatch
  <2> QED
    BY <2>1, ErrorStep DEF Step
<1>9. CASE on_socket_receive_failed
  <2> DEFINE eof == (Head(events).res = "eof")
  <2>1. /\ step = "idle" /\ events # <<>> /\ handle_error(eof) /\ eof \in BOOLEAN
        /\ UNCHANGED <<requests, step, data, got>>
    BY <1>9 DEF on_socket_receive_failed, Dispatch
  <2> HIDE DEF eof
  <2> QED
    BY <2>1, ErrorStep DEF Step
<1>10. CASE on_socket_receive
  <2>1. step = "idle" /\ events # <<>> /\ Dispatch("recv", "ok")
    BY <1>10 DEF on_socket_receive, Dispatch
  <2>2. Head(events) = events[1] /\ Tail(events) = <<>>
    BY <2>1, EventFacts
  <2>3. CASE m_requests = <<>>
    BY <1>4, <1>5, <1>10, <2>1, <2>3 DEF Step, Closes, on_socket_receive
  <2>4. CASE m_requests # <<>>
    BY <1>10, <2>1, <2>2, <2>4 DEF Step, Receives, on_socket_receive
  <2> QED
    BY <2>3, <2>4
<1>11. CASE process_header
  BY <1>11, HeaderStep DEF Step
<1>12. CASE process_body
  BY <1>12, BodyStep DEF Step
<1>13. CASE on_complete
  <2>1. step \in Completing /\ step' \in Callbacks
    BY <1>13 DEF on_complete, Completing, Callbacks
  <2>2. m_requests # <<>>
    BY <2>1, CompletingFacts
  <2> QED
    BY <1>13, <2>1, <2>2 DEF Step, Leaves, on_complete
<1>14. CASE complete_returns
  <2>1. CASE UNCHANGED <<conn, net, data, failed>> /\ step' = "process"
    BY <1>14, <2>1 DEF Step, Returns, complete_returns
  <2>2. CASE do_close /\ step' = "idle" /\ data' = <<>> /\ failed' = TRUE
    <3>1. m_requests \in Seq(1 .. requests)
      BY QueueFacts
    <3> QED
      BY <1>4, <1>14, <2>2, <3>1 DEF Step, Closes, complete_returns
  <2> QED
    BY <1>14, <2>1, <2>2 DEF complete_returns
<1> QED
  BY <1>1, <1>2, <1>3, <1>6, <1>7, <1>8, <1>9, <1>10, <1>11, <1>12, <1>13, <1>14, <1>15 DEF Next
-----------------------------------------------------------------------------
(* The invariant is kept.                                                  *)

\* Closing keeps the invariant.
LEMMA ClosesKeeps ==
  ASSUME ConnectionConstants, ConnectionInv, Closes
  PROVE  ConnectionInv'
<1>1. /\ m_site' = NoSite /\ m_socket' = "new" /\ m_receiving' = FALSE /\ m_resolving' = FALSE
      /\ paused' = FALSE /\ events' = <<>> /\ onwire' = <<>> /\ arriving' = <<>>
      /\ step' = "idle" /\ data' = <<>> /\ requests' = requests /\ got' = got
      /\ m_requests' \in Seq(1 .. requests) /\ info' \in [Requests -> Infos]
      /\ failed' \in BOOLEAN /\ (failed' \/ m_requests' = <<>>)
  BY DEF Closes, do_close
<1>2. TypeOK'
  BY <1>1, EmptySeq DEF ConnectionInv, TypeOK, Steps
<1>3. FutureUntouched' /\ PipelinedOwnData'
  BY <1>1 DEF ConnectionInv, FutureUntouched, PipelinedOwnData
<1>4. Len(events') = 0
  BY <1>1, EmptySeq
<1>5. OneCompletion'
  BY <1>1, <1>4 DEF OneCompletion
<1>6. Phases' /\ InOrder' /\ Pipelined' /\ Reading' /\ NotForgotten'
  BY <1>1 DEF Phases, InOrder, Pipelined, Reading, NotForgotten, Open, Closed, Opening, Callbacks
<1> QED
  BY <1>2, <1>3, <1>5, <1>6 DEF ConnectionInv

\* Connecting keeps the invariant.
LEMMA ConnectsKeeps ==
  ASSUME ConnectionConstants, ConnectionInv, Connects
  PROVE  ConnectionInv'
<1>1. PICK s \in Sites \cup {NoSite} : connect_host(s)
  BY DEF Connects
<1>2. /\ m_site' = s /\ m_resolving' \in BOOLEAN /\ m_receiving' = FALSE /\ paused' = FALSE
      /\ (m_resolving' /\ m_socket' = "new") \/ (~m_resolving' /\ m_socket' = "connecting")
      /\ events' = <<>> /\ onwire' = <<>> /\ arriving' = <<>>
  <2>1. CASE s[1] \in NamedHosts
    BY <1>1, <2>1 DEF connect_host
  <2>2. CASE s[1] \notin NamedHosts
    <3>1. m_resolving' = (s[1] \in NamedHosts)
      BY <1>1 DEF connect_host
    <3>2. (s[1] \in NamedHosts) = FALSE
      BY <2>2
    <3>3. m_resolving' = FALSE
      BY <3>1, <3>2
    <3> QED
      BY <1>1, <2>2, <3>3 DEF connect_host
  <2> QED
    BY <2>1, <2>2
<1>3. /\ step' = step /\ data' = data /\ got' = got /\ data = <<>>
      /\ step \in {"idle"} \cup Callbacks
      /\ requests' \in requests .. MaxRequests /\ m_requests' \in Seq(1 .. requests')
      /\ info' \in [Requests -> Infos] /\ failed' \in BOOLEAN
      /\ \A i \in DOMAIN m_requests' : m_requests'[i] = requests' - Len(m_requests') + i
      /\ \A q \in requests' - Len(m_requests') + 1 .. requests' :
           /\ got[q] = <<>> /\ ~info'[q].header_send /\ ~info'[q].header_finished
           /\ info'[q].received_size = 0
  BY DEF Connects
<1>4. requests \in Nat /\ requests' \in 0 .. MaxRequests /\ requests' >= requests
  BY <1>3, QueueFacts
<1>5. TypeOK'
  BY <1>2, <1>3, <1>4, EmptySeq DEF ConnectionInv, TypeOK, Steps
<1>6. FutureUntouched' /\ PipelinedOwnData'
  <2>1. \A r \in Requests : r > requests' => r > requests
    BY <1>4, QueueFacts DEF Requests
  <2> QED
    BY <1>3, <2>1 DEF ConnectionInv, FutureUntouched, PipelinedOwnData
<1>7. Len(events') = 0
  BY <1>2, EmptySeq
<1>8. OneCompletion'
  BY <1>2, <1>7 DEF OneCompletion
<1>9. Phases' /\ Pipelined' /\ Reading'
  BY <1>2, <1>3 DEF Phases, Pipelined, Reading, Open, Closed, Opening, Callbacks
<1>10. NotForgotten'
  BY <1>2, <1>3 DEF NotForgotten, Closed, Callbacks
<1>11. InOrder'
  <2>1. \A q \in Queued' : Len(got'[q]) = 0
    BY <1>3, EmptySeq DEF Queued, First
  <2> QED
    BY <1>3, <2>1 DEF InOrder, Queued, First
<1> QED
  BY <1>5, <1>6, <1>8, <1>9, <1>10, <1>11 DEF ConnectionInv

\* A response arrives whole, behind what has arrived before.
Arrives(len, resp) ==
  /\ resp \in Seq(Tokens) /\ arriving' = arriving \o resp
  /\ Len(resp) = (IF len > 0 THEN len ELSE 0) + 1
  /\ resp[1] = Token(onwire[1], "end", len)
  /\ \A i \in 1 .. len : resp[i + 1] = Token(onwire[1], "body", i)

\* What Respond does.
LEMMA RespondFacts ==
  ASSUME ConnectionConstants, ConnectionInv, Respond
  PROVE  /\ onwire # <<>> /\ onwire' = Tail(onwire) /\ onwire[1] \in Nat
         /\ Open
         /\ \E len \in Lengths, resp \in Seq(Tokens) : Arrives(len, resp)
<1>1. /\ onwire # <<>> /\ onwire' = Tail(onwire) /\ onwire \in Seq(Nat) /\ arriving \in Seq(Tokens)
      /\ Open
  BY DEF Respond, ConnectionInv, TypeOK, Phases
<1>2. Head(onwire) = onwire[1] /\ onwire[1] \in Nat
  BY <1>1, Removed
<1>3. PICK len \in BodySizes :
         arriving' = arriving \o <<Token(Head(onwire), "end", len)>>
                       \o [i \in 1 .. len |-> Token(Head(onwire), "body", i)]
  BY DEF Respond
<1> DEFINE r == onwire[1]
           body == [i \in 1 .. len |-> Token(r, "body", i)]
           first == <<Token(r, "end", len)>>
           n == IF len > 0 THEN len ELSE 0
<1>4. len \in Lengths /\ n \in Nat /\ len \in Int /\ 1 .. len = 1 .. n
  BY <1>3 DEF ConnectionConstants, Lengths, Redirect
<1>5. body \in Seq(Tokens) /\ Len(body) = n /\ \A i \in 1 .. n : body[i] = Token(r, "body", i)
  BY <1>2, <1>4, BodyUnits
<1>6. first \in Seq(Tokens) /\ Len(first) = 1 /\ first[1] = Token(r, "end", len)
  <2>1. Token(r, "end", len) \in Tokens
    BY <1>2, <1>4 DEF Token, Tokens
  <2> QED
    BY <2>1
<1>7. arriving' = (arriving \o first) \o body
  BY <1>2, <1>3
<1> HIDE DEF body, first, n
<1>8. first \in Seq(Tokens) /\ body \in Seq(Tokens)
  BY <1>5, <1>6
<1>9. arriving' = arriving \o (first \o body)
  <2>1. arriving \in Seq(Tokens)
    BY <1>1
  <2>2. (arriving \o first) \o body = arriving \o (first \o body)
    BY <1>8, <2>1, ConcatAssociative
  <2> QED
    BY <1>7, <2>2
<1>10. /\ first \o body \in Seq(Tokens) /\ Len(first \o body) = Len(first) + Len(body)
       /\ \A i \in 1 .. Len(first) : (first \o body)[i] = first[i]
       /\ \A i \in 1 .. Len(body) : (first \o body)[Len(first) + i] = body[i]
  BY <1>8, Joined
<1> DEFINE resp == first \o body
<1>11. /\ resp \in Seq(Tokens) /\ Len(resp) = n + 1 /\ resp[1] = first[1]
       /\ \A i \in 1 .. n : resp[1 + i] = body[i]
  BY <1>4, <1>5, <1>6, <1>10
<1>12. \A i \in 1 .. n : 1 + i = i + 1
  BY <1>4
<1>13. arriving' = arriving \o resp
  BY <1>9
<1> HIDE DEF resp
<1>14. Arrives(len, resp)
  BY <1>4, <1>5, <1>6, <1>11, <1>12, <1>13 DEF Arrives, n
<1> QED
  BY <1>1, <1>2, <1>4, <1>11, <1>14

\* The requests that on_socket_connect() writes are the first n of the queue.
Writes(n) ==
  /\ onwire' \in Seq(Nat) /\ Len(onwire') = n
  /\ \A i \in 1 .. n : onwire'[i] = requests - Len(m_requests) + i
  /\ info' \in [Requests -> Infos]
  /\ \A q \in Queued :
       /\ info'[q].header_send <=> q <= requests - Len(m_requests) + n
       /\ info'[q].header_finished = info[q].header_finished
       /\ info'[q].received_size = info[q].received_size
       /\ info'[q].content_length = info[q].content_length
       /\ info'[q].site = info[q].site
  /\ n < Len(m_requests) => info[First + n].site # m_site

\* What on_socket_connect() does.
LEMMA ConnectFacts ==
  ASSUME ConnectionConstants, ConnectionInv, Opens
  PROVE  /\ m_socket = "connecting" /\ ~m_resolving /\ ~m_receiving /\ step = "idle" /\ m_requests # <<>>
         /\ events # <<>> /\ events[1].data = <<>> /\ events' = <<>>
         /\ onwire = <<>> /\ arriving = <<>> /\ data = <<>>
         /\ \E n \in 0 .. Len(m_requests) : Writes(n)
<1>1. step = "idle" /\ m_requests # <<>> /\ events # <<>> /\ Head(events).kind = "connect" /\ events' = Tail(events)
  BY DEF Opens, Dispatch
<1>2. events[1].kind = "connect" /\ events' = <<>>
  BY <1>1, EventFacts
<1>3. m_socket = "connecting" /\ events[1].data = <<>>
  BY <1>1, <1>2 DEF ConnectionInv, OneCompletion
<1>4. /\ ~m_resolving /\ ~m_receiving /\ ~Closed /\ Opening
      /\ onwire = <<>> /\ arriving = <<>> /\ data = <<>>
  BY <1>3 DEF ConnectionInv, Phases, Open, Closed, Opening
<1>5. /\ requests \in Nat /\ Len(m_requests) \in Nat /\ DOMAIN m_requests = 1 .. Len(m_requests)
      /\ First = requests - Len(m_requests) + 1 /\ First >= 1 /\ First \in Int
      /\ Queued \subseteq Requests /\ Queued \subseteq Nat
  BY <1>4, QueueFacts DEF Queued, Requests
<1>6. \A i \in 1 .. Len(m_requests) : m_requests[i] = requests - Len(m_requests) + i
  BY <1>4, <1>5 DEF ConnectionInv, InOrder
<1>7. \A i, j \in 1 .. Len(m_requests) : j <= i /\ i \in Writable => j \in Writable
  BY <1>5 DEF Writable
<1> DEFINE U == {k \in 1 .. Len(m_requests) + 1 : k \notin Writable}
<1>8. U \in SUBSET Nat /\ Len(m_requests) + 1 \in U
  BY <1>5 DEF Writable
<1>9. PICK m \in U : \A k \in U : m <= k
  BY <1>8, Least
<1> DEFINE n == m - 1
<1>10. n \in 0 .. Len(m_requests) /\ n + 1 = m /\ Writable \subseteq 1 .. Len(m_requests)
  BY <1>5, <1>9 DEF Writable
<1>11. Writable = 1 .. n
  <2>1. ASSUME NEW i \in 1 .. n PROVE i \in Writable
    <3>1. i \in 1 .. Len(m_requests) + 1 /\ ~(m <= i)
      BY <1>5, <1>10
    <3> QED
      BY <1>9, <3>1
  <2>2. ASSUME NEW i \in Writable PROVE i \in 1 .. n
    <3>1. i \in 1 .. Len(m_requests)
      BY <1>10
    <3> SUFFICES ASSUME ~(i <= n) PROVE FALSE
      BY <1>5, <1>10, <3>1
    <3>2. m \in 1 .. Len(m_requests) /\ m <= i
      BY <1>5, <1>10, <3>1
    <3> QED
      BY <1>7, <1>9, <3>1, <3>2
  <2> QED
    BY <2>1, <2>2
<1> HIDE DEF n, U
<1>12. onwire' = [i \in 1 .. n |-> m_requests[i]]
  BY <1>11 DEF Opens
<1>13. \A i \in 1 .. n : m_requests[i] = requests - Len(m_requests) + i /\ m_requests[i] \in Nat /\ i \in 1 .. Len(m_requests)
  BY <1>5, <1>6, <1>10
<1>14. onwire' \in [1 .. n -> Nat] /\ n \in Nat
  BY <1>5, <1>10, <1>12, <1>13
<1>15. onwire' \in Seq(Nat)
  BY <1>14, SeqDef
<1>16. Len(onwire') = n
  <2>1. DOMAIN onwire' = 1 .. n
    BY <1>14
  <2>2. Len(onwire') \in Nat /\ DOMAIN onwire' = 1 .. Len(onwire')
    BY <1>15, LenProperties
  <2> QED
    BY <1>14, <2>1, <2>2, SameInterval
<1>17. info' = [r \in Requests |->
                  IF \E i \in Writable : m_requests[i] = r
                  THEN [info[r] EXCEPT !.header_send = TRUE] ELSE info[r]]
  BY DEF Opens
<1>18. info \in [Requests -> Infos]
  BY DEF ConnectionInv, TypeOK
<1>19. /\ info' \in [Requests -> Infos]
       /\ \A q \in Requests :
            /\ info'[q].header_send <=> info[q].header_send \/ \E i \in Writable : m_requests[i] = q
            /\ info'[q].header_finished = info[q].header_finished
            /\ info'[q].received_size = info[q].received_size
            /\ info'[q].content_length = info[q].content_length
            /\ info'[q].site = info[q].site
  BY <1>17, <1>18, ZenonT(60) DEF Infos
<1>20. \A q \in Queued : ~info[q].header_send
  BY <1>4 DEF ConnectionInv, InOrder
<1>21. ASSUME NEW q \in Queued
       PROVE  (\E i \in Writable : m_requests[i] = q) <=> q <= requests - Len(m_requests) + n
  <2>1. q \in Nat /\ q >= requests - Len(m_requests) + 1 /\ q <= requests
    BY <1>5 DEF Queued
  <2>2. ASSUME NEW i \in Writable, m_requests[i] = q PROVE q <= requests - Len(m_requests) + n
    BY <1>5, <1>10, <1>11, <1>13, <2>2
  <2>3. ASSUME q <= requests - Len(m_requests) + n PROVE \E i \in Writable : m_requests[i] = q
    <3>1. q - (requests - Len(m_requests)) \in 1 .. n
      BY <1>5, <1>10, <2>1, <2>3
    <3>2. m_requests[q - (requests - Len(m_requests))] = requests - Len(m_requests) + (q - (requests - Len(m_requests)))
      BY <1>13, <3>1
    <3>3. requests - Len(m_requests) + (q - (requests - Len(m_requests))) = q
      BY <1>5, <2>1
    <3> QED
      BY <1>11, <3>1, <3>2, <3>3
  <2> QED
    BY <2>2, <2>3
<1>22. ASSUME n < Len(m_requests) PROVE info[First + n].site # m_site
  <2>1. m \in 1 .. Len(m_requests) /\ m \notin Writable /\ m - 1 = n
    BY <1>5, <1>9, <1>10, <1>22 DEF U
  <2>2. PICK j \in 1 .. m : ~is_same_host(info[m_requests[j]].site)
    BY <1>5, <2>1 DEF Writable
  <2>3. j = m
    <3> SUFFICES ASSUME j # m PROVE FALSE
      OBVIOUS
    <3>1. j \in 1 .. n
      BY <2>1, <2>2
    <3> QED
      BY <1>11, <2>2, <3>1 DEF Writable
  <2>4. m_requests[m] = First + n
    BY <1>5, <1>6, <1>10, <2>1
  <2>5. is_same_host(m_site)
    BY DEF is_same_host
  <2> QED
    BY <2>2, <2>3, <2>4, <2>5
<1>23. Writes(n)
  BY <1>5, <1>12, <1>13, <1>15, <1>16, <1>19, <1>20, <1>21, <1>22, ZenonT(60) DEF Writes
<1> QED
  BY <1>1, <1>2, <1>3, <1>4, <1>10, <1>23

\* The steps other than closing and connecting.
Runs ==
  \/ Completes \/ Reads \/ Respond \/ Asks(TRUE) \/ Asks(FALSE)
  \/ pause_or_resume \/ on_resolver_address \/ Opens
  \/ Receives \/ HeaderEnds \/ HeaderRefused \/ Takes \/ Refuses \/ Leaves \/ Returns \/ check_receive

\* The variables keep their types.
LEMMA TypeStep ==
  ASSUME ConnectionConstants, ConnectionInv, Runs \/ UNCHANGED vars
  PROVE  TypeOK'
<1> USE DEF conn, net
<1>0. /\ requests \in 0 .. MaxRequests /\ m_requests \in Seq(1 .. requests)
      /\ m_site \in Sites \cup {NoSite} /\ m_socket \in {"new", "connecting", "connected"}
      /\ m_receiving \in BOOLEAN /\ m_resolving \in BOOLEAN /\ paused \in BOOLEAN /\ failed \in BOOLEAN
      /\ info \in [Requests -> Infos] /\ got \in [Requests -> Seq(Tokens)]
      /\ events \in Seq(Events) /\ onwire \in Seq(Nat) /\ arriving \in Seq(Tokens)
      /\ step \in Steps /\ data \in Seq(Tokens) /\ <<>> \in Seq(Events) /\ <<>> \in Seq(Tokens)
  BY EmptySeq DEF ConnectionInv, TypeOK
<1>1. CASE Completes
  <2>1. PICK e \in Events : events' = << e >>
    BY <1>1 DEF Completes
  <2>2. events' \in Seq(Events)
    BY <2>1
  <2> QED
    BY <1>1, <1>0, <2>2 DEF Completes, TypeOK
<1>2. CASE Reads
  <2>1. PICK n \in 1 .. Len(arriving) :
          /\ events' = << Event("recv", "ok", SubSeq(arriving, 1, n)) >>
          /\ arriving' = SubSeq(arriving, n + 1, Len(arriving))
    BY <1>2 DEF Reads
  <2>2. n \in 0 .. Len(arriving)
    BY <1>0, LenProperties
  <2>3. SubSeq(arriving, 1, n) \in Seq(Tokens) /\ SubSeq(arriving, n + 1, Len(arriving)) \in Seq(Tokens)
    BY <1>0, <2>2, Cut
  <2>4. Event("recv", "ok", SubSeq(arriving, 1, n)) \in Events
    BY <2>3 DEF Event, Events
  <2>5. events' \in Seq(Events)
    BY <2>1, <2>4
  <2> QED
    BY <1>2, <1>0, <2>1, <2>3, <2>5 DEF Reads, TypeOK
<1>3. CASE Respond
  <2>1. PICK len \in Lengths, resp \in Seq(Tokens) : Arrives(len, resp)
    BY <1>3, RespondFacts
  <2>2. arriving' = arriving \o resp /\ onwire # <<>> /\ onwire' = Tail(onwire)
    BY <1>3, <2>1, RespondFacts DEF Arrives
  <2>3. arriving \o resp \in Seq(Tokens)
    BY <1>0, Joined
  <2>4. Tail(onwire) \in Seq(Nat)
    BY <1>0, <2>2, Removed
  <2> QED
    BY <1>3, <1>0, <2>2, <2>3, <2>4 DEF Respond, TypeOK
<1>4. CASE Asks(TRUE)
  <2>1. PICK s \in Sites : info' = [info EXCEPT ![requests + 1] = [NewInfo(s) EXCEPT !.header_send = TRUE]]
    BY <1>4 DEF Asks
  <2>2. info' \in [Requests -> Infos]
    <3>1. [NewInfo(s) EXCEPT !.header_send = TRUE] \in Infos
      BY NewInfoType
    <3> QED
      BY <1>0, <2>1, <3>1
  <2>3. requests + 1 \in 1 .. requests + 1 /\ requests + 1 \in 0 .. MaxRequests /\ requests + 1 \in Nat
    BY <1>4, QueueFacts, SMTT(30) DEF Asks
  <2>4. m_requests \in Seq(1 .. requests + 1)
    <3>1. 1 .. requests \subseteq 1 .. requests + 1 /\ m_requests \in Seq(1 .. requests)
      BY QueueFacts
    <3> QED
      BY <3>1, SeqMonotonic
  <2>5. Append(m_requests, requests + 1) \in Seq(1 .. requests + 1)
    BY <2>3, <2>4, Added
  <2>6. Append(onwire, requests + 1) \in Seq(Nat)
    BY <1>0, <2>3, Added
  <2> QED
    BY <1>4, <1>0, <2>2, <2>3, <2>5, <2>6 DEF Asks, TypeOK
<1>5. CASE Asks(FALSE)
  <2>1. PICK s \in Sites : info' = [info EXCEPT ![requests + 1] = [NewInfo(s) EXCEPT !.header_send = FALSE]]
    BY <1>5 DEF Asks
  <2>2. info' \in [Requests -> Infos]
    <3>1. [NewInfo(s) EXCEPT !.header_send = FALSE] \in Infos
      BY NewInfoType
    <3> QED
      BY <1>0, <2>1, <3>1
  <2>3. requests + 1 \in 1 .. requests + 1 /\ requests + 1 \in 0 .. MaxRequests /\ requests + 1 \in Nat
    BY <1>5, QueueFacts DEF Asks
  <2>4. m_requests \in Seq(1 .. requests + 1)
    <3>1. 1 .. requests \subseteq 1 .. requests + 1 /\ m_requests \in Seq(1 .. requests)
      BY QueueFacts
    <3> QED
      BY <3>1, SeqMonotonic
  <2>5. Append(m_requests, requests + 1) \in Seq(1 .. requests + 1)
    BY <2>3, <2>4, Added
  <2>6. Append(onwire, requests + 1) \in Seq(Nat)
    BY <1>0, <2>3, Added
  <2> QED
    BY <1>5, <1>0, <2>2, <2>3, <2>5, <2>6 DEF Asks, TypeOK
<1>6. CASE pause_or_resume
  BY <1>6, <1>0 DEF pause_or_resume, TypeOK
<1>7. CASE on_resolver_address
  <2>1. events' = <<>>
    BY <1>7, EventFacts DEF on_resolver_address, Dispatch
  <2> QED
    BY <1>7, <1>0, <2>1 DEF on_resolver_address, TypeOK
<1>8. CASE Opens
  <2>1. events' = <<>> /\ \E n \in 0 .. Len(m_requests) : Writes(n)
    BY <1>8, ConnectFacts
  <2>2. onwire' \in Seq(Nat) /\ info' \in [Requests -> Infos]
    BY <2>1 DEF Writes
  <2> QED
    BY <1>8, <1>0, <2>1, <2>2 DEF Opens, TypeOK
<1>9. CASE Receives
  <2>1. events[1].data \in Seq(Tokens)
    BY <1>9, EventFacts DEF Receives, Dispatch
  <2> QED
    BY <1>9, <1>0, <2>1 DEF Receives, TypeOK, Steps
<1>10. CASE HeaderEnds
  <2>1. First \in Requests /\ data[1] \in Tokens /\ data[1].v \in Int /\ Tail(data) \in Seq(Tokens)
    <3>1. step \notin Completing /\ data # <<>>
      BY <1>10 DEF HeaderEnds, HeaderUnit, Completing
    <3>2. Tail(data) \in Seq(Tokens)
      BY <1>0, <3>1, Removed
    <3> QED
      BY <3>1, <3>2, ProcessFacts, QueueFacts DEF Tokens
  <2>2. info' \in [Requests -> Infos]
    BY <1>10, <1>0, <2>1, ZenonT(60) DEF HeaderEnds, HeaderUnit, Infos
  <2>3. step' \in Steps
    BY <1>10 DEF HeaderEnds, HeaderUnit, Steps, Completing
  <2> QED
    BY <1>10, <1>0, <2>1, <2>2, <2>3 DEF HeaderEnds, HeaderUnit, TypeOK
<1>11. CASE Takes
  <2>1. First \in Requests /\ data[1] \in Tokens /\ data[1].v \in Int /\ Tail(data) \in Seq(Tokens)
    <3>1. step \notin Completing /\ data # <<>>
      BY <1>11 DEF Takes, BodyUnit, Completing
    <3>2. Tail(data) \in Seq(Tokens)
      BY <1>0, <3>1, Removed
    <3> QED
      BY <3>1, <3>2, ProcessFacts, QueueFacts DEF Tokens
  <2>2. info' \in [Requests -> Infos]
    <3>1. info[First].received_size + 1 \in Nat
      BY <1>0, <2>1 DEF Infos
    <3> QED
      BY <1>11, <1>0, <2>1, <3>1 DEF Takes, BodyUnit, Infos
  <2>3. step' \in Steps
    BY <1>11 DEF Takes, Steps, Completing
  <2>4. got' \in [Requests -> Seq(Tokens)]
    <3>1. Append(got[First], data[1]) \in Seq(Tokens)
      BY <1>0, <2>1, Added
    <3> QED
      BY <1>11, <1>0, <2>1, <3>1 DEF Takes, BodyUnit
  <2> QED
    BY <1>11, <1>0, <2>1, <2>2, <2>3, <2>4 DEF Takes, BodyUnit, TypeOK
<1>12. CASE Refuses
  <2>1. First \in Requests /\ data[1] \in Tokens /\ data[1].v \in Int /\ Tail(data) \in Seq(Tokens)
    <3>1. step \notin Completing /\ data # <<>>
      BY <1>12 DEF Refuses, BodyUnit, Completing
    <3>2. Tail(data) \in Seq(Tokens)
      BY <1>0, <3>1, Removed
    <3> QED
      BY <3>1, <3>2, ProcessFacts, QueueFacts DEF Tokens
  <2>2. info' \in [Requests -> Infos]
    <3>1. info[First].received_size + 1 \in Nat
      BY <1>0, <2>1 DEF Infos
    <3> QED
      BY <1>12, <1>0, <2>1, <3>1 DEF Refuses, BodyUnit, Infos
  <2>3. got' \in [Requests -> Seq(Tokens)]
    <3>1. Append(got[First], data[1]) \in Seq(Tokens)
      BY <1>0, <2>1, Added
    <3> QED
      BY <1>12, <1>0, <2>1, <3>1 DEF Refuses, BodyUnit
  <2> QED
    BY <1>12, <1>0, <2>1, <2>2, <2>3 DEF Refuses, BodyUnit, TypeOK, Steps
<1>17. CASE HeaderRefused
  <2>1. First \in Requests /\ data[1] \in Tokens /\ data[1].v \in Int
    <3>1. step \notin Completing /\ data # <<>>
      BY <1>17 DEF HeaderRefused, HeaderUnit, Completing
    <3> QED
      BY <3>1, ProcessFacts, QueueFacts DEF Tokens
  <2>2. info' \in [Requests -> Infos]
    BY <1>17, <1>0, <2>1, ZenonT(60) DEF HeaderRefused, HeaderUnit, Infos
  <2>3. step' \in Steps /\ data' \in Seq(Tokens)
    BY <1>17, EmptySeq DEF HeaderRefused, Steps
  <2> QED
    BY <1>17, <1>0, <2>1, <2>2, <2>3 DEF HeaderRefused, HeaderUnit, TypeOK
<1>13. CASE Leaves
  <2>1. Tail(m_requests) \in Seq(1 .. requests)
    BY <1>13, <1>0, Removed DEF Leaves
  <2> QED
    BY <1>13, <1>0, <2>1 DEF Leaves, TypeOK, Steps
<1>14. CASE Returns
  BY <1>14, <1>0 DEF Returns, TypeOK, Steps
<1>15. CASE check_receive
  BY <1>15, <1>0 DEF check_receive, TypeOK, Steps
<1>16. CASE UNCHANGED vars
  BY <1>16, <1>0 DEF vars, TypeOK
<1> QED
  BY <1>1, <1>2, <1>3, <1>4, <1>5, <1>6, <1>7, <1>8, <1>9, <1>10, <1>11, <1>12, <1>13, <1>14,
     <1>15, <1>16, <1>17 DEF Runs

\* The unit at hand is the next one of the front's body.
LEMMA UnitFacts ==
  ASSUME ConnectionConstants, ConnectionInv, BodyUnit
  PROVE  /\ First \in Requests /\ First <= requests /\ First \in Queued /\ Open /\ ~Closed /\ ~Opening /\ events = <<>>
         /\ data[1] = Token(First, "body", info[First].received_size + 1) /\ data[1] \in Tokens
         /\ Len(got[First]) = info[First].received_size /\ info[First].received_size \in Nat
         /\ got[First] \in Seq(Tokens)
<1>1. step \notin Completing /\ data # <<>> /\ info[First].header_finished /\ m_requests # <<>> /\ step # "refused"
  BY DEF BodyUnit, Completing
<1>2. /\ First \in Requests /\ First <= requests /\ Open /\ ~Closed /\ ~Opening /\ events = <<>>
      /\ First \in Queued /\ data[1] \in Tokens
  BY <1>1, ProcessFacts, QueueFacts DEF Queued
<1>3. PICK a \in Nat, len \in [Nat -> Lengths] : Aligned(a, len)
  BY <1>1, <1>2 DEF ConnectionInv, Pipelined
<1>4. Unread # <<>> /\ Unread[1] = data[1]
  BY <1>1, UnreadFacts
<1>5. data[1] = Expected(len)
  BY <1>3, <1>4 DEF Aligned, Written, Chain, Begins
<1>6. data[1] = Token(First, "body", info[First].received_size + 1)
  BY <1>1, <1>5 DEF Expected
<1>7. Len(got[First]) = info[First].received_size
  BY <1>2 DEF ConnectionInv, InOrder
<1> QED
  BY <1>2, <1>6, <1>7 DEF ConnectionInv, TypeOK, Infos

\* One unit is added to what the front has got.
LEMMA GotStep ==
  ASSUME ConnectionConstants, ConnectionInv, BodyUnit
  PROVE  FutureUntouched' /\ PipelinedOwnData'
<1>1. /\ First \in Requests /\ First <= requests /\ got[First] \in Seq(Tokens) /\ data[1] \in Tokens
      /\ data[1] = Token(First, "body", info[First].received_size + 1)
      /\ Len(got[First]) = info[First].received_size /\ info[First].received_size \in Nat
  BY UnitFacts
<1>2. /\ requests' = requests /\ got' = [got EXCEPT ![First] = Append(got[First], data[1])]
      /\ got \in [Requests -> Seq(Tokens)]
  BY DEF BodyUnit, ConnectionInv, TypeOK
<1>3. FutureUntouched'
  BY <1>1, <1>2, QueueFacts DEF ConnectionInv, FutureUntouched, Requests
<1>4. /\ DOMAIN Append(got[First], data[1]) = 1 .. Len(got[First]) + 1
      /\ DOMAIN got[First] = 1 .. Len(got[First])
      /\ \A i \in 1 .. Len(got[First]) : Append(got[First], data[1])[i] = got[First][i]
      /\ Append(got[First], data[1])[Len(got[First]) + 1] = data[1]
  BY <1>1, Added
<1>5. ASSUME NEW i \in DOMAIN Append(got[First], data[1])
      PROVE  Append(got[First], data[1])[i] = Token(First, "body", i)
  <2>1. CASE i \in 1 .. Len(got[First])
    BY <1>1, <1>4, <2>1 DEF ConnectionInv, PipelinedOwnData
  <2>2. CASE i = Len(got[First]) + 1
    BY <1>1, <1>4, <2>2
  <2> QED
    BY <1>1, <1>4, <2>1, <2>2
<1>6. ASSUME NEW r \in Requests, NEW i \in DOMAIN got'[r]
      PROVE  got'[r][i] = Token(r, "body", i)
  <2>1. CASE r = First
    BY <1>1, <1>2, <1>5, <1>6, <2>1
  <2>2. CASE r # First
    BY <1>2, <1>6, <2>2 DEF ConnectionInv, PipelinedOwnData
  <2> QED
    BY <2>1, <2>2
<1> QED
  BY <1>3, <1>6 DEF PipelinedOwnData

\* What was delivered is kept, and grows by the front's own units.
LEMMA DeliveredStep ==
  ASSUME ConnectionConstants, ConnectionInv, Runs \/ UNCHANGED vars
  PROVE  FutureUntouched' /\ PipelinedOwnData'
<1> USE DEF conn, net
<1>1. CASE Completes
  BY <1>1 DEF Completes, ConnectionInv, FutureUntouched, PipelinedOwnData
<1>2. CASE Reads
  BY <1>2 DEF Reads, ConnectionInv, FutureUntouched, PipelinedOwnData
<1>3. CASE Respond
  BY <1>3 DEF Respond, ConnectionInv, FutureUntouched, PipelinedOwnData
<1>4. CASE Asks(TRUE)
  <2>1. \A r \in Requests : r > requests' => r > requests
    BY <1>4, QueueFacts DEF Asks, Requests
  <2> QED
    BY <1>4, <2>1 DEF Asks, ConnectionInv, FutureUntouched, PipelinedOwnData
<1>5. CASE Asks(FALSE)
  <2>1. \A r \in Requests : r > requests' => r > requests
    BY <1>5, QueueFacts DEF Asks, Requests
  <2> QED
    BY <1>5, <2>1 DEF Asks, ConnectionInv, FutureUntouched, PipelinedOwnData
<1>6. CASE pause_or_resume
  BY <1>6 DEF pause_or_resume, ConnectionInv, FutureUntouched, PipelinedOwnData
<1>7. CASE on_resolver_address
  BY <1>7 DEF on_resolver_address, ConnectionInv, FutureUntouched, PipelinedOwnData
<1>8. CASE Opens
  BY <1>8 DEF Opens, ConnectionInv, FutureUntouched, PipelinedOwnData
<1>9. CASE Receives
  BY <1>9 DEF Receives, ConnectionInv, FutureUntouched, PipelinedOwnData
<1>10. CASE HeaderEnds
  BY <1>10 DEF HeaderEnds, HeaderUnit, ConnectionInv, FutureUntouched, PipelinedOwnData
<1>11. CASE Takes
  BY <1>11, GotStep DEF Takes
<1>12. CASE Refuses
  BY <1>12, GotStep DEF Refuses
<1>17. CASE HeaderRefused
  BY <1>17 DEF HeaderRefused, HeaderUnit, ConnectionInv, FutureUntouched, PipelinedOwnData
<1>13. CASE Leaves
  BY <1>13 DEF Leaves, ConnectionInv, FutureUntouched, PipelinedOwnData
<1>14. CASE Returns
  BY <1>14 DEF Returns, ConnectionInv, FutureUntouched, PipelinedOwnData
<1>15. CASE check_receive
  BY <1>15 DEF check_receive, ConnectionInv, FutureUntouched, PipelinedOwnData
<1>16. CASE UNCHANGED vars
  BY <1>16 DEF vars, ConnectionInv, FutureUntouched, PipelinedOwnData
<1> QED
  BY <1>1, <1>2, <1>3, <1>4, <1>5, <1>6, <1>7, <1>8, <1>9, <1>10, <1>11, <1>12, <1>13, <1>14,
     <1>15, <1>16, <1>17 DEF Runs

\* One completion is under way at most.
LEMMA CompletionStep ==
  ASSUME ConnectionConstants, ConnectionInv, Runs \/ UNCHANGED vars
  PROVE  OneCompletion'
<1> USE DEF conn, net
<1>0. \A s : s = <<>> => Len(s) = 0 /\ Len(s) <= 1
  BY EmptySeq
<1>1. CASE Completes
  <2>1. PICK e \in Events :
          /\ events' = << e >> /\ e.data = <<>>
          /\ \/ e.kind = "connect" /\ m_socket = "connecting" /\ e.res # "eof"
             \/ e.kind = "resolve" /\ m_resolving /\ e.res # "eof"
             \/ e.kind = "recv" /\ m_receiving /\ e.res # "ok"
    BY <1>1 DEF Completes
  <2>2. Len(events') = 1 /\ events'[1] = e
    BY <2>1
  <2> QED
    BY <1>1, <2>1, <2>2 DEF Completes, OneCompletion
<1>2. CASE Reads
  <2>1. PICK n \in 1 .. Len(arriving) : events' = << Event("recv", "ok", SubSeq(arriving, 1, n)) >>
    BY <1>2 DEF Reads
  <2>2. Len(events') = 1 /\ events'[1].kind = "recv" /\ events'[1].res = "ok"
    BY <2>1 DEF Event
  <2> QED
    BY <1>2, <2>2 DEF Reads, OneCompletion
<1>3. CASE Respond
  BY <1>3 DEF Respond, ConnectionInv, OneCompletion
<1>4. CASE Asks(TRUE)
  BY <1>4 DEF Asks, ConnectionInv, OneCompletion
<1>5. CASE Asks(FALSE)
  BY <1>5 DEF Asks, ConnectionInv, OneCompletion
<1>6. CASE pause_or_resume
  BY <1>6 DEF pause_or_resume, ConnectionInv, OneCompletion
<1>7. CASE on_resolver_address
  <2>1. events' = <<>>
    BY <1>7, EventFacts DEF on_resolver_address, Dispatch
  <2> QED
    BY <1>0, <2>1 DEF OneCompletion
<1>8. CASE Opens
  BY <1>8, <1>0, ConnectFacts DEF OneCompletion
<1>9. CASE Receives
  BY <1>9, <1>0 DEF Receives, OneCompletion
<1>10. CASE HeaderEnds
  BY <1>10 DEF HeaderEnds, HeaderUnit, ConnectionInv, OneCompletion
<1>11. CASE Takes
  BY <1>11 DEF Takes, BodyUnit, ConnectionInv, OneCompletion
<1>12. CASE Refuses
  BY <1>12 DEF Refuses, BodyUnit, ConnectionInv, OneCompletion
<1>17. CASE HeaderRefused
  BY <1>17 DEF HeaderRefused, HeaderUnit, ConnectionInv, OneCompletion
<1>13. CASE Leaves
  BY <1>13 DEF Leaves, ConnectionInv, OneCompletion
<1>14. CASE Returns
  BY <1>14 DEF Returns, ConnectionInv, OneCompletion
<1>15. CASE check_receive
  BY <1>15 DEF check_receive, ConnectionInv, OneCompletion
<1>16. CASE UNCHANGED vars
  BY <1>16 DEF vars, ConnectionInv, OneCompletion
<1> QED
  BY <1>1, <1>2, <1>3, <1>4, <1>5, <1>6, <1>7, <1>8, <1>9, <1>10, <1>11, <1>12, <1>13, <1>14,
     <1>15, <1>16, <1>17 DEF Runs

\* The phases are kept apart.
LEMMA PhasesStep ==
  ASSUME ConnectionConstants, ConnectionInv, Runs \/ UNCHANGED vars
  PROVE  Phases'
<1> USE DEF conn, net
<1>0. \A s : Append(m_requests, s) # <<>>
  BY QueueFacts
<1>1. CASE Completes
  BY <1>1 DEF Completes, ConnectionInv, Phases, Open, Closed, Opening
<1>2. CASE Reads
  BY <1>2 DEF Reads, ConnectionInv, Phases, Open, Closed, Opening
<1>3. CASE Respond
  <2>1. Open
    BY <1>3, RespondFacts
  <2> QED
    BY <1>3, <2>1 DEF Respond, ConnectionInv, Phases, Open, Closed, Opening
<1>4. CASE Asks(TRUE)
  BY <1>4, <1>0 DEF Asks, ConnectionInv, Phases, Open, Closed, Opening
<1>5. CASE Asks(FALSE)
  BY <1>5, <1>0 DEF Asks, ConnectionInv, Phases, Open, Closed, Opening
<1>6. CASE pause_or_resume
  BY <1>6 DEF pause_or_resume, ConnectionInv, Phases, Open, Closed, Opening
<1>7. CASE on_resolver_address
  <2>1. Head(events) = events[1] /\ events # <<>> /\ step = "idle" /\ Head(events).kind = "resolve"
    BY <1>7, EventFacts DEF on_resolver_address, Dispatch
  <2>2. m_resolving
    BY <2>1 DEF ConnectionInv, OneCompletion
  <2> QED
    BY <1>7, <2>1, <2>2 DEF on_resolver_address, ConnectionInv, Phases, Open, Closed, Opening
<1>8. CASE Opens
  <2>1. m_socket = "connecting" /\ ~m_resolving /\ step = "idle" /\ data = <<>>
    BY <1>8, ConnectFacts
  <2> QED
    BY <1>8, <2>1 DEF Opens, Phases, Open, Closed, Opening
<1>9. CASE Receives
  <2>1. Head(events) = events[1] /\ events # <<>> /\ Head(events).kind = "recv"
    BY <1>9, EventFacts DEF Receives, Dispatch
  <2>2. m_receiving
    BY <2>1 DEF ConnectionInv, OneCompletion
  <2> QED
    BY <1>9, <2>2 DEF Receives, ConnectionInv, Phases, Open, Closed, Opening
<1>10. CASE HeaderEnds
  <2>1. Open /\ ~m_receiving /\ ~m_resolving
    <3>1. step = "process" /\ step \notin Completing /\ data # <<>>
      BY <1>10 DEF HeaderEnds, HeaderUnit, Completing
    <3> QED
      BY <3>1, ProcessFacts DEF Opening, ConnectionInv, Phases
  <2>2. step' \in {"on_complete_empty", "process"} /\ UNCHANGED conn
    BY <1>10 DEF HeaderEnds, HeaderUnit
  <2> QED
    BY <2>1, <2>2 DEF Phases, Open, Closed, Opening
<1>11. CASE Takes
  <2>1. Open /\ ~m_receiving /\ ~m_resolving /\ step = "process"
    BY <1>11, UnitFacts DEF Takes, BodyUnit, Opening, ConnectionInv, Phases
  <2>2. step' \in {"on_complete", "process"} /\ UNCHANGED conn
    BY <1>11 DEF Takes, BodyUnit
  <2> QED
    BY <2>1, <2>2 DEF Phases, Open, Closed, Opening
<1>12. CASE Refuses
  <2>1. Open /\ ~m_receiving /\ ~m_resolving /\ m_requests # <<>>
    BY <1>12, UnitFacts DEF Refuses, BodyUnit, Opening, ConnectionInv, Phases
  <2>2. step' = "refused" /\ data' = <<>> /\ UNCHANGED conn /\ m_requests' = m_requests
    BY <1>12 DEF Refuses, BodyUnit
  <2> QED
    BY <2>1, <2>2 DEF Phases, Open, Closed, Opening
<1>17. CASE HeaderRefused
  <2>1. Open /\ ~m_receiving /\ ~m_resolving /\ m_requests # <<>>
    <3>1. step = "process" /\ step \notin Completing /\ data # <<>>
      BY <1>17 DEF HeaderRefused, HeaderUnit, Completing
    <3> QED
      BY <3>1, ProcessFacts DEF Opening, ConnectionInv, Phases
  <2>2. step' = "refused" /\ data' = <<>> /\ UNCHANGED conn /\ m_requests' = m_requests
    BY <1>17 DEF HeaderRefused, HeaderUnit
  <2> QED
    BY <2>1, <2>2 DEF Phases, Open, Closed, Opening
<1>13. CASE Leaves
  <2>1. Open /\ ~m_receiving /\ ~m_resolving
    BY <1>13, CompletingFacts DEF Leaves, Opening, ConnectionInv, Phases, Completing
  <2>2. step' \in Callbacks /\ UNCHANGED conn
    BY <1>13 DEF Leaves
  <2> QED
    BY <2>1, <2>2 DEF Phases, Open, Closed, Opening, Callbacks
<1>14. CASE Returns
  BY <1>14 DEF Returns, ConnectionInv, Phases, Open, Closed, Opening, Callbacks
<1>15. CASE check_receive
  BY <1>15 DEF check_receive, ConnectionInv, Phases, Open, Closed, Opening
<1>16. CASE UNCHANGED vars
  BY <1>16 DEF vars, ConnectionInv, Phases, Open, Closed, Opening
<1> QED
  BY <1>1, <1>2, <1>3, <1>4, <1>5, <1>6, <1>7, <1>8, <1>9, <1>10, <1>11, <1>12, <1>13, <1>14,
     <1>15, <1>16, <1>17 DEF Runs

\* An open connection is read from.
LEMMA ReadingStep ==
  ASSUME ConnectionConstants, ConnectionInv, Runs \/ UNCHANGED vars
  PROVE  Reading' /\ NotForgotten'
<1> USE DEF conn, net
<1>1. CASE Completes
  BY <1>1 DEF Completes, ConnectionInv, Reading, NotForgotten, Phases, Open, Closed
<1>2. CASE Reads
  BY <1>2 DEF Reads, ConnectionInv, Reading, NotForgotten, Phases, Open, Closed
<1>3. CASE Respond
  BY <1>3 DEF Respond, ConnectionInv, Reading, NotForgotten, Phases, Open, Closed
<1>4. CASE Asks(TRUE)
  BY <1>4 DEF Asks, ConnectionInv, Reading, NotForgotten, Phases, Open, Closed
<1>5. CASE Asks(FALSE)
  BY <1>5 DEF Asks, ConnectionInv, Reading, NotForgotten, Phases, Open, Closed
<1>6. CASE pause_or_resume
  BY <1>6 DEF pause_or_resume, ConnectionInv, Reading, NotForgotten, Phases, Open, Closed
<1>7. CASE on_resolver_address
  BY <1>7 DEF on_resolver_address, ConnectionInv, Reading, NotForgotten, Phases, Open, Closed
<1>8. CASE Opens
  <2>1. step = "idle"
    BY <1>8, ConnectFacts
  <2> QED
    BY <1>8, <2>1 DEF Opens, Reading, NotForgotten, Open, Closed
<1>9. CASE Receives
  BY <1>9 DEF Receives, ConnectionInv, Reading, NotForgotten, Phases, Open, Closed
<1>10. CASE HeaderEnds
  BY <1>10 DEF HeaderEnds, HeaderUnit, ConnectionInv, Reading, NotForgotten, Phases, Open, Closed
<1>11. CASE Takes
  BY <1>11 DEF Takes, BodyUnit, ConnectionInv, Reading, NotForgotten, Phases, Open, Closed
<1>12. CASE Refuses
  BY <1>12 DEF Refuses, BodyUnit, ConnectionInv, Reading, NotForgotten, Phases, Open, Closed
<1>17. CASE HeaderRefused
  BY <1>17 DEF HeaderRefused, HeaderUnit, ConnectionInv, Reading, NotForgotten, Phases, Open, Closed
<1>13. CASE Leaves
  <2>1. Open /\ step' \in Callbacks
    BY <1>13, CompletingFacts DEF Leaves
  <2> QED
    BY <1>13, <2>1 DEF Leaves, Reading, NotForgotten, Open, Closed, Callbacks
<1>14. CASE Returns
  BY <1>14 DEF Returns, ConnectionInv, Reading, NotForgotten, Phases, Open, Closed
<1>15. CASE check_receive
  BY <1>15 DEF check_receive, ConnectionInv, Reading, NotForgotten, Phases, Open, Closed
<1>16. CASE UNCHANGED vars
  BY <1>16 DEF vars, ConnectionInv, Reading, NotForgotten, Phases, Open, Closed
<1> QED
  BY <1>1, <1>2, <1>3, <1>4, <1>5, <1>6, <1>7, <1>8, <1>9, <1>10, <1>11, <1>12, <1>13, <1>14,
     <1>15, <1>16, <1>17 DEF Runs

\* The queue stays in order.
LEMMA InOrderStep ==
  ASSUME ConnectionConstants, ConnectionInv, Runs \/ UNCHANGED vars
  PROVE  InOrder'
<1> USE DEF conn, net
<1>1. CASE Completes
  BY <1>1 DEF Completes, ConnectionInv, InOrder, Queued, First, Closed, Opening
<1>2. CASE Reads
  BY <1>2 DEF Reads, ConnectionInv, InOrder, Queued, First, Closed, Opening
<1>3. CASE Respond
  BY <1>3 DEF Respond, ConnectionInv, InOrder, Queued, First, Closed, Opening
<1>4. CASE Asks(TRUE)
  <2>1. PICK s \in Sites : info' = [info EXCEPT ![requests + 1] = [NewInfo(s) EXCEPT !.header_send = TRUE]]
    BY <1>4 DEF Asks
  <2>2. /\ UNCHANGED <<m_socket, m_resolving, got>> /\ requests' = requests + 1
        /\ m_requests' = Append(m_requests, requests + 1) /\ requests + 1 \in Requests
    BY <1>4, QueueFacts DEF Asks, Requests
  <2> SUFFICES ASSUME ~Closed PROVE InOrder'
    BY <2>2 DEF InOrder, Closed
  <2>3. /\ requests \in Nat /\ Len(m_requests) \in Nat /\ DOMAIN m_requests = 1 .. Len(m_requests)
        /\ First = requests - Len(m_requests) + 1 /\ First \in Int /\ First >= 1
        /\ Queued \subseteq Requests
        /\ Queued = requests - Len(m_requests) + 1 .. requests
    BY QueueFacts DEF Queued, Requests
  <2>4. /\ Len(m_requests') = Len(m_requests) + 1 /\ DOMAIN m_requests' = 1 .. Len(m_requests) + 1
        /\ \A i \in 1 .. Len(m_requests) : m_requests'[i] = m_requests[i]
        /\ m_requests'[Len(m_requests) + 1] = requests + 1
    <3>1. m_requests \in Seq(Nat) /\ requests + 1 \in Nat
      <4>1. 1 .. requests \subseteq Nat /\ m_requests \in Seq(1 .. requests)
        BY QueueFacts
      <4> QED
        BY <2>3, <4>1, SeqMonotonic
    <3> QED
      BY <2>2, <3>1, Added
  <2>5. First' = First /\ Queued' = First .. requests + 1
    BY <2>2, <2>3, <2>4 DEF First, Queued
  <2>6. \A i \in DOMAIN m_requests' : m_requests'[i] = requests' - Len(m_requests') + i
    <3>1. \A i \in 1 .. Len(m_requests) : m_requests[i] = requests - Len(m_requests) + i
      BY <2>3 DEF ConnectionInv, InOrder
    <3> QED
      BY <2>2, <2>3, <2>4, <3>1
  <2>7. \A q \in Queued : info'[q] = info[q]
    BY <2>1, <2>3 DEF ConnectionInv, TypeOK
  <2>8. ~info'[requests + 1].header_finished /\ info'[requests + 1].received_size = 0 /\ (info'[requests + 1].header_send <=> TRUE)
    <3>1. info'[requests + 1] = [NewInfo(s) EXCEPT !.header_send = TRUE]
      BY <2>1, <2>2 DEF ConnectionInv, TypeOK
    <3> QED
      BY <3>1, NewInfoType, ZenonT(60)
  <2>9. Len(got[requests + 1]) = 0
    <3>1. got[requests + 1] = <<>>
      BY <2>2, <2>3 DEF ConnectionInv, FutureUntouched
    <3> QED
      BY <3>1, EmptySeq
  <2>10. Opening => ~TRUE
    BY <1>4 DEF Asks, ConnectionInv, Phases, Open, Opening
  <2>11. ASSUME NEW q \in Queued'
         PROVE  /\ Len(got'[q]) = info'[q].received_size
                /\ ~info'[q].header_finished => info'[q].received_size = 0
                /\ q # First \/ Opening => ~info'[q].header_finished
                /\ Opening => ~info'[q].header_send
    <3>1. CASE q \in Queued
      BY <2>2, <2>7, <3>1 DEF ConnectionInv, InOrder
    <3>2. CASE q = requests + 1
      BY <2>2, <2>8, <2>9, <2>10, <3>2
    <3>3. q \in First .. requests + 1
      BY <2>5
    <3>4. q \in Queued \/ q = requests + 1
      BY <2>3, <3>3
    <3> QED
      BY <3>1, <3>2, <3>4
  <2>12. Opening' <=> Opening
    BY <2>2 DEF Opening
  <2> QED
    BY <2>5, <2>6, <2>11, <2>12 DEF InOrder
<1>5. CASE Asks(FALSE)
  <2>1. PICK s \in Sites : info' = [info EXCEPT ![requests + 1] = [NewInfo(s) EXCEPT !.header_send = FALSE]]
    BY <1>5 DEF Asks
  <2>2. /\ UNCHANGED <<m_socket, m_resolving, got>> /\ requests' = requests + 1
        /\ m_requests' = Append(m_requests, requests + 1) /\ requests + 1 \in Requests
    BY <1>5, QueueFacts DEF Asks, Requests
  <2> SUFFICES ASSUME ~Closed PROVE InOrder'
    BY <2>2 DEF InOrder, Closed
  <2>3. /\ requests \in Nat /\ Len(m_requests) \in Nat /\ DOMAIN m_requests = 1 .. Len(m_requests)
        /\ First = requests - Len(m_requests) + 1 /\ First \in Int /\ First >= 1
        /\ Queued \subseteq Requests
        /\ Queued = requests - Len(m_requests) + 1 .. requests
    BY QueueFacts DEF Queued, Requests
  <2>4. /\ Len(m_requests') = Len(m_requests) + 1 /\ DOMAIN m_requests' = 1 .. Len(m_requests) + 1
        /\ \A i \in 1 .. Len(m_requests) : m_requests'[i] = m_requests[i]
        /\ m_requests'[Len(m_requests) + 1] = requests + 1
    <3>1. m_requests \in Seq(Nat) /\ requests + 1 \in Nat
      <4>1. 1 .. requests \subseteq Nat /\ m_requests \in Seq(1 .. requests)
        BY QueueFacts
      <4> QED
        BY <2>3, <4>1, SeqMonotonic
    <3> QED
      BY <2>2, <3>1, Added
  <2>5. First' = First /\ Queued' = First .. requests + 1
    BY <2>2, <2>3, <2>4 DEF First, Queued
  <2>6. \A i \in DOMAIN m_requests' : m_requests'[i] = requests' - Len(m_requests') + i
    <3>1. \A i \in 1 .. Len(m_requests) : m_requests[i] = requests - Len(m_requests) + i
      BY <2>3 DEF ConnectionInv, InOrder
    <3> QED
      BY <2>2, <2>3, <2>4, <3>1
  <2>7. \A q \in Queued : info'[q] = info[q]
    BY <2>1, <2>3 DEF ConnectionInv, TypeOK
  <2>8. ~info'[requests + 1].header_finished /\ info'[requests + 1].received_size = 0 /\ (info'[requests + 1].header_send <=> FALSE)
    <3>1. info'[requests + 1] = [NewInfo(s) EXCEPT !.header_send = FALSE]
      BY <2>1, <2>2 DEF ConnectionInv, TypeOK
    <3> QED
      BY <3>1, NewInfoType, ZenonT(60)
  <2>9. Len(got[requests + 1]) = 0
    <3>1. got[requests + 1] = <<>>
      BY <2>2, <2>3 DEF ConnectionInv, FutureUntouched
    <3> QED
      BY <3>1, EmptySeq
  <2>10. Opening => ~FALSE
    BY <1>5 DEF Asks, ConnectionInv, Phases, Open, Opening
  <2>11. ASSUME NEW q \in Queued'
         PROVE  /\ Len(got'[q]) = info'[q].received_size
                /\ ~info'[q].header_finished => info'[q].received_size = 0
                /\ q # First \/ Opening => ~info'[q].header_finished
                /\ Opening => ~info'[q].header_send
    <3>1. CASE q \in Queued
      BY <2>2, <2>7, <3>1 DEF ConnectionInv, InOrder
    <3>2. CASE q = requests + 1
      BY <2>2, <2>8, <2>9, <2>10, <3>2
    <3>3. q \in First .. requests + 1
      BY <2>5
    <3>4. q \in Queued \/ q = requests + 1
      BY <2>3, <3>3
    <3> QED
      BY <3>1, <3>2, <3>4
  <2>12. Opening' <=> Opening
    BY <2>2 DEF Opening
  <2> QED
    BY <2>5, <2>6, <2>11, <2>12 DEF InOrder
<1>6. CASE pause_or_resume
  BY <1>6 DEF pause_or_resume, ConnectionInv, InOrder, Queued, First, Closed, Opening
<1>7. CASE on_resolver_address
  <2>1. Head(events) = events[1] /\ events # <<>> /\ Head(events).kind = "resolve"
    BY <1>7, EventFacts DEF on_resolver_address, Dispatch
  <2>2. m_resolving
    BY <2>1 DEF ConnectionInv, OneCompletion
  <2> QED
    BY <1>7, <2>2 DEF on_resolver_address, ConnectionInv, InOrder, Queued, First, Closed, Opening
<1>8. CASE Opens
  <2>1. m_socket = "connecting" /\ ~m_resolving
    BY <1>8, ConnectFacts
  <2>2. PICK n \in 0 .. Len(m_requests) : Writes(n)
    BY <1>8, ConnectFacts
  <2>3. /\ UNCHANGED <<m_requests, requests, got, m_resolving>> /\ m_socket' = "connected"
    BY <1>8 DEF Opens
  <2>4. First' = First /\ Queued' = Queued /\ ~Opening'
    BY <2>1, <2>3 DEF First, Queued, Opening
  <2>5. \A q \in Queued : /\ info'[q].header_finished = info[q].header_finished
                          /\ info'[q].received_size = info[q].received_size
    BY <2>2 DEF Writes
  <2>6. /\ \A i \in DOMAIN m_requests : m_requests[i] = requests - Len(m_requests) + i
        /\ \A q \in Queued : Len(got[q]) = info[q].received_size /\ ~info[q].header_finished /\ info[q].received_size = 0
    BY <2>1 DEF ConnectionInv, InOrder, Closed, Opening
  <2> QED
    BY <2>3, <2>4, <2>5, <2>6 DEF InOrder
<1>9. CASE Receives
  BY <1>9 DEF Receives, ConnectionInv, InOrder, Queued, First, Closed, Opening
<1>10. CASE HeaderEnds
  <2>1. First \in Requests /\ ~Opening /\ ~Closed
    <3>1. step \notin Completing /\ data # <<>>
      BY <1>10 DEF HeaderEnds, HeaderUnit, Completing
    <3> QED
      BY <3>1, ProcessFacts, QueueFacts
  <2>2. /\ UNCHANGED <<m_requests, requests, got, m_socket, m_resolving>> /\ info \in [Requests -> Infos]
        /\ info' = [info EXCEPT ![First].header_finished = TRUE, ![First].content_length = data[1].v]
    BY <1>10 DEF HeaderEnds, HeaderUnit, ConnectionInv, TypeOK
  <2>3. First' = First /\ Queued' = Queued /\ ~Opening' /\ Queued \subseteq Requests
    BY <2>1, <2>2, QueueFacts DEF First, Queued, Opening, Requests
  <2>4. info'[First].header_finished /\ info'[First].received_size = info[First].received_size
    BY <2>1, <2>2 DEF Infos
  <2>5. \A q \in Queued : q # First => info'[q] = info[q]
    BY <2>2, <2>3
  <2>6. /\ \A i \in DOMAIN m_requests : m_requests[i] = requests - Len(m_requests) + i
        /\ \A q \in Queued : Len(got[q]) = info[q].received_size
        /\ \A q \in Queued : q # First => ~info[q].header_finished /\ info[q].received_size = 0
    BY <2>1 DEF ConnectionInv, InOrder
  <2> QED
    BY <2>2, <2>3, <2>4, <2>5, <2>6 DEF InOrder
<1>11. CASE Takes
  <2>1. /\ First \in Requests /\ First \in Queued /\ got[First] \in Seq(Tokens) /\ data[1] \in Tokens
        /\ Len(got[First]) = info[First].received_size /\ info[First].received_size \in Nat /\ ~Opening /\ ~Closed
    BY <1>11, UnitFacts DEF Takes
  <2>2. /\ UNCHANGED <<m_requests, requests, m_socket, m_resolving>> /\ info[First].header_finished
        /\ got' = [got EXCEPT ![First] = Append(got[First], data[1])]
        /\ info' = [info EXCEPT ![First].received_size = @ + 1]
        /\ got \in [Requests -> Seq(Tokens)] /\ info \in [Requests -> Infos]
    BY <1>11 DEF Takes, BodyUnit, ConnectionInv, TypeOK
  <2>3. First' = First /\ Queued' = Queued /\ ~Opening' /\ Queued \subseteq Requests
    BY <2>1, <2>2, QueueFacts DEF First, Queued, Opening, Requests
  <2>4. Len(Append(got[First], data[1])) = Len(got[First]) + 1
    BY <2>1, Added
  <2>5. /\ Len(got'[First]) = info'[First].received_size
        /\ info'[First].header_finished
    BY <2>1, <2>2, <2>4 DEF Infos
  <2>6. \A q \in Queued : q # First => got'[q] = got[q] /\ info'[q] = info[q]
    BY <2>2, <2>3
  <2>7. \A i \in DOMAIN m_requests' : m_requests'[i] = requests' - Len(m_requests') + i
    BY <2>1, <2>2 DEF ConnectionInv, InOrder
  <2>8. \A q \in Queued : q # First =>
          /\ Len(got[q]) = info[q].received_size
          /\ ~info[q].header_finished => info[q].received_size = 0
          /\ ~info[q].header_finished
    BY <2>1 DEF ConnectionInv, InOrder
  <2> QED
    BY <2>3, <2>5, <2>6, <2>7, <2>8 DEF InOrder
<1>12. CASE Refuses
  <2>1. /\ First \in Requests /\ First \in Queued /\ got[First] \in Seq(Tokens) /\ data[1] \in Tokens
        /\ Len(got[First]) = info[First].received_size /\ info[First].received_size \in Nat /\ ~Opening /\ ~Closed
    BY <1>12, UnitFacts DEF Refuses
  <2>2. /\ UNCHANGED <<m_requests, requests, m_socket, m_resolving>> /\ info[First].header_finished
        /\ got' = [got EXCEPT ![First] = Append(got[First], data[1])]
        /\ info' = [info EXCEPT ![First].received_size = @ + 1]
        /\ got \in [Requests -> Seq(Tokens)] /\ info \in [Requests -> Infos]
    BY <1>12 DEF Refuses, BodyUnit, ConnectionInv, TypeOK
  <2>3. First' = First /\ Queued' = Queued /\ ~Opening' /\ Queued \subseteq Requests
    BY <2>1, <2>2, QueueFacts DEF First, Queued, Opening, Requests
  <2>4. Len(Append(got[First], data[1])) = Len(got[First]) + 1
    BY <2>1, Added
  <2>5. /\ Len(got'[First]) = info'[First].received_size
        /\ info'[First].header_finished
    BY <2>1, <2>2, <2>4 DEF Infos
  <2>6. \A q \in Queued : q # First => got'[q] = got[q] /\ info'[q] = info[q]
    BY <2>2, <2>3
  <2>7. \A i \in DOMAIN m_requests' : m_requests'[i] = requests' - Len(m_requests') + i
    BY <2>1, <2>2 DEF ConnectionInv, InOrder
  <2>8. \A q \in Queued : q # First =>
          /\ Len(got[q]) = info[q].received_size
          /\ ~info[q].header_finished => info[q].received_size = 0
          /\ ~info[q].header_finished
    BY <2>1 DEF ConnectionInv, InOrder
  <2> QED
    BY <2>3, <2>5, <2>6, <2>7, <2>8 DEF InOrder
<1>17. CASE HeaderRefused
  <2>1. First \in Requests /\ ~Opening /\ ~Closed
    <3>1. step \notin Completing /\ data # <<>>
      BY <1>17 DEF HeaderRefused, HeaderUnit, Completing
    <3> QED
      BY <3>1, ProcessFacts, QueueFacts
  <2>2. /\ UNCHANGED <<m_requests, requests, got, m_socket, m_resolving>> /\ info \in [Requests -> Infos]
        /\ info' = [info EXCEPT ![First].header_finished = TRUE, ![First].content_length = data[1].v]
    BY <1>17 DEF HeaderRefused, HeaderUnit, ConnectionInv, TypeOK
  <2>3. First' = First /\ Queued' = Queued /\ ~Opening' /\ Queued \subseteq Requests
    BY <2>1, <2>2, QueueFacts DEF First, Queued, Opening, Requests
  <2>4. info'[First].header_finished /\ info'[First].received_size = info[First].received_size
    BY <2>1, <2>2 DEF Infos
  <2>5. \A q \in Queued : q # First => info'[q] = info[q]
    BY <2>2, <2>3
  <2>6. /\ \A i \in DOMAIN m_requests : m_requests[i] = requests - Len(m_requests) + i
        /\ \A q \in Queued : Len(got[q]) = info[q].received_size
        /\ \A q \in Queued : q # First => ~info[q].header_finished /\ info[q].received_size = 0
    BY <2>1 DEF ConnectionInv, InOrder
  <2> QED
    BY <2>2, <2>3, <2>4, <2>5, <2>6 DEF InOrder
<1>13. CASE Leaves
  <2>1. m_requests # <<>> /\ m_requests' = Tail(m_requests) /\ UNCHANGED <<info, got, requests, conn>>
    BY <1>13 DEF Leaves
  <2>2. ~Closed /\ ~Opening
    BY <1>13, CompletingFacts DEF Leaves
  <2>3. /\ Len(m_requests') = Len(m_requests) - 1 /\ DOMAIN m_requests' = 1 .. Len(m_requests) - 1
        /\ \A i \in 1 .. Len(m_requests) - 1 : m_requests'[i] = m_requests[i + 1]
    BY <2>1, QueueFacts, Removed
  <2>4. /\ requests \in Nat /\ Len(m_requests) \in Nat /\ DOMAIN m_requests = 1 .. Len(m_requests)
        /\ First = requests - Len(m_requests) + 1 /\ First \in Int
    BY QueueFacts
  <2>5. First' = First + 1 /\ Queued' \subseteq Queued /\ First \notin Queued'
    BY <2>1, <2>3, <2>4 DEF First, Queued
  <2>6. \A i \in 1 .. Len(m_requests) : m_requests[i] = requests - Len(m_requests) + i
    BY <2>2, <2>4 DEF ConnectionInv, InOrder
  <2>7. \A i \in DOMAIN m_requests' : m_requests'[i] = requests' - Len(m_requests') + i
    BY <2>1, <2>3, <2>4, <2>6
  <2>8. ~Opening'
    BY <2>1, <2>2 DEF Opening
  <2>9. \A q \in Queued : q # First =>
          /\ Len(got[q]) = info[q].received_size /\ ~info[q].header_finished /\ info[q].received_size = 0
    BY <2>2 DEF ConnectionInv, InOrder
  <2> QED
    BY <2>1, <2>5, <2>7, <2>8, <2>9 DEF InOrder
<1>14. CASE Returns
  BY <1>14 DEF Returns, ConnectionInv, InOrder, Queued, First, Closed, Opening
<1>15. CASE check_receive
  BY <1>15 DEF check_receive, ConnectionInv, InOrder, Queued, First, Closed, Opening
<1>16. CASE UNCHANGED vars
  BY <1>16 DEF vars, ConnectionInv, InOrder, Queued, First, Closed, Opening
<1> QED
  BY <1>1, <1>2, <1>3, <1>4, <1>5, <1>6, <1>7, <1>8, <1>9, <1>10, <1>11, <1>12, <1>13, <1>14,
     <1>15, <1>16, <1>17 DEF Runs

\* A token's type.
LEMMA TokenType ==
  ASSUME NEW r \in Nat, NEW p \in {"end", "body"}, NEW v \in Int
  PROVE  /\ Token(r, p, v) \in Tokens /\ Token(r, p, v).req = r /\ Token(r, p, v).part = p
         /\ Token(r, p, v).v = v
BY DEF Token, Tokens

\* A chain without its first token is one.
LEMMA ChainShrinks ==
  ASSUME NEW a \in Nat, NEW len \in [Nat -> Lengths], NEW u \in Seq(Tokens), u # <<>>, Chain(a, len, u)
  PROVE  /\ Chain(a, len, Tail(u))
         /\ Tail(u) # <<>> => Tail(u)[1] = Follow(len, u[1])
         /\ Tail(u) = <<>> => u[1].req = a /\ Final(len, u[1])
<1>1. /\ Tail(u) \in Seq(Tokens) /\ Len(u) \in Nat \ {0} /\ DOMAIN u = 1 .. Len(u)
      /\ Len(Tail(u)) = Len(u) - 1 /\ DOMAIN Tail(u) = 1 .. Len(u) - 1
      /\ \A i \in 1 .. Len(u) - 1 : Tail(u)[i] = u[i + 1]
  BY Removed
<1>2. Tail(u) = <<>> <=> Len(u) = 1
  <2>1. Tail(u) = <<>> <=> Len(Tail(u)) = 0
    BY <1>1, EmptySeq
  <2> QED
    BY <1>1, <2>1
<1>3. \A k \in DOMAIN Tail(u) : Tail(u)[k].req <= a
  BY <1>1 DEF Chain
<1>4. \A k \in 1 .. Len(Tail(u)) - 1 : Tail(u)[k + 1] = Follow(len, Tail(u)[k])
  BY <1>1 DEF Chain
<1>5. Tail(u) # <<>> => Tail(u)[Len(Tail(u))] = u[Len(u)]
  BY <1>1, <1>2
<1>6. Chain(a, len, Tail(u))
  BY <1>3, <1>4, <1>5 DEF Chain
<1>7. Tail(u) # <<>> => Tail(u)[1] = Follow(len, u[1])
  BY <1>1, <1>2 DEF Chain
<1> QED
  BY <1>2, <1>6, <1>7 DEF Chain

\* A chain and the next response make a chain.
LEMMA ChainGrows ==
  ASSUME NEW a \in Nat, NEW len \in [Nat -> Lengths], NEW n \in Lengths,
         NEW u \in Seq(Tokens), NEW resp \in Seq(Tokens), Chain(a, len, u),
         Len(resp) = (IF n > 0 THEN n ELSE 0) + 1, resp[1] = Token(a + 1, "end", n),
         \A i \in 1 .. n : resp[i + 1] = Token(a + 1, "body", i)
  PROVE  Chain(a + 1, [len EXCEPT ![a + 1] = n], u \o resp)
<1> DEFINE len2 == [len EXCEPT ![a + 1] = n]
           w == u \o resp
           m == Len(resp)
<1>1. n \in Int /\ (n > 0 \/ n <= 0) /\ \A q \in Nat : len[q] \in Int
  BY DEF Lengths, Redirect
<1>2. len2[a + 1] = n /\ \A q \in Nat : q # a + 1 => len2[q] = len[q]
  OBVIOUS
<1>3. /\ w \in Seq(Tokens) /\ Len(w) = Len(u) + m /\ Len(u) \in Nat /\ m \in Nat /\ m >= 1
      /\ \A i \in 1 .. Len(u) : w[i] = u[i]
      /\ \A i \in 1 .. m : w[Len(u) + i] = resp[i]
      /\ DOMAIN w = 1 .. Len(u) + m
  <2>1. /\ w \in Seq(Tokens) /\ Len(w) = Len(u) + m /\ Len(u) \in Nat /\ m \in Nat
        /\ \A i \in 1 .. Len(u) : w[i] = u[i]
        /\ \A i \in 1 .. m : w[Len(u) + i] = resp[i]
        /\ DOMAIN w = 1 .. Len(u) + m
    BY Joined
  <2>2. m >= 1
    BY <1>1
  <2> QED
    BY <2>1, <2>2
<1>4. /\ \A k \in 1 .. Len(u) : u[k] \in Tokens /\ u[k].req \in Nat /\ u[k].v \in Int /\ u[k].req <= a
      /\ u = <<>> <=> Len(u) = 0
  <2>1. \A k \in 1 .. Len(u) : u[k] \in Tokens
    BY ElementOfSeq
  <2>2. DOMAIN u = 1 .. Len(u) /\ (u = <<>> <=> Len(u) = 0)
    BY LenProperties, EmptySeq
  <2> QED
    BY <2>1, <2>2 DEF Tokens, Chain
<1>5. ASSUME NEW i \in 1 .. m
      PROVE  /\ i = 1 => resp[i] = Token(a + 1, "end", n)
             /\ i > 1 => n > 0 /\ i - 1 \in 1 .. n /\ resp[i] = Token(a + 1, "body", i - 1)
  <2>1. CASE i = 1
    BY <2>1
  <2>2. CASE i > 1
    <3>1. n > 0 /\ i - 1 \in 1 .. n /\ (i - 1) + 1 = i
      BY <1>1, <2>2
    <3>2. resp[(i - 1) + 1] = Token(a + 1, "body", i - 1)
      BY <3>1
    <3> QED
      BY <2>2, <3>1, <3>2
  <2> QED
    BY <2>1, <2>2
<1>6. \A i \in 1 .. m : resp[i].req = a + 1
  <2> SUFFICES ASSUME NEW i \in 1 .. m PROVE resp[i].req = a + 1
    OBVIOUS
  <2>1. i = 1 \/ i > 1
    BY <1>3
  <2>2. resp[i] = Token(a + 1, "end", n) \/ resp[i] = Token(a + 1, "body", i - 1)
    BY <1>5, <2>1
  <2>3. Token(a + 1, "end", n).req = a + 1 /\ Token(a + 1, "body", i - 1).req = a + 1
    BY DEF Token
  <2> QED
    BY <2>2, <2>3
<1> HIDE DEF w, m, len2
<1>7. ASSUME NEW k \in DOMAIN w PROVE w[k].req <= a + 1
  <2>1. CASE k \in 1 .. Len(u)
    BY <1>3, <1>4, <2>1
  <2>2. CASE k \notin 1 .. Len(u)
    <3>1. k - Len(u) \in 1 .. m /\ Len(u) + (k - Len(u)) = k
      BY <1>3, <2>2
    <3>2. w[k] = resp[k - Len(u)]
      BY <1>3, <3>1
    <3> QED
      BY <1>6, <3>1, <3>2
  <2> QED
    BY <2>1, <2>2
<1>8. ASSUME NEW k \in 1 .. Len(w) - 1 PROVE w[k + 1] = Follow(len2, w[k])
  <2>1. CASE k < Len(u)
    <3>1. /\ k \in 1 .. Len(u) - 1 /\ k \in 1 .. Len(u) /\ k + 1 \in 1 .. Len(u)
          /\ w[k] = u[k] /\ w[k + 1] = u[k + 1]
      <4>1. k \in 1 .. Len(u) - 1 /\ k \in 1 .. Len(u) /\ k + 1 \in 1 .. Len(u)
        BY <1>3, <2>1
      <4> QED
        BY <1>3, <4>1
    <3>2. u[k + 1] = Follow(len, u[k]) /\ u[k].req \in Nat /\ u[k].req <= a /\ u[k + 1].req <= a
      BY <1>4, <3>1 DEF Chain
    <3>3. len2[u[k].req] = len[u[k].req]
      BY <1>2, <3>2
    <3>4. Final(len2, u[k]) <=> Final(len, u[k])
      BY <3>3 DEF Final
    <3>5. Final(len, u[k]) => u[k].req + 1 <= a /\ len2[u[k].req + 1] = len[u[k].req + 1]
      <4> SUFFICES ASSUME Final(len, u[k]) PROVE u[k].req + 1 <= a /\ len2[u[k].req + 1] = len[u[k].req + 1]
        OBVIOUS
      <4>1. u[k + 1].req = u[k].req + 1
        BY <3>2 DEF Follow, Token
      <4> QED
        BY <1>2, <3>2, <4>1, SMTT(30)
    <3> QED
      BY <3>1, <3>2, <3>4, <3>5 DEF Follow
  <2>2. CASE k = Len(u)
    <3>1. k \in 1 .. Len(u) /\ u # <<>> /\ w[k] = u[Len(u)] /\ 1 \in 1 .. m /\ w[k + 1] = resp[1]
      BY <1>3, <1>4, <2>2
    <3>2. u[Len(u)].req = a /\ Final(len, u[Len(u)])
      BY <3>1 DEF Chain
    <3>3. Final(len2, u[Len(u)])
      BY <1>2, <3>2 DEF Final
    <3>4. Follow(len2, u[Len(u)]) = Token(a + 1, "end", n)
      BY <1>2, <3>2, <3>3 DEF Follow
    <3> QED
      BY <1>5, <3>1, <3>4
  <2>3. CASE k > Len(u)
    <3> DEFINE i == k - Len(u)
    <3>1. /\ i \in 1 .. m /\ i + 1 \in 1 .. m /\ Len(u) + i = k /\ Len(u) + (i + 1) = k + 1
      BY <1>3, <2>3
    <3> HIDE DEF i
    <3>2. w[k] = resp[i] /\ w[k + 1] = resp[i + 1]
      BY <1>3, <3>1
    <3>3. i + 1 > 1 /\ (i + 1) - 1 = i /\ i \in Nat
      BY <1>3, <3>1
    <3>4. n > 0 /\ i \in 1 .. n /\ resp[i + 1] = Token(a + 1, "body", i)
      BY <1>5, <3>1, <3>3
    <3>5. CASE i = 1
      <4>1. resp[i].req = a + 1 /\ resp[i].part = "end" /\ resp[i] = Token(a + 1, "end", n)
        BY <1>5, <3>1, <3>5 DEF Token
      <4>2. ~Final(len2, resp[i])
        <5>1. Final(len2, resp[i]) <=> n <= 0
          BY <1>2, <4>1 DEF Final
        <5> QED
          BY <1>1, <3>4, <5>1
      <4>3. Follow(len2, resp[i]) = Token(a + 1, "body", 1)
        BY <4>1, <4>2 DEF Follow
      <4> QED
        BY <3>2, <3>4, <3>5, <4>3
    <3>6. CASE i # 1
      <4>0. i > 1
        BY <3>3, <3>4, <3>6
      <4>1. resp[i] = Token(a + 1, "body", i - 1)
        BY <1>5, <3>1, <4>0
      <4>2. resp[i].req = a + 1 /\ resp[i].part = "body" /\ resp[i].v = i - 1
        BY <4>1 DEF Token
      <4>3. ~Final(len2, resp[i])
        <5>1. Final(len2, resp[i]) <=> i - 1 = n
          BY <1>2, <4>2 DEF Final
        <5> QED
          BY <1>1, <3>4, <5>1
      <4>4. Follow(len2, resp[i]) = Token(a + 1, "body", (i - 1) + 1)
        BY <4>2, <4>3 DEF Follow
      <4>5. (i - 1) + 1 = i
        BY <3>3
      <4> QED
        BY <3>2, <3>4, <4>4, <4>5
    <3> QED
      BY <3>5, <3>6
  <2> QED
    BY <1>3, <2>1, <2>2, <2>3
<1>9. w[Len(w)].req = a + 1 /\ Final(len2, w[Len(w)])
  <2>1. m \in 1 .. m /\ w[Len(w)] = resp[m]
    BY <1>3
  <2>2. CASE n > 0
    <3>1. m = n + 1 /\ m > 1 /\ m - 1 = n
      BY <1>1, <2>2 DEF m
    <3>2. resp[m] = Token(a + 1, "body", m - 1)
      BY <1>5, <2>1, <3>1
    <3> QED
      BY <1>2, <2>1, <3>1, <3>2 DEF Final, Token
  <2>3. CASE n <= 0
    <3>1. m = 1
      BY <1>1, <2>3 DEF m
    <3>2. resp[m] = Token(a + 1, "end", n)
      BY <3>1
    <3> QED
      BY <1>2, <2>1, <2>3, <3>2 DEF Final, Token
  <2> QED
    BY <1>1, <2>2, <2>3
<1>10. Chain(a + 1, len2, w)
  BY <1>7, <1>8, <1>9 DEF Chain
<1> QED
  BY <1>10 DEF len2, w

\* What Unread is when no read is under way, and when all of it is.
LEMMA UnreadIs ==
  ASSUME data \in Seq(Tokens), arriving \in Seq(Tokens)
  PROVE  /\ events = <<>> => Unread = data \o arriving
         /\ \A e \in Seq(Tokens) :
              events # <<>> /\ events[1].data = e /\ data = <<>> => Unread = e \o arriving
<1>1. /\ data \o <<>> = data
      /\ \A e \in Seq(Tokens) : <<>> \o e = e
  BY ConcatEmptySeq
<1>2. events = <<>> => Unread = (data \o <<>>) \o arriving
  BY DEF Unread
<1>3. \A e \in Seq(Tokens) :
        events # <<>> /\ events[1].data = e /\ data = <<>> => Unread = (<<>> \o e) \o arriving
  BY DEF Unread
<1> QED
  BY <1>1, <1>2, <1>3

\* The same, after a step.
LEMMA UnreadIsNext ==
  ASSUME data' \in Seq(Tokens), arriving' \in Seq(Tokens)
  PROVE  /\ events' = <<>> => Unread' = data' \o arriving'
         /\ \A e \in Seq(Tokens) :
              events' # <<>> /\ events'[1].data = e /\ data' = <<>> => Unread' = e \o arriving'
<1>1. /\ data' \o <<>> = data'
      /\ \A e \in Seq(Tokens) : <<>> \o e = e
  BY ConcatEmptySeq
<1>2. events' = <<>> => Unread' = (data' \o <<>>) \o arriving'
  BY DEF Unread
<1>3. \A e \in Seq(Tokens) :
        events' # <<>> /\ events'[1].data = e /\ data' = <<>> => Unread' = (<<>> \o e) \o arriving'
  BY DEF Unread
<1> QED
  BY <1>1, <1>2, <1>3

\* A sequence is its two pieces.
LEMMA Pieces ==
  ASSUME NEW E, NEW s \in Seq(E), NEW k \in 0 .. Len(s)
  PROVE  SubSeq(s, 1, k) \o SubSeq(s, k + 1, Len(s)) = s
<1> DEFINE p == SubSeq(s, 1, k)
           q == SubSeq(s, k + 1, Len(s))
<1>1. /\ p \in Seq(E) /\ Len(p) = k /\ \A i \in 1 .. k : p[i] = s[i]
      /\ q \in Seq(E) /\ Len(q) = Len(s) - k /\ \A i \in 1 .. Len(s) - k : q[i] = s[k + i]
      /\ Len(s) \in Nat
  BY Cut, LenProperties
<1> HIDE DEF p, q
<1>2. p \in Seq(E) /\ q \in Seq(E)
  BY <1>1
<1>3. /\ p \o q \in Seq(E) /\ Len(p \o q) = Len(p) + Len(q)
      /\ \A i \in 1 .. Len(p) : (p \o q)[i] = p[i]
      /\ \A i \in 1 .. Len(q) : (p \o q)[Len(p) + i] = q[i]
  BY <1>2, Joined
<1> DEFINE w == p \o q
<1>4. /\ w \in Seq(E) /\ Len(w) = Len(s)
      /\ \A i \in 1 .. k : w[i] = p[i]
      /\ \A i \in 1 .. Len(s) - k : w[k + i] = q[i]
  BY <1>1, <1>3
<1> HIDE DEF w
<1>5. ASSUME NEW i \in 1 .. Len(w) PROVE w[i] = s[i]
  <2>1. CASE i <= k
    <3>1. i \in 1 .. k
      BY <2>1
    <3> QED
      BY <1>1, <1>4, <3>1
  <2>2. CASE ~(i <= k)
    <3>1. i - k \in 1 .. Len(s) - k /\ k + (i - k) = i
      BY <1>1, <1>4, <2>2
    <3>2. w[k + (i - k)] = q[i - k] /\ q[i - k] = s[k + (i - k)]
      BY <1>1, <1>4, <3>1
    <3> QED
      BY <3>1, <3>2
  <2> QED
    BY <2>1, <2>2
<1>6. w = s
  BY <1>4, <1>5, SeqEqual
<1> QED
  BY <1>6 DEF w, p, q

\* Tail and concatenation.
LEMMA TailJoined ==
  ASSUME NEW E, NEW s \in Seq(E), NEW t \in Seq(E), s # <<>>
  PROVE  Tail(s) \o t = Tail(s \o t)
<1>1. /\ Tail(s) \in Seq(E) /\ Len(s) \in Nat \ {0} /\ Len(Tail(s)) = Len(s) - 1
      /\ \A i \in 1 .. Len(s) - 1 : Tail(s)[i] = s[i + 1]
  BY Removed
<1> DEFINE r == Tail(s)
           w == s \o t
           v == r \o t
<1>2. /\ w \in Seq(E) /\ Len(w) = Len(s) + Len(t) /\ Len(t) \in Nat
      /\ \A i \in 1 .. Len(s) : w[i] = s[i]
      /\ \A i \in 1 .. Len(t) : w[Len(s) + i] = t[i]
      /\ w = <<>> <=> s = <<>> /\ t = <<>>
  BY Joined
<1>3. r \in Seq(E)
  BY <1>1
<1> HIDE DEF r
<1>4. /\ v \in Seq(E) /\ Len(v) = Len(r) + Len(t)
      /\ \A i \in 1 .. Len(r) : v[i] = r[i]
      /\ \A i \in 1 .. Len(t) : v[Len(r) + i] = t[i]
  BY <1>3, Joined
<1> HIDE DEF w, v
<1>5. /\ Tail(w) \in Seq(E) /\ Len(Tail(w)) = Len(w) - 1
      /\ \A i \in 1 .. Len(w) - 1 : Tail(w)[i] = w[i + 1]
  BY <1>2, Removed
<1>6. Len(r) = Len(s) - 1 /\ \A i \in 1 .. Len(s) - 1 : r[i] = s[i + 1]
  BY <1>1 DEF r
<1>7. Len(v) = Len(Tail(w))
  BY <1>1, <1>2, <1>4, <1>5, <1>6
<1>8. ASSUME NEW i \in 1 .. Len(v) PROVE v[i] = Tail(w)[i]
  <2>0. Tail(w)[i] = w[i + 1]
    BY <1>1, <1>2, <1>4, <1>5, <1>6
  <2>1. CASE i <= Len(s) - 1
    <3>1. i \in 1 .. Len(s) - 1 /\ i \in 1 .. Len(r) /\ i + 1 \in 1 .. Len(s)
      BY <1>1, <1>6, <2>1
    <3> QED
      BY <1>2, <1>4, <1>6, <2>0, <3>1
  <2>2. CASE ~(i <= Len(s) - 1)
    <3>1. i - Len(r) \in 1 .. Len(t) /\ Len(r) + (i - Len(r)) = i /\ Len(s) + (i - Len(r)) = i + 1
      BY <1>1, <1>2, <1>4, <1>6, <2>2
    <3>2. v[Len(r) + (i - Len(r))] = t[i - Len(r)] /\ w[Len(s) + (i - Len(r))] = t[i - Len(r)]
      BY <1>2, <1>4, <3>1
    <3> QED
      BY <2>0, <3>1, <3>2
  <2> QED
    BY <2>1, <2>2
<1>9. v = Tail(w)
  BY <1>4, <1>5, <1>7, <1>8, SeqEqual
<1> QED
  BY <1>9 DEF v, w, r

\* A step that leaves the queue and the tokens alone.
LEMMA SameTokens ==
  ASSUME ConnectionInv, UNCHANGED <<m_requests, requests, info, onwire, m_site, m_socket>>,
         Unread' = Unread, step' \in Completing <=> step \in Completing,
         step' # "refused" => step # "refused"
  PROVE  Pipelined'
<1> SUFFICES ASSUME Open', step' # "refused"
             PROVE  \E a \in Nat, len \in [Nat -> Lengths] : Aligned(a, len)'
  BY DEF Pipelined
<1>1. PICK a \in Nat, len \in [Nat -> Lengths] : Aligned(a, len)
  BY DEF ConnectionInv, Pipelined, Open
<1>2. First' = First /\ Queued' = Queued
  BY DEF First, Queued
<1>3. Expected(len)' = Expected(len)
  BY <1>2 DEF Expected
<1>4. Written(a)'
  BY <1>1, <1>2 DEF Aligned, Written
<1>5. Chain(a, len, Unread)'
  BY <1>1 DEF Aligned, Chain
<1>6. Begins(a, len)'
  BY <1>1, <1>2, <1>3 DEF Aligned, Begins
<1> QED
  BY <1>4, <1>5, <1>6 DEF Aligned

\* A step that takes the token at hand.
LEMMA TokenTaken ==
  ASSUME ConnectionConstants, ConnectionInv, NEW a \in Nat, NEW len \in [Nat -> Lengths], Aligned(a, len),
         step \notin Completing, data # <<>>, data' = Tail(data),
         UNCHANGED <<m_requests, requests, onwire, m_site, events, arriving>>,
         info' \in [Requests -> Infos],
         \A q \in Requests : info'[q].header_send = info[q].header_send /\ info'[q].site = info[q].site,
         Expected(len)' = Follow(len, data[1]),
         m_requests # <<>> /\ info'[First].header_finished /\ step' \notin Completing =>
           info'[First].content_length = len[First] /\ info'[First].received_size < len[First]
  PROVE  Aligned(a, len)'
<1>1. /\ events = <<>> /\ data \in Seq(Tokens) /\ arriving \in Seq(Tokens) /\ Open /\ m_requests # <<>>
      /\ First \in Requests /\ Queued \subseteq Requests /\ requests \in Nat /\ requests <= MaxRequests
      /\ First >= 1
  <2>1. events = <<>> /\ Open /\ ~Closed /\ m_requests # <<>>
    BY ProcessFacts
  <2>2. data \in Seq(Tokens) /\ arriving \in Seq(Tokens)
    BY DEF ConnectionInv, TypeOK
  <2>3. /\ First \in Requests /\ First >= 1 /\ requests \in Nat /\ requests <= MaxRequests /\ First \in Int
        /\ MaxRequests \in Nat
    BY <2>1, QueueFacts
  <2>4. Queued \subseteq Requests
    BY <2>3 DEF Queued, Requests
  <2> QED
    BY <2>1, <2>2, <2>3, <2>4
<1>2. data' \in Seq(Tokens) /\ arriving' \in Seq(Tokens) /\ events' = <<>>
  BY <1>1, Removed
<1>3. Unread = data \o arriving
  BY <1>1, UnreadIs
<1>4. Unread' = Tail(data) \o arriving
  BY <1>2, UnreadIsNext
<1>5. Tail(data) \o arriving = Tail(data \o arriving)
  BY <1>1, TailJoined
<1>6. Unread' = Tail(Unread)
  BY <1>3, <1>4, <1>5
<1>7. Unread \in Seq(Tokens) /\ Unread # <<>> /\ Unread[1] = data[1]
  BY UnreadFacts
<1>8. Chain(a, len, Unread)
  BY DEF Aligned
<1>9. /\ Chain(a, len, Tail(Unread))
      /\ Tail(Unread) # <<>> => Tail(Unread)[1] = Follow(len, Unread[1])
      /\ Tail(Unread) = <<>> => Unread[1].req = a /\ Final(len, Unread[1])
  BY <1>7, <1>8, ChainShrinks
<1>10. Chain(a, len, Unread)'
  BY <1>6, <1>9 DEF Chain
<1>11. First' = First /\ Queued' = Queued
  BY DEF First, Queued
<1>12. Written(a)'
  <2>1. /\ \A i \in DOMAIN onwire : onwire[i] = a + i
        /\ a + Len(onwire) <= requests
        /\ \A q \in Queued : info[q].header_send <=> q <= a + Len(onwire)
        /\ a + Len(onwire) < requests /\ m_requests # <<>> => info[a + Len(onwire) + 1].site # m_site
    BY DEF Aligned, Written
  <2>2. Len(onwire) \in Nat
    BY LenProperties DEF ConnectionInv, TypeOK
  <2>3. a + Len(onwire) < requests => a + Len(onwire) + 1 \in Requests
    BY <1>1, <2>2, QueueFacts, SMTT(30) DEF Requests
  <2> QED
    BY <1>1, <1>11, <2>1, <2>3 DEF Written
<1>13. IF Unread' = <<>> THEN Expected(len)'.req = a + 1 /\ Expected(len)'.part = "end"
                         ELSE Unread'[1] = Expected(len)'
  <2>1. CASE Unread' = <<>>
    <3>1. Follow(len, data[1]) = Token(a + 1, "end", len[a + 1])
      BY <1>6, <1>7, <1>9, <2>1 DEF Follow
    <3> QED
      BY <2>1, <3>1 DEF Token
  <2>2. CASE Unread' # <<>>
    BY <1>6, <1>7, <1>9, <2>2
  <2> QED
    BY <2>1, <2>2
<1>14. Begins(a, len)'
  BY <1>11, <1>13 DEF Begins
<1> QED
  BY <1>10, <1>12, <1>14 DEF Aligned

\* What the alignment says about the numbers.
LEMMA AlignedFacts ==
  ASSUME ConnectionConstants, ConnectionInv, Open, NEW a \in Nat, NEW len \in [Nat -> Lengths], Aligned(a, len)
  PROVE  /\ Len(onwire) \in Nat /\ DOMAIN onwire = 1 .. Len(onwire) /\ a + Len(onwire) <= requests
         /\ requests \in Nat /\ MaxRequests \in Nat /\ requests <= MaxRequests /\ Len(m_requests) \in Nat
         /\ First = requests - Len(m_requests) + 1 /\ First \in Nat \ {0} /\ First <= a + 1
         /\ Queued = First .. requests /\ Queued \subseteq Requests /\ Queued \subseteq Nat
         /\ m_requests = <<>> <=> First = requests + 1
<1>1. Len(onwire) \in Nat /\ DOMAIN onwire = 1 .. Len(onwire)
  BY LenProperties DEF ConnectionInv, TypeOK
<1>2. ~Closed
  BY DEF Open, Closed
<1>3. /\ requests \in Nat /\ MaxRequests \in Nat /\ requests <= MaxRequests /\ Len(m_requests) \in Nat
      /\ First = requests - Len(m_requests) + 1 /\ First \in Int /\ First >= 1
      /\ m_requests = <<>> <=> Len(m_requests) = 0
  BY <1>2, QueueFacts
<1>4. a + Len(onwire) <= requests
  BY DEF Aligned, Written
<1>5. Expected(len).req <= a + 1
  <2>1. CASE Unread = <<>>
    BY <2>1 DEF Aligned, Begins
  <2>2. CASE Unread # <<>>
    <3>1. 1 \in DOMAIN Unread /\ Unread[1] \in Tokens
      BY <2>2, Removed, UnreadFacts
    <3>2. Unread[1].req <= a /\ Unread[1].req \in Nat /\ Unread[1] = Expected(len)
      BY <2>2, <3>1 DEF Aligned, Chain, Begins, Tokens
    <3> QED
      BY <3>2
  <2> QED
    BY <2>1, <2>2
<1>6. Expected(len).req = First \/ Expected(len).req = First + 1
  BY DEF Expected, Token
<1>7. First <= a + 1
  BY <1>3, <1>5, <1>6
<1>8. Queued = First .. requests /\ Queued \subseteq Requests /\ Queued \subseteq Nat
  BY <1>3 DEF Queued, Requests
<1>9. m_requests = <<>> <=> First = requests + 1
  BY <1>3
<1> QED
  BY <1>1, <1>3, <1>4, <1>7, <1>8, <1>9

\* Without unread tokens the front's header is expected, and it is not complete.
LEMMA ExpectedCases ==
  ASSUME NEW len
  PROVE  /\ Expected(len).part = "end" =>
              \/ step \in Completing /\ Expected(len) = Token(First + 1, "end", len[First + 1])
              \/ step \notin Completing /\ Expected(len) = Token(First, "end", len[First])
                   /\ ~(m_requests # <<>> /\ info[First].header_finished)
         /\ Expected(len).part # "end" =>
              step \notin Completing /\ Expected(len) = Token(First, "body", info[First].received_size + 1)
BY DEF Expected, Token

\* A response for the next request on the wire.
LEMMA RespondAligned ==
  ASSUME ConnectionConstants, ConnectionInv, Respond
  PROVE  Pipelined'
<1> SUFFICES ASSUME Open, step # "refused"
             PROVE  \E a \in Nat, len \in [Nat -> Lengths] : Aligned(a, len)'
  BY DEF Pipelined, Open, Respond, conn
<1>1. PICK a \in Nat, len \in [Nat -> Lengths] : Aligned(a, len)
  BY DEF ConnectionInv, Pipelined
<1>2. PICK n \in Lengths, resp \in Seq(Tokens) : Arrives(n, resp)
  BY RespondFacts
<1>3. onwire # <<>> /\ onwire' = Tail(onwire) /\ onwire \in Seq(Nat)
  BY RespondFacts DEF ConnectionInv, TypeOK
<1>4. /\ Len(onwire) \in Nat \ {0} /\ DOMAIN onwire = 1 .. Len(onwire) /\ Len(onwire') = Len(onwire) - 1
      /\ DOMAIN onwire' = 1 .. Len(onwire) - 1 /\ \A i \in 1 .. Len(onwire) - 1 : onwire'[i] = onwire[i + 1]
  BY <1>3, Removed
<1>5. \A i \in 1 .. Len(onwire) : onwire[i] = a + i
  BY <1>1, <1>4 DEF Aligned, Written
<1>6. onwire[1] = a + 1
  BY <1>4, <1>5
<1> DEFINE len2 == [len EXCEPT ![a + 1] = n]
<1>7. len2 \in [Nat -> Lengths] /\ len2[a + 1] = n /\ \A q \in Nat : q # a + 1 => len2[q] = len[q]
  OBVIOUS
<1>8. UNCHANGED <<m_requests, requests, info, m_site, step, data, events, m_socket>>
  BY DEF Respond, conn
<1>9. First' = First /\ Queued' = Queued
  BY <1>8 DEF First, Queued
<1>10. Written(a + 1)'
  <2>1. \A i \in DOMAIN onwire' : onwire'[i] = (a + 1) + i
    BY <1>4, <1>5
  <2>2. (a + 1) + Len(onwire') = a + Len(onwire)
    BY <1>4
  <2> QED
    BY <1>1, <1>8, <1>9, <2>1, <2>2 DEF Aligned, Written
<1>11. Unread' = Unread \o resp
  <2> DEFINE e == IF events = <<>> THEN <<>> ELSE events[1].data
             f == data \o e
  <2>1. data \in Seq(Tokens) /\ arriving \in Seq(Tokens) /\ e \in Seq(Tokens)
    BY EventFacts, EmptySeq DEF ConnectionInv, TypeOK
  <2>2. Unread = f \o arriving /\ Unread' = f \o (arriving \o resp)
    BY <1>2, <1>8 DEF Unread, Arrives
  <2> HIDE DEF e
  <2>3. f \in Seq(Tokens)
    BY <2>1, Joined
  <2> HIDE DEF f
  <2>4. (f \o arriving) \o resp = f \o (arriving \o resp)
    BY <2>1, <2>3, ConcatAssociative, SMTT(30)
  <2> QED
    BY <2>2, <2>4
<1>12. Unread \in Seq(Tokens) /\ DOMAIN Unread = 1 .. Len(Unread) /\ Len(Unread) \in Nat /\ (Unread = <<>> <=> Len(Unread) = 0)
  BY UnreadFacts
<1>13. /\ Len(resp) = (IF n > 0 THEN n ELSE 0) + 1 /\ resp[1] = Token(a + 1, "end", n)
       /\ \A i \in 1 .. n : resp[i + 1] = Token(a + 1, "body", i)
  BY <1>2, <1>6 DEF Arrives
<1>14. Chain(a, len, Unread)
  BY <1>1 DEF Aligned
<1>15. Chain(a + 1, len2, Unread \o resp)
  BY <1>12, <1>13, <1>14, ChainGrows
<1>16. Chain(a + 1, len2, Unread)'
  BY <1>11, <1>15 DEF Chain
<1> HIDE DEF len2
<1>17. resp # <<>> /\ Len(resp) \in Nat \ {0}
  <2>1. Len(resp) # 0 /\ Len(resp) \in Nat
    BY <1>13, LenProperties DEF Lengths, Redirect
  <2> QED
    BY <2>1, EmptySeq
<1>18. /\ Unread' # <<>>
       /\ Unread # <<>> => Unread'[1] = Unread[1]
       /\ Unread = <<>> => Unread'[1] = resp[1]
  <2>1. /\ \A i \in 1 .. Len(Unread) : (Unread \o resp)[i] = Unread[i]
        /\ \A i \in 1 .. Len(resp) : (Unread \o resp)[Len(Unread) + i] = resp[i]
        /\ Unread \o resp = <<>> <=> Unread = <<>> /\ resp = <<>>
    BY <1>12, Joined
  <2>2. Unread # <<>> => 1 \in 1 .. Len(Unread)
    BY <1>12
  <2>3. Unread = <<>> => Len(Unread) + 1 = 1 /\ 1 \in 1 .. Len(resp)
    BY <1>12, <1>17
  <2> QED
    BY <1>11, <1>17, <2>1, <2>2, <2>3
<1>19. Expected(len2)' = Expected(len2)
  BY <1>8, <1>9 DEF Expected
<1>20. /\ First \in Nat /\ First + 1 \in Nat
  BY <1>1, AlignedFacts
<1>21. CASE Unread = <<>>
  <2>1. Expected(len).req = a + 1 /\ Expected(len).part = "end"
    BY <1>1, <1>21 DEF Aligned, Begins
  <2>2. CASE step \in Completing
    <3>1. First + 1 = a + 1
      BY <2>1, <2>2 DEF Expected, Token
    <3>2. Expected(len2) = Token(a + 1, "end", n)
      BY <1>7, <2>2, <3>1 DEF Expected
    <3> QED
      BY <1>7, <1>8, <1>9, <1>10, <1>13, <1>16, <1>18, <1>19, <1>21, <2>2, <3>2 DEF Aligned, Begins
  <2>3. CASE step \notin Completing
    <3>1. First = a + 1 /\ ~(m_requests # <<>> /\ info[First].header_finished)
      BY <2>1, <2>3, ExpectedCases DEF Token
    <3>2. Expected(len2) = Token(a + 1, "end", n)
      BY <1>7, <2>3, <3>1 DEF Expected
    <3> QED
      BY <1>7, <1>8, <1>9, <1>10, <1>13, <1>16, <1>18, <1>19, <1>21, <3>1, <3>2 DEF Aligned, Begins
  <2> QED
    BY <2>2, <2>3
<1>22. CASE Unread # <<>>
  <2>1. Unread[1] = Expected(len) /\ Unread[1].req <= a
    <3>1. 1 \in DOMAIN Unread
      BY <1>12, <1>22
    <3> QED
      BY <1>1, <1>22, <3>1 DEF Aligned, Begins, Chain
  <2>2. CASE step \in Completing
    <3>1. First + 1 <= a
      BY <2>1, <2>2 DEF Expected, Token
    <3>2. len2[First + 1] = len[First + 1]
      BY <1>7, <1>20, <3>1
    <3>3. Expected(len2) = Expected(len)
      BY <2>2, <3>2 DEF Expected
    <3> QED
      BY <1>7, <1>8, <1>9, <1>10, <1>16, <1>18, <1>19, <1>22, <2>1, <2>2, <3>3 DEF Aligned, Begins
  <2>3. CASE step \notin Completing
    <3>1. First <= a
      BY <2>1, <2>3 DEF Expected, Token
    <3>2. len2[First] = len[First]
      BY <1>7, <1>20, <3>1
    <3>3. Expected(len2) = Expected(len)
      BY <2>3, <3>2 DEF Expected
    <3>4. m_requests # <<>> /\ info[First].header_finished =>
            info[First].content_length = len2[First] /\ info[First].received_size < len2[First]
      BY <1>1, <2>3, <3>2 DEF Aligned, Begins
    <3> QED
      BY <1>7, <1>8, <1>9, <1>10, <1>16, <1>18, <1>19, <1>22, <2>1, <3>3, <3>4 DEF Aligned, Begins
  <2> QED
    BY <2>2, <2>3
<1> QED
  BY <1>21, <1>22

\* A request is written or queued behind the others.
LEMMA AsksAligned ==
  ASSUME ConnectionConstants, ConnectionInv, NEW sent \in BOOLEAN, Asks(sent)
  PROVE  Pipelined'
<1>1. /\ UNCHANGED <<m_site, m_socket, events, arriving, step, data>> /\ requests' = requests + 1
      /\ requests < MaxRequests /\ step \notin Completing
      /\ m_requests' = Append(m_requests, requests + 1)
      /\ sent => Open /\ (m_requests # <<>> => info[m_requests[Len(m_requests)]].header_send)
      /\ ~sent => m_requests # <<>>
      /\ onwire' = IF sent THEN Append(onwire, requests + 1) ELSE onwire
  BY DEF Asks, conn, Completing, Callbacks
<1> SUFFICES ASSUME Open, step # "refused"
             PROVE  \E a \in Nat, len \in [Nat -> Lengths] : Aligned(a, len)'
  BY <1>1 DEF Pipelined, Open
<1>2. PICK a \in Nat, len \in [Nat -> Lengths] : Aligned(a, len)
  BY DEF ConnectionInv, Pipelined
<1>3. /\ Len(onwire) \in Nat /\ DOMAIN onwire = 1 .. Len(onwire) /\ a + Len(onwire) <= requests
      /\ requests \in Nat /\ MaxRequests \in Nat /\ Len(m_requests) \in Nat
      /\ First = requests - Len(m_requests) + 1 /\ First \in Nat \ {0} /\ First <= a + 1
      /\ Queued = First .. requests /\ Queued \subseteq Requests /\ Queued \subseteq Nat
      /\ m_requests = <<>> <=> First = requests + 1
  BY <1>2, AlignedFacts
<1>4. requests + 1 \in Requests /\ requests + 1 \in Nat
  BY <1>1, <1>3 DEF Requests
<1>5. Len(m_requests') = Len(m_requests) + 1 /\ m_requests' # <<>>
  <2>1. m_requests \in Seq(Nat)
    <3>1. 1 .. requests \subseteq Nat /\ m_requests \in Seq(1 .. requests)
      BY QueueFacts
    <3> QED
      BY <3>1, SeqMonotonic
  <2> QED
    BY <1>1, <1>4, <2>1, AppendProperties
<1>6. First' = First /\ Queued' = First .. requests + 1
  BY <1>1, <1>3, <1>5 DEF First, Queued
<1>7. PICK s \in Sites :
        /\ info' = [info EXCEPT ![requests + 1] = [NewInfo(s) EXCEPT !.header_send = sent]]
        /\ Open /\ ~sent /\ (m_requests # <<>> => info[m_requests[Len(m_requests)]].header_send) => s # m_site
  BY DEF Asks
<1>8. /\ \A q \in Queued : info'[q] = info[q]
      /\ info'[requests + 1] = [NewInfo(s) EXCEPT !.header_send = sent]
  BY <1>3, <1>4, <1>7 DEF ConnectionInv, TypeOK
<1>9. (info'[requests + 1].header_send <=> sent) /\ ~info'[requests + 1].header_finished /\ info'[requests + 1].site = s
  BY <1>8, NewInfoType
<1>10. /\ \A i \in 1 .. Len(onwire) : onwire[i] = a + i
       /\ \A q \in Queued : info[q].header_send <=> q <= a + Len(onwire)
       /\ a + Len(onwire) < requests /\ m_requests # <<>> => info[a + Len(onwire) + 1].site # m_site
  BY <1>2, <1>3 DEF Aligned, Written
<1>11. m_requests # <<>> => (info[m_requests[Len(m_requests)]].header_send <=> requests <= a + Len(onwire))
  <2> SUFFICES ASSUME m_requests # <<>>
               PROVE  info[m_requests[Len(m_requests)]].header_send <=> requests <= a + Len(onwire)
    OBVIOUS
  <2>1. m_requests[Len(m_requests)] = requests
    BY QueueFacts DEF Open, Closed
  <2>2. requests \in Queued
    BY <1>3
  <2> QED
    BY <1>10, <2>1, <2>2
<1>12. Written(a)'
  <2>1. CASE sent
    <3>1. a + Len(onwire) = requests
      <4>1. CASE m_requests = <<>>
        BY <1>3, <4>1
      <4>2. CASE m_requests # <<>>
        <5>1. requests <= a + Len(onwire)
          BY <1>1, <1>11, <2>1, <4>2
        <5> QED
          BY <1>3, <5>1
      <4> QED
        BY <4>1, <4>2
    <3>2. /\ Len(onwire') = Len(onwire) + 1 /\ DOMAIN onwire' = 1 .. Len(onwire) + 1
          /\ \A i \in 1 .. Len(onwire) : onwire'[i] = onwire[i]
          /\ onwire'[Len(onwire) + 1] = requests + 1
      <4>1. onwire \in Seq(Nat)
        BY DEF ConnectionInv, TypeOK
      <4>2. onwire' = Append(onwire, requests + 1)
        BY <1>1, <2>1
      <4> QED
        BY <1>4, <4>1, <4>2, Added
    <3>3. ASSUME NEW i \in DOMAIN onwire' PROVE onwire'[i] = a + i
      <4>1. CASE i \in 1 .. Len(onwire)
        BY <1>10, <3>2, <4>1
      <4>2. CASE i = Len(onwire) + 1
        <5>1. a + (Len(onwire) + 1) = requests + 1
          BY <1>3, <3>1
        <5> QED
          BY <3>2, <4>2, <5>1
      <4> QED
        BY <1>3, <3>2, <4>1, <4>2
    <3>4. a + Len(onwire') = requests + 1
      BY <1>3, <3>1, <3>2, SMTT(30)
    <3>5. ASSUME NEW q \in First .. requests + 1 PROVE info'[q].header_send <=> q <= requests + 1
      <4>1. CASE q \in Queued
        BY <1>3, <1>8, <1>10, <3>1, <4>1, SMTT(30)
      <4>2. CASE q = requests + 1
        BY <1>3, <1>9, <2>1, <4>2
      <4> QED
        BY <1>3, <4>1, <4>2
    <3>6. ~(requests + 1 < requests + 1) /\ requests + 1 <= requests + 1
      BY <1>3
    <3> QED
      BY <1>1, <1>6, <3>3, <3>4, <3>5, <3>6 DEF Written
  <2>2. CASE ~sent
    <3>1. onwire' = onwire /\ m_requests # <<>>
      BY <1>1, <2>2
    <3>2. ASSUME NEW q \in First .. requests + 1 PROVE info'[q].header_send <=> q <= a + Len(onwire)
      <4>1. CASE q \in Queued
        BY <1>8, <1>10, <4>1
      <4>2. CASE q = requests + 1
        BY <1>3, <1>9, <2>2, <4>2
      <4> QED
        BY <1>3, <4>1, <4>2
    <3>3. info'[a + Len(onwire) + 1].site # m_site
      <4>1. CASE a + Len(onwire) = requests
        <5>1. info[m_requests[Len(m_requests)]].header_send
          BY <1>3, <1>11, <3>1, <4>1
        <5> QED
          BY <1>7, <1>9, <2>2, <4>1, <5>1
      <4>2. CASE a + Len(onwire) < requests
        <5>1. a + Len(onwire) + 1 \in Queued
          BY <1>3, <4>2
        <5> QED
          BY <1>8, <1>10, <3>1, <4>2, <5>1
      <4> QED
        BY <1>3, <4>1, <4>2
    <3>4. a + Len(onwire) <= requests + 1
      BY <1>3
    <3> QED
      BY <1>1, <1>3, <1>6, <1>10, <3>1, <3>2, <3>3, <3>4 DEF Written
  <2> QED
    BY <2>1, <2>2
<1>13. Unread' = Unread
  BY <1>1 DEF Unread
<1>14. Chain(a, len, Unread)'
  BY <1>2, <1>13 DEF Aligned, Chain
<1>15. (m_requests' # <<>> /\ info'[First].header_finished) <=> (m_requests # <<>> /\ info[First].header_finished)
  <2>1. CASE m_requests = <<>>
    BY <1>3, <1>9, <2>1
  <2>2. CASE m_requests # <<>>
    <3>1. First \in Queued
      BY <1>3, <2>2
    <3> QED
      BY <1>5, <1>8, <2>2, <3>1
  <2> QED
    BY <2>1, <2>2
<1>16. m_requests # <<>> => info'[First] = info[First]
  BY <1>3, <1>8, SMTT(30)
<1>17. Expected(len)' = Expected(len)
  BY <1>1, <1>6, <1>15, <1>16 DEF Expected
<1>18. Begins(a, len)'
  BY <1>1, <1>2, <1>6, <1>13, <1>15, <1>16, <1>17 DEF Aligned, Begins
<1> QED
  BY <1>12, <1>14, <1>18 DEF Aligned

\* The connection is made and the first requests are written.
LEMMA ConnectAligned ==
  ASSUME ConnectionConstants, ConnectionInv, Opens
  PROVE  Pipelined'
<1>1. /\ m_socket = "connecting" /\ ~m_resolving /\ step = "idle" /\ m_requests # <<>>
      /\ events' = <<>> /\ arriving = <<>> /\ data = <<>>
  BY ConnectFacts
<1>2. PICK n \in 0 .. Len(m_requests) : Writes(n)
  BY ConnectFacts
<1>3. UNCHANGED <<m_requests, requests, m_site, arriving, step, data>>
  BY DEF Opens
<1>4. ~Closed /\ Opening
  BY <1>1 DEF Closed, Opening
<1>5. /\ requests \in Nat /\ Len(m_requests) \in Nat /\ Len(m_requests) # 0
      /\ First = requests - Len(m_requests) + 1 /\ First \in Int /\ First >= 1
  BY <1>1, <1>4, QueueFacts
<1>6. PICK a \in Nat : a = requests - Len(m_requests)
  BY <1>5
<1>7. PICK len \in [Nat -> Lengths] : len = [q \in Nat |-> 0]
  BY DEF Lengths
<1>8. /\ a + 1 = First /\ n \in Int /\ a + n <= requests
      /\ a + n + 1 = First + n /\ (a + n < requests => n < Len(m_requests))
  BY <1>2, <1>5, <1>6
<1>9. First' = First /\ Queued' = Queued
  BY <1>3 DEF First, Queued
<1>10. /\ onwire' \in Seq(Nat) /\ Len(onwire') = n
       /\ \A i \in 1 .. n : onwire'[i] = a + i
       /\ \A q \in Queued :
            /\ info'[q].header_send <=> q <= a + n
            /\ info'[q].header_finished = info[q].header_finished
            /\ info'[q].site = info[q].site
       /\ n < Len(m_requests) => info[First + n].site # m_site
  BY <1>2, <1>6 DEF Writes
<1>11. DOMAIN onwire' = 1 .. n
  BY <1>10, LenProperties
<1>12. First \in Queued /\ (a + n < requests => First + n \in Queued)
  BY <1>2, <1>5, <1>8 DEF Queued
<1>13. Written(a)'
  <2>1. \A i \in DOMAIN onwire' : onwire'[i] = a + i
    BY <1>10, <1>11
  <2>2. a + Len(onwire') <= requests'
    BY <1>3, <1>8, <1>10
  <2>3. \A q \in Queued' : info'[q].header_send <=> q <= a + Len(onwire')
    BY <1>9, <1>10
  <2>4. ASSUME a + Len(onwire') < requests', m_requests' # <<>>
        PROVE  info'[a + Len(onwire') + 1].site # m_site'
    <3>1. a + n < requests /\ a + Len(onwire') + 1 = First + n
      BY <1>3, <1>8, <1>10, <2>4
    <3>2. n < Len(m_requests) /\ First + n \in Queued
      BY <1>8, <1>12, <3>1
    <3>3. info'[First + n].site # m_site
      BY <1>10, <3>2
    <3> QED
      BY <1>3, <3>1, <3>3
  <2> QED
    BY <2>1, <2>2, <2>3, <2>4 DEF Written
<1>14. Unread' = <<>>
  <2>1. data' = <<>> /\ arriving' = <<>> /\ events' = <<>>
    BY <1>1, <1>3
  <2>2. data' \in Seq(Tokens) /\ arriving' \in Seq(Tokens) /\ <<>> \in Seq(Tokens)
    BY <2>1, EmptySeq
  <2>3. Unread' = data' \o arriving'
    BY <2>1, <2>2, UnreadIsNext
  <2>4. <<>> \o <<>> = <<>>
    BY <2>2, ConcatEmptySeq
  <2> QED
    BY <2>1, <2>3, <2>4
<1>15. Chain(a, len, Unread)'
  <2>1. Len(Unread') = 0 /\ DOMAIN Unread' = {}
    BY <1>14, EmptySeq
  <2> QED
    BY <1>14, <2>1 DEF Chain
<1>16. ~info'[First].header_finished
  <2>1. ~info[First].header_finished
    BY <1>4, <1>12 DEF ConnectionInv, InOrder
  <2> QED
    BY <1>10, <1>12, <2>1
<1>17. Expected(len)' = Token(First, "end", len[First])
  BY <1>1, <1>3, <1>9, <1>16 DEF Expected, Completing
<1>18. Begins(a, len)'
  BY <1>8, <1>9, <1>14, <1>16, <1>17 DEF Begins, Token
<1>19. Aligned(a, len)'
  BY <1>13, <1>15, <1>18 DEF Aligned
<1> QED
  BY <1>19 DEF Pipelined

\* The header of the front's response is taken.
LEMMA HeaderAligned ==
  ASSUME ConnectionConstants, ConnectionInv, HeaderEnds
  PROVE  Pipelined'
<1>1. /\ step = "process" /\ step \notin Completing /\ step # "refused" /\ data # <<>> /\ m_requests # <<>>
      /\ ~info[First].header_finished /\ data[1].v # Redirect
      /\ info' = [info EXCEPT ![First].header_finished = TRUE, ![First].content_length = data[1].v]
      /\ data' = Tail(data) /\ step' = IF data[1].v = 0 THEN "on_complete_empty" ELSE "process"
      /\ UNCHANGED <<m_requests, requests, onwire, m_site, events, arriving>>
  BY DEF HeaderEnds, HeaderUnit, Completing, conn, net
<1>2. Open /\ ~Closed
  BY <1>1, ProcessFacts
<1>3. PICK a \in Nat, len \in [Nat -> Lengths] : Aligned(a, len)
  BY <1>1, <1>2 DEF ConnectionInv, Pipelined
<1>4. First \in Requests /\ First \in Nat /\ First \in Queued
  BY <1>1, <1>2, QueueFacts DEF Requests, Queued
<1>5. data[1] = Expected(len)
  BY <1>1, <1>3, UnreadFacts DEF Aligned, Begins
<1>6. data[1] = Token(First, "end", len[First])
  BY <1>1, <1>5 DEF Expected
<1>7. data[1].req = First /\ data[1].part = "end" /\ data[1].v = len[First] /\ len[First] \in Nat
  BY <1>1, <1>4, <1>6 DEF Token, Lengths
<1>8. info \in [Requests -> Infos]
  BY DEF ConnectionInv, TypeOK
<1>9. /\ info' \in [Requests -> Infos]
      /\ \A q \in Requests : info'[q].header_send = info[q].header_send /\ info'[q].site = info[q].site
      /\ info'[First].header_finished /\ info'[First].content_length = len[First]
      /\ info'[First].received_size = info[First].received_size
  <2>1. info' = [info EXCEPT ![First].header_finished = TRUE, ![First].content_length = len[First]]
    BY <1>1, <1>7
  <2>2. len[First] \in Int
    BY <1>7
  <2> QED
    BY <1>4, <1>8, <2>1, <2>2 DEF Infos
<1>10. info[First].received_size = 0
  BY <1>1, <1>2, <1>4 DEF ConnectionInv, InOrder
<1>11. First' = First
  BY <1>1 DEF First
<1>12. CASE len[First] = 0
  <2>1. step' \in Completing
    BY <1>1, <1>7, <1>12 DEF Completing
  <2>2. Final(len, data[1])
    BY <1>7, <1>12 DEF Final
  <2>3. Follow(len, data[1]) = Token(First + 1, "end", len[First + 1])
    BY <1>7, <2>2 DEF Follow
  <2>4. Expected(len)' = Follow(len, data[1])
    BY <1>11, <2>1, <2>3 DEF Expected
  <2>5. Aligned(a, len)'
    BY <1>1, <1>3, <1>9, <2>1, <2>4, TokenTaken
  <2> QED
    BY <2>5 DEF Pipelined
<1>13. CASE len[First] # 0
  <2>1. step' = "process" /\ step' \notin Completing /\ len[First] > 0
    BY <1>1, <1>7, <1>13 DEF Completing
  <2>2. ~Final(len, data[1])
    <3>1. Final(len, data[1]) <=> len[First] <= 0
      BY <1>7 DEF Final
    <3> QED
      BY <1>7, <2>1, <3>1
  <2>3. Follow(len, data[1]) = Token(First, "body", 1)
    BY <1>7, <2>2 DEF Follow
  <2>4. Expected(len)' = Follow(len, data[1])
    BY <1>1, <1>9, <1>10, <1>11, <2>1, <2>3 DEF Expected
  <2>5. info'[First].content_length = len[First] /\ info'[First].received_size < len[First]
    BY <1>9, <1>10, <2>1
  <2>6. Aligned(a, len)'
    BY <1>1, <1>3, <1>9, <2>4, <2>5, TokenTaken
  <2> QED
    BY <2>6 DEF Pipelined
<1> QED
  BY <1>12, <1>13

\* A unit of the front's body is taken.
LEMMA TakesAligned ==
  ASSUME ConnectionConstants, ConnectionInv, Takes
  PROVE  Pipelined'
<1>1. /\ step = "process" /\ step \notin Completing /\ step # "refused" /\ data # <<>> /\ m_requests # <<>>
      /\ info[First].header_finished
      /\ info' = [info EXCEPT ![First].received_size = @ + 1]
      /\ data' = Tail(data)
      /\ step' = IF info[First].received_size + 1 >= info[First].content_length THEN "on_complete" ELSE "process"
      /\ UNCHANGED <<m_requests, requests, onwire, m_site, events, arriving>>
  BY DEF Takes, BodyUnit, Completing, conn, net
<1>2. Open /\ ~Closed
  BY <1>1, ProcessFacts
<1>3. PICK a \in Nat, len \in [Nat -> Lengths] : Aligned(a, len)
  BY <1>1, <1>2 DEF ConnectionInv, Pipelined
<1>4. First \in Requests /\ First \in Nat
  BY <1>1, <1>2, QueueFacts DEF Requests
<1>5. /\ data[1] = Token(First, "body", info[First].received_size + 1)
      /\ info[First].received_size \in Nat
  BY UnitFacts DEF Takes
<1>6. info[First].content_length = len[First] /\ info[First].received_size < len[First] /\ len[First] \in Nat
  <2>1. info[First].content_length = len[First] /\ info[First].received_size < len[First]
    BY <1>1, <1>3 DEF Aligned, Begins
  <2> QED
    BY <1>4, <1>5, <2>1 DEF Lengths, Redirect
<1>7. data[1].req = First /\ data[1].part = "body" /\ data[1].v = info[First].received_size + 1
  BY <1>5 DEF Token
<1>8. info \in [Requests -> Infos]
  BY DEF ConnectionInv, TypeOK
<1>9. /\ info' \in [Requests -> Infos]
      /\ \A q \in Requests : info'[q].header_send = info[q].header_send /\ info'[q].site = info[q].site
      /\ info'[First].header_finished /\ info'[First].content_length = info[First].content_length
      /\ info'[First].received_size = info[First].received_size + 1
  <2>1. info[First].received_size + 1 \in Nat
    BY <1>5
  <2> QED
    BY <1>1, <1>4, <1>8, <2>1 DEF Infos
<1>10. First' = First
  BY <1>1 DEF First
<1>11. CASE info[First].received_size + 1 = len[First]
  <2>1. step' \in Completing
    <3>1. info[First].received_size + 1 >= info[First].content_length
      BY <1>5, <1>6, <1>11
    <3> QED
      BY <1>1, <3>1 DEF Completing
  <2>2. Final(len, data[1])
    BY <1>7, <1>11 DEF Final
  <2>3. Follow(len, data[1]) = Token(First + 1, "end", len[First + 1])
    BY <1>7, <2>2 DEF Follow
  <2>4. Expected(len)' = Follow(len, data[1])
    BY <1>10, <2>1, <2>3 DEF Expected
  <2>5. Aligned(a, len)'
    BY <1>1, <1>3, <1>9, <2>1, <2>4, TokenTaken
  <2> QED
    BY <2>5 DEF Pipelined
<1>12. CASE info[First].received_size + 1 # len[First]
  <2>1. step' = "process" /\ step' \notin Completing /\ info[First].received_size + 1 < len[First]
    <3>1. info[First].received_size + 1 < len[First] /\ ~(info[First].received_size + 1 >= info[First].content_length)
      BY <1>5, <1>6, <1>12
    <3> QED
      BY <1>1, <3>1 DEF Completing
  <2>2. ~Final(len, data[1])
    BY <1>7, <1>12 DEF Final
  <2>3. Follow(len, data[1]) = Token(First, "body", (info[First].received_size + 1) + 1)
    BY <1>7, <2>2 DEF Follow
  <2>4. Expected(len)' = Follow(len, data[1])
    BY <1>1, <1>9, <1>10, <2>1, <2>3 DEF Expected
  <2>5. info'[First].content_length = len[First] /\ info'[First].received_size < len[First]
    BY <1>6, <1>9, <2>1
  <2>6. Aligned(a, len)'
    BY <1>1, <1>3, <1>9, <2>4, <2>5, TokenTaken
  <2> QED
    BY <2>6 DEF Pipelined
<1> QED
  BY <1>11, <1>12

\* The front leaves the queue and the next request becomes the front.
LEMMA LeavesAligned ==
  ASSUME ConnectionConstants, ConnectionInv, Leaves
  PROVE  Pipelined'
<1>1. /\ step \in Completing /\ step' \in Callbacks /\ m_requests # <<>> /\ m_requests' = Tail(m_requests)
      /\ step' \notin Completing /\ step # "refused"
      /\ UNCHANGED <<m_site, m_socket, events, onwire, arriving, info, requests, data>>
  BY DEF Leaves, conn, net, Completing, Callbacks
<1>2. Open /\ ~Closed
  BY <1>1, CompletingFacts
<1>3. PICK a \in Nat, len \in [Nat -> Lengths] : Aligned(a, len)
  BY <1>1, <1>2 DEF ConnectionInv, Pipelined
<1>4. /\ requests \in Nat /\ Len(m_requests) \in Nat /\ First = requests - Len(m_requests) + 1
      /\ First \in Nat \ {0} /\ Queued = First .. requests
  BY <1>2, <1>3, AlignedFacts
<1>5. Len(m_requests') = Len(m_requests) - 1 /\ Len(m_requests) # 0 /\ (m_requests' # <<>> => Len(m_requests') \in Nat \ {0})
  <2>1. m_requests \in Seq(1 .. requests)
    BY QueueFacts
  <2>2. Tail(m_requests) \in Seq(1 .. requests) /\ Len(Tail(m_requests)) = Len(m_requests) - 1 /\ Len(m_requests) \in Nat \ {0}
    BY <1>1, <2>1, Removed
  <2>3. Tail(m_requests) # <<>> => Len(Tail(m_requests)) \in Nat \ {0}
    BY <2>2, EmptySeq
  <2> QED
    BY <1>1, <2>2, <2>3
<1>6. First' = First + 1 /\ Queued' = First + 1 .. requests
  <2>1. First' = requests' - Len(m_requests') + 1 /\ Queued' = First' .. requests'
    BY DEF First, Queued
  <2>2. First' = First + 1
    <3>1. requests' = requests /\ Len(m_requests') = Len(m_requests) - 1
      BY <1>1, <1>5
    <3>2. First' = requests - (Len(m_requests) - 1) + 1
      BY <2>1, <3>1
    <3> QED
      BY <1>4, <3>2
  <2> QED
    BY <1>1, <2>1, <2>2
<1>7. Queued' \subseteq Queued
  BY <1>4, <1>6
<1>8. Written(a)'
  BY <1>1, <1>3, <1>7 DEF Aligned, Written
<1>9. Unread' = Unread
  BY <1>1 DEF Unread
<1>10. Chain(a, len, Unread)'
  BY <1>3, <1>9 DEF Aligned, Chain
<1>11. m_requests' # <<>> => ~info'[First'].header_finished
  <2> SUFFICES ASSUME m_requests' # <<>> PROVE ~info[First + 1].header_finished
    BY <1>1, <1>6
  <2>1. First + 1 \in Queued /\ First + 1 # First
    BY <1>4, <1>5
  <2> QED
    BY <1>2, <2>1 DEF ConnectionInv, InOrder
<1>12. Expected(len) = Token(First + 1, "end", len[First + 1])
  BY <1>1 DEF Expected
<1>13. Expected(len)' = Token(First + 1, "end", len[First + 1])
  BY <1>1, <1>6, <1>11 DEF Expected
<1>14. Begins(a, len)'
  BY <1>3, <1>9, <1>11, <1>12, <1>13 DEF Aligned, Begins
<1>15. Aligned(a, len)'
  BY <1>8, <1>10, <1>14 DEF Aligned
<1> QED
  BY <1>15 DEF Pipelined

\* The answers stay aligned with the queue.
LEMMA PipelinedStep ==
  ASSUME ConnectionConstants, ConnectionInv, Runs \/ UNCHANGED vars
  PROVE  Pipelined'
<1> USE DEF conn, net
<1>1. CASE Completes
  <2>1. PICK e \in Events : events' = << e >> /\ e.data = <<>>
    BY <1>1 DEF Completes
  <2>2. events = <<>> /\ events' # <<>> /\ events'[1].data = <<>> /\ UNCHANGED <<data, arriving>>
    BY <1>1, <2>1 DEF Completes
  <2>3. Unread' = Unread
    BY <2>2 DEF Unread
  <2> QED
    BY <1>1, <2>3, SameTokens DEF Completes
<1>2. CASE Reads
  <2>1. PICK n \in 1 .. Len(arriving) :
          /\ events' = << Event("recv", "ok", SubSeq(arriving, 1, n)) >>
          /\ arriving' = SubSeq(arriving, n + 1, Len(arriving))
    BY <1>2 DEF Reads
  <2>2. /\ data = <<>> /\ data' = <<>> /\ events = <<>> /\ arriving \in Seq(Tokens) /\ <<>> \in Seq(Tokens)
    BY <1>2, EmptySeq DEF Reads, ConnectionInv, TypeOK, Phases
  <2>3. n \in 0 .. Len(arriving)
    BY <2>2, LenProperties
  <2>4. /\ SubSeq(arriving, 1, n) \in Seq(Tokens) /\ SubSeq(arriving, n + 1, Len(arriving)) \in Seq(Tokens)
        /\ SubSeq(arriving, 1, n) \o SubSeq(arriving, n + 1, Len(arriving)) = arriving
    BY <2>2, <2>3, Cut, Pieces
  <2>5. Unread = arriving
    <3>1. Unread = <<>> \o arriving
      BY <2>2, UnreadIs
    <3>2. <<>> \o arriving = arriving
      BY <2>2, ConcatEmptySeq
    <3> QED
      BY <3>1, <3>2
  <2>6. events' # <<>> /\ events'[1].data = SubSeq(arriving, 1, n)
    BY <2>1 DEF Event
  <2>7. data' \in Seq(Tokens) /\ arriving' \in Seq(Tokens)
    BY <2>1, <2>2, <2>4
  <2>8. Unread' = SubSeq(arriving, 1, n) \o arriving'
    BY <2>2, <2>4, <2>6, <2>7, UnreadIsNext
  <2>9. Unread' = Unread
    BY <2>1, <2>4, <2>5, <2>8
  <2> QED
    BY <1>2, <2>9, SameTokens DEF Reads
<1>3. CASE Respond
  BY <1>3, RespondAligned
<1>4. CASE Asks(TRUE)
  BY <1>4, AsksAligned
<1>5. CASE Asks(FALSE)
  BY <1>5, AsksAligned
<1>6. CASE pause_or_resume
  BY <1>6, SameTokens DEF pause_or_resume, Completing, Unread, Callbacks
<1>7. CASE on_resolver_address
  BY <1>7 DEF on_resolver_address, Pipelined, Open
<1>8. CASE Opens
  BY <1>8, ConnectAligned
<1>9. CASE Receives
  <2>1. /\ data = <<>> /\ data' = events[1].data /\ events # <<>> /\ events' = <<>> /\ arriving' = arriving
        /\ step = "idle" /\ step' = "process"
    BY <1>9 DEF Receives, Dispatch, ConnectionInv, Phases
  <2>2. events[1].data \in Seq(Tokens) /\ arriving \in Seq(Tokens) /\ data \in Seq(Tokens)
    BY <2>1, EventFacts DEF ConnectionInv, TypeOK
  <2>3. Unread = events[1].data \o arriving
    BY <2>1, <2>2, UnreadIs
  <2>4. data' \in Seq(Tokens) /\ arriving' \in Seq(Tokens)
    BY <2>1, <2>2
  <2>5. Unread' = data' \o arriving'
    BY <2>1, <2>4, UnreadIsNext
  <2>6. Unread' = Unread
    BY <2>1, <2>3, <2>5
  <2>7. step' \notin Completing /\ step \notin Completing
    BY <2>1 DEF Completing
  <2> QED
    BY <1>9, <2>1, <2>6, <2>7, SameTokens DEF Receives
<1>10. CASE HeaderEnds
  BY <1>10, HeaderAligned
<1>11. CASE Takes
  BY <1>11, TakesAligned
<1>12. CASE Refuses
  BY <1>12 DEF Refuses, Pipelined
<1>17. CASE HeaderRefused
  BY <1>17 DEF HeaderRefused, Pipelined
<1>13. CASE Leaves
  BY <1>13, LeavesAligned
<1>14. CASE Returns
  BY <1>14, SameTokens DEF Returns, Completing, Unread, Callbacks
<1>15. CASE check_receive
  BY <1>15, SameTokens DEF check_receive, Completing, Unread, Callbacks
<1>16. CASE UNCHANGED vars
  BY <1>16, SameTokens DEF vars, Unread
<1> QED
  BY <1>1, <1>2, <1>3, <1>4, <1>5, <1>6, <1>7, <1>8, <1>9, <1>10, <1>11, <1>12, <1>13, <1>14,
     <1>15, <1>16, <1>17 DEF Runs

-----------------------------------------------------------------------------
(* The theorems.                                                           *)

\* A new connection has no requests and nothing under way.
LEMMA ConnectionInit == ASSUME ConnectionConstants, Init PROVE ConnectionInv
<1>1. /\ m_requests = <<>> /\ requests = 0 /\ m_site = NoSite /\ m_socket = "new" /\ ~failed
      /\ m_receiving = FALSE /\ m_resolving = FALSE /\ paused = FALSE /\ failed = FALSE
      /\ info = [r \in Requests |-> NewInfo(NoSite)] /\ events = <<>> /\ onwire = <<>>
      /\ arriving = <<>> /\ step = "idle" /\ data = <<>> /\ got = [r \in Requests |-> <<>>]
  BY DEF Init
<1>2. info \in [Requests -> Infos]
  <2>1. NewInfo(NoSite) \in Infos
    BY NewInfoType
  <2> QED
    BY <1>1, <2>1
<1>3. /\ <<>> \in Seq(Tokens) /\ <<>> \in Seq(Nat) /\ <<>> \in Seq(Events) /\ <<>> \in Seq(1 .. requests)
      /\ Len(<<>>) = 0 /\ DOMAIN <<>> = {}
  BY EmptySeq
<1>4. got \in [Requests -> Seq(Tokens)]
  BY <1>1, <1>3
<1>5. requests \in 0 .. MaxRequests
  BY <1>1 DEF ConnectionConstants
<1>6. TypeOK
  BY <1>1, <1>2, <1>3, <1>4, <1>5 DEF TypeOK, Steps
<1>7. FutureUntouched /\ PipelinedOwnData
  BY <1>1, <1>3 DEF FutureUntouched, PipelinedOwnData
<1>8. OneCompletion
  BY <1>1, <1>3 DEF OneCompletion
<1>9. Phases /\ InOrder /\ Pipelined /\ Reading /\ NotForgotten
  BY <1>1 DEF Phases, InOrder, Pipelined, Reading, NotForgotten, Open, Closed, Opening
<1> QED
  BY <1>6, <1>7, <1>8, <1>9 DEF ConnectionInv

\* Every step keeps the invariant.
LEMMA ConnectionStep ==
  ASSUME ConnectionConstants, ConnectionInv, [Next]_vars
  PROVE  ConnectionInv'
<1>1. CASE Closes
  BY <1>1, ClosesKeeps
<1>2. CASE Connects
  BY <1>2, ConnectsKeeps
<1>3. CASE Runs \/ UNCHANGED vars
  BY <1>3, TypeStep, DeliveredStep, CompletionStep, PhasesStep, InOrderStep, PipelinedStep, ReadingStep
     DEF ConnectionInv
<1>4. Closes \/ Connects \/ Runs \/ UNCHANGED vars
  BY StepsOfNext DEF Step, Runs
<1> QED
  BY <1>1, <1>2, <1>3, <1>4

\* The invariant has what the properties say.
LEMMA ServedFront ==
  ASSUME ConnectionConstants, ConnectionInv
  PROVE  QueueServed
<1> SUFFICES ASSUME step = "idle", m_requests # <<>>, ~failed, ~m_resolving, m_socket # "connecting"
             PROVE  /\ m_socket = "connected" /\ (m_receiving \/ paused)
                    /\ info[Front].header_send \/ Stranded
  BY DEF QueueServed
<1>1. ~Closed
  BY DEF ConnectionInv, NotForgotten
<1>2. Open
  BY <1>1 DEF ConnectionInv, TypeOK, Closed, Open
<1>3. m_receiving \/ paused
  BY <1>2 DEF ConnectionInv, Reading
<1>4. PICK a \in Nat, len \in [Nat -> Lengths] : Aligned(a, len)
  BY <1>2 DEF ConnectionInv, Pipelined
<1>5. /\ Len(onwire) \in Nat /\ First \in Nat /\ First <= a + 1 /\ Queued = First .. requests /\ requests \in Nat
  BY <1>2, <1>4, AlignedFacts
<1>6. Front = First /\ First <= requests
  BY <1>1, QueueFacts
<1>7. /\ \A q \in Queued : info[q].header_send <=> q <= a + Len(onwire)
      /\ a + Len(onwire) < requests => info[a + Len(onwire) + 1].site # m_site
  BY <1>4 DEF Aligned, Written
<1>8. First \in Queued
  BY <1>5, <1>6
<1>9. CASE First <= a + Len(onwire)
  BY <1>2, <1>3, <1>6, <1>7, <1>8, <1>9 DEF Open
<1>10. CASE ~(First <= a + Len(onwire))
  <2>1. a + Len(onwire) + 1 = First /\ a + Len(onwire) < requests
    BY <1>5, <1>6, <1>10
  <2>2. info[First].site # m_site /\ ~info[First].header_send
    BY <1>7, <1>8, <1>10, <2>1
  <2> QED
    BY <1>2, <1>3, <1>6, <2>2 DEF Open, Stranded
<1> QED
  BY <1>9, <1>10

\* The inductive invariant of the concurrent connection, for any number of
\* requests, any sites and any announced lengths.
THEOREM ConnectionInvariant == ASSUME ConnectionConstants PROVE Spec => []ConnectionInv
<1>1. Init => ConnectionInv
  BY ConnectionInit
<1>2. ConnectionInv /\ [Next]_vars => ConnectionInv'
  BY ConnectionStep
<1> QED
  BY <1>1, <1>2, PTL DEF Spec

\* What the listener of a request gets is the body of the response to that
\* request, in order, although nothing in the stream says whose response it is.
THEOREM OwnDataHolds == ASSUME ConnectionConstants PROVE Spec => []PipelinedOwnData
<1>1. ConnectionInv => PipelinedOwnData
  BY DEF ConnectionInv
<1> QED
  BY <1>1, ConnectionInvariant, PTL

\* Until something fails, a connection is being made for the queue, or it is open and
\* read (unless paused) and its front is written; the one request that is left
\* unwritten there, by on_complete(), is one for another site than the connected one.
THEOREM QueueServedHolds == ASSUME ConnectionConstants PROVE Spec => []QueueServed
<1>1. ConnectionInv => QueueServed
  BY ServedFront
<1> QED
  BY <1>1, ConnectionInvariant, PTL
=============================================================================
