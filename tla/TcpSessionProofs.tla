-------------------------- MODULE TcpSessionProofs --------------------------
(***************************************************************************)
(* Proofs about TcpSession, for every set of streams, any sizes of reads   *)
(* and buffer and any number of connects.                                  *)
(***************************************************************************)
EXTENDS TcpSession, FiniteSetTheorems, SequenceTheorems, TLAPS

Bytes  == UNION {{s[i] : i \in DOMAIN s} : s \in Streams}
Reads  == {d \in Seq(Bytes) : Len(d) <= ReceiveSize}
Events == [kind : {"connect", "recv", "send"}, res : {"ok", "error"}, data : Reads]

\* Inside feed the bytes to decode are in rest.
Decoding == pc \in {"decode", "on_session_receive"}

Words ==
  /\ role \in {"client", "server"} /\ registered \in {"no", "yes", "refused", "destroyed"}
  /\ native \in {"closed", "connecting", "connected", "failed"}
  /\ pc \in {"idle", "decode"} \cup Callbacks /\ src \in {"none", "data", "buffer"}
Flags ==
  /\ m_aborted \in BOOLEAN /\ m_pause_receive \in BOOLEAN /\ m_abort \in BOOLEAN
  /\ receiving \in BOOLEAN /\ writing \in BOOLEAN /\ wanted \in BOOLEAN /\ cut \in BOOLEAN
Data ==
  /\ ready \in Seq(Events)
  /\ stream \in Seq(Bytes) /\ m_buffer \in Seq(Bytes) /\ rest \in Seq(Bytes)
  /\ input \in Seq(Bytes) /\ delivered \in Seq(Bytes) /\ count \in Nat
TypeOK == Words /\ Flags /\ Data

\* What a server's session can be doing before it is kept and after it is gone.
ServerStages ==
  /\ role = "client" => registered = "no"
  /\ role = "server" =>
       /\ resolving = {} /\ native # "connecting"
       /\ \A i \in DOMAIN ready : ready[i].kind # "connect"
       /\ registered = "no" =>
            /\ pc \in {"idle", "on_session_open"}
            /\ pc = "idle" => native = "connected" /\ ready = <<>> /\ ~receiving /\ ~writing
       /\ registered \in {"refused", "destroyed"} =>
            pc = "idle" /\ native = "closed" /\ ready = <<>> /\ ~receiving /\ ~writing

\* A server's session that lost its connection has a failure at the end of
\* its queue, until on_session_error is running.
FailureQueued ==
  role = "server" /\ registered \in {"no", "yes"} /\ pc # "on_session_error" /\ native # "connected" =>
    /\ native = "closed"
    /\ cut \/ (ready # <<>> /\ ready[Len(ready)].res = "error")

ReadOrPaused ==
  pc \in {"idle", "on_session_error"} /\ native = "connected" /\ ~m_aborted /\ ~m_abort
  /\ (role = "client" \/ registered = "yes") => receiving \/ m_pause_receive

\* The decoder's buffer and the bytes being decoded fit the buffer.
BufferBounded ==
  /\ Len(m_buffer) <= m_max_buffer_size
  /\ Decoding => /\ Len(rest) <= m_max_buffer_size /\ src \in {"data", "buffer"}
                 /\ src = "data" => m_buffer = <<>>

\* What a careful listener keeps true of the socket.
SocketState ==
  /\ native = "connecting" => ~receiving /\ ~writing /\ \A i \in DOMAIN ready : ready[i].kind = "connect"
  /\ role = "client" /\ native = "closed" => ready = <<>> /\ ~receiving /\ ~writing
  /\ pc = "on_session_open" => native = "connected"
  /\ Decoding /\ ~m_abort => native = "connected"
  /\ native = "failed" => pc = "on_session_error"
  /\ role = "server" /\ registered = "yes" /\ native = "closed" => m_abort
  /\ role = "client" => resolving \subseteq {m_resolver}
  /\ ClosedStaysClosed

\* What was delivered is whole lines, and with what is left it is the input.
WholeLines ==
  /\ (delivered = <<>>) \/ Len(delivered) \in Ends(delivered)
  /\ count = Cardinality(Ends(delivered))
Kept == IF Decoding THEN rest ELSE m_buffer
NothingLost ==
  ~m_abort => /\ input = delivered \o Kept
              /\ ~Decoding => Ends(m_buffer) = {}

SessionInv == /\ TypeOK /\ ServerStages /\ FailureQueued /\ ReadOrPaused /\ BufferBounded
              /\ WholeLines /\ NothingLost
CarefulInv == CarefulListener => SocketState

-----------------------------------------------------------------------------
(* Sequences, delimiters and events.                                       *)

\* Streams are sequences of bytes.
LEMMA StreamBytes == Streams \subseteq Seq(Bytes)
<1> SUFFICES ASSUME NEW s \in Streams PROVE s \in Seq(Bytes)
  OBVIOUS
<1>1. s \in Seq({s[i] : i \in DOMAIN s})
  BY TcpSessionAssumption
<1>2. {s[i] : i \in DOMAIN s} \subseteq Bytes
  BY DEF Bytes
<1> QED
  BY <1>1, <1>2, SeqMonotonic

\* A read is not longer than the receive buffer, nor than what there is.
LEMMA ReadLength ==
  ASSUME NEW m \in Nat, NEW n \in 1 .. Min({ReceiveSize, m})
  PROVE  n \in 1 .. m /\ n <= ReceiveSize
<1> DEFINE S == {ReceiveSize, m}
<1>1. ReceiveSize \in Nat
  BY TcpSessionAssumption
<1>2. \E x \in S : \A y \in S : x <= y
  BY <1>1
<1>3. Min(S) \in S /\ \A y \in S : Min(S) <= y
  BY <1>2 DEF Min
<1> QED
  BY <1>1, <1>3

\* Cutting a sequence in two.
LEMMA Cut ==
  ASSUME NEW E, NEW s \in Seq(E), NEW n \in 0 .. Len(s)
  PROVE  /\ SubSeq(s, 1, n) \in Seq(E) /\ Len(SubSeq(s, 1, n)) = n
         /\ \A i \in 1 .. n : SubSeq(s, 1, n)[i] = s[i]
         /\ SubSeq(s, n + 1, Len(s)) \in Seq(E) /\ Len(SubSeq(s, n + 1, Len(s))) = Len(s) - n
         /\ SubSeq(s, 1, n) \o SubSeq(s, n + 1, Len(s)) = s
<1>1. Len(s) \in Nat /\ \A i \in 1 .. Len(s) : s[i] \in E
  BY LenProperties, ElementOfSeq
<1>2. /\ SubSeq(s, 1, n) \in Seq(E) /\ Len(SubSeq(s, 1, n)) = n
      /\ \A i \in 1 .. n : SubSeq(s, 1, n)[i] = s[i]
  <2>1. \A i \in 1 .. n : s[i] \in E
    BY <1>1
  <2>2. /\ SubSeq(s, 1, n) \in Seq(E)
        /\ Len(SubSeq(s, 1, n)) = IF 1 <= n THEN n - 1 + 1 ELSE 0
        /\ \A i \in 1 .. n - 1 + 1 : SubSeq(s, 1, n)[i] = s[1 + i - 1]
    BY <2>1, SubSeqProperties
  <2>3. \A i \in 1 .. n : 1 + i - 1 = i /\ i \in 1 .. n - 1 + 1
    OBVIOUS
  <2> QED
    BY <1>1, <2>2, <2>3
<1>3. SubSeq(s, n + 1, Len(s)) \in Seq(E) /\ Len(SubSeq(s, n + 1, Len(s))) = Len(s) - n
  <2>1. \A i \in n + 1 .. Len(s) : s[i] \in E
    BY <1>1
  <2>2. /\ SubSeq(s, n + 1, Len(s)) \in Seq(E)
        /\ Len(SubSeq(s, n + 1, Len(s))) = IF n + 1 <= Len(s) THEN Len(s) - (n + 1) + 1 ELSE 0
    <3>1. n + 1 \in Int /\ Len(s) \in Int
      BY <1>1
    <3> QED
      BY <2>1, <3>1, SubSeqProperties
  <2> QED
    BY <1>1, <2>2
<1>4. SubSeq(s, 1, n) \o SubSeq(s, n + 1, Len(s)) = s
  <2>1. SubSeq(s, 1, n) \o SubSeq(s, n + 1, Len(s)) = SubSeq(s, 1, Len(s))
    <3>1. 1 \in 1 .. Len(s) + 1 /\ n \in 1 - 1 .. Len(s) /\ Len(s) \in n .. Len(s)
      BY <1>1
    <3> QED
      BY <3>1, ConcatAdjacentSubSeq
  <2> QED
    BY <2>1, SubSeqFull
<1> QED
  BY <1>2, <1>3, <1>4

\* The delimiters of a sequence are finitely many positions in it.
LEMMA EndsType ==
  ASSUME NEW E, NEW s \in Seq(E)
  PROVE  /\ Ends(s) \subseteq 2 .. Len(s) /\ IsFiniteSet(Ends(s)) /\ Cardinality(Ends(s)) \in Nat
         /\ s = <<>> => Ends(s) = {}
<1>1. Ends(s) \subseteq 2 .. Len(s) /\ Len(s) \in Nat
  BY LenProperties DEF Ends
<1>2. IsFiniteSet(2 .. Len(s))
  BY <1>1, FS_Interval
<1>3. IsFiniteSet(Ends(s)) /\ Cardinality(Ends(s)) \in Nat
  BY <1>1, <1>2, FS_Subset, FS_CardinalityType
<1>4. s = <<>> => Ends(s) = {}
  BY <1>1
<1> QED
  BY <1>1, <1>3, <1>4

\* No delimiter spans the cut after a whole line.
LEMMA EndsConcat ==
  ASSUME NEW E, NEW d \in Seq(E), NEW r \in Seq(E), (d = <<>>) \/ Len(d) \in Ends(d)
  PROVE  Ends(d \o r) = Ends(d) \cup {Len(d) + i : i \in Ends(r)}
<1> DEFINE m == Len(d)
           n == Len(r)
           c == d \o r
<1>1. /\ m \in Nat /\ n \in Nat /\ Len(c) = m + n
      /\ \A i \in 1 .. m + n : c[i] = IF i <= m THEN d[i] ELSE r[i - m]
  BY LenProperties, ConcatProperties
<1>2. \A i \in 1 .. m : c[i] = d[i]
  BY <1>1
<1>3. \A i \in m + 1 .. m + n : c[i] = r[i - m]
  BY <1>1
<1>4. m > 0 => d[m] = "lf"
  <2>1. d = <<>> => m = 0
    OBVIOUS
  <2> QED
    BY <2>1 DEF Ends
<1>5. m \in Ends(d) => m >= 2
  BY <1>1 DEF Ends
<1> HIDE DEF c
<1>6. ASSUME NEW i \in Ends(c) PROVE i \in Ends(d) \cup {m + j : j \in Ends(r)}
  <2>1. i \in 2 .. m + n /\ c[i - 1] = "cr" /\ c[i] = "lf"
    BY <1>1 DEF Ends
  <2>2. CASE i <= m
    <3>1. c[i - 1] = d[i - 1] /\ c[i] = d[i]
      BY <1>1, <1>2, <2>1, <2>2
    <3> QED
      BY <1>1, <2>1, <2>2, <3>1 DEF Ends
  <2>3. CASE i = m + 1
    <3>1. m > 0 /\ c[i - 1] = d[m]
      BY <1>1, <1>2, <2>1, <2>3
    <3> QED
      BY <1>4, <2>1, <3>1
  <2>4. CASE i > m + 1
    <3>1. i - m \in 2 .. n /\ i - 1 \in m + 1 .. m + n /\ i \in m + 1 .. m + n /\ (i - 1) - m = (i - m) - 1
      BY <1>1, <2>1, <2>4
    <3>2. r[(i - m) - 1] = "cr" /\ r[i - m] = "lf"
      BY <1>3, <2>1, <3>1
    <3>3. i - m \in Ends(r) /\ i = m + (i - m)
      BY <1>1, <2>1, <3>1, <3>2 DEF Ends
    <3> QED
      BY <3>3
  <2> QED
    BY <1>1, <2>1, <2>2, <2>3, <2>4
<1>7. ASSUME NEW i \in Ends(d) PROVE i \in Ends(c)
  <2>1. i \in 2 .. m /\ d[i - 1] = "cr" /\ d[i] = "lf"
    BY DEF Ends
  <2>2. c[i - 1] = d[i - 1] /\ c[i] = d[i] /\ i \in 2 .. m + n
    BY <1>1, <1>2, <2>1
  <2> QED
    BY <1>1, <2>1, <2>2 DEF Ends
<1>8. ASSUME NEW j \in Ends(r) PROVE m + j \in Ends(c)
  <2>1. j \in 2 .. n /\ r[j - 1] = "cr" /\ r[j] = "lf"
    BY DEF Ends
  <2>2. /\ m + j \in m + 1 .. m + n /\ (m + j) - 1 \in m + 1 .. m + n /\ (m + j) - m = j
        /\ ((m + j) - 1) - m = j - 1 /\ m + j \in 2 .. m + n
    BY <1>1, <2>1
  <2>3. c[(m + j) - 1] = "cr" /\ c[m + j] = "lf"
    BY <1>3, <2>1, <2>2
  <2> QED
    BY <1>1, <2>2, <2>3 DEF Ends
<1> QED
  BY <1>6, <1>7, <1>8 DEF c

\* A nonempty set of positions has a first one.
LEMMA LeastPosition ==
  ASSUME NEW T, T \subseteq Nat, T # {}
  PROVE  \E x \in T : \A y \in T : x <= y
<1> DEFINE R == OpToRel(<, Nat)
<1>1. IsWellFoundedOn(R, Nat)
  BY NatLessThanWellFounded
<1>2. \A x, y \in Nat : y < x => <<y, x>> \in R
  BY DEF OpToRel
<1> HIDE DEF R
<1>3. PICK x \in T : \A y \in T : ~ (<<y, x>> \in R)
  BY <1>1, WFMin
<1>4. \A y \in T : ~ (y < x)
  BY <1>2, <1>3
<1> QED
  BY <1>4

\* do_decode finds the first delimiter, and cuts one line.
LEMMA FirstLine ==
  ASSUME NEW E, NEW s \in Seq(E)
  PROVE  /\ LineLength(s) \in Nat
         /\ LineLength(s) = 0 => Ends(s) = {}
         /\ LineLength(s) > 0 => /\ LineLength(s) \in 2 .. Len(s)
                                 /\ Ends(SubSeq(s, 1, LineLength(s))) = {LineLength(s)}
<1> DEFINE k == LineLength(s)
<1>1. Ends(s) \subseteq 2 .. Len(s) /\ Len(s) \in Nat
  BY EndsType, LenProperties
<1>2. CASE Ends(s) = {}
  BY <1>2 DEF LineLength
<1>3. CASE Ends(s) # {}
  <2>1. \E x \in Ends(s) : \A y \in Ends(s) : x <= y
    <3>1. Ends(s) \subseteq Nat
      BY <1>1
    <3> QED
      BY <1>3, <3>1, LeastPosition
  <2>2. k \in Ends(s) /\ \A y \in Ends(s) : k <= y
    BY <1>3, <2>1 DEF LineLength, Min
  <2> HIDE DEF k
  <2>3. k \in 2 .. Len(s)
    BY <1>1, <2>2
  <2> DEFINE l == SubSeq(s, 1, k)
  <2>4. Len(l) = k /\ \A i \in 1 .. k : l[i] = s[i]
    BY <1>1, <2>3, Cut
  <2> HIDE DEF l
  <2>5. k \in Ends(l)
    <3>1. s[k - 1] = "cr" /\ s[k] = "lf"
      BY <2>2 DEF Ends
    <3> QED
      BY <1>1, <2>3, <2>4, <3>1 DEF Ends
  <2>6. ASSUME NEW i \in Ends(l) PROVE i = k
    <3>1. i \in 2 .. k /\ l[i - 1] = "cr" /\ l[i] = "lf"
      BY <2>4 DEF Ends
    <3>2. i \in Ends(s)
      <4>1. s[i - 1] = "cr" /\ s[i] = "lf" /\ i \in 2 .. Len(s)
        BY <1>1, <2>3, <2>4, <3>1
      <4> QED
        BY <4>1 DEF Ends
    <3> QED
      BY <1>1, <2>2, <2>3, <3>1, <3>2
  <2> QED
    BY <1>3, <2>3, <2>5, <2>6 DEF l, k
<1> QED
  BY <1>2, <1>3

\* The last delimiter of whole lines is their end.
LEMMA LastLine ==
  ASSUME NEW E, NEW d \in Seq(E), (d = <<>>) \/ Len(d) \in Ends(d)
  PROVE  Max(Ends(d) \cup {0}) = Len(d)
<1> DEFINE S == Ends(d) \cup {0}
<1>1. Ends(d) \subseteq 2 .. Len(d) /\ Len(d) \in Nat
  BY EndsType, LenProperties
<1>2. Len(d) \in S /\ \A y \in S : Len(d) >= y
  BY <1>1
<1>3. Max(S) \in S /\ \A y \in S : Max(S) >= y
  BY <1>2 DEF Max
<1>4. S \subseteq Nat
  BY <1>1
<1> HIDE DEF S
<1>5. Max(S) \in Nat /\ Max(S) >= Len(d) /\ Len(d) >= Max(S)
  BY <1>2, <1>3, <1>4
<1>6. Max(S) = Len(d)
  BY <1>1, <1>5
<1> QED
  BY <1>6 DEF S

-----------------------------------------------------------------------------
(* Types.                                                                  *)

\* Completions without data.
LEMMA EventType ==
  ASSUME NEW k \in {"connect", "recv", "send"}, NEW r \in {"ok", "error"}
  PROVE  /\ Event(k, r, <<>>) \in Events
         /\ Event(k, r, <<>>).kind = k /\ Event(k, r, <<>>).res = r
<1>1. <<>> \in Seq(Bytes) /\ Len(<<>>) = 0 /\ ReceiveSize \in Nat
  BY EmptySeq, TcpSessionAssumption
<1>2. <<>> \in Reads
  BY <1>1 DEF Reads
<1> QED
  BY <1>2 DEF Event, Events

\* What closing a socket adds to its completions: failures, of reads and writes.
LEMMA AbortedType ==
  /\ Aborted \in Seq(Events)
  /\ \A i \in DOMAIN Aborted : Aborted[i].res = "error" /\ Aborted[i].kind # "connect"
<1> DEFINE F == {e \in Events : e.res = "error" /\ e.kind # "connect"}
           R == Event("recv", "error", <<>>)
           W == Event("send", "error", <<>>)
<1>1. R \in F /\ W \in F
  BY EventType
<1> HIDE DEF R, W, F
<1>2. <<>> \in Seq(F) /\ <<R>> \in Seq(F) /\ <<W>> \in Seq(F)
  BY <1>1
<1>3. PICK a \in {<<>>, <<R>>}, b \in {<<>>, <<W>>} : Aborted = a \o b
  BY DEF Aborted, R, W
<1>4. Aborted \in Seq(F)
  <2>1. a \in Seq(F) /\ b \in Seq(F)
    BY <1>2
  <2>2. a \o b \in Seq(F)
    BY <2>1, ConcatProperties
  <2> QED
    BY <1>3, <2>2
<1>5. \A i \in DOMAIN Aborted : Aborted[i] \in F
  BY <1>4, LenProperties
<1>6. F \subseteq Events
  BY DEF F
<1> QED
  BY <1>4, <1>5, <1>6, SeqMonotonic DEF F

\* The first completion, and those behind it.
LEMMA FirstEvent ==
  ASSUME ready \in Seq(Events), ready # <<>>
  PROVE  /\ Head(ready) = ready[1] /\ Head(ready) \in Events /\ Head(ready).data \in Reads
         /\ Tail(ready) \in Seq(Events) /\ Len(Tail(ready)) = Len(ready) - 1
         /\ \A i \in DOMAIN Tail(ready) : i + 1 \in DOMAIN ready /\ Tail(ready)[i] = ready[i + 1]
<1>1. /\ Head(ready) = ready[1] /\ Head(ready) \in Events
      /\ Tail(ready) \in Seq(Events) /\ Len(Tail(ready)) = Len(ready) - 1
      /\ \A i \in 1 .. Len(Tail(ready)) : Tail(ready)[i] = ready[i + 1]
  BY HeadTailProperties
<1>2. Len(ready) \in Nat /\ DOMAIN ready = 1 .. Len(ready) /\ DOMAIN Tail(ready) = 1 .. Len(Tail(ready))
  BY <1>1, LenProperties
<1>3. Head(ready).data \in Reads
  BY <1>1 DEF Events
<1> QED
  BY <1>1, <1>2, <1>3

\* Appending a completion.
LEMMA QueueEvent ==
  ASSUME ready \in Seq(Events), NEW e \in Events
  PROVE  /\ Append(ready, e) \in Seq(Events) /\ Append(ready, e) # <<>>
         /\ Append(ready, e)[Len(Append(ready, e))] = e
         /\ \A i \in DOMAIN Append(ready, e) :
              Append(ready, e)[i] = e \/ (i \in DOMAIN ready /\ Append(ready, e)[i] = ready[i])
<1>1. /\ Append(ready, e) \in Seq(Events) /\ Append(ready, e) # <<>>
      /\ Len(Append(ready, e)) = Len(ready) + 1
      /\ \A i \in 1 .. Len(ready) : Append(ready, e)[i] = ready[i]
      /\ Append(ready, e)[Len(ready) + 1] = e
  BY AppendProperties
<1>2. Len(ready) \in Nat /\ DOMAIN ready = 1 .. Len(ready) /\ DOMAIN Append(ready, e) = 1 .. Len(ready) + 1
  BY <1>1, LenProperties
<1> QED
  BY <1>1, <1>2

\* Closing a socket with operations in flight: failures come last.
LEMMA QueueAborted ==
  ASSUME ready \in Seq(Events)
  PROVE  /\ ready \o Aborted \in Seq(Events)
         /\ \A i \in DOMAIN (ready \o Aborted) :
              \/ i \in DOMAIN ready /\ (ready \o Aborted)[i] = ready[i]
              \/ (ready \o Aborted)[i].kind # "connect"
         /\ Aborted # <<>> => /\ ready \o Aborted # <<>>
                              /\ (ready \o Aborted)[Len(ready \o Aborted)].res = "error"
<1> DEFINE m == Len(ready)
           n == Len(Aborted)
           c == ready \o Aborted
<1>1. /\ c \in Seq(Events) /\ Len(c) = m + n
      /\ \A i \in 1 .. m + n : c[i] = IF i <= m THEN ready[i] ELSE Aborted[i - m]
  BY AbortedType, ConcatProperties
<1>2. /\ m \in Nat /\ n \in Nat /\ DOMAIN ready = 1 .. m /\ DOMAIN Aborted = 1 .. n
      /\ DOMAIN c = 1 .. m + n /\ (Aborted # <<>> => n > 0)
  BY <1>1, AbortedType, LenProperties, EmptySeq
<1> HIDE DEF c, m, n
<1>3. ASSUME NEW i \in DOMAIN c
      PROVE  (i \in DOMAIN ready /\ c[i] = ready[i]) \/ c[i].kind # "connect"
  <2>1. CASE i <= m
    BY <1>1, <1>2, <2>1
  <2>2. CASE i > m
    <3>1. i - m \in 1 .. n /\ c[i] = Aborted[i - m]
      BY <1>1, <1>2, <2>2
    <3> QED
      BY <1>2, <3>1, AbortedType
  <2> QED
    BY <1>2, <2>1, <2>2
<1>4. ASSUME Aborted # <<>> PROVE c # <<>> /\ c[Len(c)].res = "error"
  <2>1. n \in 1 .. n /\ m + n \in 1 .. m + n /\ (m + n) - m = n /\ ~ (m + n <= m)
    BY <1>2, <1>4
  <2>2. c[Len(c)] = Aborted[n] /\ Len(c) # 0
    BY <1>1, <1>2, <2>1
  <2> QED
    BY <1>2, <2>1, <2>2, AbortedType
<1> QED
  BY <1>1, <1>3, <1>4 DEF c

\* The session before any event.
LEMMA InitType == Init => TypeOK
<1> SUFFICES ASSUME Init PROVE TypeOK
  OBVIOUS
<1>1. Words
  BY DEF Init, Words, Callbacks
<1>2. Flags
  BY DEF Init, Flags
<1>3. stream \in Seq(Bytes)
  BY StreamBytes, EmptySeq DEF Init
<1>4. Data
  BY <1>3, EmptySeq DEF Init, Data
<1> QED
  BY <1>1, <1>2, <1>4 DEF TypeOK

\* Every step keeps the words.
LEMMA WordsStep ==
  ASSUME TypeOK, [Next]_vars
  PROVE  Words'
<1> USE DEF control, session, decoder, socket, resolver, flow
<1>1. CASE close
  BY <1>1 DEF close, abort, ClientClose, SessionClose, Allowed, Careful, TypeOK, Words, Callbacks
<1>2. CASE connect_address
  BY <1>2 DEF connect_address, do_connect, abort, Allowed, Careful, TypeOK, Words, Callbacks
<1>3. CASE connect_host
  BY <1>3 DEF connect_host, async_resolve, Allowed, Careful, TypeOK, Words, Callbacks
<1>4. CASE pause_receive
  BY <1>4 DEF pause_receive, Allowed, TypeOK, Words, Callbacks
<1>5. CASE resume_receive
  BY <1>5 DEF resume_receive, Allowed, TypeOK, Words, Callbacks
<1>6. CASE write
  BY <1>6 DEF write, Allowed, TypeOK, Words, Callbacks
<1>7. CASE on_socket_connect
  BY <1>7 DEF on_socket_connect, open_session, Dispatch, TypeOK, Words, Callbacks
<1>8. CASE on_acceptor_client
  BY <1>8 DEF on_acceptor_client, open_session, TypeOK, Words, Callbacks
<1>9. CASE session_opened
  BY <1>9 DEF session_opened, TypeOK, Words, Callbacks
<1>10. CASE on_resolver_address
  BY <1>10 DEF on_resolver_address, do_connect, abort, TypeOK, Words, Callbacks
<1>11. CASE on_socket_failed
  BY <1>11 DEF on_socket_failed, TypeOK, Words, Callbacks
<1>12. CASE on_socket_send
  BY <1>12 DEF on_socket_send, Dispatch, TypeOK, Words, Callbacks
<1>13. CASE session_failed
  BY <1>13 DEF session_failed, abort, Careful, TypeOK, Words, Callbacks
<1>14. CASE on_socket_receive
  BY <1>14 DEF on_socket_receive, feed, Dispatch, TypeOK, Words, Callbacks
<1>15. CASE do_decode
  BY <1>15 DEF do_decode, TypeOK, Words, Callbacks
<1>16. CASE message_handled
  BY <1>16 DEF message_handled, TypeOK, Words, Callbacks
<1>17. CASE receive_end
  BY <1>17 DEF receive_end, feed_end, TypeOK, Words, Callbacks
<1>18. CASE NativeConnect
  BY <1>18 DEF NativeConnect, TypeOK, Words, Callbacks
<1>19. CASE NativeReceive
  BY <1>19 DEF NativeReceive, TypeOK, Words, Callbacks
<1>20. CASE NativeWrite
  BY <1>20 DEF NativeWrite, TypeOK, Words, Callbacks
<1>21. CASE UNCHANGED vars
  BY <1>21 DEF vars, TypeOK, Words, Callbacks
<1> QED
  BY <1>1, <1>2, <1>3, <1>4, <1>5, <1>6, <1>7, <1>8, <1>9, <1>10, <1>11, <1>12, <1>13, <1>14,
     <1>15, <1>16, <1>17, <1>18, <1>19, <1>20, <1>21 DEF Next, Api, Handler, Native

\* Every step keeps the flags.
LEMMA FlagsStep ==
  ASSUME TypeOK, [Next]_vars
  PROVE  Flags'
<1> USE DEF control, session, decoder, socket, resolver, flow
<1>1. CASE close
  BY <1>1 DEF close, abort, ClientClose, SessionClose, Allowed, Careful, TypeOK, Flags
<1>2. CASE connect_address
  BY <1>2 DEF connect_address, do_connect, abort, Allowed, Careful, TypeOK, Flags
<1>3. CASE connect_host
  BY <1>3 DEF connect_host, async_resolve, Allowed, Careful, TypeOK, Flags
<1>4. CASE pause_receive
  BY <1>4 DEF pause_receive, Allowed, TypeOK, Flags
<1>5. CASE resume_receive
  BY <1>5 DEF resume_receive, Allowed, TypeOK, Flags
<1>6. CASE write
  BY <1>6 DEF write, Allowed, TypeOK, Flags
<1>7. CASE on_socket_connect
  BY <1>7 DEF on_socket_connect, open_session, Dispatch, TypeOK, Flags
<1>8. CASE on_acceptor_client
  BY <1>8 DEF on_acceptor_client, open_session, TypeOK, Flags
<1>9. CASE session_opened
  BY <1>9 DEF session_opened, TypeOK, Flags
<1>10. CASE on_resolver_address
  BY <1>10 DEF on_resolver_address, do_connect, abort, TypeOK, Flags
<1>11. CASE on_socket_failed
  BY <1>11 DEF on_socket_failed, TypeOK, Flags
<1>12. CASE on_socket_send
  BY <1>12 DEF on_socket_send, Dispatch, TypeOK, Flags
<1>13. CASE session_failed
  BY <1>13 DEF session_failed, abort, Careful, TypeOK, Flags
<1>14. CASE on_socket_receive
  BY <1>14 DEF on_socket_receive, feed, Dispatch, TypeOK, Flags
<1>15. CASE do_decode
  BY <1>15 DEF do_decode, TypeOK, Flags
<1>16. CASE message_handled
  BY <1>16 DEF message_handled, TypeOK, Flags
<1>17. CASE receive_end
  BY <1>17 DEF receive_end, feed_end, TypeOK, Flags
<1>18. CASE NativeConnect
  BY <1>18 DEF NativeConnect, TypeOK, Flags
<1>19. CASE NativeReceive
  BY <1>19 DEF NativeReceive, TypeOK, Flags
<1>20. CASE NativeWrite
  BY <1>20 DEF NativeWrite, TypeOK, Flags
<1>21. CASE UNCHANGED vars
  BY <1>21 DEF vars, TypeOK, Flags
<1> QED
  BY <1>1, <1>2, <1>3, <1>4, <1>5, <1>6, <1>7, <1>8, <1>9, <1>10, <1>11, <1>12, <1>13, <1>14,
     <1>15, <1>16, <1>17, <1>18, <1>19, <1>20, <1>21 DEF Next, Api, Handler, Native

\* Every step keeps the data.
LEMMA DataStep ==
  ASSUME TypeOK, [Next]_vars
  PROVE  Data'
<1> USE DEF control, session, decoder, socket, resolver, flow
<1>1. CASE close
  <2>1. ready \o Aborted \in Seq(Events)
    BY AbortedType, ConcatProperties DEF TypeOK, Data
  <2> QED
    BY <1>1, <2>1, EmptySeq DEF close, abort, ClientClose, SessionClose, TypeOK, Data
<1>2. CASE connect_address
  BY <1>2, EmptySeq DEF connect_address, do_connect, abort, TypeOK, Data
<1>3. CASE connect_host
  BY <1>3 DEF connect_host, async_resolve, Allowed, Careful, TypeOK, Data
<1>4. CASE pause_receive
  BY <1>4 DEF pause_receive, Allowed, TypeOK, Data
<1>5. CASE resume_receive
  BY <1>5 DEF resume_receive, Allowed, TypeOK, Data
<1>6. CASE write
  BY <1>6 DEF write, Allowed, TypeOK, Data
<1>7. CASE on_socket_connect
  BY <1>7, EmptySeq, FirstEvent DEF on_socket_connect, open_session, Dispatch, TypeOK, Data
<1>8. CASE on_acceptor_client
  <2>1. UNCHANGED <<ready, stream, rest>>
    BY <1>8 DEF on_acceptor_client
  <2>2. \/ UNCHANGED <<m_buffer, input, delivered, count>>
        \/ m_buffer' = <<>> /\ input' = <<>> /\ delivered' = <<>> /\ count' = 0
    BY <1>8 DEF on_acceptor_client, open_session
  <2>3. CASE UNCHANGED <<m_buffer, input, delivered, count>>
    BY <2>1, <2>3 DEF TypeOK, Data
  <2>4. CASE m_buffer' = <<>> /\ input' = <<>> /\ delivered' = <<>> /\ count' = 0
    BY <2>1, <2>4, EmptySeq DEF TypeOK, Data
  <2> QED
    BY <2>2, <2>3, <2>4
<1>9. CASE session_opened
  BY <1>9, EventType, QueueEvent DEF session_opened, TypeOK, Data
<1>10. CASE on_resolver_address
  BY <1>10, EmptySeq DEF on_resolver_address, do_connect, abort, TypeOK, Data
<1>11. CASE on_socket_failed
  BY <1>11, FirstEvent DEF on_socket_failed, TypeOK, Data
<1>12. CASE on_socket_send
  BY <1>12, FirstEvent DEF on_socket_send, Dispatch, TypeOK, Data
<1>13. CASE session_failed
  BY <1>13, EmptySeq DEF session_failed, abort, TypeOK, Data
<1>14. CASE on_socket_receive
  <2> DEFINE data == Head(ready).data
  <2>1. ready # <<>> /\ ready' = Tail(ready) /\ input' = input \o data /\ feed
        /\ UNCHANGED <<stream, delivered, count>>
    BY <1>14 DEF on_socket_receive, Dispatch
  <2>2. Tail(ready) \in Seq(Events) /\ data \in Seq(Bytes)
    BY <2>1, FirstEvent DEF TypeOK, Data, Reads
  <2>3. input \o data \in Seq(Bytes) /\ m_buffer \o data \in Seq(Bytes)
    BY <2>2, ConcatProperties DEF TypeOK, Data
  <2>4. m_buffer' \in Seq(Bytes) /\ rest' \in Seq(Bytes)
    BY <2>1, <2>3, EmptySeq DEF feed, TypeOK, Data
  <2> QED
    BY <2>1, <2>2, <2>3, <2>4 DEF TypeOK, Data
<1>15. CASE do_decode
  <2> DEFINE k == LineLength(rest)
  <2>1. /\ k > 0 /\ delivered' = delivered \o SubSeq(rest, 1, k) /\ count' = count + 1
        /\ rest' = SubSeq(rest, k + 1, Len(rest))
        /\ UNCHANGED <<ready, stream, m_buffer, input>>
    BY <1>15 DEF do_decode
  <2>2. rest \in Seq(Bytes) /\ Len(rest) \in Nat /\ delivered \in Seq(Bytes)
    BY LenProperties DEF TypeOK, Data
  <2>3. k \in 0 .. Len(rest)
    BY <2>1, <2>2, FirstLine
  <2> HIDE DEF k
  <2>4. SubSeq(rest, 1, k) \in Seq(Bytes) /\ SubSeq(rest, k + 1, Len(rest)) \in Seq(Bytes)
    BY <2>2, <2>3, Cut
  <2>5. delivered \o SubSeq(rest, 1, k) \in Seq(Bytes)
    BY <2>2, <2>4, ConcatProperties
  <2> QED
    BY <2>1, <2>4, <2>5 DEF TypeOK, Data
<1>16. CASE message_handled
  BY <1>16 DEF message_handled, TypeOK, Data
<1>17. CASE receive_end
  <2>1. m_buffer \o rest \in Seq(Bytes)
    BY ConcatProperties DEF TypeOK, Data
  <2> QED
    BY <1>17, <2>1, EmptySeq DEF receive_end, feed_end, TypeOK, Data
<1>18. CASE NativeConnect
  <2>1. /\ \E r \in {"ok", "error"} : ready' = Append(ready, Event("connect", r, <<>>))
        /\ stream' \in Streams \/ stream' = stream
        /\ UNCHANGED <<m_buffer, rest, input, delivered, count>>
    BY <1>18 DEF NativeConnect
  <2>2. ready' \in Seq(Events)
    BY <2>1, EventType, QueueEvent DEF TypeOK, Data
  <2> QED
    BY <2>1, <2>2, StreamBytes DEF TypeOK, Data
<1>19. CASE NativeReceive
  <2>1. UNCHANGED <<m_buffer, rest, input, delivered, count>>
    BY <1>19 DEF NativeReceive
  <2>2. stream \in Seq(Bytes) /\ Len(stream) \in Nat /\ ready \in Seq(Events)
    BY LenProperties DEF TypeOK, Data
  <2>3. ASSUME NEW n \in 1 .. Min({ReceiveSize, Len(stream)}),
               ready' = Append(ready, Event("recv", "ok", SubSeq(stream, 1, n))),
               stream' = SubSeq(stream, n + 1, Len(stream))
        PROVE  Data'
    <3>1. n \in 0 .. Len(stream) /\ n <= ReceiveSize
      BY <2>2, ReadLength
    <3>2. /\ SubSeq(stream, 1, n) \in Seq(Bytes) /\ Len(SubSeq(stream, 1, n)) = n
          /\ SubSeq(stream, n + 1, Len(stream)) \in Seq(Bytes)
      BY <2>2, <3>1, Cut
    <3>3. Event("recv", "ok", SubSeq(stream, 1, n)) \in Events
      BY <3>1, <3>2 DEF Event, Events, Reads
    <3>4. ready' \in Seq(Events)
      BY <2>2, <2>3, <3>3, QueueEvent
    <3> QED
      BY <2>1, <2>3, <3>2, <3>4 DEF TypeOK, Data
  <2>4. ASSUME ready' = Append(ready, Event("recv", "error", <<>>)), stream' = stream
        PROVE  Data'
    <3>1. ready' \in Seq(Events)
      BY <2>2, <2>4, EventType, QueueEvent
    <3> QED
      BY <2>1, <2>4, <3>1 DEF TypeOK, Data
  <2> QED
    BY <1>19, <2>3, <2>4 DEF NativeReceive
<1>20. CASE NativeWrite
  BY <1>20, EventType, QueueEvent DEF NativeWrite, TypeOK, Data
<1>21. CASE UNCHANGED vars
  BY <1>21 DEF vars, TypeOK, Data
<1> QED
  BY <1>1, <1>2, <1>3, <1>4, <1>5, <1>6, <1>7, <1>8, <1>9, <1>10, <1>11, <1>12, <1>13, <1>14,
     <1>15, <1>16, <1>17, <1>18, <1>19, <1>20, <1>21 DEF Next, Api, Handler, Native

\* Appending a completion of a kind.
LEMMA QueuedKinds ==
  ASSUME ready \in Seq(Events), NEW k, NEW r, NEW d
  PROVE  \A i \in DOMAIN Append(ready, Event(k, r, d)) :
           \/ Append(ready, Event(k, r, d))[i].kind = k /\ Append(ready, Event(k, r, d))[i].res = r
           \/ i \in DOMAIN ready /\ Append(ready, Event(k, r, d))[i] = ready[i]
<1> DEFINE e == Event(k, r, d)
<1>1. e.kind = k /\ e.res = r
  BY DEF Event
<1> HIDE DEF e
<1>2. DOMAIN ready = 1 .. Len(ready) /\ Len(ready) \in Nat
  BY LenProperties
<1>3. /\ DOMAIN Append(ready, e) = 1 .. Len(ready) + 1
      /\ \A i \in 1 .. Len(ready) : Append(ready, e)[i] = ready[i]
      /\ Append(ready, e)[Len(ready) + 1] = e
  OBVIOUS
<1> QED
  BY <1>1, <1>2, <1>3 DEF e

\* Every step keeps the stages of a server's session.
LEMMA StagesStep ==
  ASSUME TypeOK, ServerStages, [Next]_vars
  PROVE  ServerStages'
<1> USE DEF control, session, decoder, socket, resolver, flow
<1>1. CASE close
  <2>1. CASE role = "client"
    BY <1>1, <2>1 DEF close, ServerStages, TypeOK, Words, Callbacks
  <2>2. CASE role = "server"
    <3>1. /\ native' = "closed" /\ ready' \in {ready, ready \o Aborted} /\ resolving' = resolving
          /\ UNCHANGED <<role, registered, receiving, writing, pc>>
          /\ registered = "yes" \/ pc = "on_session_open"
      BY <1>1, <2>2 DEF close, SessionClose, Allowed
    <3>2. \A i \in DOMAIN ready' : ready'[i].kind # "connect"
      BY <2>2, <3>1, QueueAborted DEF ServerStages, TypeOK, Data
    <3> QED
      BY <2>2, <3>1, <3>2 DEF ServerStages, TypeOK, Words, Callbacks
  <2> QED
    BY <2>1, <2>2 DEF TypeOK, Words
<1>2. CASE connect_address
  BY <1>2 DEF connect_address, do_connect, abort, Allowed, Careful, ServerStages, TypeOK, Words, Callbacks
<1>3. CASE connect_host
  BY <1>3 DEF connect_host, async_resolve, Allowed, Careful, ServerStages, TypeOK, Words, Callbacks
<1>4. CASE pause_receive
  BY <1>4 DEF pause_receive, Allowed, ServerStages, TypeOK, Words, Callbacks
<1>5. CASE resume_receive
  BY <1>5 DEF resume_receive, Allowed, ServerStages, TypeOK, Words, Callbacks
<1>6. CASE write
  BY <1>6 DEF write, Allowed, ServerStages, TypeOK, Words, Callbacks
<1>7. CASE on_socket_connect
  <2>1. ready # <<>> /\ Head(ready).kind = "connect" /\ registered' = registered /\ role' = role
    BY <1>7 DEF on_socket_connect, Dispatch
  <2>2. ready[1].kind = "connect" /\ 1 \in DOMAIN ready
    BY <2>1, FirstEvent, LenProperties, EmptySeq DEF TypeOK, Data
  <2>3. role = "client"
    BY <2>2 DEF ServerStages, TypeOK, Words, Callbacks
  <2> QED
    BY <2>1, <2>3 DEF ServerStages, TypeOK, Words, Callbacks
<1>8. CASE on_acceptor_client
  BY <1>8 DEF on_acceptor_client, open_session, ServerStages, TypeOK, Words, Callbacks
<1>9. CASE session_opened
  <2>1. \A i \in DOMAIN ready' :
          ready'[i].kind = "recv" \/ (i \in DOMAIN ready /\ ready'[i] = ready[i])
    BY <1>9, QueuedKinds DEF session_opened, TypeOK, Data
  <2> QED
    BY <1>9, <2>1 DEF session_opened, ServerStages, TypeOK, Words, Callbacks
<1>10. CASE on_resolver_address
  BY <1>10 DEF on_resolver_address, do_connect, abort, ServerStages, TypeOK, Words, Callbacks
<1>11. CASE on_socket_failed
  <2>1. ready # <<>> /\ ready' = Tail(ready)
    BY <1>11 DEF on_socket_failed
  <2>2. \A i \in DOMAIN ready' : \E j \in DOMAIN ready : ready'[i] = ready[j]
    BY <2>1, FirstEvent DEF TypeOK, Data
  <2> QED
    BY <1>11, <2>1, <2>2 DEF on_socket_failed, ServerStages, TypeOK, Words, Callbacks
<1>12. CASE on_socket_send
  <2>1. ready # <<>> /\ ready' = Tail(ready)
    BY <1>12 DEF on_socket_send, Dispatch
  <2>2. \A i \in DOMAIN ready' : \E j \in DOMAIN ready : ready'[i] = ready[j]
    BY <2>1, FirstEvent DEF TypeOK, Data
  <2> QED
    BY <1>12, <2>1, <2>2 DEF on_socket_send, Dispatch, ServerStages, TypeOK, Words, Callbacks
<1>13. CASE session_failed
  BY <1>13 DEF session_failed, abort, Careful, ServerStages, TypeOK, Words, Callbacks
<1>14. CASE on_socket_receive
  <2>1. ready # <<>> /\ ready' = Tail(ready)
    BY <1>14 DEF on_socket_receive, feed, Dispatch
  <2>2. \A i \in DOMAIN ready' : \E j \in DOMAIN ready : ready'[i] = ready[j]
    BY <2>1, FirstEvent DEF TypeOK, Data
  <2> QED
    BY <1>14, <2>1, <2>2 DEF on_socket_receive, feed, Dispatch, ServerStages, TypeOK, Words, Callbacks
<1>15. CASE do_decode
  BY <1>15 DEF do_decode, ServerStages, TypeOK, Words, Callbacks
<1>16. CASE message_handled
  BY <1>16 DEF message_handled, ServerStages, TypeOK, Words, Callbacks
<1>17. CASE receive_end
  BY <1>17 DEF receive_end, feed_end, ServerStages, TypeOK, Words, Callbacks
<1>18. CASE NativeConnect
  BY <1>18 DEF NativeConnect, ServerStages, TypeOK, Words, Callbacks
<1>19. CASE NativeReceive
  <2>1. \E r, d : ready' = Append(ready, Event("recv", r, d))
    BY <1>19 DEF NativeReceive
  <2>2. \A i \in DOMAIN ready' :
          ready'[i].kind = "recv" \/ (i \in DOMAIN ready /\ ready'[i] = ready[i])
    BY <2>1, QueuedKinds DEF TypeOK, Data
  <2> QED
    BY <1>19, <2>2 DEF NativeReceive, ServerStages, TypeOK, Words, Callbacks
<1>20. CASE NativeWrite
  <2>1. \E r, d : ready' = Append(ready, Event("send", r, d))
    BY <1>20 DEF NativeWrite
  <2>2. \A i \in DOMAIN ready' :
          ready'[i].kind = "send" \/ (i \in DOMAIN ready /\ ready'[i] = ready[i])
    BY <2>1, QueuedKinds DEF TypeOK, Data
  <2> QED
    BY <1>20, <2>2 DEF NativeWrite, ServerStages, TypeOK, Words, Callbacks
<1>21. CASE UNCHANGED vars
  BY <1>21 DEF vars, ServerStages, TypeOK, Words, Callbacks
<1> QED
  BY <1>1, <1>2, <1>3, <1>4, <1>5, <1>6, <1>7, <1>8, <1>9, <1>10, <1>11, <1>12, <1>13, <1>14,
     <1>15, <1>16, <1>17, <1>18, <1>19, <1>20, <1>21 DEF Next, Api, Handler, Native

\* Every step leaves an open session reading or paused.
LEMMA ReadStep ==
  ASSUME TypeOK, ReadOrPaused, [Next]_vars
  PROVE  ReadOrPaused'
<1> USE DEF control, session, decoder, socket, resolver, flow
<1>1. CASE close
  BY <1>1 DEF close, abort, ClientClose, SessionClose, Allowed, Careful, ReadOrPaused, TypeOK, Words, Callbacks
<1>2. CASE connect_address
  BY <1>2 DEF connect_address, do_connect, abort, Allowed, Careful, ReadOrPaused, TypeOK, Words, Callbacks
<1>3. CASE connect_host
  BY <1>3 DEF connect_host, async_resolve, Allowed, Careful, ReadOrPaused, TypeOK, Words, Callbacks
<1>4. CASE pause_receive
  BY <1>4 DEF pause_receive, Allowed, ReadOrPaused, TypeOK, Words, Callbacks
<1>5. CASE resume_receive
  BY <1>5 DEF resume_receive, Allowed, ReadOrPaused, TypeOK, Words, Callbacks
<1>6. CASE write
  BY <1>6 DEF write, Allowed, ReadOrPaused, TypeOK, Words, Callbacks
<1>7. CASE on_socket_connect
  BY <1>7 DEF on_socket_connect, open_session, Dispatch, ReadOrPaused, TypeOK, Words, Callbacks
<1>8. CASE on_acceptor_client
  BY <1>8 DEF on_acceptor_client, open_session, ReadOrPaused, TypeOK, Words, Callbacks
<1>9. CASE session_opened
  BY <1>9 DEF session_opened, ReadOrPaused, TypeOK, Words, Callbacks
<1>10. CASE on_resolver_address
  BY <1>10 DEF on_resolver_address, do_connect, abort, ReadOrPaused, TypeOK, Words, Callbacks
<1>11. CASE on_socket_failed
  BY <1>11 DEF on_socket_failed, ReadOrPaused, TypeOK, Words, Callbacks
<1>12. CASE on_socket_send
  BY <1>12 DEF on_socket_send, Dispatch, ReadOrPaused, TypeOK, Words, Callbacks
<1>13. CASE session_failed
  BY <1>13 DEF session_failed, abort, Careful, ReadOrPaused, TypeOK, Words, Callbacks
<1>14. CASE on_socket_receive
  BY <1>14 DEF on_socket_receive, feed, Dispatch, ReadOrPaused, TypeOK, Words, Callbacks
<1>15. CASE do_decode
  BY <1>15 DEF do_decode, ReadOrPaused, TypeOK, Words, Callbacks
<1>16. CASE message_handled
  BY <1>16 DEF message_handled, ReadOrPaused, TypeOK, Words, Callbacks
<1>17. CASE receive_end
  BY <1>17 DEF receive_end, feed_end, ReadOrPaused, TypeOK, Words, Callbacks
<1>18. CASE NativeConnect
  BY <1>18 DEF NativeConnect, ReadOrPaused, TypeOK, Words, Callbacks
<1>19. CASE NativeReceive
  BY <1>19 DEF NativeReceive, ReadOrPaused, TypeOK, Words, Callbacks
<1>20. CASE NativeWrite
  BY <1>20 DEF NativeWrite, ReadOrPaused, TypeOK, Words, Callbacks
<1>21. CASE UNCHANGED vars
  BY <1>21 DEF vars, ReadOrPaused, TypeOK, Words, Callbacks
<1> QED
  BY <1>1, <1>2, <1>3, <1>4, <1>5, <1>6, <1>7, <1>8, <1>9, <1>10, <1>11, <1>12, <1>13, <1>14,
     <1>15, <1>16, <1>17, <1>18, <1>19, <1>20, <1>21 DEF Next, Api, Handler, Native

\* A completion that succeeds leaves the failure behind it where it is, last.
LEMMA LastStays ==
  ASSUME ready \in Seq(Events), ready # <<>>, Head(ready).res = "ok", ready[Len(ready)].res = "error"
  PROVE  Tail(ready) # <<>> /\ Tail(ready)[Len(Tail(ready))].res = "error"
<1> DEFINE t == Tail(ready)
           m == Len(t)
<1>1. /\ Head(ready) = ready[1] /\ m = Len(ready) - 1 /\ t \in Seq(Events)
      /\ \A i \in DOMAIN t : t[i] = ready[i + 1]
  BY FirstEvent
<1>2. Len(ready) \in Nat /\ DOMAIN t = 1 .. m /\ Len(ready) # 0
  BY <1>1, LenProperties, EmptySeq
<1> HIDE DEF t, m
<1>3. Len(ready) # 1
  BY <1>1
<1>4. m \in DOMAIN t /\ m + 1 = Len(ready)
  BY <1>1, <1>2, <1>3
<1>5. t # <<>> /\ t[m].res = "error"
  BY <1>1, <1>4
<1> QED
  BY <1>5 DEF t, m

\* Every step keeps the failure of a server's session queued.
LEMMA FailureStep ==
  ASSUME TypeOK, ServerStages, FailureQueued, [Next]_vars
  PROVE  FailureQueued'
<1> USE DEF control, session, decoder, socket, resolver, flow
<1>1. CASE close
  <2>1. CASE role = "client"
    BY <1>1, <2>1 DEF close, FailureQueued, ServerStages, TypeOK, Words, Callbacks
  <2>2. CASE role = "server"
    <3>1. /\ native' = "closed" /\ ready' = ready \o Aborted /\ cut' = (Aborted = <<>>)
          /\ UNCHANGED role
      BY <1>1, <2>2 DEF close, SessionClose
    <3>2. cut' \/ (ready' # <<>> /\ ready'[Len(ready')].res = "error")
      BY <3>1, QueueAborted DEF TypeOK, Data
    <3> QED
      BY <3>1, <3>2 DEF FailureQueued
  <2> QED
    BY <2>1, <2>2 DEF TypeOK, Words
<1>2. CASE connect_address
  BY <1>2 DEF connect_address, do_connect, abort, Allowed, Careful, FailureQueued, ServerStages, TypeOK, Words, Callbacks
<1>3. CASE connect_host
  BY <1>3 DEF connect_host, async_resolve, Allowed, Careful, FailureQueued, ServerStages, TypeOK, Words, Callbacks
<1>4. CASE pause_receive
  BY <1>4 DEF pause_receive, Allowed, FailureQueued, ServerStages, TypeOK, Words, Callbacks
<1>5. CASE resume_receive
  BY <1>5 DEF resume_receive, Allowed, FailureQueued, ServerStages, TypeOK, Words, Callbacks
<1>6. CASE write
  BY <1>6 DEF write, Allowed, FailureQueued, ServerStages, TypeOK, Words, Callbacks
<1>7. CASE on_socket_connect
  BY <1>7 DEF on_socket_connect, open_session, FailureQueued
<1>8. CASE on_acceptor_client
  BY <1>8 DEF on_acceptor_client, open_session, FailureQueued, ServerStages, TypeOK, Words, Callbacks
<1>9. CASE session_opened
  <2>1. ready' = ready \/ (ready' # <<>> /\ ready'[Len(ready')].res = "error")
    BY <1>9, EventType, QueueEvent DEF session_opened, TypeOK, Data
  <2> QED
    BY <1>9, <2>1 DEF session_opened, FailureQueued, ServerStages, TypeOK, Words, Callbacks
<1>10. CASE on_resolver_address
  BY <1>10 DEF on_resolver_address, do_connect, abort, FailureQueued, ServerStages, TypeOK, Words, Callbacks
<1>11. CASE on_socket_failed
  BY <1>11 DEF on_socket_failed, FailureQueued, ServerStages, TypeOK, Words, Callbacks
<1>12. CASE on_socket_send
  <2>1. ready # <<>> /\ Head(ready).res = "ok" /\ ready' = Tail(ready)
        /\ UNCHANGED <<role, registered, native, pc, cut>>
    BY <1>12 DEF on_socket_send, Dispatch, control
  <2>2. ready[Len(ready)].res = "error" => ready' # <<>> /\ ready'[Len(ready')].res = "error"
    BY <2>1, LastStays DEF TypeOK, Data
  <2> QED
    BY <2>1, <2>2 DEF FailureQueued, ServerStages, TypeOK, Words, Callbacks
<1>13. CASE session_failed
  BY <1>13 DEF session_failed, abort, Careful, FailureQueued, ServerStages, TypeOK, Words, Callbacks
<1>14. CASE on_socket_receive
  <2>1. ready # <<>> /\ Head(ready).res = "ok" /\ ready' = Tail(ready)
        /\ UNCHANGED <<role, registered, native, cut>>
    BY <1>14 DEF on_socket_receive, Dispatch
  <2>2. ready[Len(ready)].res = "error" => ready' # <<>> /\ ready'[Len(ready')].res = "error"
    BY <2>1, LastStays DEF TypeOK, Data
  <2>3. pc = "idle"
    BY <1>14 DEF on_socket_receive, Dispatch
  <2> QED
    BY <2>1, <2>2, <2>3 DEF FailureQueued, ServerStages, TypeOK, Words, Callbacks
<1>15. CASE do_decode
  BY <1>15 DEF do_decode, FailureQueued, ServerStages, TypeOK, Words, Callbacks
<1>16. CASE message_handled
  BY <1>16 DEF message_handled, FailureQueued, ServerStages, TypeOK, Words, Callbacks
<1>17. CASE receive_end
  BY <1>17 DEF receive_end, feed_end, FailureQueued, ServerStages, TypeOK, Words, Callbacks
<1>18. CASE NativeConnect
  BY <1>18 DEF NativeConnect, FailureQueued, ServerStages, TypeOK, Words, Callbacks
<1>19. CASE NativeReceive
  BY <1>19 DEF NativeReceive, FailureQueued, ServerStages, TypeOK, Words, Callbacks
<1>20. CASE NativeWrite
  BY <1>20 DEF NativeWrite, FailureQueued, ServerStages, TypeOK, Words, Callbacks
<1>21. CASE UNCHANGED vars
  BY <1>21 DEF vars, FailureQueued, ServerStages, TypeOK, Words, Callbacks
<1> QED
  BY <1>1, <1>2, <1>3, <1>4, <1>5, <1>6, <1>7, <1>8, <1>9, <1>10, <1>11, <1>12, <1>13, <1>14,
     <1>15, <1>16, <1>17, <1>18, <1>19, <1>20, <1>21 DEF Next, Api, Handler, Native

\* Every step keeps feed's assertion on the size of m_buffer.
LEMMA BufferStep ==
  ASSUME TypeOK, BufferBounded, [Next]_vars
  PROVE  BufferBounded'
<1> USE DEF control, session, decoder, socket, resolver, flow
<1>1. CASE close
  BY <1>1, EmptySeq, TcpSessionAssumption DEF close, abort, ClientClose, SessionClose, Allowed, Careful, BufferBounded, Decoding, TypeOK, Words, Callbacks
<1>2. CASE connect_address
  BY <1>2, EmptySeq, TcpSessionAssumption DEF connect_address, do_connect, abort, Allowed, Careful, BufferBounded, Decoding, TypeOK, Words, Callbacks
<1>3. CASE connect_host
  BY <1>3 DEF connect_host, async_resolve, Allowed, Careful, BufferBounded, Decoding, TypeOK, Words, Callbacks
<1>4. CASE pause_receive
  BY <1>4 DEF pause_receive, Allowed, BufferBounded, Decoding, TypeOK, Words, Callbacks
<1>5. CASE resume_receive
  BY <1>5 DEF resume_receive, Allowed, BufferBounded, Decoding, TypeOK, Words, Callbacks
<1>6. CASE write
  BY <1>6 DEF write, Allowed, BufferBounded, Decoding, TypeOK, Words, Callbacks
<1>7. CASE on_socket_connect
  BY <1>7, EmptySeq, TcpSessionAssumption DEF on_socket_connect, open_session, Dispatch, BufferBounded, Decoding, TypeOK, Words, Callbacks
<1>8. CASE on_acceptor_client
  <2>1. m_buffer' \in {m_buffer, <<>>} /\ pc \in {"idle"} /\ pc' \in {pc, "on_session_open"}
    BY <1>8 DEF on_acceptor_client, open_session, decoder
  <2> QED
    BY <2>1, EmptySeq, TcpSessionAssumption DEF BufferBounded, Decoding
<1>9. CASE session_opened
  BY <1>9 DEF session_opened, BufferBounded, Decoding, TypeOK, Words, Callbacks
<1>10. CASE on_resolver_address
  BY <1>10, EmptySeq, TcpSessionAssumption DEF on_resolver_address, do_connect, abort, BufferBounded, Decoding, TypeOK, Words, Callbacks
<1>11. CASE on_socket_failed
  BY <1>11 DEF on_socket_failed, BufferBounded, Decoding, TypeOK, Words, Callbacks
<1>12. CASE on_socket_send
  BY <1>12 DEF on_socket_send, Dispatch, BufferBounded, Decoding, TypeOK, Words, Callbacks
<1>13. CASE session_failed
  BY <1>13, EmptySeq, TcpSessionAssumption DEF session_failed, abort, Careful, BufferBounded, Decoding, TypeOK, Words, Callbacks
<1>14. CASE on_socket_receive
  <2> DEFINE data == Head(ready).data
  <2>1. feed /\ ready # <<>>
    BY <1>14 DEF on_socket_receive, Dispatch
  <2>2. m_buffer \in Seq(Bytes) /\ data \in Seq(Bytes) /\ Len(data) <= ReceiveSize
    BY <2>1, FirstEvent DEF TypeOK, Data, Reads
  <2>3. /\ Len(m_buffer) \in Nat /\ Len(data) \in Nat /\ Len(m_buffer \o data) = Len(m_buffer) + Len(data)
        /\ m_buffer = <<>> => Len(m_buffer) = 0
    BY <2>2, LenProperties, ConcatProperties, EmptySeq
  <2>4. m_max_buffer_size \in Nat /\ ReceiveSize \in Nat /\ ReceiveSize <= m_max_buffer_size
    BY TcpSessionAssumption
  <2>5. CASE m_buffer # <<>> /\ Len(m_buffer) + Len(data) > m_max_buffer_size
    <3>1. m_buffer' = <<>> /\ pc' = "on_session_error"
      BY <2>1, <2>5 DEF feed
    <3> QED
      BY <2>4, <3>1, EmptySeq DEF BufferBounded, Decoding
  <2>6. CASE ~(m_buffer # <<>> /\ Len(m_buffer) + Len(data) > m_max_buffer_size)
    <3>1. /\ m_buffer' = IF m_buffer = <<>> THEN <<>> ELSE m_buffer \o data
          /\ src' = IF m_buffer = <<>> THEN "data" ELSE "buffer"
          /\ rest' = m_buffer \o data
      BY <2>1, <2>6 DEF feed
    <3>2. Len(m_buffer \o data) <= m_max_buffer_size
      BY <2>2, <2>3, <2>4, <2>6
    <3> QED
      BY <2>4, <3>1, <3>2, EmptySeq DEF BufferBounded, Decoding
  <2> QED
    BY <2>5, <2>6
<1>15. CASE do_decode
  <2> DEFINE k == LineLength(rest)
  <2>1. /\ rest \in Seq(Bytes) /\ Len(rest) \in Nat /\ pc = "decode" /\ pc' = "on_session_receive" /\ k > 0
        /\ rest' = SubSeq(rest, k + 1, Len(rest)) /\ UNCHANGED <<src, m_buffer>>
    BY <1>15, LenProperties DEF do_decode, decoder, TypeOK, Data
  <2>2. k \in 0 .. Len(rest)
    BY <2>1, FirstLine
  <2> HIDE DEF k
  <2>3. Len(rest') = Len(rest) - k
    BY <2>1, <2>2, Cut
  <2> QED
    BY <2>1, <2>2, <2>3, TcpSessionAssumption DEF BufferBounded, Decoding
<1>16. CASE message_handled
  BY <1>16 DEF message_handled, BufferBounded, Decoding, TypeOK, Words, Callbacks
<1>17. CASE receive_end
  <2>1. pc = "decode" /\ feed_end /\ pc' = "idle"
    BY <1>17 DEF receive_end
  <2>2. m_buffer = <<>> => m_buffer \o rest = rest
    BY ConcatEmptySeq DEF TypeOK, Data
  <2> QED
    BY <2>1, <2>2 DEF feed_end, BufferBounded, Decoding
<1>18. CASE NativeConnect
  BY <1>18 DEF NativeConnect, BufferBounded, Decoding, TypeOK, Words, Callbacks
<1>19. CASE NativeReceive
  BY <1>19 DEF NativeReceive, BufferBounded, Decoding, TypeOK, Words, Callbacks
<1>20. CASE NativeWrite
  BY <1>20 DEF NativeWrite, BufferBounded, Decoding, TypeOK, Words, Callbacks
<1>21. CASE UNCHANGED vars
  BY <1>21 DEF vars, BufferBounded, Decoding, TypeOK, Words, Callbacks
<1> QED
  BY <1>1, <1>2, <1>3, <1>4, <1>5, <1>6, <1>7, <1>8, <1>9, <1>10, <1>11, <1>12, <1>13, <1>14,
     <1>15, <1>16, <1>17, <1>18, <1>19, <1>20, <1>21 DEF Next, Api, Handler, Native

\* Every step delivers whole lines, or nothing.
LEMMA WholeLinesStep ==
  ASSUME TypeOK, WholeLines, [Next]_vars
  PROVE  WholeLines'
<1> USE DEF control, session, decoder, socket, resolver, flow
<1>1. CASE close
  BY <1>1 DEF close, abort, ClientClose, SessionClose, Allowed, Careful, WholeLines
<1>2. CASE connect_address
  BY <1>2 DEF connect_address, do_connect, abort, Allowed, Careful, WholeLines
<1>3. CASE connect_host
  BY <1>3 DEF connect_host, async_resolve, Allowed, Careful, WholeLines
<1>4. CASE pause_receive
  BY <1>4 DEF pause_receive, Allowed, WholeLines
<1>5. CASE resume_receive
  BY <1>5 DEF resume_receive, Allowed, WholeLines
<1>6. CASE write
  BY <1>6 DEF write, Allowed, WholeLines
<1>7. CASE on_socket_connect
  <2>1. UNCHANGED <<delivered, count>> \/ (delivered' = <<>> /\ count' = 0)
    BY <1>7 DEF on_socket_connect, open_session, Dispatch
  <2>2. Cardinality(Ends(<<>>)) = 0
    BY EmptySeq, EndsType, FS_EmptySet
  <2> QED
    BY <2>1, <2>2 DEF WholeLines
<1>8. CASE on_acceptor_client
  <2>1. UNCHANGED <<delivered, count>> \/ (delivered' = <<>> /\ count' = 0)
    BY <1>8 DEF on_acceptor_client, open_session
  <2>2. Cardinality(Ends(<<>>)) = 0
    BY EmptySeq, EndsType, FS_EmptySet
  <2> QED
    BY <2>1, <2>2 DEF WholeLines
<1>9. CASE session_opened
  BY <1>9 DEF session_opened, WholeLines
<1>10. CASE on_resolver_address
  BY <1>10 DEF on_resolver_address, do_connect, abort, WholeLines
<1>11. CASE on_socket_failed
  BY <1>11 DEF on_socket_failed, WholeLines
<1>12. CASE on_socket_send
  BY <1>12 DEF on_socket_send, Dispatch, WholeLines
<1>13. CASE session_failed
  BY <1>13 DEF session_failed, abort, Careful, WholeLines
<1>14. CASE on_socket_receive
  BY <1>14 DEF on_socket_receive, feed, Dispatch, WholeLines
<1>15. CASE do_decode
  <2> DEFINE k == LineLength(rest)
             l == SubSeq(rest, 1, k)
  <2>1. /\ rest \in Seq(Bytes) /\ Len(rest) \in Nat /\ delivered \in Seq(Bytes) /\ Len(delivered) \in Nat
        /\ count \in Nat /\ k > 0 /\ delivered' = delivered \o l /\ count' = count + 1
    BY <1>15, LenProperties DEF do_decode, TypeOK, Data
  <2>2. k \in 2 .. Len(rest) /\ Ends(l) = {k}
    BY <2>1, FirstLine
  <2> HIDE DEF k
  <2>3. l \in Seq(Bytes) /\ Len(l) = k
    BY <2>1, <2>2, Cut
  <2> HIDE DEF l
  <2>4. Len(delivered') = Len(delivered) + k
    BY <2>1, <2>3, ConcatProperties
  <2>5. Ends(delivered') = Ends(delivered) \cup {Len(delivered) + k}
    <3>1. Ends(delivered \o l) = Ends(delivered) \cup {Len(delivered) + i : i \in Ends(l)}
      BY <2>1, <2>3, EndsConcat DEF WholeLines
    <3> QED
      BY <2>1, <2>2, <3>1
  <2>6. Len(delivered) + k \notin Ends(delivered) /\ IsFiniteSet(Ends(delivered))
    <3>1. Ends(delivered) \subseteq 2 .. Len(delivered) /\ IsFiniteSet(Ends(delivered))
      BY <2>1, EndsType
    <3> QED
      BY <2>1, <2>2, <3>1
  <2>7. Cardinality(Ends(delivered')) = Cardinality(Ends(delivered)) + 1
    BY <2>5, <2>6, FS_AddElement
  <2> QED
    BY <2>1, <2>4, <2>5, <2>7 DEF WholeLines
<1>16. CASE message_handled
  BY <1>16 DEF message_handled, WholeLines
<1>17. CASE receive_end
  BY <1>17 DEF receive_end, feed_end, WholeLines
<1>18. CASE NativeConnect
  BY <1>18 DEF NativeConnect, WholeLines
<1>19. CASE NativeReceive
  BY <1>19 DEF NativeReceive, WholeLines
<1>20. CASE NativeWrite
  BY <1>20 DEF NativeWrite, WholeLines
<1>21. CASE UNCHANGED vars
  BY <1>21 DEF vars, WholeLines
<1> QED
  BY <1>1, <1>2, <1>3, <1>4, <1>5, <1>6, <1>7, <1>8, <1>9, <1>10, <1>11, <1>12, <1>13, <1>14,
     <1>15, <1>16, <1>17, <1>18, <1>19, <1>20, <1>21 DEF Next, Api, Handler, Native

\* Nothing received, nothing delivered, nothing kept.
LEMMA NothingYet == <<>> = <<>> \o <<>> /\ Ends(<<>>) = {}
<1>1. <<>> \in Seq(Bytes)
  BY EmptySeq
<1>2. <<>> \o <<>> = <<>>
  BY <1>1, ConcatEmptySeq
<1>3. Ends(<<>>) = {}
  BY <1>1, EndsType
<1> QED
  BY <1>2, <1>3

\* Bytes joined in either order.
LEMMA Joined == \A a, b, c \in Seq(Bytes) : (a \o b) \o c = a \o (b \o c)
  BY ConcatAssociative, SMT

\* Every step keeps what was received: delivered, being decoded, or in m_buffer.
LEMMA NothingLostStep ==
  ASSUME TypeOK, BufferBounded, NothingLost, [Next]_vars
  PROVE  NothingLost'
<1> USE DEF control, session, decoder, socket, resolver, flow
<1>1. CASE close
  BY <1>1 DEF close, abort, ClientClose, SessionClose, Allowed, Careful, NothingLost, Kept, Decoding, TypeOK, Flags
<1>2. CASE connect_address
  BY <1>2 DEF connect_address, do_connect, abort, Allowed, Careful, NothingLost, Kept, Decoding, TypeOK, Flags
<1>3. CASE connect_host
  BY <1>3 DEF connect_host, async_resolve, Allowed, Careful, NothingLost, Kept, Decoding, TypeOK, Flags
<1>4. CASE pause_receive
  BY <1>4 DEF pause_receive, Allowed, NothingLost, Kept, Decoding, TypeOK, Flags
<1>5. CASE resume_receive
  BY <1>5 DEF resume_receive, Allowed, NothingLost, Kept, Decoding, TypeOK, Flags
<1>6. CASE write
  BY <1>6 DEF write, Allowed, NothingLost, Kept, Decoding, TypeOK, Flags
<1>7. CASE on_socket_connect
  <2>1. input' = <<>> /\ delivered' = <<>> /\ m_buffer' = <<>> /\ pc' = "on_session_open"
    BY <1>7 DEF on_socket_connect, open_session
  <2> QED
    BY <2>1, NothingYet DEF NothingLost, Kept, Decoding
<1>8. CASE on_acceptor_client
  <2>1. CASE open_session
    <3>1. input' = <<>> /\ delivered' = <<>> /\ m_buffer' = <<>> /\ pc' = "on_session_open"
      BY <2>1 DEF open_session
    <3> QED
      BY <3>1, NothingYet DEF NothingLost, Kept, Decoding
  <2>2. CASE UNCHANGED <<session, decoder, flow, pc>>
    BY <1>8, <2>2 DEF on_acceptor_client, NothingLost, Kept, Decoding
  <2> QED
    BY <1>8, <2>1, <2>2 DEF on_acceptor_client
<1>9. CASE session_opened
  BY <1>9 DEF session_opened, NothingLost, Kept, Decoding, TypeOK, Flags
<1>10. CASE on_resolver_address
  BY <1>10 DEF on_resolver_address, do_connect, abort, NothingLost, Kept, Decoding, TypeOK, Flags
<1>11. CASE on_socket_failed
  BY <1>11 DEF on_socket_failed, NothingLost, Kept, Decoding, TypeOK, Flags
<1>12. CASE on_socket_send
  BY <1>12 DEF on_socket_send, Dispatch, NothingLost, Kept, Decoding, TypeOK, Flags
<1>13. CASE session_failed
  BY <1>13 DEF session_failed, abort, Careful, NothingLost, Kept, Decoding, TypeOK, Flags
<1>14. CASE on_socket_receive
  <2> DEFINE data == Head(ready).data
  <2>1. feed /\ ready # <<>> /\ input' = input \o data /\ delivered' = delivered /\ pc = "idle"
    BY <1>14 DEF on_socket_receive, Dispatch
  <2>2. /\ m_buffer \in Seq(Bytes) /\ delivered \in Seq(Bytes) /\ input \in Seq(Bytes)
        /\ data \in Seq(Bytes)
    BY <2>1, FirstEvent DEF TypeOK, Data, Reads
  <2>3. CASE m_buffer # <<>> /\ Len(m_buffer) + Len(data) > m_max_buffer_size
    <3>1. m_abort' = TRUE
      BY <2>1, <2>3 DEF feed
    <3> QED
      BY <3>1 DEF NothingLost
  <2>4. CASE ~(m_buffer # <<>> /\ Len(m_buffer) + Len(data) > m_max_buffer_size)
    <3>1. rest' = m_buffer \o data /\ pc' = "decode" /\ m_abort' = m_abort
      BY <2>1, <2>4 DEF feed
    <3>2. ~m_abort => input = delivered \o m_buffer
      BY <2>1 DEF NothingLost, Kept, Decoding
    <3>3. (delivered \o m_buffer) \o data = delivered \o (m_buffer \o data)
      BY <2>2, Joined, Zenon
    <3> QED
      BY <2>1, <3>1, <3>2, <3>3 DEF NothingLost, Kept, Decoding
  <2> QED
    BY <2>3, <2>4
<1>15. CASE do_decode
  <2> DEFINE k == LineLength(rest)
             l == SubSeq(rest, 1, k)
             t == SubSeq(rest, k + 1, Len(rest))
  <2>1. /\ rest \in Seq(Bytes) /\ Len(rest) \in Nat /\ delivered \in Seq(Bytes)
        /\ k > 0 /\ delivered' = delivered \o l /\ rest' = t /\ input' = input /\ ~m_abort
        /\ pc = "decode" /\ pc' = "on_session_receive"
    BY <1>15, LenProperties DEF do_decode, TypeOK, Data
  <2>2. k \in 0 .. Len(rest)
    BY <2>1, FirstLine
  <2> HIDE DEF k
  <2>3. l \in Seq(Bytes) /\ t \in Seq(Bytes) /\ l \o t = rest
    BY <2>1, <2>2, Cut
  <2> HIDE DEF l, t
  <2>4. input = delivered \o rest
    BY <2>1 DEF NothingLost, Kept, Decoding
  <2>5. (delivered \o l) \o t = delivered \o (l \o t)
    BY <2>1, <2>3, Joined, Zenon
  <2>6. input' = delivered' \o rest'
    BY <2>1, <2>3, <2>4, <2>5
  <2> QED
    BY <2>1, <2>6 DEF NothingLost, Kept, Decoding
<1>16. CASE message_handled
  BY <1>16 DEF message_handled, NothingLost, Kept, Decoding, TypeOK, Flags
<1>17. CASE receive_end
  <2>1. /\ pc = "decode" /\ (m_abort \/ LineLength(rest) = 0) /\ feed_end /\ pc' = "idle"
        /\ UNCHANGED <<m_abort, input, delivered>>
    BY <1>17 DEF receive_end, flow
  <2>2. rest \in Seq(Bytes) /\ (m_buffer = <<>> => m_buffer \o rest = rest)
    BY ConcatEmptySeq DEF TypeOK, Data
  <2>3. ~m_abort => m_buffer' = rest
    BY <2>1, <2>2 DEF feed_end, BufferBounded, Decoding
  <2>4. LineLength(rest) = 0 => Ends(rest) = {}
    BY <2>2, FirstLine
  <2> QED
    BY <2>1, <2>3, <2>4 DEF NothingLost, Kept, Decoding
<1>18. CASE NativeConnect
  BY <1>18 DEF NativeConnect, NothingLost, Kept, Decoding, TypeOK, Flags
<1>19. CASE NativeReceive
  BY <1>19 DEF NativeReceive, NothingLost, Kept, Decoding, TypeOK, Flags
<1>20. CASE NativeWrite
  BY <1>20 DEF NativeWrite, NothingLost, Kept, Decoding, TypeOK, Flags
<1>21. CASE UNCHANGED vars
  BY <1>21 DEF vars, NothingLost, Kept, Decoding, TypeOK, Flags
<1> QED
  BY <1>1, <1>2, <1>3, <1>4, <1>5, <1>6, <1>7, <1>8, <1>9, <1>10, <1>11, <1>12, <1>13, <1>14,
     <1>15, <1>16, <1>17, <1>18, <1>19, <1>20, <1>21 DEF Next, Api, Handler, Native

\* Every step of a session with a careful listener keeps what is said of its socket.
LEMMA SocketStep ==
  ASSUME CarefulListener, TypeOK, ServerStages, SocketState, [Next]_vars
  PROVE  SocketState'
<1> USE DEF control, session, decoder, socket, resolver, flow
<1>1. CASE close
  BY <1>1 DEF close, abort, ClientClose, SessionClose, Allowed, Careful, SocketState, ClosedStaysClosed, Decoding, ServerStages, TypeOK, Words, Callbacks
<1>2. CASE connect_address
  BY <1>2 DEF connect_address, do_connect, abort, Allowed, Careful, SocketState, ClosedStaysClosed, Decoding, ServerStages, TypeOK, Words, Callbacks
<1>3. CASE connect_host
  BY <1>3 DEF connect_host, async_resolve, Allowed, Careful, SocketState, ClosedStaysClosed, Decoding, ServerStages, TypeOK, Words, Callbacks
<1>4. CASE pause_receive
  BY <1>4 DEF pause_receive, Allowed, SocketState, ClosedStaysClosed, Decoding, ServerStages, TypeOK, Words, Callbacks
<1>5. CASE resume_receive
  BY <1>5 DEF resume_receive, Allowed, SocketState, ClosedStaysClosed, Decoding, ServerStages, TypeOK, Words, Callbacks
<1>6. CASE write
  BY <1>6 DEF write, Allowed, SocketState, ClosedStaysClosed, Decoding, ServerStages, TypeOK, Words, Callbacks
<1>7. CASE on_socket_connect
  BY <1>7 DEF on_socket_connect, open_session, Dispatch, SocketState, ClosedStaysClosed, Decoding, ServerStages, TypeOK, Words, Callbacks
<1>8. CASE on_acceptor_client
  BY <1>8 DEF on_acceptor_client, open_session, SocketState, ClosedStaysClosed, Decoding, ServerStages, TypeOK, Words, Callbacks
<1>9. CASE session_opened
  BY <1>9 DEF session_opened, SocketState, ClosedStaysClosed, Decoding, ServerStages, TypeOK, Words, Callbacks
<1>10. CASE on_resolver_address
  BY <1>10 DEF on_resolver_address, do_connect, abort, SocketState, ClosedStaysClosed, Decoding, ServerStages, TypeOK, Words, Callbacks
<1>11. CASE on_socket_failed
  BY <1>11 DEF on_socket_failed, SocketState, ClosedStaysClosed, Decoding, ServerStages, TypeOK, Words, Callbacks
<1>12. CASE on_socket_send
  <2>1. ready # <<>> /\ Head(ready).kind = "send" /\ pc = "idle"
    BY <1>12 DEF on_socket_send, Dispatch
  <2>2. ready[1].kind = "send" /\ 1 \in DOMAIN ready
    BY <2>1, FirstEvent, LenProperties, EmptySeq DEF TypeOK, Data
  <2>3. native = "connected" \/ (role = "server" /\ m_abort)
    BY <2>1, <2>2 DEF SocketState, ClosedStaysClosed, Decoding, ServerStages, TypeOK, Words, Callbacks
  <2> QED
    BY <1>12, <2>1, <2>3 DEF on_socket_send, SocketState, ClosedStaysClosed, Decoding, ServerStages, TypeOK, Words, Callbacks
<1>13. CASE session_failed
  BY <1>13 DEF session_failed, abort, Careful, SocketState, ClosedStaysClosed, Decoding, ServerStages, TypeOK, Words, Callbacks
<1>14. CASE on_socket_receive
  <2>1. ready # <<>> /\ Head(ready).kind = "recv" /\ pc = "idle"
    BY <1>14 DEF on_socket_receive, Dispatch
  <2>2. ready[1].kind = "recv" /\ 1 \in DOMAIN ready
    BY <2>1, FirstEvent, LenProperties, EmptySeq DEF TypeOK, Data
  <2>3. native = "connected" \/ (role = "server" /\ m_abort)
    BY <2>1, <2>2 DEF SocketState, ClosedStaysClosed, Decoding, ServerStages, TypeOK, Words, Callbacks
  <2> QED
    BY <1>14, <2>1, <2>3 DEF on_socket_receive, feed, SocketState, ClosedStaysClosed, Decoding, ServerStages, TypeOK, Words, Callbacks
<1>15. CASE do_decode
  BY <1>15 DEF do_decode, SocketState, ClosedStaysClosed, Decoding, ServerStages, TypeOK, Words, Callbacks
<1>16. CASE message_handled
  BY <1>16 DEF message_handled, SocketState, ClosedStaysClosed, Decoding, ServerStages, TypeOK, Words, Callbacks
<1>17. CASE receive_end
  BY <1>17 DEF receive_end, feed_end, SocketState, ClosedStaysClosed, Decoding, ServerStages, TypeOK, Words, Callbacks
<1>18. CASE NativeConnect
  <2>1. \E r, d : ready' = Append(ready, Event("connect", r, d))
    BY <1>18 DEF NativeConnect
  <2>2. \A i \in DOMAIN ready' :
          ready'[i].kind = "connect" \/ (i \in DOMAIN ready /\ ready'[i] = ready[i])
    BY <2>1, QueuedKinds DEF TypeOK, Data
  <2> QED
    BY <1>18, <2>2 DEF NativeConnect, SocketState, ClosedStaysClosed, Decoding, ServerStages, TypeOK, Words, Callbacks
<1>19. CASE NativeReceive
  BY <1>19 DEF NativeReceive, SocketState, ClosedStaysClosed, Decoding, ServerStages, TypeOK, Words, Callbacks
<1>20. CASE NativeWrite
  BY <1>20 DEF NativeWrite, SocketState, ClosedStaysClosed, Decoding, ServerStages, TypeOK, Words, Callbacks
<1>21. CASE UNCHANGED vars
  BY <1>21 DEF vars, SocketState, ClosedStaysClosed, Decoding, ServerStages, TypeOK, Words, Callbacks
<1> QED
  BY <1>1, <1>2, <1>3, <1>4, <1>5, <1>6, <1>7, <1>8, <1>9, <1>10, <1>11, <1>12, <1>13, <1>14,
     <1>15, <1>16, <1>17, <1>18, <1>19, <1>20, <1>21 DEF Next, Api, Handler, Native

-----------------------------------------------------------------------------
(* The theorems.                                                           *)

\* The invariant holds before any event, for any listener.
LEMMA InitInv == Init => SessionInv /\ CarefulInv
<1> SUFFICES ASSUME Init PROVE SessionInv /\ CarefulInv
  OBVIOUS
<1>1. TypeOK
  BY InitType
<1>2. ServerStages /\ FailureQueued /\ ReadOrPaused
  BY DEF Init, ServerStages, FailureQueued, ReadOrPaused
<1>3. BufferBounded
  BY EmptySeq, TcpSessionAssumption DEF Init, BufferBounded, Decoding
<1>4. WholeLines
  BY NothingYet, FS_EmptySet DEF Init, WholeLines
<1>5. NothingLost
  BY NothingYet DEF Init, NothingLost, Kept, Decoding
<1>6. SocketState
  BY DEF Init, SocketState, ClosedStaysClosed, Decoding
<1> QED
  BY <1>1, <1>2, <1>3, <1>4, <1>5, <1>6 DEF SessionInv, CarefulInv

\* Every step keeps it.
LEMMA StepInv == SessionInv /\ CarefulInv /\ [Next]_vars => SessionInv' /\ CarefulInv'
<1> SUFFICES ASSUME SessionInv, CarefulInv, [Next]_vars PROVE SessionInv' /\ CarefulInv'
  OBVIOUS
<1>1. /\ TypeOK /\ ServerStages /\ FailureQueued /\ ReadOrPaused /\ BufferBounded /\ WholeLines
      /\ NothingLost
  BY DEF SessionInv
<1>2. TypeOK'
  BY <1>1, WordsStep, FlagsStep, DataStep DEF TypeOK
<1>3. /\ ServerStages' /\ FailureQueued' /\ ReadOrPaused' /\ BufferBounded' /\ WholeLines'
      /\ NothingLost'
  BY <1>1, StagesStep, FailureStep, ReadStep, BufferStep, WholeLinesStep, NothingLostStep
<1>4. CarefulInv'
  BY <1>1, SocketStep DEF CarefulInv
<1> QED
  BY <1>2, <1>3, <1>4 DEF SessionInv

\* The session's invariant, for any listener.
THEOREM SessionInvariant == Spec => [](SessionInv /\ CarefulInv)
<1>1. Init => SessionInv /\ CarefulInv
  BY InitInv
<1>2. SessionInv /\ CarefulInv /\ [Next]_vars => SessionInv' /\ CarefulInv'
  BY StepInv
<1> QED
  BY <1>1, <1>2, PTL DEF Spec

\* Whole lines and the rest of the input without a delimiter: the lines
\* delivered are those of the input.
LEMMA LinesOfInput == SessionInv => LinesDelivered
<1> SUFFICES ASSUME SessionInv, pc = "idle", ~m_abort
             PROVE  /\ delivered = SubSeq(input, 1, Max(Ends(input) \cup {0}))
                    /\ count = Cardinality(Ends(input))
                    /\ delivered \o m_buffer = input
  BY DEF LinesDelivered
<1>1. delivered \in Seq(Bytes) /\ m_buffer \in Seq(Bytes)
  BY DEF SessionInv, TypeOK, Data
<1>2. input = delivered \o m_buffer /\ Ends(m_buffer) = {}
  BY DEF SessionInv, NothingLost, Kept, Decoding
<1>3. ((delivered = <<>>) \/ Len(delivered) \in Ends(delivered)) /\ count = Cardinality(Ends(delivered))
  BY DEF SessionInv, WholeLines
<1>4. Ends(input) = Ends(delivered)
  <2>1. Ends(delivered \o m_buffer) = Ends(delivered) \cup {Len(delivered) + i : i \in Ends(m_buffer)}
    BY <1>1, <1>3, EndsConcat
  <2> QED
    BY <1>2, <2>1
<1>5. Max(Ends(input) \cup {0}) = Len(delivered)
  BY <1>1, <1>3, <1>4, LastLine
<1>6. SubSeq(input, 1, Len(delivered)) = delivered
  <2> DEFINE m == Len(delivered)
             b == SubSeq(input, 1, m)
  <2>1. /\ m \in Nat /\ Len(m_buffer) \in Nat /\ input \in Seq(Bytes) /\ Len(input) = m + Len(m_buffer)
        /\ \A i \in 1 .. m + Len(m_buffer) : input[i] = IF i <= m THEN delivered[i] ELSE m_buffer[i - m]
    BY <1>1, <1>2, LenProperties, ConcatProperties
  <2>2. b \in Seq(Bytes) /\ Len(b) = m /\ \A i \in 1 .. m : b[i] = input[i]
    <3>1. m \in 0 .. Len(input)
      BY <2>1
    <3> QED
      BY <2>1, <3>1, Cut
  <2>3. \A i \in 1 .. m : b[i] = delivered[i]
    BY <2>1, <2>2
  <2> HIDE DEF b
  <2>4. b = delivered
    BY <1>1, <2>2, <2>3, SeqEqual
  <2> QED
    BY <2>4 DEF b
<1> QED
  BY <1>2, <1>3, <1>4, <1>5, <1>6

\* However the peer's bytes are cut into reads and whatever the listener does in
\* its callbacks, line_message_decoder hands over exactly the complete lines.
THEOREM LinesAreDelivered == Spec => []LinesDelivered
  BY SessionInvariant, LinesOfInput, PTL

\* do_receive follows every read, message and open: no open session stalls.
THEOREM SessionIsRead == Spec => []SessionRead
<1>1. SessionInv => SessionRead
  BY DEF SessionInv, ReadOrPaused, SessionRead
<1> QED
  BY <1>1, SessionInvariant, PTL

\* tcp_server_impl hears of every connection that is gone, so that
\* on_session_error can erase the session.
THEOREM FailureIsNoticed == Spec => []FailureNoticed
<1>1. SessionInv => FailureNoticed
  BY DEF SessionInv, FailureQueued, FailureNoticed
<1> QED
  BY <1>1, SessionInvariant, PTL

\* feed's assertion on the buffer for any listener, and do_receive's
\* assert(m_connected) for one that does not close in on_session_open.
THEOREM SessionAsserts ==
  ASSUME CarefulListener
  PROVE  Spec => []AssertsHold
<1>1. SessionInv /\ CarefulInv => AssertsHold
  BY DEF SessionInv, BufferBounded, CarefulInv, SocketState, Decoding, AssertsHold
<1> QED
  BY <1>1, SessionInvariant, PTL

\* After tcp_client::close no resolver and no socket opens the session again,
\* if a name is only resolved while no other one is.
THEOREM ClientStaysClosed ==
  ASSUME CarefulListener
  PROVE  Spec => []ClosedStaysClosed
<1>1. CarefulInv => ClosedStaysClosed
  BY DEF CarefulInv, SocketState
<1> QED
  BY <1>1, SessionInvariant, PTL
=============================================================================
