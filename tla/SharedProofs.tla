--------------------------- MODULE SharedProofs ----------------------------
(***************************************************************************)
(* Theorems about what all users of the library share: the logging service *)
(* of Logging, for every set of threads, chain of filters, roll size and   *)
(* roll count, and the counted objects of Objects, for every finite set of *)
(* threads and any number of objects and calls.                            *)
(***************************************************************************)
EXTENDS MCShared, SequenceTheorems, FiniteSetTheorems, WellFoundedInduction, TLAPS

-----------------------------------------------------------------------------
(* The inductive invariant of the log.                                     *)

Threads == LogThreads \cup {"main"}
Messages == Threads \X Nat
Entries == Messages \cup {<<"on_stop", 0>>}
Filters == [kind : {"console", "asio", "file"}, background : BOOLEAN, runner : BOOLEAN,
            abort : BOOLEAN, queue : Seq(Entries), handled : Seq(Messages)]

\* Where a thread is: in a log macro, or main in stop() and set_filter_chain().
Steps == {"idle", "log", "stop", "post", "join", "swap"}

TypeOK ==
  /\ m_started \in BOOLEAN /\ m_filters \in Seq(Filters)
  /\ logthread \in [Threads -> [pc : Steps, count : Nat, name : {"root", "app"}]]
  /\ accepted \in Seq(Messages)

\* Only a filter that posts has a queue.
FilterThreads == \A i \in DOMAIN m_filters : ~Posts(m_filters[i]) => m_filters[i].queue = <<>>

\* Messages of one thread in the order it logged them.
Precedes(x, y) == x[1] = y[1] /\ x[1] \in Threads => x[2] < y[2]

\* What filter i has handled comes before what waits in its queue, and that
\* before what waits in the queue of a filter that is nearer to the caller.
HandledOrder(fs) == \A i \in DOMAIN fs : \A a, b \in DOMAIN fs[i].handled :
                      a < b => Precedes(fs[i].handled[a], fs[i].handled[b])
QueueOrder(fs) == \A i \in DOMAIN fs : \A a, b \in DOMAIN fs[i].queue :
                    a < b => Precedes(fs[i].queue[a], fs[i].queue[b])
HandledFirst(fs) == \A i \in DOMAIN fs : \A j \in 1 .. i :
                      \A a \in DOMAIN fs[i].handled, b \in DOMAIN fs[j].queue :
                        Precedes(fs[i].handled[a], fs[j].queue[b])
FartherFirst(fs) == \A i \in DOMAIN fs : \A j \in 1 .. i - 1 :
                      \A a \in DOMAIN fs[i].queue, b \in DOMAIN fs[j].queue :
                        Precedes(fs[i].queue[a], fs[j].queue[b])
Flow(fs) == HandledOrder(fs) /\ QueueOrder(fs) /\ HandledFirst(fs) /\ FartherFirst(fs)

\* Every message down the chain was logged before the one its thread logs now.
Numbered(threads, x) ==
  x[1] \in Threads => /\ x[2] <= threads[x[1]].count
                      /\ threads[x[1]].pc = "log" => x[2] < threads[x[1]].count
AllNumbered ==
  \A i \in DOMAIN m_filters :
    /\ \A a \in DOMAIN m_filters[i].handled : Numbered(logthread, m_filters[i].handled[a])
    /\ \A a \in DOMAIN m_filters[i].queue : Numbered(logthread, m_filters[i].queue[a])

\* x has reached the i-th filter, or is on its way to it.
Waits(fs, i, x) == \E j \in 1 .. i : \E a \in DOMAIN fs[j].queue : fs[j].queue[a] = x
Reaches(fs, i, x) == (\E a \in DOMAIN fs[i].handled : fs[i].handled[a] = x) \/ Waits(fs, i, x)
NothingLost ==
  \A i \in DOMAIN m_filters :
    Flows(i) => \A k \in DOMAIN accepted : Reaches(m_filters, i, accepted[k])

ChainInv ==
  /\ TypeOK /\ FilterThreads /\ Flow(m_filters) /\ AllNumbered /\ NothingLost

\* One sequence ends with another.
Ends(s, t) == Len(s) <= Len(t) /\ \A n \in 1 .. Len(s) : s[n] = t[Len(t) - Len(s) + n]

\* The newest r rolled files; and with the current one and what is not
\* flushed yet.
Rolled(files, r) == FlattenSeq([i \in 1 .. r |-> files[r - i]])
Newest(files, buffer, r) == Rolled(files, r) \o files[-1] \o buffer

\* n rolls have left the messages w in the files, of which count are kept:
\* while no file was removed, all is in the files rolled and the current one;
\* then one is a tail of the other.
TailOf(files, buffer, w, n, count) ==
  /\ Ends(Newest(files, buffer, count), w) \/ Ends(w, Newest(files, buffer, count))
  /\ count > 0 /\ n <= count => Ends(w, Newest(files, buffer, n))

FilesOf(count) == [-1 .. count - 1 -> Seq(Messages)]
Streams == [open : BOOLEAN, buffer : Seq(Messages)]

FileTypes ==
  /\ config \in [roll_size : RollSizes, roll_count : RollCounts, append : BOOLEAN]
  /\ disk \in FilesOf(config.roll_count) /\ m_fout \in Streams
  /\ written \in Seq(Messages) /\ rolls \in Nat

FileInv == FileTypes /\ TailOf(disk, m_fout.buffer, written, rolls, config.roll_count)

LogInv == ChainInv /\ FileInv
-----------------------------------------------------------------------------
(* Numbers and sequences.                                                  *)

\* A set of naturals has a least element.
LEMMA Least == ASSUME NEW T \in SUBSET Nat, T # {} PROVE \E m \in T : \A k \in T : m <= k
<1> DEFINE R == OpToRel(<, Nat)
<1>1. IsWellFoundedOn(R, Nat)
  BY NatLessThanWellFounded
<1>2. \A x, y \in Nat : <<y, x>> \in R <=> y < x
  BY DEF OpToRel
<1> HIDE DEF R
<1>3. PICK x \in T : \A y \in T : ~ (<<y, x>> \in R)
  BY <1>1, WFMin
<1>4. \A y \in T : ~ (y < x)
  BY <1>2, <1>3, Zenon
<1>5. \A y \in T : x <= y
  BY <1>4
<1> QED
  BY <1>5

\* A sequence with one more element.
LEMMA Longer ==
  ASSUME NEW E, NEW s \in Seq(E), NEW x \in E
  PROVE  /\ Append(s, x) \in Seq(E) /\ Len(Append(s, x)) = Len(s) + 1
         /\ Len(s) \in Nat /\ DOMAIN s = 1 .. Len(s) /\ DOMAIN Append(s, x) = 1 .. Len(s) + 1
         /\ \A a \in DOMAIN s : Append(s, x)[a] = s[a]
         /\ Append(s, x)[Len(s) + 1] = x
<1>1. Len(s) \in Nat /\ DOMAIN s = 1 .. Len(s)
  BY LenProperties
<1>2. /\ Append(s, x) \in Seq(E) /\ Len(Append(s, x)) = Len(s) + 1
      /\ \A a \in 1 .. Len(s) : Append(s, x)[a] = s[a]
      /\ Append(s, x)[Len(s) + 1] = x
  BY AppendProperties
<1>3. DOMAIN Append(s, x) = 1 .. Len(s) + 1
  BY <1>2, LenProperties
<1> QED
  BY <1>1, <1>2, <1>3

\* A sequence without its first element.
LEMMA Shorter ==
  ASSUME NEW E, NEW s \in Seq(E), s # <<>>
  PROVE  /\ Tail(s) \in Seq(E) /\ Len(Tail(s)) = Len(s) - 1 /\ Len(s) \in Nat \ {0}
         /\ DOMAIN s = 1 .. Len(s) /\ DOMAIN Tail(s) = 1 .. Len(s) - 1
         /\ \A a \in DOMAIN Tail(s) : a + 1 \in DOMAIN s /\ Tail(s)[a] = s[a + 1]
         /\ Head(s) = s[1] /\ 1 \in DOMAIN s /\ Head(s) \in E
<1>1. Len(s) \in Nat \ {0} /\ DOMAIN s = 1 .. Len(s)
  BY LenProperties, EmptySeq
<1>2. /\ Tail(s) \in Seq(E) /\ Len(Tail(s)) = Len(s) - 1
      /\ \A a \in 1 .. Len(Tail(s)) : Tail(s)[a] = s[a + 1]
      /\ Head(s) = s[1] /\ Head(s) \in E
  BY HeadTailProperties
<1>3. DOMAIN Tail(s) = 1 .. Len(s) - 1
  BY <1>2, LenProperties
<1> QED
  BY <1>1, <1>2, <1>3

-----------------------------------------------------------------------------
(* A message going down a chain of filters.                                *)

\* The filters that handle a message passed on by the i-th one, and the one
\* that is given it to its queue.
Hands(fs, i, j) == j = i \/ (j \in invoke_next(fs, i) /\ ~Posts(fs[j]))
Queues(fs, i, j) == j # i /\ j \in invoke_next(fs, i) /\ Posts(fs[j])

\* Between the filter that passes the message on and one it reaches none posts.
LEMMA Reached ==
  ASSUME NEW fs \in Seq(Filters), NEW i \in 0 .. Len(fs), NEW j \in 1 .. Len(fs)
  PROVE  /\ Hands(fs, i, j) => j >= i /\ (\A k \in i + 1 .. j : ~Posts(fs[k]))
         /\ Queues(fs, i, j) => j > i /\ Posts(fs[j]) /\ (\A k \in i + 1 .. j - 1 : ~Posts(fs[k]))
<1>1. Len(fs) \in Nat
  BY LenProperties
<1>2. CASE j = i
  BY <1>1, <1>2 DEF Hands, Queues
<1>3. CASE j # i
  <2>1. j \in invoke_next(fs, i) => j > i /\ \A k \in i + 1 .. j - 1 : ~Posts(fs[k])
    BY <1>1 DEF invoke_next
  <2>2. ASSUME NEW k \in i + 1 .. j PROVE k = j \/ k \in i + 1 .. j - 1
    BY <1>1
  <2> QED
    BY <1>1, <1>3, <2>1, <2>2 DEF Hands, Queues
<1> QED
  BY <1>2, <1>3

\* The message comes to every later filter: it handles it, or a filter before
\* it has it in its queue.
LEMMA ReachesAll ==
  ASSUME NEW fs \in Seq(Filters), NEW i \in 0 .. Len(fs), NEW j \in 1 .. Len(fs), i <= j
  PROVE  Hands(fs, i, j) \/ \E k \in 1 .. j : Queues(fs, i, k)
<1> DEFINE P == {k \in i + 1 .. j : Posts(fs[k])}
<1>1. Len(fs) \in Nat
  BY LenProperties
<1>2. CASE P = {}
  <2>1. \A k \in i + 1 .. j : ~Posts(fs[k])
    BY <1>2
  <2>2. j # i => j \in i + 1 .. Len(fs) /\ j \in i + 1 .. j /\ \A k \in i + 1 .. j - 1 : k \in i + 1 .. j
    BY <1>1
  <2> QED
    BY <2>1, <2>2 DEF Hands, invoke_next
<1>3. CASE P # {}
  <2>1. P \in SUBSET Nat
    BY <1>1
  <2>2. PICK k \in P : \A l \in P : k <= l
    BY <1>3, <2>1, Least
  <2>3. k \in i + 1 .. Len(fs) /\ k \in 1 .. j /\ k # i /\ Posts(fs[k])
    BY <1>1, <2>2
  <2>4. \A l \in i + 1 .. k - 1 : ~Posts(fs[l])
    <3> SUFFICES ASSUME NEW l \in i + 1 .. k - 1, Posts(fs[l]) PROVE FALSE
      OBVIOUS
    <3>1. l \in P /\ ~(k <= l)
      BY <1>1, <2>3
    <3> QED
      BY <2>2, <3>1
  <2> QED
    BY <2>3, <2>4 DEF Queues, invoke_next
<1> QED
  BY <1>2, <1>3

\* What PassOn does to each filter.
LEMMA PassOnEach ==
  ASSUME NEW fs \in Seq(Filters), NEW i \in 0 .. Len(fs), NEW m \in Messages
  PROVE  /\ PassOn(fs, i, m) \in Seq(Filters) /\ Len(PassOn(fs, i, m)) = Len(fs)
         /\ DOMAIN PassOn(fs, i, m) = 1 .. Len(fs) /\ DOMAIN fs = 1 .. Len(fs) /\ Len(fs) \in Nat
         /\ \A j \in 1 .. Len(fs) :
              /\ PassOn(fs, i, m)[j].kind = fs[j].kind
              /\ PassOn(fs, i, m)[j].background = fs[j].background
              /\ PassOn(fs, i, m)[j].runner = fs[j].runner /\ PassOn(fs, i, m)[j].abort = fs[j].abort
              /\ PassOn(fs, i, m)[j].handled =
                   IF Hands(fs, i, j) THEN Append(fs[j].handled, m) ELSE fs[j].handled
              /\ PassOn(fs, i, m)[j].queue =
                   IF Queues(fs, i, j) THEN Append(fs[j].queue, m) ELSE fs[j].queue
<1> DEFINE gs == PassOn(fs, i, m)
<1>1. Len(fs) \in Nat /\ DOMAIN fs = 1 .. Len(fs) /\ \A j \in 1 .. Len(fs) : fs[j] \in Filters
  BY LenProperties, ElementOfSeq
<1>2. m \in Entries
  BY DEF Entries
<1>3. DOMAIN gs = 1 .. Len(fs)
  BY <1>1 DEF PassOn
<1>4. ASSUME NEW j \in 1 .. Len(fs)
      PROVE  /\ gs[j] \in Filters
             /\ gs[j].kind = fs[j].kind /\ gs[j].background = fs[j].background
             /\ gs[j].runner = fs[j].runner /\ gs[j].abort = fs[j].abort
             /\ gs[j].handled = IF Hands(fs, i, j) THEN Append(fs[j].handled, m) ELSE fs[j].handled
             /\ gs[j].queue = IF Queues(fs, i, j) THEN Append(fs[j].queue, m) ELSE fs[j].queue
  <2>1. fs[j] \in Filters
    BY <1>1, <1>4
  <2>2. gs[j] = IF j # i /\ j \notin invoke_next(fs, i) THEN fs[j]
                ELSE IF j # i /\ Posts(fs[j]) THEN [fs[j] EXCEPT !.queue = Append(@, m)]
                ELSE [fs[j] EXCEPT !.handled = Append(@, m)]
    BY <1>1, <1>4 DEF PassOn
  <2>3. Append(fs[j].handled, m) \in Seq(Messages) /\ Append(fs[j].queue, m) \in Seq(Entries)
    BY <1>2, <2>1, AppendProperties DEF Filters
  <2>4. CASE ~Hands(fs, i, j) /\ ~Queues(fs, i, j)
    <3>1. gs[j] = fs[j]
      BY <2>2, <2>4 DEF Hands, Queues
    <3> QED
      BY <2>1, <2>4, <3>1
  <2>5. CASE Queues(fs, i, j)
    <3>1. gs[j] = [fs[j] EXCEPT !.queue = Append(@, m)] /\ ~Hands(fs, i, j)
      BY <2>2, <2>5 DEF Hands, Queues
    <3> QED
      BY <2>1, <2>3, <2>5, <3>1 DEF Filters
  <2>6. CASE Hands(fs, i, j)
    <3>1. gs[j] = [fs[j] EXCEPT !.handled = Append(@, m)] /\ ~Queues(fs, i, j)
      BY <2>2, <2>6 DEF Hands, Queues
    <3> QED
      BY <2>1, <2>3, <2>6, <3>1 DEF Filters
  <2> QED
    BY <2>4, <2>5, <2>6
<1>5. gs \in Seq(Filters) /\ Len(gs) = Len(fs)
  <2>1. gs = [j \in 1 .. Len(fs) |-> gs[j]]
    BY <1>1 DEF PassOn
  <2>2. gs \in [1 .. Len(fs) -> Filters]
    BY <1>4, <2>1
  <2> QED
    BY <1>1, <2>2, IsASeq, LenProperties
<1> QED
  BY <1>1, <1>3, <1>4, <1>5

\* The elements of a sequence that was extended.
LEMMA LongerElements ==
  ASSUME NEW E, NEW s \in Seq(E), NEW m \in E, NEW t, t = Append(s, m)
  PROVE  /\ t \in Seq(E) /\ DOMAIN t \subseteq Nat
         /\ \A a \in DOMAIN s : a \in DOMAIN t /\ t[a] = s[a]
         /\ \E a \in DOMAIN t : t[a] = m
         /\ \A a \in DOMAIN t : \/ a \in DOMAIN s /\ t[a] = s[a]
                                \/ t[a] = m /\ (\A b \in DOMAIN t : b <= a)
<1>1. /\ t \in Seq(E) /\ Len(s) \in Nat /\ DOMAIN s = 1 .. Len(s) /\ DOMAIN t = 1 .. Len(s) + 1
      /\ \A a \in DOMAIN s : t[a] = s[a]
      /\ t[Len(s) + 1] = m
  BY Longer
<1>2. \A a \in DOMAIN t : a \in DOMAIN s \/ a = Len(s) + 1
  BY <1>1
<1>3. Len(s) + 1 \in DOMAIN t /\ (\A b \in DOMAIN t : b <= Len(s) + 1) /\ DOMAIN s \subseteq DOMAIN t
  BY <1>1
<1>4. DOMAIN t \subseteq Nat
  BY <1>1
<1> QED
  BY <1>1, <1>2, <1>3, <1>4

\* The same for the queues and the handled messages of the filters.
LEMMA PassOnElements ==
  ASSUME NEW fs \in Seq(Filters), NEW i \in 0 .. Len(fs), NEW m \in Messages, NEW j \in 1 .. Len(fs),
         NEW g, g = PassOn(fs, i, m)[j]
  PROVE  /\ DOMAIN g.handled \subseteq Nat /\ DOMAIN g.queue \subseteq Nat
         /\ \A a \in DOMAIN fs[j].handled : a \in DOMAIN g.handled /\ g.handled[a] = fs[j].handled[a]
         /\ \A a \in DOMAIN fs[j].queue : a \in DOMAIN g.queue /\ g.queue[a] = fs[j].queue[a]
         /\ Hands(fs, i, j) => \E a \in DOMAIN g.handled : g.handled[a] = m
         /\ Queues(fs, i, j) => \E a \in DOMAIN g.queue : g.queue[a] = m
         /\ \A a \in DOMAIN g.handled :
              \/ a \in DOMAIN fs[j].handled /\ g.handled[a] = fs[j].handled[a]
              \/ Hands(fs, i, j) /\ g.handled[a] = m /\ (\A b \in DOMAIN g.handled : b <= a)
         /\ \A a \in DOMAIN g.queue :
              \/ a \in DOMAIN fs[j].queue /\ g.queue[a] = fs[j].queue[a]
              \/ Queues(fs, i, j) /\ g.queue[a] = m /\ (\A b \in DOMAIN g.queue : b <= a)
<1>1. fs[j].handled \in Seq(Messages) /\ fs[j].queue \in Seq(Entries) /\ m \in Entries
  <2>1. fs[j] \in Filters
    BY ElementOfSeq
  <2> QED
    BY <2>1 DEF Filters, Entries
<1>2. /\ g.handled = IF Hands(fs, i, j) THEN Append(fs[j].handled, m) ELSE fs[j].handled
      /\ g.queue = IF Queues(fs, i, j) THEN Append(fs[j].queue, m) ELSE fs[j].queue
  BY PassOnEach
<1>3. PICK h \in Seq(Messages), q \in Seq(Entries) : h = fs[j].handled /\ q = fs[j].queue
  BY <1>1
<1>4. PICK t, u : t = g.handled /\ u = g.queue
  OBVIOUS
<1>5. DOMAIN h \subseteq Nat /\ DOMAIN q \subseteq Nat
  BY LenProperties
<1>6. /\ DOMAIN t \subseteq Nat
      /\ \A a \in DOMAIN h : a \in DOMAIN t /\ t[a] = h[a]
      /\ Hands(fs, i, j) => \E a \in DOMAIN t : t[a] = m
      /\ \A a \in DOMAIN t : \/ a \in DOMAIN h /\ t[a] = h[a]
                             \/ Hands(fs, i, j) /\ t[a] = m /\ (\A b \in DOMAIN t : b <= a)
  <2>1. CASE Hands(fs, i, j)
    <3>1. t = Append(h, m)
      BY <1>2, <1>3, <1>4, <2>1
    <3> QED
      BY <2>1, <3>1, LongerElements
  <2>2. CASE ~Hands(fs, i, j)
    BY <1>2, <1>3, <1>4, <1>5, <2>2
  <2> QED
    BY <2>1, <2>2
<1>7. /\ DOMAIN u \subseteq Nat
      /\ \A a \in DOMAIN q : a \in DOMAIN u /\ u[a] = q[a]
      /\ Queues(fs, i, j) => \E a \in DOMAIN u : u[a] = m
      /\ \A a \in DOMAIN u : \/ a \in DOMAIN q /\ u[a] = q[a]
                             \/ Queues(fs, i, j) /\ u[a] = m /\ (\A b \in DOMAIN u : b <= a)
  <2>1. CASE Queues(fs, i, j)
    <3>1. u = Append(q, m)
      BY <1>2, <1>3, <1>4, <2>1
    <3> QED
      BY <1>1, <2>1, <3>1, LongerElements, SMTT(30)
  <2>2. CASE ~Queues(fs, i, j)
    BY <1>2, <1>3, <1>4, <1>5, <2>2
  <2> QED
    BY <2>1, <2>2
<1> QED
  BY <1>3, <1>4, <1>6, <1>7

\* Where a message stands in a chain when the i-th filter passes it on: after
\* all the later filters have or had, before what waits in front of them.
Stands(fs, i, m) ==
  /\ \A j \in i .. Len(fs) : j # 0 =>
       \A a \in DOMAIN fs[j].handled : Precedes(fs[j].handled[a], m)
  /\ \A j \in i + 1 .. Len(fs) : \A a \in DOMAIN fs[j].queue : Precedes(fs[j].queue[a], m)
  /\ \A j \in 1 .. i : \A a \in DOMAIN fs[j].queue : Precedes(m, fs[j].queue[a])

\* PassOn keeps the order of the messages.
LEMMA PassOnKeepsFlow ==
  ASSUME NEW fs \in Seq(Filters), NEW i \in 0 .. Len(fs), NEW m \in Messages,
         Flow(fs), Stands(fs, i, m),
         \A j \in 1 .. Len(fs) : ~Posts(fs[j]) => fs[j].queue = <<>>
  PROVE  Flow(PassOn(fs, i, m))
<1> DEFINE gs == PassOn(fs, i, m)
<1>1. DOMAIN gs = 1 .. Len(fs) /\ DOMAIN fs = 1 .. Len(fs) /\ Len(fs) \in Nat
  BY PassOnEach
<1>2. ASSUME NEW j \in 1 .. Len(fs)
      PROVE  /\ DOMAIN gs[j].handled \subseteq Nat /\ DOMAIN gs[j].queue \subseteq Nat
             /\ \A a \in DOMAIN gs[j].handled :
                  \/ a \in DOMAIN fs[j].handled /\ gs[j].handled[a] = fs[j].handled[a]
                  \/ Hands(fs, i, j) /\ gs[j].handled[a] = m /\ (\A b \in DOMAIN gs[j].handled : b <= a)
             /\ \A a \in DOMAIN gs[j].queue :
                  \/ a \in DOMAIN fs[j].queue /\ gs[j].queue[a] = fs[j].queue[a]
                  \/ Queues(fs, i, j) /\ gs[j].queue[a] = m /\ (\A b \in DOMAIN gs[j].queue : b <= a)
  <2>1. PICK g : g = gs[j]
    OBVIOUS
  <2>2. /\ DOMAIN g.handled \subseteq Nat /\ DOMAIN g.queue \subseteq Nat
        /\ \A a \in DOMAIN g.handled :
             \/ a \in DOMAIN fs[j].handled /\ g.handled[a] = fs[j].handled[a]
             \/ Hands(fs, i, j) /\ g.handled[a] = m /\ (\A b \in DOMAIN g.handled : b <= a)
        /\ \A a \in DOMAIN g.queue :
             \/ a \in DOMAIN fs[j].queue /\ g.queue[a] = fs[j].queue[a]
             \/ Queues(fs, i, j) /\ g.queue[a] = m /\ (\A b \in DOMAIN g.queue : b <= a)
    BY <2>1, PassOnElements
  <2> QED
    BY <2>1, <2>2
<1>3. \A j \in 1 .. Len(fs) : ~Posts(fs[j]) => DOMAIN fs[j].queue = {}
  BY EmptySeq
<1>4. \A j \in 1 .. Len(fs) : Hands(fs, i, j) => j >= i /\ (\A k \in i + 1 .. j : DOMAIN fs[k].queue = {})
  BY <1>1, <1>3, Reached
<1>5. \A j \in 1 .. Len(fs) :
        Queues(fs, i, j) => j > i /\ Posts(fs[j]) /\ (\A k \in i + 1 .. j - 1 : DOMAIN fs[k].queue = {})
  BY <1>1, <1>3, Reached
<1>6. \A j, k \in 1 .. Len(fs) : Queues(fs, i, k) /\ Hands(fs, i, j) => ~(k <= j)
  <2> SUFFICES ASSUME NEW j \in 1 .. Len(fs), NEW k \in 1 .. Len(fs),
                      Queues(fs, i, k), Hands(fs, i, j), k <= j
               PROVE  FALSE
    OBVIOUS
  <2>1. k \in i + 1 .. j
    BY <1>1, <1>5
  <2> QED
    BY <1>5, <2>1, Reached
<1>7. \A j, k \in 1 .. Len(fs) : Queues(fs, i, k) /\ Queues(fs, i, j) => ~(k < j)
  <2> SUFFICES ASSUME NEW j \in 1 .. Len(fs), NEW k \in 1 .. Len(fs),
                      Queues(fs, i, k), Queues(fs, i, j), k < j
               PROVE  FALSE
    OBVIOUS
  <2>1. k \in i + 1 .. j - 1
    BY <1>1, <1>5
  <2> QED
    BY <1>5, <2>1, Reached
<1> HIDE DEF gs
<1>8. HandledOrder(gs)
  <2> SUFFICES ASSUME NEW j \in 1 .. Len(fs), NEW a \in DOMAIN gs[j].handled, NEW b \in DOMAIN gs[j].handled, a < b
               PROVE  Precedes(gs[j].handled[a], gs[j].handled[b])
    BY <1>1 DEF HandledOrder
  <2>1. a \in DOMAIN fs[j].handled /\ gs[j].handled[a] = fs[j].handled[a]
    <3>1. ~(b <= a)
      BY <1>2
    <3> QED
      BY <1>2, <3>1
  <2>2. CASE b \in DOMAIN fs[j].handled /\ gs[j].handled[b] = fs[j].handled[b]
    BY <1>1, <2>1, <2>2 DEF Flow, HandledOrder
  <2>3. CASE Hands(fs, i, j) /\ gs[j].handled[b] = m
    <3>1. j \in i .. Len(fs) /\ j # 0
      BY <1>1, <1>4, <2>3
    <3> QED
      BY <2>1, <2>3, <3>1 DEF Stands
  <2> QED
    BY <1>2, <2>2, <2>3
<1>9. QueueOrder(gs)
  <2> SUFFICES ASSUME NEW j \in 1 .. Len(fs), NEW a \in DOMAIN gs[j].queue, NEW b \in DOMAIN gs[j].queue, a < b
               PROVE  Precedes(gs[j].queue[a], gs[j].queue[b])
    BY <1>1 DEF QueueOrder
  <2>1. a \in DOMAIN fs[j].queue /\ gs[j].queue[a] = fs[j].queue[a]
    <3>1. ~(b <= a)
      BY <1>2
    <3> QED
      BY <1>2, <3>1
  <2>2. CASE b \in DOMAIN fs[j].queue /\ gs[j].queue[b] = fs[j].queue[b]
    BY <1>1, <2>1, <2>2 DEF Flow, QueueOrder
  <2>3. CASE Queues(fs, i, j) /\ gs[j].queue[b] = m
    <3>1. j \in i + 1 .. Len(fs)
      BY <1>1, <1>5, <2>3
    <3> QED
      BY <2>1, <2>3, <3>1 DEF Stands
  <2> QED
    BY <1>2, <2>2, <2>3
<1>10. HandledFirst(gs)
  <2> SUFFICES ASSUME NEW j \in 1 .. Len(fs), NEW k \in 1 .. j,
                      NEW a \in DOMAIN gs[j].handled, NEW b \in DOMAIN gs[k].queue
               PROVE  Precedes(gs[j].handled[a], gs[k].queue[b])
    BY <1>1 DEF HandledFirst
  <2>1. k \in 1 .. Len(fs) /\ k <= j
    BY <1>1
  <2>2. CASE a \in DOMAIN fs[j].handled /\ gs[j].handled[a] = fs[j].handled[a]
    <3>1. CASE b \in DOMAIN fs[k].queue /\ gs[k].queue[b] = fs[k].queue[b]
      BY <1>1, <2>2, <3>1 DEF Flow, HandledFirst
    <3>2. CASE Queues(fs, i, k) /\ gs[k].queue[b] = m
      <4>1. j \in i .. Len(fs) /\ j # 0
        BY <1>1, <1>5, <2>1, <3>2
      <4> QED
        BY <2>2, <3>2, <4>1 DEF Stands
    <3> QED
      BY <1>2, <2>1, <3>1, <3>2
  <2>3. CASE Hands(fs, i, j) /\ gs[j].handled[a] = m
    <3>1. b \in DOMAIN fs[k].queue /\ gs[k].queue[b] = fs[k].queue[b]
      BY <1>2, <1>6, <2>1, <2>3
    <3>2. k \in 1 .. i
      <4>1. k \notin i + 1 .. j
        BY <1>4, <2>3, <3>1
      <4> QED
        BY <1>1, <2>1, <4>1
    <3> QED
      BY <2>3, <3>1, <3>2 DEF Stands
  <2> QED
    BY <1>2, <2>2, <2>3
<1>11. FartherFirst(gs)
  <2> SUFFICES ASSUME NEW j \in 1 .. Len(fs), NEW k \in 1 .. j - 1,
                      NEW a \in DOMAIN gs[j].queue, NEW b \in DOMAIN gs[k].queue
               PROVE  Precedes(gs[j].queue[a], gs[k].queue[b])
    BY <1>1 DEF FartherFirst
  <2>1. k \in 1 .. Len(fs) /\ k < j
    BY <1>1
  <2>2. CASE a \in DOMAIN fs[j].queue /\ gs[j].queue[a] = fs[j].queue[a]
    <3>1. CASE b \in DOMAIN fs[k].queue /\ gs[k].queue[b] = fs[k].queue[b]
      BY <1>1, <2>2, <3>1 DEF Flow, FartherFirst
    <3>2. CASE Queues(fs, i, k) /\ gs[k].queue[b] = m
      <4>1. j \in i + 1 .. Len(fs)
        BY <1>1, <1>5, <2>1, <3>2
      <4> QED
        BY <2>2, <3>2, <4>1 DEF Stands
    <3> QED
      BY <1>2, <2>1, <3>1, <3>2
  <2>3. CASE Queues(fs, i, j) /\ gs[j].queue[a] = m
    <3>1. b \in DOMAIN fs[k].queue /\ gs[k].queue[b] = fs[k].queue[b]
      BY <1>2, <1>7, <2>1, <2>3
    <3>2. k \in 1 .. i
      <4>1. k \notin i + 1 .. j - 1
        BY <1>5, <2>3, <3>1
      <4> QED
        BY <1>1, <2>1, <4>1
    <3> QED
      BY <2>3, <3>1, <3>2 DEF Stands
  <2> QED
    BY <1>2, <2>2, <2>3
<1> QED
  BY <1>8, <1>9, <1>10, <1>11 DEF Flow, gs

\* The chain is called as if the caller were a filter before the first.
LEMMA ChainLog ==
  ASSUME m_filters \in Seq(Filters), NEW m \in Messages
  PROVE  chain_log(m) = PassOn(m_filters, 0, m)
<1> DEFINE fs == m_filters
<1>1. Len(fs) \in Nat /\ DOMAIN fs = 1 .. Len(fs) /\ fs = [j \in 1 .. Len(fs) |-> fs[j]]
  BY LenProperties
<1>2. ASSUME NEW i \in 0 .. 1
      PROVE  PassOn(fs, i, m) = [j \in 1 .. Len(fs) |->
               IF j # i /\ j \notin invoke_next(fs, i) THEN fs[j]
               ELSE IF j # i /\ Posts(fs[j]) THEN [fs[j] EXCEPT !.queue = Append(@, m)]
               ELSE [fs[j] EXCEPT !.handled = Append(@, m)]]
  BY <1>1 DEF PassOn
<1>3. CASE fs = <<>>
  <2>1. PassOn(fs, 0, m) \in Seq(Filters) /\ Len(PassOn(fs, 0, m)) = 0
    <3>1. Len(fs) = 0 /\ 0 \in 0 .. Len(fs)
      BY <1>3, EmptySeq
    <3> QED
      BY <3>1, PassOnEach
  <2>2. PassOn(fs, 0, m) = <<>>
    BY <2>1, EmptySeq
  <2> QED
    BY <1>3, <2>2 DEF chain_log
<1>4. CASE fs # <<>> /\ Posts(fs[1])
  <2>1. 1 \in 1 .. Len(fs)
    BY <1>1, <1>4, EmptySeq
  <2>2. \A j \in 1 .. Len(fs) : j \in invoke_next(fs, 0) <=> j = 1
    <3> SUFFICES ASSUME NEW j \in 1 .. Len(fs) PROVE j \in invoke_next(fs, 0) <=> j = 1
      OBVIOUS
    <3>1. j # 1 => 1 \in 0 + 1 .. j - 1
      BY <1>1
    <3>2. j \in 0 + 1 .. Len(fs) /\ 0 + 1 .. 1 - 1 = {}
      BY <1>1
    <3> QED
      BY <1>4, <3>1, <3>2 DEF invoke_next
  <2>3. chain_log(m) = [fs EXCEPT ![1].queue = Append(@, m)]
    BY <1>4 DEF chain_log
  <2>4. PassOn(fs, 0, m) = [j \in 1 .. Len(fs) |->
          IF j # 1 THEN fs[j] ELSE [fs[j] EXCEPT !.queue = Append(@, m)]]
    BY <1>2, <1>4, <2>2
  <2> QED
    BY <1>1, <2>1, <2>3, <2>4
<1>5. CASE fs # <<>> /\ ~Posts(fs[1])
  <2>1. 1 \in 1 .. Len(fs)
    BY <1>1, <1>5, EmptySeq
  <2>2. \A j \in 1 .. Len(fs) : j \in invoke_next(fs, 0) <=> j = 1 \/ j \in invoke_next(fs, 1)
    <3> SUFFICES ASSUME NEW j \in 1 .. Len(fs)
                 PROVE  j \in invoke_next(fs, 0) <=> j = 1 \/ j \in invoke_next(fs, 1)
      OBVIOUS
    <3>1. 0 + 1 .. 1 - 1 = {} /\ j \in 0 + 1 .. Len(fs)
      BY <1>1
    <3>2. j # 1 => j \in 1 + 1 .. Len(fs)
      BY <1>1
    <3>3. \A k \in 0 + 1 .. j - 1 : k = 1 \/ k \in 1 + 1 .. j - 1
      BY <1>1
    <3>4. \A k \in 1 + 1 .. j - 1 : k \in 0 + 1 .. j - 1
      BY <1>1
    <3> QED
      BY <1>5, <3>1, <3>2, <3>3, <3>4 DEF invoke_next
  <2>3. chain_log(m) = PassOn(fs, 1, m)
    BY <1>5 DEF chain_log
  <2>4. 1 \notin invoke_next(fs, 1)
    BY DEF invoke_next
  <2>5. \A j \in 1 .. Len(fs) :
          (IF j # 0 /\ j \notin invoke_next(fs, 0) THEN fs[j]
           ELSE IF j # 0 /\ Posts(fs[j]) THEN [fs[j] EXCEPT !.queue = Append(@, m)]
           ELSE [fs[j] EXCEPT !.handled = Append(@, m)])
          = (IF j # 1 /\ j \notin invoke_next(fs, 1) THEN fs[j]
             ELSE IF j # 1 /\ Posts(fs[j]) THEN [fs[j] EXCEPT !.queue = Append(@, m)]
             ELSE [fs[j] EXCEPT !.handled = Append(@, m)])
    BY <1>5, <2>2, <2>4
  <2>6. PassOn(fs, 0, m) = [j \in 1 .. Len(fs) |->
          IF j # 1 /\ j \notin invoke_next(fs, 1) THEN fs[j]
          ELSE IF j # 1 /\ Posts(fs[j]) THEN [fs[j] EXCEPT !.queue = Append(@, m)]
          ELSE [fs[j] EXCEPT !.handled = Append(@, m)]]
    <3>1. PassOn(fs, 0, m) = [j \in 1 .. Len(fs) |->
            IF j # 0 /\ j \notin invoke_next(fs, 0) THEN fs[j]
            ELSE IF j # 0 /\ Posts(fs[j]) THEN [fs[j] EXCEPT !.queue = Append(@, m)]
            ELSE [fs[j] EXCEPT !.handled = Append(@, m)]]
      BY <1>2
    <3> QED
      BY <2>5, <3>1, Zenon
  <2>7. PassOn(fs, 1, m) = [j \in 1 .. Len(fs) |->
          IF j # 1 /\ j \notin invoke_next(fs, 1) THEN fs[j]
          ELSE IF j # 1 /\ Posts(fs[j]) THEN [fs[j] EXCEPT !.queue = Append(@, m)]
          ELSE [fs[j] EXCEPT !.handled = Append(@, m)]]
    BY <1>2
  <2> QED
    BY <2>3, <2>6, <2>7
<1> QED
  BY <1>3, <1>4, <1>5

\* Where the messages are after PassOn: where they were, and the one passed on
\* at or before every later filter.
LEMMA PassOnReaches ==
  ASSUME NEW fs \in Seq(Filters), NEW i \in 0 .. Len(fs), NEW m \in Messages, NEW j \in 1 .. Len(fs)
  PROVE  /\ \A x : Reaches(fs, j, x) => Reaches(PassOn(fs, i, m), j, x)
         /\ i <= j => Reaches(PassOn(fs, i, m), j, m)
<1> DEFINE gs == PassOn(fs, i, m)
<1>1. Len(fs) \in Nat
  BY LenProperties
<1>2. ASSUME NEW k \in 1 .. Len(fs)
      PROVE  /\ \A a \in DOMAIN fs[k].handled : a \in DOMAIN gs[k].handled /\ gs[k].handled[a] = fs[k].handled[a]
             /\ \A a \in DOMAIN fs[k].queue : a \in DOMAIN gs[k].queue /\ gs[k].queue[a] = fs[k].queue[a]
             /\ Hands(fs, i, k) => \E a \in DOMAIN gs[k].handled : gs[k].handled[a] = m
             /\ Queues(fs, i, k) => \E a \in DOMAIN gs[k].queue : gs[k].queue[a] = m
  <2>1. PICK g : g = gs[k]
    OBVIOUS
  <2>2. /\ \A a \in DOMAIN fs[k].handled : a \in DOMAIN g.handled /\ g.handled[a] = fs[k].handled[a]
        /\ \A a \in DOMAIN fs[k].queue : a \in DOMAIN g.queue /\ g.queue[a] = fs[k].queue[a]
        /\ Hands(fs, i, k) => \E a \in DOMAIN g.handled : g.handled[a] = m
        /\ Queues(fs, i, k) => \E a \in DOMAIN g.queue : g.queue[a] = m
    BY <2>1, PassOnElements
  <2> QED
    BY <2>1, <2>2
<1>3. 1 .. j \subseteq 1 .. Len(fs)
  BY <1>1
<1>4. ASSUME i <= j PROVE Hands(fs, i, j) \/ \E k \in 1 .. j : Queues(fs, i, k)
  BY <1>4, ReachesAll
<1> HIDE DEF gs
<1>5. \A x : Reaches(fs, j, x) => Reaches(gs, j, x)
  BY <1>2, <1>3 DEF Reaches, Waits
<1>6. i <= j => Reaches(gs, j, m)
  BY <1>2, <1>3, <1>4 DEF Reaches, Waits
<1> QED
  BY <1>5, <1>6 DEF gs

\* A filter that does not post gets no queue.
LEMMA PassOnQueue ==
  ASSUME NEW fs \in Seq(Filters), NEW i \in 0 .. Len(fs), NEW m \in Messages, NEW j \in 1 .. Len(fs)
  PROVE  /\ Posts(PassOn(fs, i, m)[j]) <=> Posts(fs[j])
         /\ ~Posts(fs[j]) /\ fs[j].queue = <<>> => PassOn(fs, i, m)[j].queue = <<>>
<1>1. /\ PassOn(fs, i, m)[j].kind = fs[j].kind /\ PassOn(fs, i, m)[j].background = fs[j].background
      /\ PassOn(fs, i, m)[j].queue = IF Queues(fs, i, j) THEN Append(fs[j].queue, m) ELSE fs[j].queue
  BY PassOnEach
<1>2. Posts(PassOn(fs, i, m)[j]) <=> Posts(fs[j])
  BY <1>1 DEF Posts
<1>3. Queues(fs, i, j) => Posts(fs[j])
  BY DEF Queues
<1> QED
  BY <1>1, <1>2, <1>3

\* A filter with another queue.
LEMMA WithQueue ==
  ASSUME NEW f \in Filters, NEW q \in Seq(Entries)
  PROVE  /\ [f EXCEPT !.queue = q] \in Filters
         /\ [f EXCEPT !.queue = q].kind = f.kind /\ [f EXCEPT !.queue = q].background = f.background
         /\ [f EXCEPT !.queue = q].runner = f.runner /\ [f EXCEPT !.queue = q].abort = f.abort
         /\ [f EXCEPT !.queue = q].handled = f.handled /\ [f EXCEPT !.queue = q].queue = q
  BY DEF Filters

\* The chain without the first entry of a filter's queue.
Without(fs, i) == [fs EXCEPT ![i].queue = Tail(@)]

\* A filter's thread takes the first entry off its queue: the others stay in
\* order, and it stands where it has to.
LEMMA TakenFlow ==
  ASSUME NEW fs \in Seq(Filters), NEW i \in 1 .. Len(fs), Flow(fs), fs[i].queue # <<>>,
         NEW gs, gs = Without(fs, i)
  PROVE  /\ gs \in Seq(Filters) /\ Len(gs) = Len(fs) /\ DOMAIN gs = 1 .. Len(fs)
         /\ Head(fs[i].queue) \in Entries
         /\ \A j \in 1 .. Len(fs) :
              /\ gs[j].kind = fs[j].kind /\ gs[j].background = fs[j].background
              /\ gs[j].runner = fs[j].runner /\ gs[j].abort = fs[j].abort /\ gs[j].handled = fs[j].handled
              /\ j # i => gs[j].queue = fs[j].queue
         /\ gs[i].queue = Tail(fs[i].queue)
         /\ Flow(gs) /\ Stands(gs, i, Head(fs[i].queue))
<1> DEFINE m == Head(fs[i].queue)
<1> USE DEF Without
<1>1. Len(fs) \in Nat /\ DOMAIN fs = 1 .. Len(fs) /\ \A j \in 1 .. Len(fs) : fs[j] \in Filters
  BY LenProperties, ElementOfSeq
<1>2. PICK q \in Seq(Entries) : q = fs[i].queue
  BY <1>1 DEF Filters
<1>3. /\ Tail(q) \in Seq(Entries) /\ Len(q) \in Nat /\ DOMAIN Tail(q) = 1 .. Len(q) - 1
      /\ DOMAIN q = 1 .. Len(q)
      /\ \A a \in DOMAIN Tail(q) : a + 1 \in DOMAIN q /\ Tail(q)[a] = q[a + 1]
      /\ m = q[1] /\ 1 \in DOMAIN q /\ m \in Entries
  BY <1>2, Shorter
<1>4. Tail(q) \in Seq(Entries)
  BY <1>3
<1>5. ASSUME NEW j \in 1 .. Len(fs)
      PROVE  /\ gs[j] \in Filters
             /\ gs[j].kind = fs[j].kind /\ gs[j].background = fs[j].background
             /\ gs[j].runner = fs[j].runner /\ gs[j].abort = fs[j].abort /\ gs[j].handled = fs[j].handled
             /\ gs[j].queue = IF j = i THEN Tail(q) ELSE fs[j].queue
  <2>1. fs[j] \in Filters
    BY <1>1, <1>5
  <2>2. CASE j = i
    <3>1. gs[j] = [fs[j] EXCEPT !.queue = Tail(q)]
      BY <1>1, <1>2, <2>2
    <3>2. PICK f \in Filters, t \in Seq(Entries), g \in {gs[j]} : f = fs[j] /\ t = Tail(q)
      BY <1>4, <2>1
    <3>3. g = gs[j] /\ g = [f EXCEPT !.queue = t]
      BY <3>1, <3>2
    <3>4. /\ g \in Filters
          /\ g.kind = f.kind /\ g.background = f.background
          /\ g.runner = f.runner /\ g.abort = f.abort /\ g.handled = f.handled
          /\ g.queue = t
      <4>1. [f EXCEPT !.queue = t] = g
        BY <3>3
      <4> QED
        BY <4>1, WithQueue, Zenon
    <3> QED
      BY <2>2, <3>2, <3>3, <3>4
  <2>3. CASE j # i
    <3>1. gs[j] = fs[j]
      BY <1>1, <2>3
    <3> QED
      BY <2>1, <2>3, <3>1
  <2> QED
    BY <2>2, <2>3
<1>6. DOMAIN gs = 1 .. Len(fs) /\ gs \in Seq(Filters) /\ Len(gs) = Len(fs)
  <2>1. DOMAIN gs = 1 .. Len(fs) /\ gs = [j \in 1 .. Len(fs) |-> gs[j]]
    BY <1>1
  <2>2. gs \in [1 .. Len(fs) -> Filters]
    BY <1>5, <2>1
  <2> QED
    BY <1>1, <2>1, <2>2, IsASeq, LenProperties
<1>7. ASSUME NEW j \in 1 .. Len(fs), NEW a \in DOMAIN gs[j].queue
      PROVE  \E b \in DOMAIN fs[j].queue : gs[j].queue[a] = fs[j].queue[b]
  BY <1>2, <1>3, <1>5, <1>7, SMTT(30)
<1>8. \A j \in 1 .. Len(fs) : gs[j].handled = fs[j].handled
  BY <1>5
<1>9. HandledOrder(gs)
  BY <1>1, <1>6, <1>8 DEF Flow, HandledOrder
<1>10. QueueOrder(gs)
  <2> SUFFICES ASSUME NEW j \in 1 .. Len(fs), NEW a \in DOMAIN gs[j].queue, NEW b \in DOMAIN gs[j].queue, a < b
               PROVE  Precedes(gs[j].queue[a], gs[j].queue[b])
    BY <1>6 DEF QueueOrder
  <2>1. CASE j # i
    BY <1>1, <1>5, <2>1 DEF Flow, QueueOrder
  <2>2. CASE j = i
    <3>1. /\ gs[j].queue[a] = q[a + 1] /\ gs[j].queue[b] = q[b + 1]
          /\ a + 1 \in DOMAIN fs[i].queue /\ b + 1 \in DOMAIN fs[i].queue /\ a + 1 < b + 1
      BY <1>2, <1>3, <1>5, <2>2
    <3> QED
      BY <1>1, <1>2, <3>1 DEF Flow, QueueOrder
  <2> QED
    BY <2>1, <2>2
<1>11. HandledFirst(gs)
  <2> SUFFICES ASSUME NEW j \in 1 .. Len(fs), NEW k \in 1 .. j,
                      NEW a \in DOMAIN gs[j].handled, NEW b \in DOMAIN gs[k].queue
               PROVE  Precedes(gs[j].handled[a], gs[k].queue[b])
    BY <1>6 DEF HandledFirst
  <2>1. k \in 1 .. Len(fs)
    BY <1>1
  <2>2. PICK c \in DOMAIN fs[k].queue : gs[k].queue[b] = fs[k].queue[c]
    BY <1>7, <2>1
  <2> QED
    BY <1>1, <1>8, <2>2 DEF Flow, HandledFirst
<1>12. FartherFirst(gs)
  <2> SUFFICES ASSUME NEW j \in 1 .. Len(fs), NEW k \in 1 .. j - 1,
                      NEW a \in DOMAIN gs[j].queue, NEW b \in DOMAIN gs[k].queue
               PROVE  Precedes(gs[j].queue[a], gs[k].queue[b])
    BY <1>6 DEF FartherFirst
  <2>1. k \in 1 .. Len(fs)
    BY <1>1
  <2>2. PICK c \in DOMAIN fs[k].queue : gs[k].queue[b] = fs[k].queue[c]
    BY <1>7, <2>1
  <2>3. PICK d \in DOMAIN fs[j].queue : gs[j].queue[a] = fs[j].queue[d]
    BY <1>7
  <2> QED
    BY <1>1, <2>2, <2>3 DEF Flow, FartherFirst
<1>13. Stands(gs, i, m)
  <2>1. ASSUME NEW j \in i .. Len(gs), j # 0, NEW a \in DOMAIN gs[j].handled
        PROVE  Precedes(gs[j].handled[a], m)
    <3>1. j \in 1 .. Len(fs) /\ i \in 1 .. j
      BY <1>1, <1>6, <2>1
    <3> QED
      BY <1>1, <1>2, <1>3, <1>8, <2>1, <3>1 DEF Flow, HandledFirst
  <2>2. ASSUME NEW j \in i + 1 .. Len(gs), NEW a \in DOMAIN gs[j].queue
        PROVE  Precedes(gs[j].queue[a], m)
    <3>1. j \in 1 .. Len(fs) /\ i \in 1 .. j - 1
      BY <1>1, <1>6, <2>2
    <3>2. PICK c \in DOMAIN fs[j].queue : gs[j].queue[a] = fs[j].queue[c]
      BY <1>7, <2>2, <3>1
    <3> QED
      BY <1>1, <1>2, <1>3, <3>1, <3>2 DEF Flow, FartherFirst
  <2>3. ASSUME NEW j \in 1 .. i, NEW a \in DOMAIN gs[j].queue
        PROVE  Precedes(m, gs[j].queue[a])
    <3>1. j \in 1 .. Len(fs)
      BY <1>1
    <3>2. CASE j = i
      <4>1. gs[j].queue[a] = q[a + 1] /\ a + 1 \in DOMAIN fs[i].queue /\ 1 \in DOMAIN fs[i].queue /\ 1 < a + 1
        BY <1>2, <1>3, <1>5, <2>3, <3>1, <3>2
      <4> QED
        BY <1>1, <1>2, <1>3, <4>1 DEF Flow, QueueOrder
    <3>3. CASE j # i
      <4>1. j \in 1 .. i - 1 /\ a \in DOMAIN fs[j].queue /\ gs[j].queue[a] = fs[j].queue[a]
        BY <1>1, <1>5, <2>3, <3>1, <3>3
      <4> QED
        BY <1>1, <1>2, <1>3, <4>1 DEF Flow, FartherFirst
    <3> QED
      BY <3>2, <3>3
  <2> QED
    BY <2>1, <2>2, <2>3 DEF Stands
<1> QED
  <2>1. Flow(gs)
    BY <1>9, <1>10, <1>11, <1>12 DEF Flow
  <2> QED
    BY <1>2, <1>3, <1>5, <1>6, <1>13, <2>1

-----------------------------------------------------------------------------
(* Sequences put together.                                                 *)

\* The function that FlattenSeq reads its result from.
Flattens(f, s, n) == f = [i \in 1 .. n |-> IF i = 1 THEN s[i] ELSE f[i - 1] \o s[i]]

\* There is such a function.
LEMMA FlattensExists == ASSUME NEW s, NEW n \in Nat \ {0} PROVE \E f : Flattens(f, s, n)
<1> DEFINE T == {k \in Nat : k # 0 /\ ~\E f : Flattens(f, s, k)}
<1> SUFFICES ASSUME T # {} PROVE FALSE
  OBVIOUS
<1>1. PICK k \in T : \A l \in T : k <= l
  BY Least
<1>2. k \in Nat \ {0} /\ ~\E f : Flattens(f, s, k)
  BY <1>1
<1>3. CASE k = 1
  <2> DEFINE f == [i \in 1 .. 1 |-> s[i]]
  <2>1. f = [i \in 1 .. 1 |-> IF i = 1 THEN s[i] ELSE f[i - 1] \o s[i]]
    OBVIOUS
  <2> HIDE DEF f
  <2>2. Flattens(f, s, k)
    BY <1>3, <2>1 DEF Flattens
  <2> QED
    BY <1>2, <2>2
<1>4. CASE k # 1
  <2>1. k - 1 \in Nat /\ k - 1 # 0 /\ ~(k <= k - 1)
    BY <1>2, <1>4
  <2>2. k - 1 \notin T
    BY <1>1, <2>1
  <2>3. PICK g : Flattens(g, s, k - 1)
    BY <2>1, <2>2
  <2> DEFINE f == [i \in 1 .. k |-> IF i = k THEN g[k - 1] \o s[k] ELSE g[i]]
  <2>4. g = [i \in 1 .. k - 1 |-> IF i = 1 THEN s[i] ELSE g[i - 1] \o s[i]]
    BY <2>3 DEF Flattens
  <2>5. ASSUME NEW i \in 1 .. k PROVE f[i] = IF i = 1 THEN s[i] ELSE f[i - 1] \o s[i]
    <3>1. CASE i = k
      <4>1. i # 1 /\ i - 1 \in 1 .. k /\ i - 1 # k
        BY <1>2, <1>4, <3>1
      <4>2. f[i] = g[k - 1] \o s[k]
        BY <3>1
      <4>3. f[i - 1] = g[k - 1]
        BY <3>1, <4>1
      <4> QED
        BY <3>1, <4>1, <4>2, <4>3
    <3>2. CASE i # k
      <4>1. f[i] = g[i] /\ i \in 1 .. k - 1
        BY <1>2, <2>5, <3>2
      <4>2. i # 1 => i - 1 \in 1 .. k /\ i - 1 # k
        BY <1>2, <2>5, <3>2
      <4>3. i # 1 => f[i - 1] = g[i - 1]
        BY <4>2
      <4>4. g[i] = IF i = 1 THEN s[i] ELSE g[i - 1] \o s[i]
        BY <2>4, <4>1
      <4> QED
        BY <4>1, <4>3, <4>4
    <3> QED
      BY <3>1, <3>2
  <2>6. f = [i \in 1 .. k |-> f[i]]
    OBVIOUS
  <2> HIDE DEF f
  <2>7. f = [i \in 1 .. k |-> IF i = 1 THEN s[i] ELSE f[i - 1] \o s[i]]
    BY <2>5, <2>6, Zenon
  <2> QED
    BY <1>2, <2>7 DEF Flattens
<1> QED
  BY <1>3, <1>4

\* FlattenSeq in terms of it.
LEMMA FlattenIs ==
  ASSUME NEW S, NEW n \in Nat \ {0}, NEW s \in [1 .. n -> S]
  PROVE  \E f : Flattens(f, s, n) /\ FlattenSeq(s) = f[n]
<1>1. Len(s) = n
  BY IsASeq, LenProperties
<1> DEFINE f == CHOOSE f : f = [i \in 1 .. Len(s) |-> IF i = 1 THEN s[i] ELSE f[i - 1] \o s[i]]
<1>2. \E g : Flattens(g, s, n)
  BY FlattensExists
<1>3. \E g : g = [i \in 1 .. Len(s) |-> IF i = 1 THEN s[i] ELSE g[i - 1] \o s[i]]
  BY <1>1, <1>2 DEF Flattens
<1>4. f = [i \in 1 .. Len(s) |-> IF i = 1 THEN s[i] ELSE f[i - 1] \o s[i]]
  BY <1>3, Zenon
<1>5. FlattenSeq(s) = f[Len(s)]
  BY <1>1 DEF FlattenSeq
<1> HIDE DEF f
<1>6. Flattens(f, s, n)
  BY <1>1, <1>4 DEF Flattens
<1> QED
  BY <1>1, <1>5, <1>6

\* n sequences over E.
Pieces(E, n, s) == s \in [1 .. n -> Seq(E)]

Continues(f, s, n) == f[1] = s[1] /\ \A i \in 2 .. n : f[i] = f[i - 1] \o s[i]

\* Its values, one by one.
LEMMA FlattensValues ==
  ASSUME NEW E, NEW n \in Nat \ {0}, NEW s, Pieces(E, n, s), NEW f, Flattens(f, s, n)
  PROVE  Continues(f, s, n) /\ \A i \in 1 .. n : f[i] \in Seq(E)
<1> USE DEF Pieces
<1>1. f[1] = s[1] /\ \A i \in 2 .. n : f[i] = f[i - 1] \o s[i]
  <2>1. \A i \in 1 .. n : f[i] = IF i = 1 THEN s[i] ELSE f[i - 1] \o s[i]
    BY Zenon DEF Flattens
  <2>2. 1 \in 1 .. n /\ \A i \in 2 .. n : i \in 1 .. n /\ i # 1
    OBVIOUS
  <2> QED
    BY <2>1, <2>2, Zenon
<1> DEFINE T == {k \in Nat : k \in 1 .. n /\ f[k] \notin Seq(E)}
<1>2. T = {}
  <2> SUFFICES ASSUME T # {} PROVE FALSE
    OBVIOUS
  <2>1. PICK k \in T : \A l \in T : k <= l
    BY Least
  <2>2. k \in 1 .. n /\ f[k] \notin Seq(E) /\ s[k] \in Seq(E)
    BY <2>1
  <2>3. k # 1
    BY <1>1, <2>2
  <2>4. k \in 2 .. n /\ k - 1 \in Nat /\ k - 1 \in 1 .. n /\ ~(k <= k - 1)
    BY <2>2, <2>3
  <2>5. f[k - 1] \in Seq(E)
    BY <2>1, <2>4
  <2>6. f[k] = f[k - 1] \o s[k]
    BY <1>1, <2>4
  <2> QED
    BY <2>2, <2>5, <2>6, ConcatProperties
<1>3. \A i \in 1 .. n : f[i] \in Seq(E)
  <2>1. \A i \in 1 .. n : i \in Nat
    OBVIOUS
  <2> QED
    BY <1>2, <2>1, Zenon
<1> QED
  BY <1>1, <1>3, Zenon DEF Continues

\* The sequence that FlattenSeq makes is one of the elements' elements.
LEMMA FlattenType ==
  ASSUME NEW E, NEW n \in Nat, NEW s, Pieces(E, n, s)
  PROVE  FlattenSeq(s) \in Seq(E) /\ (n = 0 => FlattenSeq(s) = <<>>)
<1>1. CASE n = 0
  <2>1. s \in Seq(Seq(E)) /\ Len(s) = 0
    BY <1>1, IsASeq, LenProperties DEF Pieces
  <2>2. s = <<>> /\ <<>> \in Seq(E)
    BY <2>1, EmptySeq
  <2> QED
    BY <2>1, <2>2 DEF FlattenSeq
<1>2. CASE n # 0
  <2>1. PICK f : Flattens(f, s, n) /\ FlattenSeq(s) = f[n]
    BY <1>2, FlattenIs DEF Pieces
  <2>2. n \in Nat \ {0} /\ n \in 1 .. n
    BY <1>2
  <2>3. f[n] \in Seq(E)
    BY <2>1, <2>2, FlattensValues
  <2> QED
    BY <1>2, <2>1, <2>3
<1> QED
  BY <1>1, <1>2

\* Putting the last one at the end.
LEMMA FlattenLast ==
  ASSUME NEW E, NEW n \in Nat, NEW s, Pieces(E, n, s), NEW t, Pieces(E, n + 1, t),
         \A i \in 1 .. n : t[i] = s[i]
  PROVE  FlattenSeq(t) = FlattenSeq(s) \o t[n + 1]
<1>1. n + 1 \in Nat \ {0} /\ n + 1 \in 1 .. n + 1
  OBVIOUS
<1>2. PICK f : Flattens(f, t, n + 1) /\ FlattenSeq(t) = f[n + 1]
  BY <1>1, FlattenIs DEF Pieces
<1>3. f[1] = t[1] /\ \A i \in 2 .. n + 1 : f[i] = f[i - 1] \o t[i]
  <2>1. Continues(f, t, n + 1)
    BY <1>1, <1>2, FlattensValues
  <2> QED
    BY <2>1, Zenon DEF Continues
<1>4. CASE n = 0
  <2>1. FlattenSeq(s) = <<>> /\ t[1] \in Seq(E)
    <3>1. 1 \in 1 .. n + 1
      OBVIOUS
    <3> QED
      BY <1>4, <3>1, FlattenType DEF Pieces
  <2>2. f[n + 1] = t[1]
    BY <1>3, <1>4
  <2> QED
    BY <1>2, <1>4, <2>1, <2>2, ConcatEmptySeq
<1>5. CASE n # 0
  <2>1. PICK g : Flattens(g, s, n) /\ FlattenSeq(s) = g[n]
    BY <1>5, FlattenIs DEF Pieces
  <2>2. n \in Nat \ {0} /\ n + 1 \in 2 .. n + 1 /\ (n + 1) - 1 = n /\ n \in 1 .. n
    BY <1>5
  <2>3. g[1] = s[1] /\ \A i \in 2 .. n : g[i] = g[i - 1] \o s[i]
    <3>1. Continues(g, s, n)
      BY <2>1, <2>2, FlattensValues
    <3> QED
      BY <3>1, Zenon DEF Continues
  <2> DEFINE T == {k \in Nat : k \in 1 .. n /\ f[k] # g[k]}
  <2>4. T = {}
    <3> SUFFICES ASSUME T # {} PROVE FALSE
      OBVIOUS
    <3>1. PICK k \in T : \A l \in T : k <= l
      BY Least
    <3>2. k \in 1 .. n /\ f[k] # g[k]
      BY <3>1
    <3>3. k # 1
      BY <1>3, <2>3, <3>2
    <3>4. k \in 2 .. n /\ k \in 2 .. n + 1 /\ k - 1 \in Nat /\ k - 1 \in 1 .. n /\ ~(k <= k - 1)
      BY <3>2, <3>3
    <3>5. f[k - 1] = g[k - 1]
      BY <3>1, <3>4
    <3> QED
      BY <1>3, <2>3, <3>2, <3>4, <3>5
  <2>5. f[n] = g[n]
    BY <2>2, <2>4
  <2> QED
    BY <1>2, <1>3, <2>1, <2>2, <2>5
<1> QED
  BY <1>4, <1>5

\* Putting another one at the front.
LEMMA FlattenFirst ==
  ASSUME NEW E, NEW n \in Nat, NEW s, Pieces(E, n, s), NEW t, Pieces(E, n + 1, t),
         \A i \in 1 .. n : t[i + 1] = s[i]
  PROVE  FlattenSeq(t) = t[1] \o FlattenSeq(s)
<1>1. n + 1 \in Nat \ {0} /\ n + 1 \in 1 .. n + 1 /\ t[1] \in Seq(E)
  BY DEF Pieces
<1>2. PICK f : Flattens(f, t, n + 1) /\ FlattenSeq(t) = f[n + 1]
  BY <1>1, FlattenIs DEF Pieces
<1>3. f[1] = t[1] /\ \A i \in 2 .. n + 1 : f[i] = f[i - 1] \o t[i]
  <2>1. Continues(f, t, n + 1)
    BY <1>1, <1>2, FlattensValues
  <2> QED
    BY <2>1, Zenon DEF Continues
<1>4. CASE n = 0
  <2>1. FlattenSeq(s) = <<>>
    BY <1>4, FlattenType
  <2>2. f[n + 1] = t[1]
    BY <1>3, <1>4
  <2> QED
    BY <1>1, <1>2, <2>1, <2>2, ConcatEmptySeq
<1>5. CASE n # 0
  <2>1. PICK g : Flattens(g, s, n) /\ FlattenSeq(s) = g[n]
    BY <1>5, FlattenIs DEF Pieces
  <2>2. n \in Nat \ {0} /\ n \in 1 .. n
    BY <1>5
  <2>3. /\ g[1] = s[1] /\ \A i \in 2 .. n : g[i] = g[i - 1] \o s[i]
        /\ \A i \in 1 .. n : g[i] \in Seq(E)
    <3>1. Continues(g, s, n) /\ \A i \in 1 .. n : g[i] \in Seq(E)
      BY <2>1, <2>2, FlattensValues
    <3> QED
      BY <3>1, Zenon DEF Continues
  <2> DEFINE T == {k \in Nat : k \in 1 .. n /\ f[k + 1] # t[1] \o g[k]}
  <2>4. T = {}
    <3> SUFFICES ASSUME T # {} PROVE FALSE
      OBVIOUS
    <3>1. PICK k \in T : \A l \in T : k <= l
      BY Least
    <3>2. k \in 1 .. n /\ f[k + 1] # t[1] \o g[k] /\ s[k] \in Seq(E)
      BY <3>1 DEF Pieces
    <3>3. k + 1 \in 2 .. n + 1 /\ (k + 1) - 1 = k /\ t[k + 1] = s[k]
      BY <3>2
    <3>4. f[k + 1] = f[k] \o s[k]
      BY <1>3, <3>3
    <3>5. CASE k = 1
      BY <1>3, <2>3, <3>2, <3>4, <3>5
    <3>6. CASE k # 1
      <4>1. k \in 2 .. n /\ k - 1 \in Nat /\ k - 1 \in 1 .. n /\ ~(k <= k - 1) /\ (k - 1) + 1 = k
        BY <3>2, <3>6
      <4>2. f[k] = t[1] \o g[k - 1]
        BY <3>1, <4>1
      <4>3. g[k] = g[k - 1] \o s[k] /\ g[k - 1] \in Seq(E)
        BY <2>3, <4>1
      <4>4. (t[1] \o g[k - 1]) \o s[k] = t[1] \o (g[k - 1] \o s[k])
        <5>1. PICK x \in Seq(E), y \in Seq(E), z \in Seq(E) : x = t[1] /\ y = g[k - 1] /\ z = s[k]
          BY <1>1, <3>2, <4>3
        <5>2. (x \o y) \o z = x \o (y \o z)
          BY ConcatAssociative, SMTT(30)
        <5> QED
          BY <5>1, <5>2
      <4> QED
        BY <3>2, <3>4, <4>2, <4>3, <4>4
    <3> QED
      BY <3>5, <3>6
  <2>5. f[n + 1] = t[1] \o g[n]
    BY <2>2, <2>4
  <2> QED
    BY <1>2, <2>1, <2>5
<1> QED
  BY <1>4, <1>5

-----------------------------------------------------------------------------
(* The chain of filters is kept in order by every action.                  *)

Marker == <<"on_stop", 0>>

\* The order holds of a chain with fewer messages and with markers added.
LEMMA FlowLess ==
  ASSUME "on_stop" \notin Threads, NEW fs \in Seq(Filters), NEW gs, DOMAIN gs = DOMAIN fs, Flow(fs),
         \A j \in DOMAIN fs :
           /\ gs[j].handled = fs[j].handled
           /\ \A a \in DOMAIN gs[j].queue :
                gs[j].queue[a] = Marker \/ (a \in DOMAIN fs[j].queue /\ gs[j].queue[a] = fs[j].queue[a])
  PROVE  Flow(gs)
<1>1. Len(fs) \in Nat /\ DOMAIN fs = 1 .. Len(fs)
  BY LenProperties
<1>2. \A x : Precedes(x, Marker) /\ Precedes(Marker, x)
  BY DEF Precedes, Marker
<1>3. HandledOrder(gs)
  BY DEF Flow, HandledOrder
<1>4. QueueOrder(gs)
  BY <1>2 DEF Flow, QueueOrder
<1>5. HandledFirst(gs)
  <2> SUFFICES ASSUME NEW j \in DOMAIN fs, NEW k \in 1 .. j,
                      NEW a \in DOMAIN gs[j].handled, NEW b \in DOMAIN gs[k].queue
               PROVE  Precedes(gs[j].handled[a], gs[k].queue[b])
    BY DEF HandledFirst
  <2>1. k \in DOMAIN fs
    BY <1>1
  <2> QED
    BY <1>2, <2>1 DEF Flow, HandledFirst
<1>6. FartherFirst(gs)
  <2> SUFFICES ASSUME NEW j \in DOMAIN fs, NEW k \in 1 .. j - 1,
                      NEW a \in DOMAIN gs[j].queue, NEW b \in DOMAIN gs[k].queue
               PROVE  Precedes(gs[j].queue[a], gs[k].queue[b])
    BY DEF FartherFirst
  <2>1. k \in DOMAIN fs
    BY <1>1
  <2> QED
    BY <1>2, <2>1 DEF Flow, FartherFirst
<1> QED
  BY <1>3, <1>4, <1>5, <1>6 DEF Flow

\* The threads go on: a thread that is about to log has a new number, or the
\* one it had.
Advance ==
  /\ logthread' \in [Threads -> [pc : Steps, count : Nat, name : {"root", "app"}]]
  /\ \A t \in Threads :
       /\ logthread'[t].count >= logthread[t].count
       /\ logthread'[t].pc = "log" =>
            logthread'[t].count > logthread[t].count \/ logthread[t].pc = "log"

\* What was logged before stays logged before.
LEMMA NumberedLater ==
  ASSUME TypeOK, Advance, NEW x \in Entries, Numbered(logthread, x)
  PROVE  Numbered(logthread', x)
<1> SUFFICES ASSUME x[1] \in Threads
             PROVE  /\ x[2] <= logthread'[x[1]].count
                    /\ logthread'[x[1]].pc = "log" => x[2] < logthread'[x[1]].count
  BY DEF Numbered
<1>1. PICK t \in Threads : t = x[1]
  OBVIOUS
<1>2. PICK n \in Nat : n = x[2]
  BY DEF Entries, Messages
<1>3. PICK c \in Nat, d \in Nat : c = logthread[t].count /\ d = logthread'[t].count
  BY DEF TypeOK, Advance
<1>4. n <= c /\ (logthread[t].pc = "log" => n < c)
  BY <1>1, <1>2, <1>3 DEF Numbered
<1>5. d >= c /\ (logthread'[t].pc = "log" => d > c \/ logthread[t].pc = "log")
  BY <1>3 DEF Advance
<1>6. n <= d /\ (logthread'[t].pc = "log" => n < d)
  BY <1>4, <1>5
<1> QED
  BY <1>1, <1>2, <1>3, <1>6

\* A filter's messages are of the type of messages.
LEMMA FilterElements ==
  ASSUME TypeOK
  PROVE  /\ Len(m_filters) \in Nat /\ DOMAIN m_filters = 1 .. Len(m_filters)
         /\ \A j \in 1 .. Len(m_filters) :
              /\ m_filters[j] \in Filters
              /\ m_filters[j].handled \in Seq(Messages) /\ m_filters[j].queue \in Seq(Entries)
              /\ \A a \in DOMAIN m_filters[j].handled : m_filters[j].handled[a] \in Entries
              /\ \A a \in DOMAIN m_filters[j].queue : m_filters[j].queue[a] \in Entries
<1>1. Len(m_filters) \in Nat /\ DOMAIN m_filters = 1 .. Len(m_filters)
  BY LenProperties DEF TypeOK
<1>2. ASSUME NEW j \in 1 .. Len(m_filters)
      PROVE  /\ m_filters[j] \in Filters
             /\ m_filters[j].handled \in Seq(Messages) /\ m_filters[j].queue \in Seq(Entries)
             /\ \A a \in DOMAIN m_filters[j].handled : m_filters[j].handled[a] \in Entries
             /\ \A a \in DOMAIN m_filters[j].queue : m_filters[j].queue[a] \in Entries
  <2>1. m_filters[j] \in Filters
    BY <1>2, ElementOfSeq DEF TypeOK
  <2>2. PICK h \in Seq(Messages), q \in Seq(Entries) : h = m_filters[j].handled /\ q = m_filters[j].queue
    BY <2>1 DEF Filters
  <2>3. (\A a \in DOMAIN h : h[a] \in Messages) /\ (\A a \in DOMAIN q : q[a] \in Entries)
    BY ElementOfSeq, LenProperties
  <2> QED
    BY <2>1, <2>2, <2>3 DEF Entries
<1> QED
  BY <1>1, <1>2

\* Actions that leave the chain alone.
LEMMA QuietStep ==
  ASSUME ChainInv, Advance, m_started' \in BOOLEAN, UNCHANGED <<m_filters, accepted>>
  PROVE  ChainInv'
<1>1. TypeOK'
  BY DEF ChainInv, TypeOK, Advance
<1>2. FilterThreads' /\ Flow(m_filters)' /\ NothingLost'
  <2>1. FilterThreads'
    BY DEF ChainInv, FilterThreads, Posts
  <2>2. Flow(m_filters)'
    BY DEF ChainInv
  <2>3. NothingLost'
    BY DEF ChainInv, NothingLost, Flows, Posts
  <2> QED
    BY <2>1, <2>2, <2>3
<1>3. AllNumbered'
  <2>1. TypeOK /\ AllNumbered
    BY DEF ChainInv
  <2> QED
    BY <2>1, FilterElements, NumberedLater DEF AllNumbered
<1> QED
  BY <1>1, <1>2, <1>3 DEF ChainInv

\* The same when m_started stays too.
LEMMA StillStep ==
  ASSUME ChainInv, Advance, UNCHANGED <<m_started, m_filters, accepted>>
  PROVE  ChainInv'
<1>1. m_started' \in BOOLEAN
  BY DEF ChainInv, TypeOK
<1> QED
  BY <1>1, QuietStep

\* A message is passed on in a chain that differs from the current one only in
\* that the message was taken off.
TakenFrom(fs, i, m) ==
  /\ fs \in Seq(Filters) /\ Len(fs) = Len(m_filters) /\ i \in 0 .. Len(fs)
  /\ \A j \in 1 .. Len(fs) :
       /\ fs[j].kind = m_filters[j].kind /\ fs[j].background = m_filters[j].background
       /\ fs[j].runner = m_filters[j].runner /\ fs[j].abort = m_filters[j].abort
       /\ fs[j].handled = m_filters[j].handled
       /\ m_filters[j].queue = <<>> => fs[j].queue = <<>>
       /\ \A a \in DOMAIN fs[j].queue : \E b \in DOMAIN m_filters[j].queue :
            fs[j].queue[a] = m_filters[j].queue[b]
       /\ \A x : Reaches(m_filters, j, x) => Reaches(fs, j, x) \/ (x = m /\ i <= j)

\* The messages of the chain after PassOn, by where they come from.
LEMMA PassedFrom ==
  ASSUME TypeOK, NEW fs, NEW i, NEW m \in Messages, TakenFrom(fs, i, m), m_filters' = PassOn(fs, i, m)
  PROVE  /\ m_filters' \in Seq(Filters) /\ DOMAIN m_filters' = DOMAIN m_filters
         /\ \A j \in DOMAIN m_filters :
              /\ \A a \in DOMAIN m_filters'[j].handled :
                   \/ m_filters'[j].handled[a] = m
                   \/ \E b \in DOMAIN m_filters[j].handled : m_filters'[j].handled[a] = m_filters[j].handled[b]
              /\ \A a \in DOMAIN m_filters'[j].queue :
                   \/ m_filters'[j].queue[a] = m
                   \/ \E b \in DOMAIN m_filters[j].queue : m_filters'[j].queue[a] = m_filters[j].queue[b]
<1>1. fs \in Seq(Filters) /\ Len(fs) = Len(m_filters) /\ i \in 0 .. Len(fs)
  BY DEF TakenFrom
<1>2. /\ PassOn(fs, i, m) \in Seq(Filters) /\ DOMAIN PassOn(fs, i, m) = 1 .. Len(fs)
      /\ DOMAIN m_filters = 1 .. Len(m_filters)
  BY <1>1, PassOnEach, FilterElements
<1>3. ASSUME NEW j \in 1 .. Len(fs)
      PROVE  /\ \A a \in DOMAIN m_filters'[j].handled :
                  \/ m_filters'[j].handled[a] = m
                  \/ \E b \in DOMAIN m_filters[j].handled : m_filters'[j].handled[a] = m_filters[j].handled[b]
             /\ \A a \in DOMAIN m_filters'[j].queue :
                  \/ m_filters'[j].queue[a] = m
                  \/ \E b \in DOMAIN m_filters[j].queue : m_filters'[j].queue[a] = m_filters[j].queue[b]
  <2>1. PICK g : g = PassOn(fs, i, m)[j]
    OBVIOUS
  <2>2. /\ \A a \in DOMAIN g.handled :
             \/ a \in DOMAIN fs[j].handled /\ g.handled[a] = fs[j].handled[a]
             \/ Hands(fs, i, j) /\ g.handled[a] = m /\ (\A b \in DOMAIN g.handled : b <= a)
        /\ \A a \in DOMAIN g.queue :
             \/ a \in DOMAIN fs[j].queue /\ g.queue[a] = fs[j].queue[a]
             \/ Queues(fs, i, j) /\ g.queue[a] = m /\ (\A b \in DOMAIN g.queue : b <= a)
    BY <1>1, <1>3, <2>1, PassOnElements
  <2>3. m_filters'[j] = g
    BY <2>1
  <2>4. /\ fs[j].handled = m_filters[j].handled
        /\ \A a \in DOMAIN fs[j].queue : \E b \in DOMAIN m_filters[j].queue :
             fs[j].queue[a] = m_filters[j].queue[b]
    BY <1>3 DEF TakenFrom
  <2> QED
    BY <2>2, <2>3, <2>4
<1> QED
  BY <1>1, <1>2, <1>3

\* Passing a message on.
LEMMA PassStep ==
  ASSUME ChainInv, Advance, m_started' \in BOOLEAN,
         NEW fs, NEW i, NEW m \in Messages, TakenFrom(fs, i, m), Flow(fs), Stands(fs, i, m),
         m_filters' = PassOn(fs, i, m), Numbered(logthread', m),
         accepted' \in Seq(Messages),
         \A k \in DOMAIN accepted : \E l \in DOMAIN accepted' : accepted'[l] = accepted[k],
         \A k \in DOMAIN accepted' : \/ i = 0 /\ accepted'[k] = m
                                     \/ \E l \in DOMAIN accepted : accepted[l] = accepted'[k]
  PROVE  ChainInv'
<1>1. fs \in Seq(Filters) /\ Len(fs) = Len(m_filters) /\ i \in 0 .. Len(fs)
  BY DEF TakenFrom
<1>2. TypeOK /\ FilterThreads /\ Flow(m_filters) /\ AllNumbered /\ NothingLost
  BY DEF ChainInv
<1>3. /\ Len(m_filters) \in Nat /\ DOMAIN m_filters = 1 .. Len(m_filters)
      /\ DOMAIN m_filters' = DOMAIN m_filters /\ m_filters' \in Seq(Filters)
  BY <1>2, FilterElements, PassedFrom
<1>4. ASSUME NEW j \in DOMAIN m_filters
      PROVE  /\ m_filters'[j].abort = m_filters[j].abort
             /\ Posts(m_filters'[j]) <=> Posts(m_filters[j])
             /\ ~Posts(m_filters[j]) => fs[j].queue = <<>> /\ m_filters'[j].queue = <<>>
  <2>1. j \in 1 .. Len(fs)
    BY <1>1, <1>3
  <2>2. PassOn(fs, i, m)[j].abort = fs[j].abort
    BY <1>1, <2>1, PassOnEach
  <2>3. /\ Posts(PassOn(fs, i, m)[j]) <=> Posts(fs[j])
        /\ ~Posts(fs[j]) /\ fs[j].queue = <<>> => PassOn(fs, i, m)[j].queue = <<>>
    BY <1>1, <2>1, PassOnQueue
  <2>4. /\ fs[j].abort = m_filters[j].abort
        /\ fs[j].kind = m_filters[j].kind /\ fs[j].background = m_filters[j].background
        /\ m_filters[j].queue = <<>> => fs[j].queue = <<>>
    BY <2>1 DEF TakenFrom
  <2>5. Posts(fs[j]) <=> Posts(m_filters[j])
    BY <2>4 DEF Posts
  <2>6. ~Posts(m_filters[j]) => m_filters[j].queue = <<>>
    BY <1>2 DEF FilterThreads
  <2> QED
    BY <2>2, <2>3, <2>4, <2>5, <2>6
<1>5. TypeOK'
  BY <1>2, <1>3 DEF TypeOK, Advance
<1>6. FilterThreads'
  <2> SUFFICES ASSUME NEW j \in DOMAIN m_filters, ~Posts(m_filters'[j])
               PROVE  m_filters'[j].queue = <<>>
    BY <1>3 DEF FilterThreads, Posts
  <2> QED
    BY <1>4
<1>7. Flow(m_filters')
  <2>1. \A j \in 1 .. Len(fs) : ~Posts(fs[j]) => fs[j].queue = <<>>
    <3> SUFFICES ASSUME NEW j \in 1 .. Len(fs), ~Posts(fs[j]) PROVE fs[j].queue = <<>>
      OBVIOUS
    <3>1. ~Posts(m_filters[j])
      BY DEF TakenFrom, Posts
    <3> QED
      BY <1>1, <1>3, <1>4, <3>1
  <2> QED
    BY <1>1, <2>1, PassOnKeepsFlow
<1>8. AllNumbered'
  <2> SUFFICES ASSUME NEW j \in DOMAIN m_filters
               PROVE  /\ \A a \in DOMAIN m_filters'[j].handled : Numbered(logthread', m_filters'[j].handled[a])
                      /\ \A a \in DOMAIN m_filters'[j].queue : Numbered(logthread', m_filters'[j].queue[a])
    BY <1>3 DEF AllNumbered
  <2>1. /\ \A b \in DOMAIN m_filters[j].handled : Numbered(logthread', m_filters[j].handled[b])
        /\ \A b \in DOMAIN m_filters[j].queue : Numbered(logthread', m_filters[j].queue[b])
    BY <1>2, <1>3, FilterElements, NumberedLater DEF AllNumbered
  <2> QED
    BY <1>2, <2>1, PassedFrom
<1>9. NothingLost'
  <2> SUFFICES ASSUME NEW j \in DOMAIN m_filters, Flows(j)', NEW k \in DOMAIN accepted'
               PROVE  Reaches(m_filters', j, accepted'[k])
    BY <1>3 DEF NothingLost
  <2>1. j \in 1 .. Len(fs)
    BY <1>1, <1>3
  <2>2. /\ \A x : Reaches(fs, j, x) => Reaches(m_filters', j, x)
        /\ i <= j => Reaches(m_filters', j, m)
    BY <1>1, <2>1, PassOnReaches
  <2>3. CASE i = 0 /\ accepted'[k] = m
    <3>1. i <= j
      BY <2>1, <2>3
    <3> QED
      BY <2>2, <2>3, <3>1
  <2>4. CASE \E l \in DOMAIN accepted : accepted[l] = accepted'[k]
    <3>1. Flows(j)
      <4>1. \A l \in 1 .. j : l \in DOMAIN m_filters
        BY <1>3
      <4> QED
        BY <1>4, <4>1 DEF Flows, Posts
    <3>2. Reaches(m_filters, j, accepted'[k])
      BY <1>2, <2>4, <3>1 DEF NothingLost
    <3>3. Reaches(fs, j, accepted'[k]) \/ (accepted'[k] = m /\ i <= j)
      BY <2>1, <3>2 DEF TakenFrom
    <3> QED
      BY <2>2, <3>3
  <2> QED
    BY <2>3, <2>4
<1> QED
  BY <1>5, <1>6, <1>7, <1>8, <1>9 DEF ChainInv

\* A thread's pc and count change.
LEMMA ThreadSteps ==
  ASSUME TypeOK, NEW t \in Threads, NEW p \in Steps, NEW c \in Nat,
         c >= logthread[t].count, p = "log" => c > logthread[t].count,
         logthread' = [logthread EXCEPT ![t].pc = p, ![t].count = c]
  PROVE  Advance
<1>1. logthread \in [Threads -> [pc : Steps, count : Nat, name : {"root", "app"}]]
  BY DEF TypeOK
<1>2. ASSUME NEW u \in Threads
      PROVE  /\ logthread'[u] \in [pc : Steps, count : Nat, name : {"root", "app"}]
             /\ logthread'[u].count >= logthread[u].count
             /\ logthread'[u].pc = "log" =>
                  logthread'[u].count > logthread[u].count \/ logthread[u].pc = "log"
  <2>1. logthread[u] \in [pc : Steps, count : Nat, name : {"root", "app"}]
    BY <1>1
  <2>2. CASE u = t
    <3>1. logthread'[u].pc = p /\ logthread'[u].count = c /\ logthread'[u].name = logthread[u].name
      BY <1>1, <2>2
    <3>2. logthread'[u] = [pc |-> p, count |-> c, name |-> logthread[u].name]
      BY <1>1, <2>1, <2>2
    <3> QED
      BY <2>1, <2>2, <3>1, <3>2
  <2>3. CASE u # t
    <3>1. logthread'[u] = logthread[u]
      BY <1>1, <2>3
    <3> QED
      BY <2>1, <3>1
  <2> QED
    BY <2>2, <2>3
<1>3. DOMAIN logthread' = Threads /\ logthread' = [u \in Threads |-> logthread'[u]]
  BY <1>1
<1>4. logthread' \in [Threads -> [pc : Steps, count : Nat, name : {"root", "app"}]]
  BY <1>2, <1>3
<1> QED
  BY <1>2, <1>4 DEF Advance

\* Nothing about the threads changes.
LEMMA ThreadsRest == ASSUME TypeOK, UNCHANGED logthread PROVE Advance
<1>1. \A t \in Threads : logthread[t].count \in Nat
  BY DEF TypeOK
<1> QED
  BY <1>1 DEF TypeOK, Advance

\* A thread goes on, but does not begin to log.
LEMMA ThreadMoves ==
  ASSUME TypeOK, NEW t \in Threads, NEW p \in Steps, p # "log",
         logthread' = [logthread EXCEPT ![t].pc = p]
  PROVE  Advance
<1>1. logthread \in [Threads -> [pc : Steps, count : Nat, name : {"root", "app"}]]
  BY DEF TypeOK
<1>2. PICK c \in Nat : c = logthread[t].count
  BY <1>1
<1>3. logthread' = [logthread EXCEPT ![t].pc = p, ![t].count = c]
  BY <1>1, <1>2
<1>4. c >= logthread[t].count
  BY <1>2
<1> QED
  BY <1>3, <1>4, ThreadSteps

\* log(): the message follows all that its thread logged before.
LEMMA LogStep ==
  ASSUME ChainInv, NEW t \in Threads, log(t)
  PROVE  ChainInv'
<1> DEFINE m == <<t, logthread[t].count>>
<1>1. TypeOK /\ AllNumbered /\ Flow(m_filters)
  BY DEF ChainInv
<1>2. m \in Messages /\ logthread[t].count \in Nat /\ logthread[t].pc = "log"
  BY <1>1 DEF TypeOK, Messages, log
<1>3. m_filters' = PassOn(m_filters, 0, m)
  <2>1. m_filters' = chain_log(m)
    BY DEF log
  <2> QED
    BY <1>1, <1>2, <2>1, ChainLog DEF TypeOK
<1>4. Advance
  <2>1. logthread' = [logthread EXCEPT ![t].pc = "idle"] /\ "idle" \in Steps
    BY DEF log, Steps
  <2> QED
    BY <1>1, <2>1, ThreadMoves
<1>5. /\ Len(m_filters) \in Nat /\ DOMAIN m_filters = 1 .. Len(m_filters)
      /\ \A j \in 1 .. Len(m_filters) :
           /\ \A a \in DOMAIN m_filters[j].handled : m_filters[j].handled[a] \in Entries
           /\ \A a \in DOMAIN m_filters[j].queue : m_filters[j].queue[a] \in Entries
  BY <1>1, FilterElements
<1>6. ASSUME NEW x, Numbered(logthread, x) PROVE Precedes(x, m)
  BY <1>2, <1>6 DEF Numbered, Precedes
<1>7. Stands(m_filters, 0, m)
  <2>1. \A j \in 0 .. Len(m_filters) : j # 0 => j \in 1 .. Len(m_filters)
    BY <1>5
  <2>2. \A j \in 0 + 1 .. Len(m_filters) : j \in 1 .. Len(m_filters)
    BY <1>5
  <2>3. \A j \in 1 .. Len(m_filters) :
          /\ \A a \in DOMAIN m_filters[j].handled : Precedes(m_filters[j].handled[a], m)
          /\ \A a \in DOMAIN m_filters[j].queue : Precedes(m_filters[j].queue[a], m)
    BY <1>1, <1>5, <1>6 DEF AllNumbered
  <2>4. 1 .. 0 = {}
    OBVIOUS
  <2> HIDE DEF m
  <2> QED
    BY <2>1, <2>2, <2>3, <2>4 DEF Stands
<1>8. TakenFrom(m_filters, 0, m)
  <2>1. 0 \in 0 .. Len(m_filters) /\ m_filters \in Seq(Filters)
    BY <1>1, <1>5 DEF TypeOK
  <2> QED
    BY <2>1 DEF TakenFrom
<1>9. Numbered(logthread', m)
  <2>1. logthread' = [logthread EXCEPT ![t].pc = "idle"]
    BY DEF log
  <2>2. logthread'[t].count = logthread[t].count /\ logthread'[t].pc = "idle"
    BY <1>1, <2>1 DEF TypeOK
  <2> QED
    BY <1>2, <2>2 DEF Numbered
<1>10. /\ accepted' \in Seq(Messages)
       /\ \A k \in DOMAIN accepted : \E l \in DOMAIN accepted' : accepted'[l] = accepted[k]
       /\ \A k \in DOMAIN accepted' : \/ accepted'[k] = m
                                      \/ \E l \in DOMAIN accepted : accepted[l] = accepted'[k]
       /\ \E k \in DOMAIN accepted' : accepted'[k] = m
  <2>1. accepted' = Append(accepted, m) /\ accepted \in Seq(Messages)
    BY <1>1 DEF log, TypeOK
  <2>2. PICK s \in Seq(Messages), x \in Messages : s = accepted /\ x = m
    BY <1>2, <2>1
  <2>3. PICK r : r = accepted' /\ r = Append(s, x)
    BY <2>1, <2>2
  <2>4. /\ r \in Seq(Messages)
        /\ \A a \in DOMAIN s : a \in DOMAIN r /\ r[a] = s[a]
        /\ \E a \in DOMAIN r : r[a] = x
        /\ \A a \in DOMAIN r : \/ a \in DOMAIN s /\ r[a] = s[a]
                               \/ r[a] = x /\ (\A b \in DOMAIN r : b <= a)
    BY <2>3, LongerElements
  <2> QED
    BY <2>2, <2>3, <2>4
<1>11. m_started' \in BOOLEAN
  BY <1>1 DEF log, TypeOK
<1> HIDE DEF m
<1> QED
  BY <1>1, <1>2, <1>3, <1>4, <1>7, <1>8, <1>9, <1>10, <1>11, PassStep

\* The first entry off the queue of a filter: what is left.
LEMMA TakenGood ==
  ASSUME ChainInv, NEW i \in DOMAIN m_filters, m_filters[i].queue # <<>>,
         NEW m, m = Head(m_filters[i].queue), NEW gs, gs = Without(m_filters, i)
  PROVE  /\ TakenFrom(gs, i, m) /\ Flow(gs) /\ Stands(gs, i, m) /\ Numbered(logthread, m)
         /\ DOMAIN gs = DOMAIN m_filters
<1>1. TypeOK /\ AllNumbered /\ Flow(m_filters)
  BY DEF ChainInv
<1>2. m_filters \in Seq(Filters) /\ m_filters[i].queue # <<>>
  BY <1>1 DEF TypeOK
<1>5. Len(m_filters) \in Nat /\ DOMAIN m_filters = 1 .. Len(m_filters) /\ i \in 1 .. Len(m_filters)
  BY <1>1, FilterElements
<1>7. /\ gs \in Seq(Filters) /\ Len(gs) = Len(m_filters) /\ DOMAIN gs = 1 .. Len(m_filters)
      /\ \A j \in 1 .. Len(m_filters) :
           /\ gs[j].kind = m_filters[j].kind /\ gs[j].background = m_filters[j].background
           /\ gs[j].runner = m_filters[j].runner /\ gs[j].abort = m_filters[j].abort
           /\ gs[j].handled = m_filters[j].handled
           /\ j # i => gs[j].queue = m_filters[j].queue
      /\ gs[i].queue = Tail(m_filters[i].queue)
      /\ Flow(gs) /\ Stands(gs, i, m)
  BY <1>1, <1>2, <1>5, TakenFlow
<1>8. PICK q \in Seq(Entries) : q = m_filters[i].queue
  BY <1>1, <1>5, FilterElements
<1>9. /\ Tail(q) \in Seq(Entries) /\ DOMAIN q = 1 .. Len(q) /\ DOMAIN Tail(q) = 1 .. Len(q) - 1
      /\ Len(q) \in Nat \ {0} /\ q # <<>>
      /\ \A a \in DOMAIN Tail(q) : a + 1 \in DOMAIN q /\ Tail(q)[a] = q[a + 1]
      /\ m = q[1] /\ 1 \in DOMAIN q
  BY <1>2, <1>8, Shorter
<1>10. \A a \in DOMAIN q : a = 1 \/ (a - 1 \in DOMAIN Tail(q) /\ Tail(q)[a - 1] = q[a])
  <2> SUFFICES ASSUME NEW a \in DOMAIN q, a # 1 PROVE a - 1 \in DOMAIN Tail(q) /\ Tail(q)[a - 1] = q[a]
    OBVIOUS
  <2>1. a - 1 \in DOMAIN Tail(q) /\ (a - 1) + 1 = a
    BY <1>9
  <2> QED
    BY <1>9, <2>1
<1>11. TakenFrom(gs, i, m)
  <2>1. gs \in Seq(Filters) /\ Len(gs) = Len(m_filters) /\ i \in 0 .. Len(gs)
    BY <1>5, <1>7
  <2>2. ASSUME NEW j \in 1 .. Len(gs)
        PROVE  /\ gs[j].kind = m_filters[j].kind /\ gs[j].background = m_filters[j].background
               /\ gs[j].runner = m_filters[j].runner /\ gs[j].abort = m_filters[j].abort
               /\ gs[j].handled = m_filters[j].handled
    BY <1>7, <2>2
  <2>3. ASSUME NEW j \in 1 .. Len(gs)
        PROVE  /\ m_filters[j].queue = <<>> => gs[j].queue = <<>>
               /\ \A a \in DOMAIN gs[j].queue : \E b \in DOMAIN m_filters[j].queue :
                    gs[j].queue[a] = m_filters[j].queue[b]
    <3>1. CASE j = i
      <4>1. PICK u : u = Tail(q) /\ u = gs[j].queue /\ m_filters[j].queue = q
        BY <1>7, <1>8, <3>1
      <4>2. q # <<>> /\ \A a \in DOMAIN u : \E b \in DOMAIN q : u[a] = q[b]
        BY <1>9, <4>1
      <4> QED
        BY <4>1, <4>2
    <3>2. CASE j # i
      BY <1>7, <2>3, <3>2
    <3> QED
      BY <3>1, <3>2
  <2>4. ASSUME NEW j \in 1 .. Len(gs), NEW x, Reaches(m_filters, j, x)
        PROVE  Reaches(gs, j, x) \/ (x = m /\ i <= j)
    <3>1. CASE \E a \in DOMAIN m_filters[j].handled : m_filters[j].handled[a] = x
      BY <2>2, <2>4, <3>1 DEF Reaches
    <3>2. CASE Waits(m_filters, j, x)
      <4>0. PICK k \in 1 .. j : \E a \in DOMAIN m_filters[k].queue : m_filters[k].queue[a] = x
        BY <3>2 DEF Waits
      <4>1. PICK a \in DOMAIN m_filters[k].queue : m_filters[k].queue[a] = x
        BY <4>0
      <4>2. k \in 1 .. Len(m_filters) /\ k <= j
        BY <1>5, <1>7, <2>4
      <4>3. CASE k # i
        BY <1>7, <4>1, <4>2, <4>3 DEF Reaches, Waits
      <4>4. CASE k = i
        <5>1. CASE a = 1
          BY <1>8, <1>9, <4>1, <4>2, <4>4, <5>1
        <5>2. CASE a # 1
          <6>1. a - 1 \in DOMAIN gs[k].queue /\ gs[k].queue[a - 1] = x
            BY <1>7, <1>8, <1>10, <4>1, <4>4, <5>2
          <6> QED
            BY <6>1 DEF Reaches, Waits
        <5> QED
          BY <5>1, <5>2
      <4> QED
        BY <4>3, <4>4
    <3> QED
      BY <2>4, <3>1, <3>2 DEF Reaches
  <2> QED
    BY <2>1, <2>2, <2>3, <2>4 DEF TakenFrom
<1>12. Numbered(logthread, m)
  BY <1>1, <1>8, <1>9 DEF AllNumbered
<1> QED
  BY <1>5, <1>7, <1>11, <1>12

\* A thread of a filter drops what it took: a message, if its filter is stopped,
\* or the marker of on_stop().
LEMMA DropStep ==
  ASSUME LoggingConstants, ChainInv, NEW i \in DOMAIN m_filters, m_filters[i].queue # <<>>,
         m_filters[i].abort \/ Head(m_filters[i].queue) = Marker,
         m_filters' = Without(m_filters, i), UNCHANGED <<logthread, accepted, m_started>>
  PROVE  ChainInv'
<1>1. TypeOK /\ FilterThreads /\ AllNumbered /\ NothingLost
  BY DEF ChainInv
<1>2. PICK m, gs : m = Head(m_filters[i].queue) /\ gs = Without(m_filters, i)
  OBVIOUS
<1>3. TakenFrom(gs, i, m) /\ Flow(gs) /\ DOMAIN gs = DOMAIN m_filters
  BY <1>2, TakenGood
<1>4. /\ Len(m_filters) \in Nat /\ DOMAIN m_filters = 1 .. Len(m_filters)
      /\ gs \in Seq(Filters) /\ Len(gs) = Len(m_filters)
  BY <1>1, <1>3, FilterElements DEF TakenFrom
<1>5. m_filters' = gs
  BY <1>2
<1>6. TypeOK'
  BY <1>1, <1>4, <1>5 DEF TypeOK
<1>7. ASSUME NEW j \in DOMAIN m_filters
      PROVE  /\ gs[j].abort = m_filters[j].abort /\ (Posts(gs[j]) <=> Posts(m_filters[j]))
             /\ gs[j].handled = m_filters[j].handled
             /\ m_filters[j].queue = <<>> => gs[j].queue = <<>>
             /\ \A a \in DOMAIN gs[j].queue : \E b \in DOMAIN m_filters[j].queue :
                  gs[j].queue[a] = m_filters[j].queue[b]
             /\ \A x : Reaches(m_filters, j, x) => Reaches(gs, j, x) \/ (x = m /\ i <= j)
  BY <1>3, <1>4 DEF TakenFrom, Posts
<1>8. FilterThreads'
  BY <1>1, <1>3, <1>5, <1>7 DEF FilterThreads
<1>9. AllNumbered'
  <2> SUFFICES ASSUME NEW j \in DOMAIN m_filters
               PROVE  /\ \A a \in DOMAIN gs[j].handled : Numbered(logthread, gs[j].handled[a])
                      /\ \A a \in DOMAIN gs[j].queue : Numbered(logthread, gs[j].queue[a])
    BY <1>3, <1>5 DEF AllNumbered
  <2> QED
    BY <1>1, <1>7 DEF AllNumbered
<1>10. NothingLost'
  <2> SUFFICES ASSUME NEW j \in DOMAIN m_filters, Flows(j)', NEW k \in DOMAIN accepted
               PROVE  Reaches(gs, j, accepted[k])
    BY <1>3, <1>5 DEF NothingLost
  <2>1. \A l \in 1 .. j : l \in DOMAIN m_filters
    BY <1>4
  <2>2. \A l \in 1 .. j : Posts(m_filters[l]) => ~m_filters[l].abort
    BY <1>5, <1>7, <2>1 DEF Flows
  <2>3. Reaches(m_filters, j, accepted[k])
    BY <1>1, <2>2 DEF NothingLost, Flows
  <2>4. ~(accepted[k] = m /\ i <= j)
    <3> SUFFICES ASSUME accepted[k] = m, i <= j PROVE FALSE
      OBVIOUS
    <3>1. Posts(m_filters[i]) /\ i \in 1 .. j
      BY <1>1, <1>4 DEF FilterThreads
    <3>2. m = Marker
      BY <1>2, <2>2, <3>1
    <3>3. accepted[k] \in Messages
      BY <1>1, ElementOfSeq, LenProperties DEF TypeOK
    <3>4. Marker \notin Messages
      BY DEF LoggingConstants, Threads, Marker, Messages
    <3> QED
      BY <3>2, <3>3, <3>4
  <2> QED
    BY <1>7, <2>3, <2>4
<1> QED
  BY <1>3, <1>5, <1>6, <1>8, <1>9, <1>10 DEF ChainInv

\* on_log(): the message comes between what is handled and what waits.
LEMMA OnLogStep ==
  ASSUME LoggingConstants, ChainInv, NEW i \in DOMAIN m_filters, NEW m \in Messages, on_log(i, m)
  PROVE  ChainInv'
<1>1. TypeOK /\ AllNumbered
  BY DEF ChainInv
<1>2. m_filters[i].queue # <<>> /\ m = Head(m_filters[i].queue)
  BY DEF on_log, Takes
<1>3. PICK gs : gs = Without(m_filters, i)
  OBVIOUS
<1>4. /\ m_filters' = IF m_filters[i].abort THEN gs ELSE PassOn(gs, i, m)
      /\ UNCHANGED <<m_started, accepted, logthread>>
  BY <1>3 DEF on_log, Taken, Without
<1>5. CASE m_filters[i].abort
  BY <1>2, <1>3, <1>4, <1>5, DropStep
<1>6. CASE ~m_filters[i].abort
  <2>1. TakenFrom(gs, i, m) /\ Flow(gs) /\ Stands(gs, i, m) /\ Numbered(logthread, m)
    BY <1>2, <1>3, TakenGood
  <2>2. Numbered(logthread', m) /\ Advance
    BY <1>1, <1>4, <2>1, ThreadsRest
  <2>3. m_filters' = PassOn(gs, i, m)
    BY <1>4, <1>6
  <2>4. accepted' \in Seq(Messages) /\ accepted' = accepted /\ m_started' \in BOOLEAN
    BY <1>1, <1>4 DEF TypeOK
  <2> QED
    BY <2>1, <2>2, <2>3, <2>4, PassStep
<1> QED
  BY <1>5, <1>6

\* on_stop(): the marker is taken off.
LEMMA OnStopStep ==
  ASSUME LoggingConstants, ChainInv, NEW i \in DOMAIN m_filters, on_stop(i)
  PROVE  ChainInv'
<1>1. /\ m_filters[i].queue # <<>> /\ Head(m_filters[i].queue) = Marker
      /\ m_filters' = Without(m_filters, i) /\ UNCHANGED <<m_started, accepted, logthread>>
  BY DEF on_stop, Takes, Taken, Without, Marker
<1> QED
  BY <1>1, DropStep

\* Filters as configure_filter_chain() makes them.
NewFilters == {f \in Filters : f.queue = <<>> /\ f.handled = <<>> /\ ~f.runner}

\* A filter that was created has nothing to do.
LEMMA NewFilter ==
  ASSUME NEW kind \in {"console", "asio", "file"}, NEW background \in BOOLEAN
  PROVE  create_log_filter(kind, background) \in NewFilters
<1>1. <<>> \in Seq(Entries) /\ <<>> \in Seq(Messages)
  BY EmptySeq
<1>2. create_log_filter(kind, background) \in Filters
  BY <1>1 DEF create_log_filter, Filters
<1> QED
  BY <1>2 DEF create_log_filter, NewFilters

\* A configured chain.
LEMMA Configured ==
  ASSUME NEW names \in Seq(Names)
  PROVE  configure_filter_chain(names) \in Seq(NewFilters)
<1> DEFINE s == [i \in DOMAIN names |->
                  IF names[i] \in {"console", "asio", "file"} THEN <<create_log_filter(names[i], FALSE)>>
                  ELSE IF names[i] = "bgfile" THEN <<create_log_filter("file", TRUE)>>
                  ELSE <<>>]
<1>1. Len(names) \in Nat /\ DOMAIN names = 1 .. Len(names)
  BY LenProperties
<1>2. \A f \in NewFilters : <<f>> \in Seq(NewFilters)
  OBVIOUS
<1>3. <<>> \in Seq(NewFilters)
  BY EmptySeq
<1>4. ASSUME NEW i \in 1 .. Len(names) PROVE s[i] \in Seq(NewFilters)
  <2>1. s[i] = IF names[i] \in {"console", "asio", "file"} THEN <<create_log_filter(names[i], FALSE)>>
               ELSE IF names[i] = "bgfile" THEN <<create_log_filter("file", TRUE)>>
               ELSE <<>>
    BY <1>1, <1>4
  <2>2. CASE names[i] \in {"console", "asio", "file"}
    <3>1. create_log_filter(names[i], FALSE) \in NewFilters
      BY <2>2, NewFilter
    <3> QED
      BY <1>2, <2>1, <2>2, <3>1
  <2>3. CASE names[i] \notin {"console", "asio", "file"} /\ names[i] = "bgfile"
    <3>1. create_log_filter("file", TRUE) \in NewFilters
      BY NewFilter
    <3> QED
      BY <1>2, <2>1, <2>3, <3>1
  <2>4. CASE names[i] \notin {"console", "asio", "file"} /\ names[i] # "bgfile"
    BY <1>3, <2>1, <2>4
  <2> QED
    BY <2>2, <2>3, <2>4
<1>5. Pieces(NewFilters, Len(names), s)
  BY <1>1, <1>4 DEF Pieces
<1>6. configure_filter_chain(names) = FlattenSeq(s)
  BY DEF configure_filter_chain
<1> HIDE DEF s
<1> QED
  BY <1>1, <1>5, <1>6, FlattenType

\* A chain of new filters is in order.
LEMMA NewChain ==
  ASSUME NEW fs \in Seq(NewFilters)
  PROVE  /\ fs \in Seq(Filters)
         /\ \A i \in DOMAIN fs : fs[i].queue = <<>> /\ fs[i].handled = <<>> /\ ~fs[i].runner
         /\ Flow(fs)
<1>1. Len(fs) \in Nat /\ DOMAIN fs = 1 .. Len(fs) /\ \A i \in 1 .. Len(fs) : fs[i] \in NewFilters
  BY LenProperties, ElementOfSeq
<1>2. fs \in Seq(Filters)
  BY SeqMonotonic DEF NewFilters
<1>3. \A i \in DOMAIN fs : fs[i].queue = <<>> /\ fs[i].handled = <<>> /\ ~fs[i].runner
  BY <1>1 DEF NewFilters
<1>4. \A i \in DOMAIN fs : DOMAIN fs[i].queue = {} /\ DOMAIN fs[i].handled = {}
  BY <1>3, EmptySeq
<1>5. \A i \in DOMAIN fs : \A j \in 1 .. i : j \in DOMAIN fs
  BY <1>1
<1>6. Flow(fs)
  BY <1>1, <1>4 DEF Flow, HandledOrder, QueueOrder, HandledFirst, FartherFirst
<1> QED
  BY <1>2, <1>3, <1>6

\* A filter that is started or stopped.
Runs(f, p, q) == [f EXCEPT !.abort = p, !.runner = q]

\* Its other fields stay.
LEMMA WithRunner ==
  ASSUME NEW f \in Filters, NEW p \in BOOLEAN, NEW q \in BOOLEAN, NEW g, g = Runs(f, p, q)
  PROVE  /\ g \in Filters /\ g.kind = f.kind /\ g.background = f.background
         /\ (g.runner <=> q) /\ (g.abort <=> p) /\ g.handled = f.handled /\ g.queue = f.queue
  BY DEF Filters, Runs

\* A filter that is started: it has a thread if it posts.
LEMMA StartFilter ==
  ASSUME NEW f \in Filters, NEW g, g = start_filter(f)
  PROVE  /\ g \in Filters /\ g.kind = f.kind /\ g.background = f.background
         /\ g.runner = Posts(f) /\ ~g.abort /\ g.handled = f.handled /\ g.queue = f.queue
<1>1. Posts(f) \in BOOLEAN
  BY DEF Posts
<1>2. CASE Posts(f)
  <2>1. g = Runs(f, FALSE, TRUE)
    BY <1>1, <1>2 DEF Runs, start_filter
  <2>2. /\ g \in Filters /\ g.kind = f.kind /\ g.background = f.background
        /\ g.runner /\ ~g.abort /\ g.handled = f.handled /\ g.queue = f.queue
    BY <2>1, WithRunner, ZenonT(60)
  <2> QED
    BY <1>2, <2>2 DEF Filters
<1>3. CASE ~Posts(f)
  <2>1. g = Runs(f, FALSE, FALSE)
    BY <1>1, <1>3 DEF Runs, start_filter
  <2>2. /\ g \in Filters /\ g.kind = f.kind /\ g.background = f.background
        /\ ~g.runner /\ ~g.abort /\ g.handled = f.handled /\ g.queue = f.queue
    BY <2>1, WithRunner, ZenonT(60)
  <2> QED
    BY <1>1, <1>3, <2>2 DEF Filters
<1> QED
  BY <1>2, <1>3

\* start() and set_filter_chain(): the filters that are started have nothing to do.
LEMMA StartStep ==
  ASSUME LoggingConstants, ChainInv, NEW filters \in Seq(Filters), Flow(filters),
         \A i \in DOMAIN filters :
           /\ filters[i].queue = <<>>
           /\ \A a \in DOMAIN filters[i].handled : Numbered(logthread, filters[i].handled[a]),
         NEW files, NEW fout, start_chain(filters, files, fout)
  PROVE  ChainInv'
<1>1. TypeOK
  BY DEF ChainInv
<1>0. PICK ok \in BOOLEAN : \E upTo :
        /\ ok => upTo = Len(filters)
        /\ m_filters' = [i \in DOMAIN filters |->
                           IF i <= upTo THEN start_filter(filters[i]) ELSE filters[i]]
        /\ m_started' = ok
        /\ logthread' = IF ok THEN [logthread EXCEPT !["main"].pc = "log", !["main"].count = @ + 1]
                              ELSE [logthread EXCEPT !["main"].pc = "idle"]
        /\ accepted' = <<>>
  <2> DEFINE fileAt == {i \in DOMAIN filters : filters[i].kind = "file"}
             LastOne(ok) == IF ok \/ fileAt = {} THEN Len(filters) ELSE Min(fileAt) - 1
  <2>1. PICK ok \in BOOLEAN :
          /\ m_filters' = [i \in DOMAIN filters |->
                             IF i <= LastOne(ok) THEN start_filter(filters[i]) ELSE filters[i]]
          /\ m_started' = ok
          /\ logthread' = IF ok THEN [logthread EXCEPT !["main"].pc = "log", !["main"].count = @ + 1]
                                ELSE [logthread EXCEPT !["main"].pc = "idle"]
          /\ accepted' = <<>>
    BY Zenon DEF start_chain
  <2>2. ok => LastOne(ok) = Len(filters)
    OBVIOUS
  <2> HIDE DEF LastOne
  <2> QED
    BY <2>1, <2>2, Zenon
<1>2. PICK upTo :
        /\ ok => upTo = Len(filters)
        /\ m_filters' = [i \in DOMAIN filters |->
                           IF i <= upTo THEN start_filter(filters[i]) ELSE filters[i]]
        /\ m_started' = ok
        /\ logthread' = IF ok THEN [logthread EXCEPT !["main"].pc = "log", !["main"].count = @ + 1]
                              ELSE [logthread EXCEPT !["main"].pc = "idle"]
        /\ accepted' = <<>>
  BY <1>0
<1>3. Len(filters) \in Nat /\ DOMAIN filters = 1 .. Len(filters) /\ \A i \in 1 .. Len(filters) : filters[i] \in Filters
  BY LenProperties, ElementOfSeq
<1>4. DOMAIN m_filters' = DOMAIN filters
  BY <1>2
<1>5. ASSUME NEW i \in DOMAIN filters
      PROVE  /\ m_filters'[i] \in Filters
             /\ m_filters'[i].kind = filters[i].kind /\ m_filters'[i].background = filters[i].background
             /\ m_filters'[i].queue = filters[i].queue /\ m_filters'[i].handled = filters[i].handled
  <2>1. PICK f \in Filters : f = filters[i]
    BY <1>3, <1>5
  <2>2. Posts(f) \in BOOLEAN
    BY DEF Posts
  <2>3. CASE i <= upTo
    <3>1. m_filters'[i] = start_filter(f)
      BY <1>2, <2>1, <2>3
    <3>2. /\ m_filters'[i] \in Filters
          /\ m_filters'[i].kind = f.kind /\ m_filters'[i].background = f.background
          /\ m_filters'[i].handled = f.handled /\ m_filters'[i].queue = f.queue
      BY <3>1, StartFilter
    <3> QED
      BY <2>1, <3>2
  <2>4. CASE ~(i <= upTo)
    <3>1. m_filters'[i] = f
      BY <1>2, <2>1, <2>4
    <3> QED
      BY <2>1, <3>1
  <2> QED
    BY <2>3, <2>4
<1>6. m_filters' \in Seq(Filters)
  <2>1. m_filters' = [i \in 1 .. Len(filters) |-> m_filters'[i]]
    BY <1>2, <1>3
  <2>2. m_filters' \in [1 .. Len(filters) -> Filters]
    BY <1>3, <1>5, <2>1
  <2> QED
    BY <1>3, <2>2, IsASeq
<1>7. Advance
  <2>1. CASE ok
    <3>1. "main" \in Threads /\ logthread["main"].count \in Nat
      BY <1>1 DEF Threads, TypeOK
    <3>2. PICK c \in Nat : c = logthread["main"].count + 1 /\ c > logthread["main"].count /\ c >= logthread["main"].count
      BY <3>1
    <3>3. logthread' = [logthread EXCEPT !["main"].pc = "log", !["main"].count = c]
      BY <1>1, <1>2, <2>1, <3>1, <3>2 DEF TypeOK
    <3>4. "log" \in Steps
      BY DEF Steps
    <3> QED
      BY <1>1, <3>1, <3>2, <3>3, <3>4, ThreadSteps
  <2>2. CASE ~ok
    <3>1. "main" \in Threads /\ "idle" \in Steps /\ logthread' = [logthread EXCEPT !["main"].pc = "idle"]
      BY <1>2, <2>2 DEF Threads, Steps
    <3> QED
      BY <1>1, <3>1, ThreadMoves
  <2> QED
    BY <2>1, <2>2
<1>8. <<>> \in Seq(Messages) /\ <<>> \in Seq(Entries) /\ DOMAIN <<>> = {}
  BY EmptySeq
<1>9. TypeOK'
  BY <1>2, <1>6, <1>7, <1>8 DEF TypeOK, Advance
<1>10. FilterThreads'
  BY <1>4, <1>5 DEF FilterThreads
<1>11. Flow(m_filters')
  <2>1. "on_stop" \notin Threads
    BY DEF LoggingConstants, Threads
  <2> QED
    BY <1>4, <1>5, <2>1, FlowLess
<1>12. AllNumbered'
  <2> SUFFICES ASSUME NEW i \in DOMAIN filters
               PROVE  /\ \A a \in DOMAIN m_filters'[i].handled : Numbered(logthread', m_filters'[i].handled[a])
                      /\ \A a \in DOMAIN m_filters'[i].queue : Numbered(logthread', m_filters'[i].queue[a])
    BY <1>4 DEF AllNumbered
  <2>1. m_filters'[i].handled = filters[i].handled /\ DOMAIN m_filters'[i].queue = {}
    BY <1>5, <1>8
  <2>2. \A a \in DOMAIN filters[i].handled : filters[i].handled[a] \in Entries
    <3>1. PICK h \in Seq(Messages) : h = filters[i].handled
      BY <1>3 DEF Filters
    <3>2. \A a \in DOMAIN h : h[a] \in Messages
      BY LenProperties, ElementOfSeq
    <3> QED
      BY <3>1, <3>2 DEF Entries
  <2> QED
    BY <1>1, <1>7, <2>1, <2>2, NumberedLater
<1>13. NothingLost'
  BY <1>2, <1>8 DEF NothingLost
<1> QED
  BY <1>9, <1>10, <1>11, <1>12, <1>13 DEF ChainInv

\* One filter changes, of which the caller stops a part: its messages stay, the
\* marker of on_stop() may come behind them, and m_abort is not cleared.
LEMMA StoppedStep ==
  ASSUME LoggingConstants, ChainInv, Advance, UNCHANGED <<accepted, m_started>>,
         NEW i \in DOMAIN m_filters, NEW g \in Filters, m_filters' = [m_filters EXCEPT ![i] = g],
         g.kind = m_filters[i].kind, g.background = m_filters[i].background,
         g.handled = m_filters[i].handled, m_filters[i].abort => g.abort,
         \/ g.queue = m_filters[i].queue
         \/ g.queue = Append(m_filters[i].queue, Marker) /\ Posts(m_filters[i])
  PROVE  ChainInv'
<1>1. TypeOK /\ FilterThreads /\ Flow(m_filters) /\ AllNumbered /\ NothingLost
  BY DEF ChainInv
<1>2. Len(m_filters) \in Nat /\ DOMAIN m_filters = 1 .. Len(m_filters)
      /\ \A j \in 1 .. Len(m_filters) : m_filters[j] \in Filters
  BY <1>1, FilterElements
<1>3. PICK fs \in Seq(Filters) : fs = m_filters
  BY <1>1 DEF TypeOK
<1>4. PICK gs : gs = m_filters' /\ gs = [fs EXCEPT ![i] = g]
  BY <1>3
<1>5. DOMAIN gs = DOMAIN fs /\ gs[i] = g /\ \A j \in DOMAIN fs : j # i => gs[j] = fs[j]
  BY <1>3, <1>4
<1>6. gs \in Seq(Filters)
  <2>1. gs = [j \in 1 .. Len(fs) |-> gs[j]] /\ \A j \in 1 .. Len(fs) : gs[j] \in Filters
    BY <1>2, <1>3, <1>4, <1>5
  <2> QED
    BY <1>2, <1>3, <2>1, IsASeq
<1>7. PICK q \in Seq(Entries), r \in Seq(Entries) : q = fs[i].queue /\ r = g.queue
  BY <1>2, <1>3 DEF Filters
<1>8. /\ \A a \in DOMAIN q : a \in DOMAIN r /\ r[a] = q[a]
      /\ \A a \in DOMAIN r : r[a] = Marker \/ (a \in DOMAIN q /\ r[a] = q[a])
      /\ r = q \/ Posts(fs[i])
  <2>1. CASE r = q
    BY <2>1
  <2>2. CASE r = Append(q, Marker) /\ Posts(fs[i])
    <3>1. Marker \in Entries
      BY DEF Marker, Entries
    <3>2. /\ \A a \in DOMAIN q : a \in DOMAIN r /\ r[a] = q[a]
          /\ \A a \in DOMAIN r : \/ a \in DOMAIN q /\ r[a] = q[a]
                                 \/ r[a] = Marker /\ (\A b \in DOMAIN r : b <= a)
      BY <2>2, <3>1, LongerElements
    <3> QED
      BY <2>2, <3>2
  <2> QED
    BY <1>3, <1>7, <2>1, <2>2
<1>9. ASSUME NEW j \in DOMAIN fs
      PROVE  /\ gs[j].handled = fs[j].handled /\ (Posts(gs[j]) <=> Posts(fs[j]))
             /\ fs[j].abort => gs[j].abort
             /\ ~Posts(fs[j]) => gs[j].queue = fs[j].queue
             /\ \A a \in DOMAIN fs[j].queue : a \in DOMAIN gs[j].queue /\ gs[j].queue[a] = fs[j].queue[a]
             /\ \A a \in DOMAIN gs[j].queue :
                  gs[j].queue[a] = Marker \/ (a \in DOMAIN fs[j].queue /\ gs[j].queue[a] = fs[j].queue[a])
  <2>1. CASE j # i
    BY <1>5, <2>1
  <2>2. CASE j = i
    <3>1. /\ g.handled = fs[i].handled /\ (fs[i].abort => g.abort)
          /\ g.kind = fs[i].kind /\ g.background = fs[i].background
      BY <1>3
    <3>2. Posts(g) <=> Posts(fs[i])
      BY <3>1 DEF Posts
    <3> QED
      BY <1>5, <1>7, <1>8, <2>2, <3>1, <3>2
  <2> QED
    BY <2>1, <2>2
<1>10. TypeOK'
  BY <1>1, <1>4, <1>6 DEF TypeOK, Advance
<1>11. FilterThreads'
  <2>1. \A j \in DOMAIN fs : ~Posts(gs[j]) => gs[j].queue = <<>>
    BY <1>1, <1>3, <1>9 DEF FilterThreads
  <2> QED
    BY <1>4, <1>5, <2>1 DEF FilterThreads, Posts
<1>12. Flow(gs)
  <2>1. "on_stop" \notin Threads
    BY DEF LoggingConstants, Threads
  <2>2. Flow(fs)
    BY <1>1, <1>3
  <2> QED
    BY <1>5, <1>9, <2>1, <2>2, FlowLess
<1>13. AllNumbered'
  <2> SUFFICES ASSUME NEW j \in DOMAIN fs
               PROVE  /\ \A a \in DOMAIN gs[j].handled : Numbered(logthread', gs[j].handled[a])
                      /\ \A a \in DOMAIN gs[j].queue : Numbered(logthread', gs[j].queue[a])
    BY <1>4, <1>5 DEF AllNumbered
  <2>1. Numbered(logthread', Marker)
    BY DEF LoggingConstants, Threads, Numbered, Marker
  <2>2. /\ \A b \in DOMAIN fs[j].handled : Numbered(logthread', fs[j].handled[b])
        /\ \A b \in DOMAIN fs[j].queue : Numbered(logthread', fs[j].queue[b])
    BY <1>1, <1>2, <1>3, FilterElements, NumberedLater DEF AllNumbered
  <2> QED
    BY <1>9, <2>1, <2>2
<1>14. NothingLost'
  <2> SUFFICES ASSUME NEW j \in DOMAIN fs, Flows(j)', NEW k \in DOMAIN accepted
               PROVE  Reaches(gs, j, accepted[k])
    <3>1. accepted' = accepted /\ DOMAIN m_filters' = DOMAIN fs /\ m_filters' = gs
      BY <1>4, <1>5
    <3> QED
      BY <3>1, Zenon DEF NothingLost
  <2>1. \A l \in 1 .. j : l \in DOMAIN fs
    BY <1>2, <1>3
  <2>2. Flows(j)
    <3>1. \A l \in 1 .. j : Posts(gs[l]) => ~gs[l].abort
      BY <1>4 DEF Flows, Posts
    <3>2. \A l \in 1 .. j : Posts(fs[l]) => ~fs[l].abort
      BY <1>9, <2>1, <3>1
    <3> QED
      BY <1>3, <3>2 DEF Flows
  <2>3. Reaches(fs, j, accepted[k])
    BY <1>1, <1>3, <2>2 DEF NothingLost
  <2>4. \A l \in 1 .. j : \A a \in DOMAIN fs[l].queue : a \in DOMAIN gs[l].queue /\ gs[l].queue[a] = fs[l].queue[a]
    BY <1>9, <2>1
  <2>5. gs[j].handled = fs[j].handled
    BY <1>9
  <2> QED
    BY <2>3, <2>4, <2>5 DEF Reaches, Waits
<1> QED
  BY <1>4, <1>10, <1>11, <1>12, <1>13, <1>14 DEF ChainInv

\* The main thread goes on inside stop().
LEMMA StopAdvances ==
  ASSUME TypeOK, NEW pc \in {"stop", "post", "join"}, NEW at, StopGoesOn(pc, at)
  PROVE  Advance /\ UNCHANGED <<accepted, m_started>> /\ m_started' \in BOOLEAN
<1>1. /\ logthread' = [logthread EXCEPT !["main"].pc = pc]
      /\ UNCHANGED <<accepted, m_started>> /\ m_started \in BOOLEAN
  BY DEF StopGoesOn, TypeOK
<1>2. "main" \in Threads /\ pc \in Steps /\ pc # "log"
  BY DEF Threads, Steps
<1> QED
  BY <1>1, <1>2, ThreadMoves

\* stop() sets m_abort, posts on_stop, and joins the thread.
LEMMA StopSteps ==
  ASSUME LoggingConstants, ChainInv, stop_aborts \/ stop_posts \/ stop_joins
  PROVE  ChainInv'
<1>1. TypeOK
  BY DEF ChainInv
<1>2. PICK i \in DOMAIN m_filters : i = stopping.at
  BY DEF stop_aborts, stop_posts, stop_joins, Stopping
<1>3. PICK f \in Filters : f = m_filters[i]
  BY <1>1, <1>2, FilterElements
<1>4. CASE stop_aborts
  <2>0. PICK b \in BOOLEAN : b = f.runner
    BY DEF Filters
  <2>1. PICK g : g = Runs(f, TRUE, b)
    OBVIOUS
  <2>2. PICK pc \in {"stop", "post", "join"} : StopGoesOn(pc, i)
    BY <1>2, <1>4 DEF stop_aborts
  <2>3. /\ g \in Filters /\ g.kind = f.kind /\ g.background = f.background
        /\ g.abort /\ g.handled = f.handled /\ g.queue = f.queue
    BY <2>1, WithRunner, ZenonT(60)
  <2>4. m_filters' = [m_filters EXCEPT ![i] = g]
    <3>1. [f EXCEPT !.abort = TRUE] = Runs(f, TRUE, b)
      BY <2>0 DEF Runs, Filters
    <3>2. m_filters' = [m_filters EXCEPT ![i].abort = TRUE]
      BY <1>2, <1>4 DEF stop_aborts
    <3> QED
      BY <1>3, <2>1, <3>1, <3>2
  <2>5. Advance /\ UNCHANGED <<accepted, m_started>>
    BY <1>1, <2>2, StopAdvances
  <2> QED
    BY <1>3, <2>3, <2>4, <2>5, StoppedStep
<1>5. CASE stop_posts
  <2>0. PICK q \in Seq(Entries), r \in Seq(Entries) : q = f.queue /\ r = Append(q, Marker)
    <3>1. f.queue \in Seq(Entries) /\ Marker \in Entries
      BY DEF Filters, Entries, Marker
    <3> QED
      BY <3>1, AppendProperties
  <2>1. PICK g : g = [f EXCEPT !.queue = r]
    OBVIOUS
  <2>2. StopGoesOn("join", i) /\ Posts(f)
    BY <1>2, <1>3, <1>5 DEF stop_posts
  <2>3. /\ g \in Filters /\ g.kind = f.kind /\ g.background = f.background
        /\ g.abort = f.abort /\ g.handled = f.handled /\ g.queue = r
    BY <2>1, WithQueue, ZenonT(60)
  <2>4. m_filters' = [m_filters EXCEPT ![i] = g]
    <3>1. m_filters' = [m_filters EXCEPT ![i].queue = Append(@, Marker)]
      BY <1>2, <1>5 DEF stop_posts, Marker
    <3> QED
      BY <1>3, <2>0, <2>1, <3>1
  <2>5. Advance /\ UNCHANGED <<accepted, m_started>>
    BY <1>1, <2>2, StopAdvances
  <2> QED
    BY <1>3, <2>0, <2>2, <2>3, <2>4, <2>5, StoppedStep
<1>6. CASE stop_joins
  <2>0. PICK b \in BOOLEAN : b = f.abort
    BY DEF Filters
  <2>1. PICK g : g = Runs(f, b, FALSE)
    OBVIOUS
  <2>2. PICK at : StopGoesOn("stop", at)
    BY <1>6 DEF stop_joins
  <2>3. /\ g \in Filters /\ g.kind = f.kind /\ g.background = f.background
        /\ (g.abort <=> b) /\ g.handled = f.handled /\ g.queue = f.queue
    BY <2>1, WithRunner, ZenonT(60)
  <2>4. m_filters' = [m_filters EXCEPT ![i] = g]
    <3>1. [f EXCEPT !.runner = FALSE] = Runs(f, b, FALSE)
      BY <2>0 DEF Runs, Filters
    <3>2. m_filters' = [m_filters EXCEPT ![i].runner = FALSE]
      BY <1>2, <1>6 DEF stop_joins
    <3> QED
      BY <1>3, <2>1, <3>1, <3>2
  <2>5. Advance /\ UNCHANGED <<accepted, m_started>>
    BY <1>1, <2>2, StopAdvances
  <2> QED
    BY <1>3, <2>0, <2>3, <2>4, <2>5, StoppedStep
<1> QED
  BY <1>4, <1>5, <1>6

\* The steps of stop() that leave the chain alone.
LEMMA StopQuiet ==
  ASSUME ChainInv, (\E replaces \in BOOLEAN : stop(replaces)) \/ stop_in_caller \/ stop_ends
  PROVE  ChainInv'
<1>1. TypeOK
  BY DEF ChainInv
<1>2. CASE stop_in_caller
  <2>1. PICK at : StopGoesOn("stop", at) /\ UNCHANGED m_filters
    BY <1>2 DEF stop_in_caller
  <2> QED
    BY <1>1, <2>1, StopAdvances, QuietStep
<1>3. ASSUME NEW p \in Steps, p # "log", logthread' = [logthread EXCEPT !["main"].pc = p],
             m_started' \in BOOLEAN, UNCHANGED <<m_filters, accepted>>
      PROVE  ChainInv'
  <2>1. "main" \in Threads
    BY DEF Threads
  <2> QED
    BY <1>1, <1>3, <2>1, ThreadMoves, QuietStep
<1>4. CASE \E replaces \in BOOLEAN : stop(replaces)
  BY <1>1, <1>3, <1>4 DEF stop, Steps, TypeOK
<1>5. CASE stop_ends
  <2>1. PICK p \in Steps : p = (IF stopping.replaces THEN "swap" ELSE "idle") /\ p # "log"
    BY DEF Steps
  <2> QED
    BY <1>3, <1>5, <2>1 DEF stop_ends
<1> QED
  BY <1>2, <1>4, <1>5

\* A sequence of one element.
LEMMA OneElement == ASSUME NEW E, NEW x \in E PROVE <<x>> \in Seq(E)
OBVIOUS

\* Init: whatever the chain is configured with.
LEMMA ChainInit ==
  ASSUME LoggingConstants, Init
  PROVE  ChainInv
<1>1. PICK names : /\ names \in Chains \cup {default_filters(c, f) : c, f \in BOOLEAN}
                   /\ m_filters = configure_filter_chain(names)
  BY DEF Init
<1>2. names \in Seq(Names)
  <2>1. CASE names \in Chains
    BY <2>1 DEF LoggingConstants
  <2>2. CASE names \in {default_filters(c, f) : c, f \in BOOLEAN}
    <3>1. PICK c \in BOOLEAN, f \in BOOLEAN : names = default_filters(c, f)
      BY <2>2
    <3>2. PICK a, b : /\ a = (IF c THEN <<"console">> ELSE <<>>)
                      /\ b = (IF f THEN <<"bgfile">> ELSE <<>>)
      OBVIOUS
    <3>3. a \in Seq(Names) /\ b \in Seq(Names)
      <4>1. "console" \in Names /\ "bgfile" \in Names
        BY DEF Names
      <4>2. <<"console">> \in Seq(Names)
        BY <4>1, OneElement, Zenon
      <4>3. <<"bgfile">> \in Seq(Names)
        BY <4>1, OneElement, Zenon
      <4>4. <<>> \in Seq(Names)
        BY EmptySeq, Zenon
      <4> QED
        BY <3>2, <4>2, <4>3, <4>4, Zenon
    <3>4. a \o b \in Seq(Names)
      BY <3>3, ConcatProperties
    <3> QED
      BY <3>1, <3>2, <3>4 DEF default_filters
  <2> QED
    BY <1>1, <2>1, <2>2
<1>3. PICK fs \in Seq(NewFilters) : fs = m_filters
  BY <1>1, <1>2, Configured
<1>4. /\ fs \in Seq(Filters) /\ Flow(fs)
      /\ \A i \in DOMAIN fs : fs[i].queue = <<>> /\ fs[i].handled = <<>> /\ ~fs[i].runner
  BY NewChain
<1>5. /\ m_started = FALSE /\ accepted = <<>>
      /\ logthread = [t \in Threads |-> [pc |-> "idle", count |-> 0, name |-> "root"]]
  BY DEF Init, Threads
<1>6. <<>> \in Seq(Messages) /\ DOMAIN <<>> = {}
  BY EmptySeq
<1>7. TypeOK
  BY <1>3, <1>4, <1>5, <1>6 DEF TypeOK, Steps
<1>8. FilterThreads
  BY <1>3, <1>4, <1>5 DEF FilterThreads
<1>9. AllNumbered
  BY <1>3, <1>4, <1>6 DEF AllNumbered
<1>10. NothingLost
  BY <1>5, <1>6 DEF NothingLost
<1> QED
  BY <1>3, <1>4, <1>7, <1>8, <1>9, <1>10 DEF ChainInv

\* start(): the filters are idle.
LEMMA StartsIdle ==
  ASSUME LoggingConstants, ChainInv, start
  PROVE  ChainInv'
<1>1. /\ start_chain(m_filters, disk, m_fout)
      /\ \A i \in DOMAIN m_filters : m_filters[i].queue = <<>>
  BY DEF start
<1>2. m_filters \in Seq(Filters) /\ Flow(m_filters) /\ AllNumbered
  BY DEF ChainInv, TypeOK
<1>3. \A i \in DOMAIN m_filters : \A a \in DOMAIN m_filters[i].handled :
        Numbered(logthread, m_filters[i].handled[a])
  BY <1>2 DEF AllNumbered
<1> QED
  BY <1>1, <1>2, <1>3, StartStep

\* set_filter_chain(): the filters are new.
LEMMA StartsNew ==
  ASSUME LoggingConstants, ChainInv, set_filter_chain
  PROVE  ChainInv'
<1>1. PICK names \in Chains :
        start_chain(configure_filter_chain(names), disk, [open |-> FALSE, buffer |-> <<>>])
  BY DEF set_filter_chain
<1>2. PICK fs \in Seq(NewFilters) : fs = configure_filter_chain(names)
  BY Configured DEF LoggingConstants
<1>3. /\ fs \in Seq(Filters) /\ Flow(fs)
      /\ \A i \in DOMAIN fs : fs[i].queue = <<>> /\ fs[i].handled = <<>> /\ ~fs[i].runner
  BY NewChain
<1>4. \A i \in DOMAIN fs : \A a \in DOMAIN fs[i].handled : Numbered(logthread, fs[i].handled[a])
  <2>1. DOMAIN <<>> = {}
    BY EmptySeq
  <2> QED
    BY <1>3, <2>1
<1>5. PICK fout : start_chain(fs, disk, fout)
  BY <1>1, <1>2
<1> QED
  BY <1>3, <1>4, <1>5, StartStep

\* The actions of the callers that leave the chain alone.
LEMMA ChecksAdvance ==
  ASSUME TypeOK, NEW t \in LogThreads, NEW level \in Levels, check_level(t, level)
  PROVE  Advance
<1>1. t \in Threads /\ logthread[t].count \in Nat
  BY DEF TypeOK, Threads
<1>2. PICK p \in Steps : p = IF need_log(logthread[t].name, level) THEN "log" ELSE "idle"
  BY DEF Steps
<1>3. PICK k \in Nat, c \in Nat : k = logthread[t].count /\ c = k + 1 /\ c > k /\ c >= k
  <2>1. PICK k \in Nat : k = logthread[t].count
    BY <1>1
  <2>2. k + 1 \in Nat /\ k + 1 > k /\ k + 1 >= k
    OBVIOUS
  <2> QED
    BY <2>1, <2>2
<1>4. logthread' = [logthread EXCEPT ![t].pc = p, ![t].count = c]
  BY <1>1, <1>2, <1>3 DEF check_level, TypeOK
<1> QED
  BY <1>1, <1>3, <1>4, ThreadSteps

\* lookup() changes the logger of the thread only.
LEMMA LookupAdvance ==
  ASSUME TypeOK, NEW t \in LogThreads, NEW name \in {"root", "app"}, lookup(t, name)
  PROVE  Advance
<1>1. logthread' = [logthread EXCEPT ![t].name = name] /\ t \in Threads
  BY DEF lookup, Threads
<1>2. logthread \in [Threads -> [pc : Steps, count : Nat, name : {"root", "app"}]]
  BY DEF TypeOK
<1>3. \A u \in Threads : logthread'[u].count = logthread[u].count /\ logthread'[u].pc = logthread[u].pc
  BY <1>1, <1>2
<1>4. logthread' \in [Threads -> [pc : Steps, count : Nat, name : {"root", "app"}]]
  BY <1>1, <1>2
<1> QED
  BY <1>2, <1>3, <1>4 DEF Advance

\* Every step.
LEMMA ChainStep ==
  ASSUME LoggingConstants, ChainInv, [Next]_vars
  PROVE  ChainInv'
<1>1. TypeOK
  BY DEF ChainInv
<1>2. CASE start
  BY <1>2, StartsIdle
<1>3. CASE \/ \E replaces \in BOOLEAN : stop(replaces)
           \/ stop_in_caller \/ stop_aborts \/ stop_posts \/ stop_joins \/ stop_ends
  BY <1>3, StopSteps, StopQuiet
<1>4. CASE set_filter_chain
  BY <1>4, StartsNew
<1>5. CASE Tick
  BY <1>1, <1>5, ThreadsRest, StillStep DEF Tick
<1>6. ASSUME NEW t \in LogThreads, NEW name \in {"root", "app"}, lookup(t, name) PROVE ChainInv'
  BY <1>1, <1>6, LookupAdvance, StillStep DEF lookup
<1>7. ASSUME NEW t \in LogThreads, NEW level \in Levels, check_level(t, level) PROVE ChainInv'
  BY <1>1, <1>7, ChecksAdvance, StillStep DEF check_level
<1>8. ASSUME NEW t \in LogThreads \cup {"main"}, log(t) PROVE ChainInv'
  BY <1>8, LogStep DEF Threads
<1>9. ASSUME NEW name, NEW level, set_level(name, level) PROVE ChainInv'
  BY <1>1, <1>9, ThreadsRest, StillStep DEF set_level
<1>10. ASSUME NEW level, set_log_level(level) PROVE ChainInv'
  BY <1>1, <1>10, ThreadsRest, StillStep DEF set_log_level
<1>11. ASSUME NEW i \in DOMAIN m_filters, NEW t \in LogThreads \cup {"main"},
              NEW n \in 1 .. logthread[t].count, on_log(i, <<t, n>>)
       PROVE  ChainInv'
  <2>1. <<t, n>> \in Messages
    BY <1>1 DEF TypeOK, Messages, Threads
  <2> QED
    BY <1>11, <2>1, OnLogStep
<1>13. ASSUME NEW i \in DOMAIN m_filters, on_stop(i) PROVE ChainInv'
  BY <1>13, OnStopStep
<1>12. CASE UNCHANGED vars
  BY <1>1, <1>12, ThreadsRest, StillStep DEF vars
<1> QED
  BY <1>2, <1>3, <1>4, <1>5, <1>6, <1>7, <1>8, <1>9, <1>10, <1>11, <1>12, <1>13, Zenon DEF Next

-----------------------------------------------------------------------------
(* What the invariant says of the messages.                                *)

\* A message does not precede itself.
LEMMA NotItself ==
  ASSUME NEW x \in Messages PROVE ~Precedes(x, x) /\ (\A y : x = y => ~Precedes(x, y))
<1>1. x[1] \in Threads /\ x[2] \in Nat
  BY DEF Messages
<1> QED
  BY <1>1 DEF Precedes

\* One of two different numbers is smaller.
LEMMA OneSmaller == ASSUME NEW a \in Nat, NEW b \in Nat, a # b PROVE a < b \/ b < a
OBVIOUS

\* Each accepted message is in one place on its way to a filter, and in one at
\* least until stop() has reached a filter on it.
LEMMA OncePerFilter == ASSUME ChainInv PROVE EachFilterOnce
<1> SUFFICES ASSUME NEW i \in DOMAIN m_filters, NEW k \in DOMAIN accepted
             PROVE  /\ \A p, r \in Places(i, accepted[k]) : p = r
                    /\ Flows(i) => Places(i, accepted[k]) # {}
  BY Zenon DEF EachFilterOnce
<1>1. TypeOK /\ Flow(m_filters) /\ NothingLost
  BY DEF ChainInv
<1>2. /\ Len(m_filters) \in Nat /\ DOMAIN m_filters = 1 .. Len(m_filters) /\ i \in Nat
      /\ \A j \in 1 .. Len(m_filters) :
           /\ m_filters[j].handled \in Seq(Messages) /\ m_filters[j].queue \in Seq(Entries)
           /\ DOMAIN m_filters[j].handled \subseteq Nat /\ DOMAIN m_filters[j].queue \subseteq Nat
  <2>1. /\ Len(m_filters) \in Nat /\ DOMAIN m_filters = 1 .. Len(m_filters)
        /\ \A j \in 1 .. Len(m_filters) :
             m_filters[j].handled \in Seq(Messages) /\ m_filters[j].queue \in Seq(Entries)
    BY <1>1, FilterElements
  <2> QED
    BY <2>1, LenProperties
<1>3. accepted[k] \in Messages
  BY <1>1, LenProperties, ElementOfSeq DEF TypeOK
<1>4. PICK x \in Messages : x = accepted[k]
  BY <1>3
<1>5. \A y, z : y = x /\ z = x => ~Precedes(y, z)
  BY <1>4, NotItself
<1>6. \A p \in Places(i, x) :
        \/ \E n \in DOMAIN m_filters[i].handled : p = <<0, n>> /\ m_filters[i].handled[n] = x
        \/ \E j \in 1 .. i : \E n \in DOMAIN m_filters[j].queue :
             p = <<j, n>> /\ m_filters[j].queue[n] = x
  BY DEF Places
<1>7. \A j \in 1 .. i : j \in DOMAIN m_filters /\ j \in Nat
  BY <1>2
<1>8. ASSUME NEW a \in DOMAIN m_filters[i].handled, NEW b \in DOMAIN m_filters[i].handled,
             m_filters[i].handled[a] = x, m_filters[i].handled[b] = x
      PROVE  a = b
  <2> SUFFICES ASSUME a # b PROVE FALSE
    OBVIOUS
  <2>1. a < b \/ b < a
    BY <1>2, <1>8, OneSmaller
  <2>2. Precedes(m_filters[i].handled[a], m_filters[i].handled[b])
        \/ Precedes(m_filters[i].handled[b], m_filters[i].handled[a])
    BY <1>1, <1>8, <2>1 DEF Flow, HandledOrder
  <2> QED
    BY <1>5, <1>8, <2>2
<1>9. ASSUME NEW j \in 1 .. i, NEW l \in 1 .. i,
             NEW a \in DOMAIN m_filters[j].queue, NEW b \in DOMAIN m_filters[l].queue,
             m_filters[j].queue[a] = x, m_filters[l].queue[b] = x
      PROVE  j = l /\ a = b
  <2>0. a \in Nat /\ b \in Nat
    BY <1>2, <1>7
  <2>1. j = l
    <3> SUFFICES ASSUME j # l PROVE FALSE
      OBVIOUS
    <3>1. j \in 1 .. l - 1 \/ l \in 1 .. j - 1
      BY <1>2, <1>7
    <3>2. Precedes(m_filters[j].queue[a], m_filters[l].queue[b])
          \/ Precedes(m_filters[l].queue[b], m_filters[j].queue[a])
      BY <1>1, <1>7, <1>9, <3>1 DEF Flow, FartherFirst
    <3> QED
      BY <1>5, <1>9, <3>2
  <2>2. a = b
    <3> SUFFICES ASSUME a # b PROVE FALSE
      OBVIOUS
    <3>1. (a < b \/ b < a) /\ b \in DOMAIN m_filters[j].queue
      BY <2>0, <2>1, OneSmaller
    <3>2. Precedes(m_filters[j].queue[a], m_filters[j].queue[b])
          \/ Precedes(m_filters[j].queue[b], m_filters[j].queue[a])
      BY <1>1, <1>7, <1>9, <3>1 DEF Flow, QueueOrder
    <3> QED
      BY <1>5, <1>9, <2>1, <3>2
  <2> QED
    BY <2>1, <2>2
<1>10. ASSUME NEW a \in DOMAIN m_filters[i].handled, m_filters[i].handled[a] = x,
              NEW j \in 1 .. i, NEW b \in DOMAIN m_filters[j].queue, m_filters[j].queue[b] = x
       PROVE  FALSE
  <2>1. Precedes(m_filters[i].handled[a], m_filters[j].queue[b])
    BY <1>1, <1>10 DEF Flow, HandledFirst
  <2> QED
    BY <1>5, <1>10, <2>1
<1>11. \A p, r \in Places(i, x) : p = r
  <2> SUFFICES ASSUME NEW p \in Places(i, x), NEW r \in Places(i, x) PROVE p = r
    OBVIOUS
  <2>1. CASE \E n \in DOMAIN m_filters[i].handled : p = <<0, n>> /\ m_filters[i].handled[n] = x
    BY <1>6, <1>8, <1>10, <2>1
  <2>2. CASE \E j \in 1 .. i : \E n \in DOMAIN m_filters[j].queue :
               p = <<j, n>> /\ m_filters[j].queue[n] = x
    BY <1>6, <1>9, <1>10, <2>2
  <2> QED
    BY <1>6, <2>1, <2>2
<1>12. ASSUME Flows(i) PROVE Places(i, x) # {}
  <2>1. Reaches(m_filters, i, x)
    BY <1>1, <1>4, <1>12 DEF NothingLost
  <2>2. CASE \E a \in DOMAIN m_filters[i].handled : m_filters[i].handled[a] = x
    <3>1. PICK a \in DOMAIN m_filters[i].handled : m_filters[i].handled[a] = x
      BY <2>2
    <3>2. <<0, a>> \in Places(i, x)
      BY <3>1 DEF Places
    <3> QED
      BY <3>2
  <2>3. CASE Waits(m_filters, i, x)
    <3>0. PICK j \in 1 .. i : \E a \in DOMAIN m_filters[j].queue : m_filters[j].queue[a] = x
      BY <2>3 DEF Waits
    <3>1. PICK a \in DOMAIN m_filters[j].queue : m_filters[j].queue[a] = x
      BY <3>0
    <3>2. <<j, a>> \in {<<j, n>> : n \in {n \in DOMAIN m_filters[j].queue : m_filters[j].queue[n] = x}}
      BY <3>1
    <3>3. <<j, a>> \in Places(i, x)
      BY <3>2, Zenon DEF Places
    <3> QED
      BY <3>3
  <2> QED
    BY <2>1, <2>2, <2>3 DEF Reaches
<1> QED
  BY <1>4, <1>11, <1>12

\* The messages of a thread are handled in its order.
LEMMA OrderPerThread == ASSUME ChainInv PROVE ThreadOrder
<1>1. TypeOK /\ HandledOrder(m_filters)
  BY DEF ChainInv, Flow
<1> SUFFICES ASSUME NEW i \in DOMAIN m_filters,
                    NEW a \in DOMAIN m_filters[i].handled, NEW b \in DOMAIN m_filters[i].handled,
                    a < b, m_filters[i].handled[a][1] = m_filters[i].handled[b][1]
             PROVE  m_filters[i].handled[a][2] < m_filters[i].handled[b][2]
  BY Zenon DEF ThreadOrder
<1>2. m_filters[i].handled \in Seq(Messages)
  BY <1>1, FilterElements
<1>3. m_filters[i].handled[a] \in Messages
  BY <1>2, LenProperties, ElementOfSeq
<1>4. m_filters[i].handled[a][1] \in Threads
  BY <1>3 DEF Messages
<1>5. Precedes(m_filters[i].handled[a], m_filters[i].handled[b])
  BY <1>1 DEF HandledOrder
<1> QED
  BY <1>4, <1>5 DEF Precedes

-----------------------------------------------------------------------------
(* Sequences that end with others.                                         *)

\* Positions counted from the end.
LEMMA FromEnd ==
  ASSUME NEW a \in Nat, NEW b \in Nat, a <= b, NEW n \in 1 .. a
  PROVE  \E k \in 1 .. b : k = b - a + n /\ \A c \in Nat : c - b + k = c - a + n
<1>1. b - a + n \in 1 .. b /\ \A c \in Nat : c - b + (b - a + n) = c - a + n
  OBVIOUS
<1> QED
  BY <1>1

\* Positions of a sequence that is read backwards.
LEMMA Mirrored ==
  ASSUME NEW a \in Nat, NEW n \in 1 .. a
  PROVE  \E k \in 1 .. a : k = a - n + 1 /\ a - k + 1 = n /\ \A c \in Nat : c - k + 1 = c - a + n
<1>1. a - n + 1 \in 1 .. a /\ a - (a - n + 1) + 1 = n
  OBVIOUS
<1>2. \A c \in Nat : c - (a - n + 1) + 1 = c - a + n
  OBVIOUS
<1> QED
  BY <1>1, <1>2

\* The operator of the community modules says the same.
LEMMA SuffixEnds == ASSUME NEW E, NEW s \in Seq(E), NEW t \in Seq(E) PROVE IsSuffix(s, t) <=> Ends(s, t)
<1>1. Len(s) \in Nat /\ Len(t) \in Nat
  BY LenProperties
<1>2. PICK x, y : x = Reverse(s) /\ y = Reverse(t)
  OBVIOUS
<1>3. /\ x = [i \in 1 .. Len(s) |-> s[Len(s) - i + 1]] /\ y = [i \in 1 .. Len(t) |-> t[Len(t) - i + 1]]
  BY <1>2 DEF Reverse
<1>4. x \in Seq(E) /\ y \in Seq(E) /\ Len(x) = Len(s) /\ Len(y) = Len(t)
  <2>1. \A i \in 1 .. Len(s) : s[Len(s) - i + 1] \in E
    BY <1>1, ElementOfSeq
  <2>2. \A i \in 1 .. Len(t) : t[Len(t) - i + 1] \in E
    BY <1>1, ElementOfSeq
  <2> QED
    BY <1>1, <1>3, <2>1, <2>2
<1>5. IsSuffix(s, t) <=> Len(s) <= Len(t) /\ SubSeq(x, 1, Len(s)) = SubSeq(y, 1, Len(s))
  BY <1>2, <1>4 DEF IsSuffix, IsPrefix
<1>6. ASSUME Len(s) <= Len(t)
      PROVE  SubSeq(x, 1, Len(s)) = SubSeq(y, 1, Len(s)) <=> \A i \in 1 .. Len(s) : x[i] = y[i]
  <2>1. PICK u, v : u = SubSeq(x, 1, Len(s)) /\ v = SubSeq(y, 1, Len(s))
    OBVIOUS
  <2>2. /\ u \in Seq(E) /\ Len(u) = Len(s) /\ \A i \in 1 .. Len(s) : u[i] = x[i]
        /\ v \in Seq(E) /\ Len(v) = Len(s) /\ \A i \in 1 .. Len(s) : v[i] = y[i]
    BY <1>1, <1>4, <1>6, <2>1
  <2>3. u = v <=> \A i \in 1 .. Len(s) : u[i] = v[i]
    BY <2>2, SeqEqual
  <2> QED
    BY <2>1, <2>2, <2>3
<1>7. ASSUME Len(s) <= Len(t)
      PROVE  (\A i \in 1 .. Len(s) : x[i] = y[i])
               <=> \A n \in 1 .. Len(s) : s[n] = t[Len(t) - Len(s) + n]
  <2>1. \A i \in 1 .. Len(s) : x[i] = s[Len(s) - i + 1] /\ y[i] = t[Len(t) - i + 1]
    BY <1>1, <1>3, <1>7
  <2>2. ASSUME \A i \in 1 .. Len(s) : x[i] = y[i], NEW n \in 1 .. Len(s)
        PROVE  s[n] = t[Len(t) - Len(s) + n]
    <3>0. \E k \in 1 .. Len(s) : /\ k = Len(s) - n + 1 /\ Len(s) - k + 1 = n
                                  /\ \A c \in Nat : c - k + 1 = c - Len(s) + n
      BY <1>1, Mirrored, Zenon
    <3>1. PICK i \in 1 .. Len(s) : /\ Len(s) - i + 1 = n
                                   /\ \A c \in Nat : c - i + 1 = c - Len(s) + n
      BY <3>0
    <3> QED
      BY <1>1, <2>1, <2>2, <3>1
  <2>3. ASSUME \A n \in 1 .. Len(s) : s[n] = t[Len(t) - Len(s) + n], NEW i \in 1 .. Len(s)
        PROVE  x[i] = y[i]
    <3>0. \E k \in 1 .. Len(s) : /\ k = Len(s) - i + 1 /\ Len(s) - k + 1 = i
                                  /\ \A c \in Nat : c - k + 1 = c - Len(s) + i
      BY <1>1, Mirrored, Zenon
    <3>1. PICK n \in 1 .. Len(s) : n = Len(s) - i + 1
      BY <3>0
    <3>2. Len(t) - i + 1 = Len(t) - Len(s) + n
      BY <1>1, <3>1
    <3> QED
      BY <2>1, <2>3, <3>1, <3>2
  <2> QED
    BY <2>2, <2>3
<1> QED
  BY <1>5, <1>6, <1>7 DEF Ends

\* A sequence ends with itself, with nothing, and with what was put behind.
LEMMA EndsWith ==
  ASSUME NEW E, NEW s \in Seq(E), NEW u \in Seq(E)
  PROVE  Ends(s, s) /\ Ends(<<>>, s) /\ Ends(s, u \o s)
<1>1. Len(s) \in Nat /\ Len(u) \in Nat /\ Len(<<>>) = 0
  BY LenProperties, EmptySeq
<1>2. Len(u \o s) = Len(u) + Len(s) /\ \A n \in 1 .. Len(s) : (u \o s)[Len(u) + n] = s[n]
  OBVIOUS
<1> QED
  BY <1>1, <1>2 DEF Ends

\* The end of an end is an end.
LEMMA EndsEnds ==
  ASSUME NEW E, NEW s \in Seq(E), NEW t \in Seq(E), NEW u \in Seq(E), Ends(s, t), Ends(t, u)
  PROVE  Ends(s, u)
<1>1. Len(s) \in Nat /\ Len(t) \in Nat /\ Len(u) \in Nat /\ Len(s) <= Len(t) /\ Len(t) <= Len(u)
  BY LenProperties DEF Ends
<1>2. ASSUME NEW n \in 1 .. Len(s) PROVE s[n] = u[Len(u) - Len(s) + n]
  <2>1. PICK k \in 1 .. Len(t) : /\ k = Len(t) - Len(s) + n
                                 /\ \A c \in Nat : c - Len(t) + k = c - Len(s) + n
    BY <1>1, FromEnd
  <2>2. s[n] = t[k] /\ t[k] = u[Len(u) - Len(t) + k]
    BY <2>1 DEF Ends
  <2> QED
    BY <2>1, <2>2
<1> QED
  BY <1>1, <1>2 DEF Ends

\* Of two ends one ends with the other.
LEMMA EndsTotal ==
  ASSUME NEW E, NEW s \in Seq(E), NEW t \in Seq(E), NEW u \in Seq(E), Ends(s, u), Ends(t, u),
         Len(s) <= Len(t)
  PROVE  Ends(s, t)
<1>1. Len(s) \in Nat /\ Len(t) \in Nat /\ Len(u) \in Nat /\ Len(t) <= Len(u)
  BY LenProperties DEF Ends
<1>2. ASSUME NEW n \in 1 .. Len(s) PROVE s[n] = t[Len(t) - Len(s) + n]
  <2>1. PICK k \in 1 .. Len(t) : /\ k = Len(t) - Len(s) + n
                                 /\ \A c \in Nat : c - Len(t) + k = c - Len(s) + n
    BY <1>1, FromEnd
  <2>2. s[n] = u[Len(u) - Len(s) + n] /\ t[k] = u[Len(u) - Len(t) + k]
    BY <2>1 DEF Ends
  <2> QED
    BY <2>1, <2>2
<1> QED
  BY <1>1, <1>2 DEF Ends

\* The same message put behind both.
LEMMA EndsLonger ==
  ASSUME NEW E, NEW s \in Seq(E), NEW t \in Seq(E), NEW m \in E, Ends(s, t)
  PROVE  Ends(Append(s, m), Append(t, m))
<1>1. PICK x, y : x = Append(s, m) /\ y = Append(t, m)
  OBVIOUS
<1>2. /\ Len(s) \in Nat /\ Len(t) \in Nat /\ Len(s) <= Len(t)
      /\ Len(x) = Len(s) + 1 /\ Len(y) = Len(t) + 1
      /\ x[Len(s) + 1] = m /\ y[Len(t) + 1] = m
      /\ \A n \in 1 .. Len(s) : x[n] = s[n]
      /\ \A n \in 1 .. Len(t) : y[n] = t[n]
  BY <1>1, LenProperties DEF Ends
<1>3. ASSUME NEW n \in 1 .. Len(x) PROVE x[n] = y[Len(y) - Len(x) + n]
  <2>1. CASE n = Len(s) + 1
    <3>1. Len(y) - Len(x) + n = Len(t) + 1
      BY <1>2, <2>1
    <3> QED
      BY <1>2, <2>1, <3>1
  <2>2. CASE n # Len(s) + 1
    <3>1. n \in 1 .. Len(s)
      BY <1>2, <2>2
    <3>2. PICK k \in 1 .. Len(t) : k = Len(t) - Len(s) + n
      BY <1>2, <3>1, FromEnd
    <3>3. Len(y) - Len(x) + n = k
      BY <1>2, <3>2
    <3>4. s[n] = t[Len(t) - Len(s) + n]
      BY <3>1 DEF Ends
    <3> QED
      BY <1>2, <3>1, <3>2, <3>3, <3>4
  <2> QED
    BY <2>1, <2>2
<1>4. Len(x) <= Len(y)
  BY <1>2
<1> QED
  BY <1>1, <1>3, <1>4 DEF Ends

-----------------------------------------------------------------------------
(* The files of the appender.                                              *)

\* Concatenations in another order.
LEMMA AppendLater ==
  ASSUME NEW E, NEW y \in Seq(E), NEW b \in Seq(E), NEW m \in E
  PROVE  y \o Append(b, m) = Append(y \o b, m) /\ y \o b \in Seq(E)
<1>1. Append(b, m) = b \o <<m>> /\ <<m>> \in Seq(E) /\ y \o b \in Seq(E)
  BY AppendIsConcat, OneElement, ConcatProperties
<1>2. Append(y \o b, m) = (y \o b) \o <<m>>
  BY <1>1, AppendIsConcat
<1>3. (y \o b) \o <<m>> = y \o (b \o <<m>>)
  BY <1>1, ConcatAssociative
<1> QED
  BY <1>1, <1>2, <1>3

Joined(x, y, b) == x \o (y \o b)

\* The same with two sequences in front.
LEMMA AppendBehind ==
  ASSUME NEW E, NEW x \in Seq(E), NEW y \in Seq(E), NEW b \in Seq(E), NEW m \in E
  PROVE  Joined(x, y, Append(b, m)) = Append(Joined(x, y, b), m)
<1>0. y \o Append(b, m) = Append(y \o b, m) /\ y \o b \in Seq(E)
  BY AppendLater
<1>1. PICK p \in Seq(E) : p = y \o b
  BY <1>0
<1>2. x \o Append(p, m) = Append(x \o p, m)
  BY AppendLater
<1> QED
  BY <1>0, <1>1, <1>2 DEF Joined

\* A sequence put in front of all leaves the end.
LEMMA EndsBehind ==
  ASSUME NEW E, NEW z \in Seq(E), NEW x \in Seq(E), NEW u \in Seq(E)
  PROVE  Ends(x \o u, (z \o x) \o u)
<1>1. (z \o x) \o u = z \o (x \o u)
  BY ConcatAssociative, SMTT(30)
<1>2. PICK q \in Seq(E) : q = x \o u
  BY ConcatProperties
<1>3. Ends(q, z \o q)
  BY EndsWith
<1> QED
  BY <1>1, <1>2, <1>3

\* The files are sequences of messages.
LEMMA FilesValues ==
  ASSUME NEW count \in Nat, NEW files \in FilesOf(count)
  PROVE  /\ DOMAIN files = -1 .. count - 1 /\ \A i \in -1 .. count - 1 : files[i] \in Seq(Messages)
         /\ files[-1] \in Seq(Messages)
<1>1. -1 \in -1 .. count - 1
  OBVIOUS
<1> QED
  BY <1>1 DEF FilesOf

\* The rolled files as the pieces that FlattenSeq puts together.
LEMMA RolledPieces ==
  ASSUME NEW count \in Nat, NEW files \in FilesOf(count), NEW r \in Nat, r <= count
  PROVE  Pieces(Messages, r, [i \in 1 .. r |-> files[r - i]])
<1>1. \A i \in 1 .. r : r - i \in -1 .. count - 1
  OBVIOUS
<1>2. \A i \in 1 .. r : files[r - i] \in Seq(Messages)
  BY <1>1, FilesValues
<1> QED
  BY <1>2 DEF Pieces

\* Together they are a sequence of messages.
LEMMA RolledType ==
  ASSUME NEW count \in Nat, NEW files \in FilesOf(count), NEW r \in Nat, r <= count
  PROVE  Rolled(files, r) \in Seq(Messages)
<1>1. PICK s : s = [i \in 1 .. r |-> files[r - i]]
  OBVIOUS
<1>2. Pieces(Messages, r, s)
  BY <1>1, RolledPieces
<1>3. FlattenSeq(s) \in Seq(Messages)
  BY <1>2, FlattenType
<1> QED
  BY <1>1, <1>3 DEF Rolled

\* The same rolled files.
LEMMA RolledSame ==
  ASSUME NEW files, NEW others, NEW r \in Nat, \A i \in 0 .. r - 1 : others[i] = files[i]
  PROVE  Rolled(others, r) = Rolled(files, r)
<1>1. \A i \in 1 .. r : r - i \in 0 .. r - 1
  OBVIOUS
<1>2. \A i \in 1 .. r : others[r - i] = files[r - i]
  BY <1>1
<1>3. [i \in 1 .. r |-> others[r - i]] = [i \in 1 .. r |-> files[r - i]]
  BY <1>2
<1> QED
  BY <1>3, Zenon DEF Rolled

\* The pieces s are the first ones of t, or all but the first.
Before(s, t, n) == \A i \in 1 .. n : t[i] = s[i]
Behind(s, t, n) == \A i \in 1 .. n : t[i + 1] = s[i]

\* FlattenLast and FlattenFirst in these terms.
LEMMA FlattenBack ==
  ASSUME NEW E, NEW n \in Nat, NEW s, NEW t, Pieces(E, n, s), Pieces(E, n + 1, t), Before(s, t, n)
  PROVE  FlattenSeq(t) = FlattenSeq(s) \o t[n + 1]
BY FlattenLast, ZenonT(60) DEF Before

\* The same at the front.
LEMMA FlattenFront ==
  ASSUME NEW E, NEW n \in Nat, NEW s, NEW t, Pieces(E, n, s), Pieces(E, n + 1, t), Behind(s, t, n)
  PROVE  FlattenSeq(t) = t[1] \o FlattenSeq(s)
BY FlattenFirst, ZenonT(60) DEF Behind

\* One file more that is older.
LEMMA RolledOlder ==
  ASSUME NEW count \in Nat, NEW files \in FilesOf(count), NEW r \in Nat, r + 1 <= count
  PROVE  Rolled(files, r + 1) = files[r] \o Rolled(files, r)
<1>1. PICK s : s = [i \in 1 .. r |-> files[r - i]]
  OBVIOUS
<1>2. PICK t : t = [i \in 1 .. r + 1 |-> files[(r + 1) - i]]
  OBVIOUS
<1>3. r <= count /\ r + 1 \in Nat
  OBVIOUS
<1>4. Pieces(Messages, r, s) /\ Pieces(Messages, r + 1, t)
  BY <1>1, <1>2, <1>3, RolledPieces
<1>5. \A i \in 1 .. r : i + 1 \in 1 .. r + 1 /\ (r + 1) - (i + 1) = r - i
  OBVIOUS
<1>6. Behind(s, t, r)
  BY <1>1, <1>2, <1>5 DEF Behind
<1>7. 1 \in 1 .. r + 1 /\ (r + 1) - 1 = r
  OBVIOUS
<1>8. t[1] = files[r]
  BY <1>2, <1>7
<1>9. FlattenSeq(t) = t[1] \o FlattenSeq(s)
  BY <1>4, <1>6, FlattenFront, Zenon
<1> QED
  BY <1>1, <1>2, <1>8, <1>9 DEF Rolled

\* Every file one older.
LEMMA RolledShift ==
  ASSUME NEW count \in Nat, NEW files \in FilesOf(count), NEW others \in FilesOf(count),
         NEW r \in Nat, r + 1 <= count, \A i \in 0 .. count - 1 : others[i] = files[i - 1]
  PROVE  Rolled(others, r + 1) = Rolled(files, r) \o files[-1]
<1>1. PICK s : s = [i \in 1 .. r |-> files[r - i]]
  OBVIOUS
<1>2. PICK t : t = [i \in 1 .. r + 1 |-> others[(r + 1) - i]]
  OBVIOUS
<1>3. r <= count /\ r + 1 \in Nat
  OBVIOUS
<1>4. Pieces(Messages, r, s) /\ Pieces(Messages, r + 1, t)
  BY <1>1, <1>2, <1>3, RolledPieces
<1>5. \A i \in 1 .. r : i \in 1 .. r + 1 /\ (r + 1) - i \in 0 .. count - 1 /\ ((r + 1) - i) - 1 = r - i
  OBVIOUS
<1>6. Before(s, t, r)
  BY <1>1, <1>2, <1>5 DEF Before
<1>7. r + 1 \in 1 .. r + 1 /\ (r + 1) - (r + 1) = 0 /\ 0 \in 0 .. count - 1 /\ 0 - 1 = -1
  OBVIOUS
<1>8. t[r + 1] = files[-1]
  BY <1>2, <1>7
<1>9. FlattenSeq(t) = FlattenSeq(s) \o t[r + 1]
  BY <1>4, <1>6, FlattenBack, ZenonT(60)
<1> QED
  BY <1>1, <1>2, <1>8, <1>9 DEF Rolled

\* All that is in the files from the r-th rolled one on.
LEMMA NewestType ==
  ASSUME NEW count \in Nat, NEW files \in FilesOf(count), NEW r \in Nat, r <= count,
         NEW b \in Seq(Messages)
  PROVE  Newest(files, b, r) \in Seq(Messages) /\ Newest(files, b, r) = Rolled(files, r) \o (files[-1] \o b)
<1>1. PICK x \in Seq(Messages), y \in Seq(Messages) : x = Rolled(files, r) /\ y = files[-1]
  BY RolledType, FilesValues
<1>2. x \o y \in Seq(Messages) /\ (x \o y) \o b \in Seq(Messages) /\ (x \o y) \o b = x \o (y \o b)
  BY ConcatProperties, ConcatAssociative
<1> QED
  BY <1>1, <1>2 DEF Newest

\* The buffer b, or its beginning, is put into the file: c is left.
PutInto(files, others, b, c, count) ==
  (\A i \in 0 .. count - 1 : others[i] = files[i]) /\ others[-1] \o c = files[-1] \o b

\* What was in the buffer is in the file.
LEMMA NewestFlushed ==
  ASSUME NEW count \in Nat, NEW files \in FilesOf(count), NEW others \in FilesOf(count),
         NEW r \in Nat, r <= count, NEW b \in Seq(Messages), NEW c \in Seq(Messages),
         PutInto(files, others, b, c, count)
  PROVE  Newest(others, c, r) = Newest(files, b, r)
<1>1. (\A i \in 0 .. r - 1 : others[i] = files[i]) /\ others[-1] \o c = files[-1] \o b
  BY DEF PutInto
<1>2. Rolled(others, r) = Rolled(files, r)
  BY <1>1, RolledSame
<1>3. Newest(others, c, r) = Rolled(others, r) \o (others[-1] \o c)
  BY NewestType
<1>4. Newest(files, b, r) = Rolled(files, r) \o (files[-1] \o b)
  BY NewestType
<1> QED
  BY <1>1, <1>2, <1>3, <1>4

\* A message more that waits to be flushed.
LEMMA NewestAppend ==
  ASSUME NEW count \in Nat, NEW files \in FilesOf(count), NEW r \in Nat, r <= count,
         NEW b \in Seq(Messages), NEW m \in Messages
  PROVE  /\ Newest(files, Append(b, m), r) = Append(Newest(files, b, r), m)
         /\ Append(b, m) \in Seq(Messages)
<1>1. Append(b, m) \in Seq(Messages)
  BY AppendProperties
<1>2. Newest(files, Append(b, m), r) = Rolled(files, r) \o (files[-1] \o Append(b, m))
  BY <1>1, NewestType
<1>3. Newest(files, b, r) = Rolled(files, r) \o (files[-1] \o b)
  BY NewestType
<1>4. PICK x \in Seq(Messages), y \in Seq(Messages) : x = Rolled(files, r) /\ y = files[-1]
  BY RolledType, FilesValues
<1>5. Joined(x, y, Append(b, m)) = Append(Joined(x, y, b), m)
  BY AppendBehind
<1> QED
  BY <1>1, <1>2, <1>3, <1>4, <1>5 DEF Joined

\* Rolling over: the r newest rolled files and the current one are rolled.
LEMMA NewestShift ==
  ASSUME NEW count \in Nat, NEW files \in FilesOf(count), NEW others \in FilesOf(count),
         NEW r \in Nat, r + 1 <= count, others[-1] = <<>>,
         \A i \in 0 .. count - 1 : others[i] = files[i - 1]
  PROVE  Newest(others, <<>>, r + 1) = Newest(files, <<>>, r)
<1>1. PICK x \in Seq(Messages), y \in Seq(Messages) : x = Rolled(files, r) /\ y = files[-1]
  BY RolledType, FilesValues, SMTT(30)
<1>2. Rolled(others, r + 1) = x \o y
  BY <1>1, RolledShift
<1>3. x \o y \in Seq(Messages) /\ (x \o y) \o <<>> = x \o y /\ <<>> \in Seq(Messages)
  BY ConcatProperties, ConcatEmptySeq, EmptySeq
<1>4. Newest(others, <<>>, r + 1) = ((x \o y) \o <<>>) \o <<>>
  BY <1>2 DEF Newest
<1>5. Newest(files, <<>>, r) = (x \o y) \o <<>>
  BY <1>1 DEF Newest
<1> QED
  BY <1>3, <1>4, <1>5

\* A file more is in front.
LEMMA NewestOlder ==
  ASSUME NEW count \in Nat, NEW files \in FilesOf(count), NEW r \in Nat, r + 1 <= count,
         NEW b \in Seq(Messages)
  PROVE  Ends(Newest(files, b, r), Newest(files, b, r + 1))
<1>1. PICK x \in Seq(Messages), y \in Seq(Messages) : x = Rolled(files, r) /\ y = files[-1]
  BY RolledType, FilesValues
<1>2. PICK z \in Seq(Messages) : z = files[r]
  BY FilesValues
<1>3. Rolled(files, r + 1) = z \o x
  BY <1>1, <1>2, RolledOlder
<1>4. r + 1 \in Nat /\ r <= count
  OBVIOUS
<1>5. Newest(files, b, r + 1) = Rolled(files, r + 1) \o (y \o b)
  BY <1>1, <1>4, NewestType
<1>6. Newest(files, b, r) = x \o (y \o b)
  BY <1>1, <1>4, NewestType
<1>7. PICK u \in Seq(Messages) : u = y \o b
  BY ConcatProperties
<1>8. Ends(x \o u, (z \o x) \o u)
  BY EndsBehind
<1> QED
  BY <1>3, <1>5, <1>6, <1>7, <1>8

\* All that the newer files hold is at the end of what the older hold, too.
LEMMA NewestEnds ==
  ASSUME NEW count \in Nat, NEW files \in FilesOf(count), NEW b \in Seq(Messages), NEW r \in Nat
  PROVE  \A n \in Nat : r <= n /\ n <= count => Ends(Newest(files, b, r), Newest(files, b, n))
<1> DEFINE T == {n \in Nat : r <= n /\ n <= count /\ ~Ends(Newest(files, b, r), Newest(files, b, n))}
<1> SUFFICES ASSUME T # {} PROVE FALSE
  OBVIOUS
<1>1. PICK n \in T : \A k \in T : n <= k
  BY Least
<1>2. /\ n \in Nat /\ r <= n /\ n <= count /\ r <= count
      /\ ~Ends(Newest(files, b, r), Newest(files, b, n))
  BY <1>1
<1>3. Newest(files, b, r) \in Seq(Messages) /\ Newest(files, b, n) \in Seq(Messages)
  BY <1>2, NewestType
<1>4. n # r
  BY <1>2, <1>3, EndsWith
<1>5. PICK k \in Nat : n = k + 1 /\ r <= k /\ k + 1 <= count /\ k <= count /\ ~(n <= k)
  <2>1. n - 1 \in Nat /\ n = (n - 1) + 1 /\ r <= n - 1 /\ n - 1 <= count /\ ~(n <= n - 1)
    BY <1>2, <1>4
  <2> QED
    BY <1>2, <2>1
<1>6. Ends(Newest(files, b, r), Newest(files, b, k))
  BY <1>1, <1>5
<1>7. Newest(files, b, k) \in Seq(Messages) /\ Ends(Newest(files, b, k), Newest(files, b, n))
  BY <1>5, NewestType, NewestOlder
<1> QED
  BY <1>2, <1>3, <1>6, <1>7, EndsEnds

\* Nothing is written yet.
LEMMA TailFirst ==
  ASSUME NEW count \in Nat, NEW files \in FilesOf(count), NEW b \in Seq(Messages)
  PROVE  TailOf(files, b, <<>>, 0, count)
<1>0. 0 \in Nat /\ 0 <= count /\ count <= count
  OBVIOUS
<1>1. Newest(files, b, 0) \in Seq(Messages) /\ Newest(files, b, count) \in Seq(Messages)
  BY <1>0, NewestType
<1>2. Ends(<<>>, Newest(files, b, 0)) /\ Ends(<<>>, Newest(files, b, count))
  BY <1>1, EndsWith
<1> QED
  BY <1>2 DEF TailOf

\* A message more, in the files and in what was written.
LEMMA TailAppend ==
  ASSUME NEW count \in Nat, NEW files \in FilesOf(count), NEW b \in Seq(Messages),
         NEW m \in Messages, NEW w \in Seq(Messages), NEW n \in Nat, TailOf(files, b, w, n, count)
  PROVE  TailOf(files, Append(b, m), Append(w, m), n, count)
<1>1. ASSUME NEW r \in Nat, r <= count
      PROVE  /\ Ends(Newest(files, b, r), w) => Ends(Newest(files, Append(b, m), r), Append(w, m))
             /\ Ends(w, Newest(files, b, r)) => Ends(Append(w, m), Newest(files, Append(b, m), r))
  <2>1. PICK x \in Seq(Messages) : x = Newest(files, b, r)
    BY <1>1, NewestType
  <2>2. Newest(files, Append(b, m), r) = Append(x, m)
    BY <1>1, <2>1, NewestAppend
  <2>3. /\ Ends(x, w) => Ends(Append(x, m), Append(w, m))
        /\ Ends(w, x) => Ends(Append(w, m), Append(x, m))
    BY EndsLonger
  <2> QED
    BY <2>1, <2>2, <2>3
<1>2. /\ Ends(Newest(files, b, count), w) \/ Ends(w, Newest(files, b, count))
      /\ count > 0 /\ n <= count => Ends(w, Newest(files, b, n))
  BY DEF TailOf
<1>3. /\ Ends(Newest(files, Append(b, m), count), Append(w, m))
           \/ Ends(Append(w, m), Newest(files, Append(b, m), count))
      /\ count > 0 /\ n <= count => Ends(Append(w, m), Newest(files, Append(b, m), n))
  BY <1>1, <1>2
<1> QED
  BY <1>3 DEF TailOf

\* The buffer is put into the file.
LEMMA TailFlushed ==
  ASSUME NEW count \in Nat, NEW files \in FilesOf(count), NEW others \in FilesOf(count),
         NEW b \in Seq(Messages), NEW c \in Seq(Messages), NEW w, NEW n \in Nat,
         TailOf(files, b, w, n, count),
         PutInto(files, others, b, c, count)
  PROVE  TailOf(others, c, w, n, count)
<1>1. ASSUME NEW r \in Nat, r <= count PROVE Newest(others, c, r) = Newest(files, b, r)
  BY <1>1, NewestFlushed
<1>2. count <= count
  OBVIOUS
<1> QED
  BY <1>1, <1>2 DEF TailOf

\* The files are rolled over: the oldest is removed.
LEMMA TailShift ==
  ASSUME NEW count \in Nat, count > 0, NEW files \in FilesOf(count), NEW others \in FilesOf(count),
         NEW w \in Seq(Messages), NEW n \in Nat, TailOf(files, <<>>, w, n, count),
         others[-1] = <<>>, \A i \in 0 .. count - 1 : others[i] = files[i - 1]
  PROVE  TailOf(others, <<>>, w, n + 1, count)
<1>1. \A r \in Nat : r + 1 <= count => Newest(others, <<>>, r + 1) = Newest(files, <<>>, r)
  BY NewestShift
<1>2. <<>> \in Seq(Messages)
  BY EmptySeq
<1>3. PICK k \in Nat : count = k + 1 /\ k + 1 <= count /\ k <= count
  <2>1. count - 1 \in Nat /\ count = (count - 1) + 1
    OBVIOUS
  <2> QED
    BY <2>1
<1>4. PICK x \in Seq(Messages) : x = Newest(files, <<>>, k)
  BY <1>2, <1>3, NewestType
<1>5. PICK y \in Seq(Messages) : y = Newest(files, <<>>, count)
  <2>1. count <= count
    OBVIOUS
  <2> QED
    BY <1>2, <2>1, NewestType
<1>6. Newest(others, <<>>, count) = x
  BY <1>1, <1>3, <1>4
<1>7. Ends(x, y)
  BY <1>2, <1>3, <1>4, <1>5, NewestOlder
<1>8. Ends(y, w) \/ Ends(w, y)
  BY <1>5 DEF TailOf
<1>9. Ends(x, w) \/ Ends(w, x)
  <2>1. CASE Ends(y, w)
    BY <1>7, <2>1, EndsEnds
  <2>2. CASE Ends(w, y)
    <3>1. Len(x) \in Nat /\ Len(w) \in Nat
      BY LenProperties
    <3>2. Len(x) <= Len(w) \/ Len(w) <= Len(x)
      BY <3>1
    <3> QED
      BY <1>7, <2>2, <3>2, EndsTotal
  <2> QED
    BY <1>8, <2>1, <2>2
<1>10. ASSUME n + 1 <= count PROVE Ends(w, Newest(others, <<>>, n + 1))
  <2>1. n <= count
    BY <1>10
  <2>2. Ends(w, Newest(files, <<>>, n))
    BY <2>1 DEF TailOf
  <2> QED
    BY <1>1, <1>10, <2>2
<1> QED
  BY <1>6, <1>9, <1>10 DEF TailOf

\* A current file alone may be emptied.
LEMMA TailEmpty ==
  ASSUME NEW files \in FilesOf(0), NEW w \in Seq(Messages), NEW n, files[-1] = <<>>
  PROVE  TailOf(files, <<>>, w, n, 0)
<1>1. PICK s : s = [i \in 1 .. 0 |-> files[0 - i]]
  OBVIOUS
<1>2. Pieces(Messages, 0, s)
  BY <1>1 DEF Pieces
<1>3. FlattenSeq(s) = <<>>
  BY <1>2, FlattenType
<1>4. Rolled(files, 0) = <<>>
  BY <1>1, <1>3 DEF Rolled
<1>5. <<>> \o <<>> = <<>>
  BY EmptySeq, ConcatEmptySeq
<1>6. Newest(files, <<>>, 0) = <<>>
  BY <1>4, <1>5 DEF Newest
<1>7. Ends(<<>>, w)
  BY EndsWith
<1> QED
  BY <1>6, <1>7 DEF TailOf

\* The buffer put into the current file.
Flushed(files, b) == [files EXCEPT ![-1] = @ \o b]

\* Only the current file changes.
LEMMA FlushedFiles ==
  ASSUME NEW count \in Nat, NEW files \in FilesOf(count), NEW b \in Seq(Messages)
  PROVE  /\ Flushed(files, b) \in FilesOf(count) /\ Flushed(files, b)[-1] = files[-1] \o b
         /\ PutInto(files, Flushed(files, b), b, <<>>, count)
<1>1. PICK y \in Seq(Messages) : y = files[-1]
  BY FilesValues
<1>2. PICK z \in Seq(Messages) : z = y \o b /\ z \o <<>> = z
  <2>1. y \o b \in Seq(Messages)
    BY ConcatProperties
  <2> QED
    BY <2>1, ConcatEmptySeq
<1>3. -1 \in -1 .. count - 1 /\ \A i \in 0 .. count - 1 : i \in -1 .. count - 1 /\ i # -1
  OBVIOUS
<1>4. Flushed(files, b) = [files EXCEPT ![-1] = z]
  BY <1>1, <1>2 DEF Flushed
<1>5. PICK g : g = [files EXCEPT ![-1] = z]
  OBVIOUS
<1>6. g \in FilesOf(count) /\ g[-1] = z /\ \A i \in 0 .. count - 1 : g[i] = files[i]
  BY <1>3, <1>5 DEF FilesOf
<1> QED
  BY <1>1, <1>2, <1>4, <1>5, <1>6 DEF PutInto

\* The current file emptied.
LEMMA EmptiedFiles ==
  ASSUME NEW count \in Nat, NEW files \in FilesOf(count)
  PROVE  [files EXCEPT ![-1] = <<>>] \in FilesOf(count) /\ [files EXCEPT ![-1] = <<>>][-1] = <<>>
<1>1. <<>> \in Seq(Messages) /\ -1 \in -1 .. count - 1
  BY EmptySeq
<1> QED
  BY <1>1 DEF FilesOf

\* The files one older.
LEMMA RolledOver ==
  ASSUME NEW count \in Nat, NEW files \in FilesOf(count)
  PROVE  /\ roll_over(files) \in FilesOf(count) /\ roll_over(files)[-1] = <<>>
         /\ \A i \in 0 .. count - 1 : roll_over(files)[i] = files[i - 1]
<1>1. DOMAIN files = -1 .. count - 1 /\ \A i \in -1 .. count - 1 : files[i] \in Seq(Messages)
  BY FilesValues
<1>2. /\ -1 \in -1 .. count - 1
      /\ \A i \in 0 .. count - 1 : i \in -1 .. count - 1 /\ i # -1 /\ i - 1 \in -1 .. count - 1
      /\ \A i \in -1 .. count - 1 : i = -1 \/ i \in 0 .. count - 1
  OBVIOUS
<1>3. PICK g : g = roll_over(files)
  OBVIOUS
<1>4. g = [i \in -1 .. count - 1 |-> IF i = -1 THEN <<>> ELSE files[i - 1]]
  BY <1>1, <1>3 DEF roll_over
<1>5. g[-1] = <<>> /\ \A i \in 0 .. count - 1 : g[i] = files[i - 1]
  BY <1>2, <1>4
<1>6. <<>> \in Seq(Messages)
  BY EmptySeq
<1>7. \A i \in -1 .. count - 1 : g[i] \in Seq(Messages)
  BY <1>1, <1>2, <1>5, <1>6
<1>8. g \in FilesOf(count)
  BY <1>4, <1>7 DEF FilesOf
<1> QED
  BY <1>3, <1>5, <1>8

\* Whether the file is full when b is put into it.
Full(files, b) == config.roll_size > 0 /\ Len(files[-1] \o b) > config.roll_size

\* flush_log(): the file is flushed, and if it is full another one is opened.
LEMMA FlushCases ==
  ASSUME NEW count \in Nat, count = config.roll_count, NEW files \in FilesOf(count),
         NEW fout \in Streams, NEW ok \in BOOLEAN, NEW g, g = Flushed(files, fout.buffer),
         NEW r, r = flush_log(files, fout, ok)
  PROVE  /\ ~Full(files, fout.buffer) =>
              r.files = g /\ r.fout = [open |-> fout.open, buffer |-> <<>>]
         /\ Full(files, fout.buffer) =>
              /\ r.fout = [open |-> ok, buffer |-> <<>>]
              /\ count > 0 => r.files \in FilesOf(count) /\ r.files[-1] = <<>>
                              /\ \A i \in 0 .. count - 1 : r.files[i] = g[i - 1]
              /\ count = 0 => r.files = IF ok THEN [g EXCEPT ![-1] = <<>>] ELSE g
<1>1. PICK b \in Seq(Messages) : b = fout.buffer
  BY DEF Streams
<1>2. g \in FilesOf(count) /\ g[-1] = files[-1] \o b
  BY <1>1, FlushedFiles
<1>3. PICK full \in BOOLEAN : full <=> Full(files, fout.buffer)
  BY DEF Full
<1>4. r = IF full THEN open_log(IF config.roll_count > 0 THEN roll_over(g) ELSE g, fout, FALSE, ok)
                  ELSE [files |-> g, fout |-> [fout EXCEPT !.buffer = <<>>]]
  BY <1>1, <1>2, <1>3 DEF flush_log, Flushed, Full
<1>5. CASE ~full
  <2>1. r.files = g /\ r.fout = [fout EXCEPT !.buffer = <<>>]
    BY <1>4, <1>5
  <2>2. [fout EXCEPT !.buffer = <<>>] = [open |-> fout.open, buffer |-> <<>>]
    BY DEF Streams
  <2> QED
    BY <1>3, <1>5, <2>1, <2>2
<1>6. CASE full
  <2>1. PICK rolled : rolled = IF count > 0 THEN roll_over(g) ELSE g
    OBVIOUS
  <2>2. r = open_log(rolled, fout, FALSE, ok)
    BY <1>4, <1>6, <2>1
  <2>3. /\ r.files = IF ok THEN [rolled EXCEPT ![-1] = <<>>] ELSE rolled
        /\ r.fout = [open |-> ok, buffer |-> <<>>]
    BY <2>2 DEF open_log
  <2>4. CASE count > 0
    <3>1. /\ rolled \in FilesOf(count) /\ rolled[-1] = <<>>
          /\ \A i \in 0 .. count - 1 : rolled[i] = g[i - 1]
      BY <1>2, <2>1, <2>4, RolledOver
    <3>2. PICK h : h = [rolled EXCEPT ![-1] = <<>>]
      OBVIOUS
    <3>3. h \in FilesOf(count) /\ h[-1] = <<>>
      BY <3>1, <3>2, EmptiedFiles
    <3>4. \A i \in 0 .. count - 1 : i # -1 /\ i \in -1 .. count - 1
      OBVIOUS
    <3>5. DOMAIN rolled = -1 .. count - 1
      BY <3>1, FilesValues
    <3>6. \A i \in 0 .. count - 1 : h[i] = rolled[i]
      BY <3>2, <3>4, <3>5
    <3>7. \A i \in 0 .. count - 1 : h[i] = g[i - 1]
      BY <3>1, <3>6
    <3>8. /\ r.files \in FilesOf(count) /\ r.files[-1] = <<>>
          /\ \A i \in 0 .. count - 1 : r.files[i] = g[i - 1]
      <4>1. CASE ok
        BY <2>3, <3>2, <3>3, <3>7, <4>1
      <4>2. CASE ~ok
        BY <2>3, <3>1, <4>2
      <4> QED
        BY <4>1, <4>2
    <3> QED
      BY <1>3, <1>6, <2>3, <2>4, <3>8
  <2>5. CASE ~(count > 0)
    BY <1>3, <1>6, <2>1, <2>3, <2>5
  <2> QED
    BY <2>4, <2>5
<1> QED
  BY <1>5, <1>6

\* A message that the file appender handles, or not, in a call.
LEMMA WriteStep ==
  ASSUME RollCounts \subseteq Nat, FileInv, UNCHANGED config, NEW m \in Messages, NEW after,
         WriteFile(after, m)
  PROVE  FileInv'
<1> DEFINE count == config.roll_count
           b == m_fout.buffer
           put == [open |-> m_fout.open, buffer |-> Append(b, m)]
           rolling == FileHandles(after) /\ m_fout.open /\ flushDue
                      /\ config.roll_size > 0
                      /\ Len(disk[-1]) + Len(m_fout.buffer) + 1 > config.roll_size
<1>1. /\ config \in [roll_size : RollSizes, roll_count : RollCounts, append : BOOLEAN] /\ count \in Nat
      /\ disk \in FilesOf(count) /\ m_fout \in Streams
      /\ m_fout.open \in BOOLEAN /\ b \in Seq(Messages)
      /\ written \in Seq(Messages) /\ rolls \in Nat
      /\ TailOf(disk, b, written, rolls, count)
  BY DEF FileInv, FileTypes, Streams
<1>2. SUFFICES /\ disk' \in FilesOf(count) /\ m_fout' \in Streams
               /\ written' \in Seq(Messages) /\ rolls' \in Nat
               /\ TailOf(disk', m_fout'.buffer, written', rolls', count)
  BY <1>1 DEF FileInv, FileTypes
<1>3. CASE ~FileHandles(after)
  <2>1. UNCHANGED <<disk, m_fout, rolls, written>>
    BY <1>3, Zenon DEF WriteFile
  <2> QED
    BY <1>1, <2>1
<1>4. CASE FileHandles(after) /\ ~m_fout.open
  <2>1. /\ disk' = disk /\ m_fout' = m_fout /\ written' = written /\ rolls' = rolls
    BY <1>4 DEF WriteFile, do_log_file
  <2> QED
    BY <1>1, <2>1
<1>5. CASE FileHandles(after) /\ m_fout.open
  <2>1. PICK ok \in BOOLEAN :
          /\ disk' = do_log_file(disk, m_fout, m, flushDue, ok).files
          /\ m_fout' = do_log_file(disk, m_fout, m, flushDue, ok).fout
          /\ rolls' = IF rolling THEN rolls + 1 ELSE rolls
          /\ written' = Append(written, m)
    BY <1>5 DEF WriteFile
  <2>2. /\ Append(b, m) \in Seq(Messages) /\ Len(Append(b, m)) = Len(b) + 1 /\ <<>> \in Seq(Messages)
        /\ written' \in Seq(Messages) /\ put \in Streams
    BY <1>1, <2>1, AppendProperties, EmptySeq DEF Streams
  <2>3. [m_fout EXCEPT !.buffer = Append(@, m)] = put /\ put.buffer = Append(b, m) /\ put.open = m_fout.open
    <3>1. PICK s \in Streams, q \in Seq(Messages) : s = m_fout /\ q = Append(b, m)
      BY <1>1, <2>2
    <3>2. [s EXCEPT !.buffer = q] = [open |-> s.open, buffer |-> q]
      BY DEF Streams
    <3> QED
      BY <3>1, <3>2
  <2>4. rolls' \in Nat /\ (~rolling => rolls' = rolls) /\ (rolling => rolls' = rolls + 1)
    <3>1. rolls' = IF rolling THEN rolls + 1 ELSE rolls
      BY <2>1
    <3>2. rolls \in Nat /\ rolls + 1 \in Nat
      BY <1>1
    <3> HIDE DEF rolling
    <3> QED
      BY <3>1, <3>2
  <2>5. TailOf(disk, Append(b, m), written', rolls, count)
    BY <1>1, <2>1, TailAppend
  <2>6. CASE ~flushDue
    <3>1. disk' = disk /\ m_fout' = put
      BY <1>5, <2>1, <2>3, <2>6 DEF do_log_file
    <3>2. ~rolling
      BY <2>6
    <3> QED
      BY <1>1, <2>2, <2>4, <2>5, <3>1, <3>2
  <2>7. CASE flushDue
    <3>1. PICK r : /\ r = flush_log(disk, put, ok) /\ disk' = r.files /\ m_fout' = r.fout
      BY <1>5, <2>1, <2>3, <2>7 DEF do_log_file
    <3>2. PICK g : g = Flushed(disk, put.buffer)
      OBVIOUS
    <3>3. /\ g \in FilesOf(count) /\ g[-1] = disk[-1] \o Append(b, m)
          /\ PutInto(disk, g, Append(b, m), <<>>, count)
      BY <1>1, <2>2, <3>2, FlushedFiles
    <3>0. PICK fo \in Streams : fo = put
      BY <2>2
    <3>4. /\ ~Full(disk, fo.buffer) => r.files = g /\ r.fout = [open |-> fo.open, buffer |-> <<>>]
          /\ Full(disk, fo.buffer) =>
               /\ r.fout = [open |-> ok, buffer |-> <<>>]
               /\ count > 0 => r.files \in FilesOf(count) /\ r.files[-1] = <<>>
                               /\ \A i \in 0 .. count - 1 : r.files[i] = g[i - 1]
               /\ count = 0 => r.files = IF ok THEN [g EXCEPT ![-1] = <<>>] ELSE g
      <4>1. g = Flushed(disk, fo.buffer) /\ r = flush_log(disk, fo, ok)
        BY <3>0, <3>1, <3>2
      <4>2. PICK n \in Nat : n = config.roll_count /\ disk \in FilesOf(n)
        BY <1>1
      <4> HIDE DEF put
      <4>3. /\ ~Full(disk, fo.buffer) => r.files = g /\ r.fout = [open |-> fo.open, buffer |-> <<>>]
            /\ Full(disk, fo.buffer) =>
                 /\ r.fout = [open |-> ok, buffer |-> <<>>]
                 /\ n > 0 => r.files \in FilesOf(n) /\ r.files[-1] = <<>>
                             /\ \A i \in 0 .. n - 1 : r.files[i] = g[i - 1]
                 /\ n = 0 => r.files = IF ok THEN [g EXCEPT ![-1] = <<>>] ELSE g
        BY <4>1, <4>2, FlushCases
      <4> QED
        BY <4>2, <4>3
    <3>5. rolling <=> Full(disk, put.buffer)
      <4>1. PICK y \in Seq(Messages), z \in Seq(Messages) : y = disk[-1] /\ z = Append(b, m)
        BY <1>1, <2>2, FilesValues
      <4>2. Len(y \o z) = Len(y) + Len(z) /\ Len(y) \in Nat /\ Len(b) \in Nat
        BY <1>1, LenProperties, ConcatProperties
      <4>3. Len(disk[-1] \o put.buffer) = Len(disk[-1]) + Len(m_fout.buffer) + 1
        <5>1. disk[-1] \o put.buffer = y \o z
          BY <2>3, <4>1
        <5>2. Len(z) = Len(m_fout.buffer) + 1 /\ Len(m_fout.buffer) \in Nat
          BY <2>2, <4>1, <4>2
        <5>3. Len(y \o z) = Len(y) + Len(m_fout.buffer) + 1
          BY <4>2, <5>2
        <5> QED
          BY <4>1, <5>1, <5>3
      <4> QED
        BY <1>5, <2>7, <4>3 DEF Full
    <3>6. TailOf(g, <<>>, written', rolls, count)
      BY <1>1, <2>2, <2>5, <3>3, TailFlushed
    <3> HIDE DEF count, b, put, rolling
    <3>7. CASE ~Full(disk, put.buffer)
      <4>1. disk' = g /\ m_fout' = [open |-> m_fout.open, buffer |-> <<>>] /\ rolls' = rolls
        BY <2>4, <3>1, <2>3, <3>0, <3>4, <3>5, <3>7
      <4>2. m_fout' \in Streams /\ m_fout'.buffer = <<>>
        BY <1>1, <2>2, <4>1 DEF Streams
      <4> QED
        BY <2>2, <2>4, <3>3, <3>6, <4>1, <4>2
    <3>8. CASE Full(disk, put.buffer)
      <4>1. m_fout' = [open |-> ok, buffer |-> <<>>] /\ rolls' = rolls + 1
        BY <2>4, <3>0, <3>1, <3>4, <3>5, <3>8
      <4>2. m_fout' \in Streams /\ m_fout'.buffer = <<>>
        BY <2>2, <4>1 DEF Streams
      <4>3. CASE count > 0
        <5>1. PICK h \in FilesOf(count) : /\ h = disk' /\ h[-1] = <<>>
                                          /\ \A i \in 0 .. count - 1 : h[i] = g[i - 1]
          BY <3>0, <3>1, <3>4, <3>8, <4>3
        <5>2. PICK w \in Seq(Messages) : w = written'
          BY <2>2
        <5>3. TailOf(h, <<>>, w, rolls + 1, count)
          BY <1>1, <3>3, <3>6, <4>3, <5>1, <5>2, TailShift
        <5> QED
          BY <2>2, <2>4, <4>1, <4>2, <5>1, <5>2, <5>3
      <4>4. CASE count = 0 /\ ok
        <5>1. PICK h : h = [g EXCEPT ![-1] = <<>>] /\ h = disk'
          BY <3>0, <3>1, <3>4, <3>8, <4>4
        <5>2. h \in FilesOf(count) /\ h[-1] = <<>>
          BY <1>1, <3>3, <5>1, EmptiedFiles
        <5>3. TailOf(h, <<>>, written', rolls + 1, count)
          BY <2>2, <4>4, <5>2, TailEmpty
        <5> QED
          BY <2>2, <2>4, <4>1, <4>2, <5>1, <5>2, <5>3
      <4>5. CASE count = 0 /\ ~ok
        <5>1. disk' = g
          BY <3>0, <3>1, <3>4, <3>8, <4>5
        <5>2. TailOf(g, <<>>, written', rolls + 1, count)
          BY <3>6, <4>5 DEF TailOf
        <5> QED
          BY <2>2, <2>4, <3>3, <4>1, <4>2, <5>1, <5>2
      <4> QED
        BY <1>1, <4>3, <4>4, <4>5
    <3> QED
      BY <3>7, <3>8
  <2> QED
    BY <2>6, <2>7
<1> QED
  BY <1>3, <1>4, <1>5

\* The file is opened, emptied or not, by the start of a chain.
LEMMA StartFiles ==
  ASSUME RollCounts \subseteq Nat, FileInv, UNCHANGED config, NEW filters,
         NEW files \in FilesOf(config.roll_count), NEW fout \in Streams,
         start_chain(filters, files, fout)
  PROVE  FileInv'
<1>1. PICK count \in Nat : count = config.roll_count /\ files \in FilesOf(count)
  BY DEF FileInv, FileTypes
<1>2. PICK ok \in BOOLEAN :
        /\ written' = <<>> /\ rolls' = 0
        /\ \/ disk' = files /\ m_fout' = fout
           \/ disk' = open_log(files, fout, TRUE, ok).files /\ m_fout' = open_log(files, fout, TRUE, ok).fout
  BY Zenon DEF start_chain
<1>3. /\ open_log(files, fout, TRUE, ok).files = files
           \/ open_log(files, fout, TRUE, ok).files = [files EXCEPT ![-1] = <<>>]
      /\ open_log(files, fout, TRUE, ok).fout = [open |-> ok, buffer |-> <<>>]
  BY DEF open_log
<1>4. <<>> \in Seq(Messages)
  BY EmptySeq
<1>5. [files EXCEPT ![-1] = <<>>] \in FilesOf(count)
  BY <1>1, EmptiedFiles
<1>6. [open |-> ok, buffer |-> <<>>] \in Streams
  BY <1>4 DEF Streams
<1>7. disk' \in FilesOf(count) /\ m_fout' \in Streams
  BY <1>1, <1>2, <1>3, <1>5, <1>6
<1>8. m_fout'.buffer \in Seq(Messages)
  BY <1>7 DEF Streams
<1>9. TailOf(disk', m_fout'.buffer, <<>>, 0, count)
  BY <1>7, <1>8, TailFirst
<1> QED
  BY <1>1, <1>2, <1>4, <1>7, <1>9 DEF FileInv, FileTypes

\* The file is closed: what was in the buffer is in the file.
LEMMA CloseFiles ==
  ASSUME RollCounts \subseteq Nat, FileInv
  PROVE  /\ close_log(disk, m_fout).files \in FilesOf(config.roll_count)
         /\ close_log(disk, m_fout).fout \in Streams
         /\ TailOf(close_log(disk, m_fout).files, close_log(disk, m_fout).fout.buffer,
                   written, rolls, config.roll_count)
<1>1. PICK count \in Nat : count = config.roll_count /\ disk \in FilesOf(count)
  BY DEF FileInv, FileTypes
<1>2. PICK b \in Seq(Messages) : b = m_fout.buffer
  BY DEF FileInv, FileTypes, Streams
<1>3. TailOf(disk, b, written, rolls, count) /\ rolls \in Nat
  BY <1>1, <1>2 DEF FileInv, FileTypes
<1>4. PICK g : g = Flushed(disk, b)
  OBVIOUS
<1>5. close_log(disk, m_fout).files = g /\ close_log(disk, m_fout).fout = [open |-> FALSE, buffer |-> <<>>]
  BY <1>2, <1>4 DEF close_log, Flushed
<1>6. g \in FilesOf(count) /\ PutInto(disk, g, b, <<>>, count)
  BY <1>1, <1>4, FlushedFiles
<1>7. <<>> \in Seq(Messages)
  BY EmptySeq
<1>8. TailOf(g, <<>>, written, rolls, count)
  BY <1>1, <1>3, <1>6, <1>7, TailFlushed
<1>9. [open |-> FALSE, buffer |-> <<>>] \in Streams
  BY <1>7 DEF Streams
<1> QED
  BY <1>1, <1>5, <1>6, <1>8, <1>9

\* Init: the files are empty.
LEMMA FileInit ==
  ASSUME RollCounts \subseteq Nat, Init
  PROVE  FileInv
<1>1. PICK size \in RollSizes, count \in RollCounts, append \in BOOLEAN :
        /\ config = [roll_size |-> size, roll_count |-> count, append |-> append]
        /\ disk = [i \in -1 .. count - 1 |-> <<>>]
  BY DEF Init
<1>2. m_fout = [open |-> FALSE, buffer |-> <<>>] /\ rolls = 0 /\ written = <<>>
  BY DEF Init
<1>3. <<>> \in Seq(Messages) /\ count \in Nat /\ config.roll_count = count
  BY <1>1, EmptySeq
<1>4. disk \in FilesOf(count)
  BY <1>1, <1>3 DEF FilesOf
<1>5. m_fout \in Streams /\ m_fout.buffer = <<>>
  BY <1>2, <1>3 DEF Streams
<1>6. TailOf(disk, <<>>, <<>>, 0, count)
  BY <1>3, <1>4, TailFirst
<1>7. config \in [roll_size : RollSizes, roll_count : RollCounts, append : BOOLEAN]
  BY <1>1
<1> QED
  BY <1>2, <1>3, <1>4, <1>5, <1>6, <1>7 DEF FileInv, FileTypes

\* Every step.
LEMMA FileStep ==
  ASSUME LoggingConstants, ChainInv, FileInv, [Next]_vars
  PROVE  FileInv'
<1>1. RollCounts \subseteq Nat /\ TypeOK
  BY DEF LoggingConstants, ChainInv
<1>2. CASE start
  <2>1. start_chain(m_filters, disk, m_fout) /\ UNCHANGED config
    BY <1>2 DEF start
  <2>2. disk \in FilesOf(config.roll_count) /\ m_fout \in Streams
    BY DEF FileInv, FileTypes
  <2> QED
    BY <1>1, <2>1, <2>2, StartFiles
<1>3. ASSUME UNCHANGED <<rolls, config, written>>,
             \/ disk' = close_log(disk, m_fout).files /\ m_fout' = close_log(disk, m_fout).fout
             \/ UNCHANGED <<disk, m_fout>>
      PROVE  FileInv'
  BY <1>1, <1>3, CloseFiles DEF FileInv, FileTypes
<1>4. CASE set_filter_chain
  <2>1. UNCHANGED config
        /\ \E names \in Chains : start_chain(configure_filter_chain(names), disk,
             [open |-> FALSE, buffer |-> <<>>])
    BY <1>4 DEF set_filter_chain
  <2>2. disk \in FilesOf(config.roll_count) /\ [open |-> FALSE, buffer |-> <<>>] \in Streams
    <3>1. <<>> \in Seq(Messages)
      BY EmptySeq
    <3> QED
      BY <3>1 DEF FileInv, FileTypes, Streams
  <2>4. PICK names \in Chains :
          start_chain(configure_filter_chain(names), disk, [open |-> FALSE, buffer |-> <<>>])
    BY <2>1
  <2>3. PICK filters : filters = configure_filter_chain(names)
    OBVIOUS
  <2>5. PICK fout \in Streams : fout = [open |-> FALSE, buffer |-> <<>>]
    BY <2>2
  <2>6. start_chain(filters, disk, fout)
    BY <2>3, <2>4, <2>5
  <2> QED
    BY <1>1, <2>1, <2>2, <2>6, StartFiles
<1>5. ASSUME UNCHANGED <<disk, m_fout, rolls, config, written>> PROVE FileInv'
  BY <1>5 DEF FileInv, FileTypes
<1>6. CASE Tick
  BY <1>5, <1>6 DEF Tick
<1>7. ASSUME NEW t, NEW name, lookup(t, name) PROVE FileInv'
  BY <1>5, <1>7 DEF lookup
<1>8. ASSUME NEW t, NEW level, check_level(t, level) PROVE FileInv'
  BY <1>5, <1>8 DEF check_level
<1>9. ASSUME NEW name, NEW level, set_level(name, level) PROVE FileInv'
  BY <1>5, <1>9 DEF set_level
<1>10. ASSUME NEW level, set_log_level(level) PROVE FileInv'
  BY <1>5, <1>10 DEF set_log_level
<1>11. ASSUME NEW t \in LogThreads \cup {"main"}, log(t) PROVE FileInv'
  <2>1. <<t, logthread[t].count>> \in Messages
    BY <1>1 DEF TypeOK, Messages, Threads
  <2>2. UNCHANGED config /\ WriteFile(chain_log(<<t, logthread[t].count>>), <<t, logthread[t].count>>)
    BY <1>11, Zenon DEF log
  <2> QED
    BY <1>1, <2>1, <2>2, WriteStep
<1>12. ASSUME NEW i \in DOMAIN m_filters, NEW t \in LogThreads \cup {"main"},
              NEW n \in 1 .. logthread[t].count, on_log(i, <<t, n>>)
       PROVE  FileInv'
  <2>1. PICK after : UNCHANGED config /\ WriteFile(after, <<t, n>>)
    BY <1>12, Zenon DEF on_log
  <2>2. <<t, n>> \in Messages
    BY <1>1 DEF TypeOK, Messages, Threads
  <2> QED
    BY <1>1, <2>1, <2>2, WriteStep
<1>14. ASSUME NEW i, on_stop(i) PROVE FileInv'
  BY <1>3, <1>14 DEF on_stop
<1>15. CASE stop_in_caller
  BY <1>3, <1>15 DEF stop_in_caller, StopGoesOn
<1>16. CASE stop_aborts \/ stop_posts \/ stop_joins
  BY <1>5, <1>16 DEF stop_aborts, stop_posts, stop_joins, StopGoesOn
<1>17. CASE stop_ends
  BY <1>5, <1>17 DEF stop_ends
<1>18. ASSUME NEW replaces, stop(replaces) PROVE FileInv'
  BY <1>5, <1>18 DEF stop
<1>13. CASE UNCHANGED vars
  BY <1>5, <1>13 DEF vars
<1> QED
  BY <1>2, <1>3, <1>4, <1>6, <1>7, <1>8, <1>9, <1>10, <1>11, <1>12, <1>13, <1>14,
     <1>15, <1>16, <1>17, <1>18, Zenon DEF Next

\* What the invariant says of the files.
LEMMA TailInFiles ==
  ASSUME RollCounts \subseteq Nat, FileInv
  PROVE  RollKeepsTail
<1>1. PICK count \in Nat : count = config.roll_count /\ disk \in FilesOf(count)
  BY DEF FileInv, FileTypes
<1>2. PICK b \in Seq(Messages), w \in Seq(Messages), n \in Nat : b = m_fout.buffer /\ w = written /\ n = rolls
  BY DEF FileInv, FileTypes, Streams
<1>3. TailOf(disk, b, w, n, count)
  BY <1>1, <1>2 DEF FileInv, FileTypes
<1>4. Kept = Newest(disk, b, count)
  BY <1>1, <1>2, Zenon DEF Kept, Newest, Rolled
<1>5. count <= count
  OBVIOUS
<1>6. PICK k \in Seq(Messages) : k = Kept
  BY <1>1, <1>4, <1>5, NewestType
<1>7. Ends(k, w) \/ Ends(w, k)
  BY <1>3, <1>4, <1>6 DEF TailOf
<1>8. ASSUME count > 0, n <= count PROVE Ends(w, k)
  <2>1. Ends(w, Newest(disk, b, n))
    BY <1>3, <1>8 DEF TailOf
  <2>2. Ends(Newest(disk, b, n), k)
    BY <1>1, <1>4, <1>5, <1>6, <1>8, NewestEnds
  <2>3. PICK x \in Seq(Messages) : x = Newest(disk, b, n)
    BY <1>1, <1>8, NewestType
  <2> QED
    BY <2>1, <2>2, <2>3, EndsEnds
<1>9. /\ IsSuffix(k, w) <=> Ends(k, w)
      /\ IsSuffix(w, k) <=> Ends(w, k)
  BY SuffixEnds
<1> QED
  BY <1>1, <1>2, <1>6, <1>7, <1>8, <1>9 DEF RollKeepsTail

-----------------------------------------------------------------------------
(* Counted objects.                                                        *)

PointerFields == [PointerThreads -> [Slots -> Nat]]
Pointers ==
  [px : PointerFields, refs : Seq(Int), deleted : Seq(Int),
   temp : [PointerThreads -> [object : Nat, count : Int]]]

\* Pointers and temporaries refer to objects that were made.
PointersType(now) ==
  /\ now \in Pointers /\ Len(now.deleted) = Len(now.refs)
  /\ \A t \in PointerThreads :
       /\ \A s \in Slots : now.px[t][s] \in 0 .. Len(now.refs)
       /\ now.temp[t].object \in 0 .. Len(now.refs)
       /\ now.temp[t].object = 0 => now.temp[t] = NoTemp

\* The pointers to an object; the threads that destroy one, those of them that
\* have not released it yet, and those that read 0 when they did.
Held(px, o) == {p \in PointerThreads \X Slots : px[p[1]][p[2]] = o}
Leaving(temp, o) == {t \in PointerThreads : temp[t].object = o}
Releasing(temp, o) == {t \in PointerThreads : temp[t].object = o /\ temp[t].count = Unread}
ReadLast(temp, o) == {t \in PointerThreads : temp[t].object = o /\ temp[t].count = 0}

\* Each pointer, and each temporary that was not released, is counted once.
Counted(now, o) == now.refs[o] = Cardinality(Held(now.px, o)) + Cardinality(Releasing(now.temp, o))

\* An object without references was deleted, or one thread is about to do it.
DeletedByLast(kind, now, o) ==
  /\ now.refs[o] > 0 => now.deleted[o] = 0 /\ (kind = "object" => ReadLast(now.temp, o) = {})
  /\ now.refs[o] = 0 => \/ now.deleted[o] = 1 /\ ReadLast(now.temp, o) = {}
                        \/ now.deleted[o] = 0 /\ \E t \in PointerThreads : ReadLast(now.temp, o) = {t}

\* A cobject has one thread, and what a release of it has read is not used.
OneOwner(now, o) ==
  /\ \E t \in PointerThreads : /\ \A p \in Held(now.px, o) : p[1] = t
                               /\ \A u \in Leaving(now.temp, o) : u = t
  /\ \A u \in Leaving(now.temp, o) : now.temp[u].count \in {Unread, 0}

\* All of it, for one object and for all.
Sound(kind, now, o) ==
  Counted(now, o) /\ DeletedByLast(kind, now, o) /\ (kind = "cobject" => OneOwner(now, o))

Good(kind, now) == PointersType(now) /\ \A o \in DOMAIN now.refs : Sound(kind, now, o)

PointersInv == k_part \in {"object", "cobject"} => Good(k_part, k_now)

-----------------------------------------------------------------------------
(* Counting.                                                               *)

\* What a condition adds to a count; a set with x, or without it.
One(b) == IF b THEN 1 ELSE 0
Among(S, x, b) == IF b THEN S \cup {x} ELSE S \ {x}

\* One set that differs from another in x alone.
LEMMA Moved ==
  ASSUME NEW S, IsFiniteSet(S), NEW T, NEW x, NEW in \in BOOLEAN,
         T = Among(S, x, in)
  PROVE  /\ IsFiniteSet(T) /\ Cardinality(S) \in Nat /\ Cardinality(T) \in Nat
         /\ Cardinality(T) = Cardinality(S) + One(in) - One(x \in S)
<1>1. Cardinality(S) \in Nat
  BY FS_CardinalityType
<1>2. CASE in
  <2>1. IsFiniteSet(S \cup {x}) /\ Cardinality(S \cup {x}) = IF x \in S THEN Cardinality(S) ELSE Cardinality(S) + 1
    BY FS_AddElement
  <2>2. Cardinality(S \cup {x}) \in Nat
    BY <2>1, FS_CardinalityType
  <2> QED
    BY <1>1, <1>2, <2>1, <2>2 DEF One, Among
<1>3. CASE ~in
  <2>1. IsFiniteSet(S \ {x}) /\ Cardinality(S \ {x}) = IF x \in S THEN Cardinality(S) - 1 ELSE Cardinality(S)
    BY FS_RemoveElement
  <2>2. Cardinality(S \ {x}) \in Nat
    BY <2>1, FS_CardinalityType
  <2> QED
    BY <1>1, <1>3, <2>1, <2>2 DEF One, Among
<1> QED
  BY <1>2, <1>3

\* The sets that are counted are finite, and empty when they count to 0.
LEMMA Finite ==
  ASSUME ObjectsConstants, NEW px, NEW temp, NEW o
  PROVE  /\ IsFiniteSet(Held(px, o)) /\ Cardinality(Held(px, o)) \in Nat
         /\ Cardinality(Held(px, o)) = 0 <=> Held(px, o) = {}
         /\ IsFiniteSet(Releasing(temp, o)) /\ Cardinality(Releasing(temp, o)) \in Nat
         /\ Cardinality(Releasing(temp, o)) = 0 <=> Releasing(temp, o) = {}
<1>1. IsFiniteSet(Slots)
  <2>1. IsFiniteSet({} \cup {1})
    BY FS_EmptySet, FS_AddElement
  <2>2. IsFiniteSet(({} \cup {1}) \cup {2})
    BY <2>1, FS_AddElement
  <2>3. Slots = ({} \cup {1}) \cup {2}
    BY DEF Slots
  <2> QED
    BY <2>2, <2>3
<1>2. IsFiniteSet(PointerThreads \X Slots)
  BY <1>1, FS_Product DEF ObjectsConstants
<1>3. IsFiniteSet(Held(px, o))
  <2>1. Held(px, o) \in SUBSET (PointerThreads \X Slots)
    BY DEF Held
  <2> QED
    BY <1>2, <2>1, FS_Subset
<1>4. IsFiniteSet(Releasing(temp, o))
  <2>1. Releasing(temp, o) \in SUBSET PointerThreads
    BY DEF Releasing
  <2> QED
    BY <2>1, FS_Subset DEF ObjectsConstants
<1>5. \A S : IsFiniteSet(S) => Cardinality(S) \in Nat /\ (Cardinality(S) = 0 <=> S = {})
  BY FS_CardinalityType, FS_EmptySet
<1> QED
  BY <1>3, <1>4, <1>5

\* A pointer, and a thread's temporary, set to another value.
Repoint(px, t, s, v) == [px EXCEPT ![t][s] = v]
Retire(temp, t, r) == [temp EXCEPT ![t] = r]
Temporary(o) == [object |-> o, count |-> Unread]

\* A pointer that changes from one object to another changes their counts.
LEMMA Repointed ==
  ASSUME ObjectsConstants, NEW px \in PointerFields,
         NEW t \in PointerThreads, NEW s \in Slots, NEW v \in Nat, NEW o \in Nat
  PROVE  /\ Held(Repoint(px, t, s, v), o) = Among(Held(px, o), <<t, s>>, v = o)
         /\ Cardinality(Held(Repoint(px, t, s, v), o)) =
              Cardinality(Held(px, o)) + One(v = o) - One(px[t][s] = o)
<1> DEFINE px2 == Repoint(px, t, s, v)
<1>2. \A p \in PointerThreads \X Slots : px2[p[1]][p[2]] = IF p = <<t, s>> THEN v ELSE px[p[1]][p[2]]
  BY DEF Repoint, PointerFields
<1>3. Held(px2, o) = Among(Held(px, o), <<t, s>>, v = o)
  <2> HIDE DEF px2
  <2>1. <<t, s>> \in PointerThreads \X Slots
    OBVIOUS
  <2> QED
    BY <1>2, <2>1 DEF Held, Among
<1>4. <<t, s>> \in Held(px, o) <=> px[t][s] = o
  BY DEF Held
<1>5. Cardinality(Held(px2, o)) =
        Cardinality(Held(px, o)) + One(v = o) - One(px[t][s] = o)
  <2> HIDE DEF px2
  <2>1. IsFiniteSet(Held(px, o))
    BY Finite
  <2> DEFINE in == v = o
             x == <<t, s>>
  <2>2. in \in BOOLEAN
    OBVIOUS
  <2>3. Held(px2, o) = Among(Held(px, o), x, in)
    BY <1>3
  <2>4. Cardinality(Held(px2, o)) =
          Cardinality(Held(px, o)) + One(in) - One(x \in Held(px, o))
    <3> HIDE DEF in, x
    <3> QED
      BY <2>1, <2>2, <2>3, Moved
  <2> QED
    BY <1>4, <2>4 DEF One
<1> QED
  BY <1>3, <1>5

\* So does a temporary that is made, released or done with.
LEMMA Retired ==
  ASSUME ObjectsConstants, NEW temp \in [PointerThreads -> [object : Nat, count : Int]],
         NEW t \in PointerThreads, NEW r \in [object : Nat, count : Int], NEW o \in Nat
  PROVE  LET temp2 == Retire(temp, t, r)
             unread(q) == q.object = o /\ q.count = Unread
         IN  /\ temp2 \in [PointerThreads -> [object : Nat, count : Int]]
             /\ Leaving(temp2, o) = Among(Leaving(temp, o), t, r.object = o)
             /\ ReadLast(temp2, o) = Among(ReadLast(temp, o), t, r.object = o /\ r.count = 0)
             /\ Cardinality(Releasing(temp2, o)) =
                  Cardinality(Releasing(temp, o)) + One(unread(r))
                    - One(unread(temp[t]))
<1> DEFINE temp2 == Retire(temp, t, r)
           unread(q) == q.object = o /\ q.count = Unread
<1>1. temp2 \in [PointerThreads -> [object : Nat, count : Int]]
  BY DEF Retire
<1>2. \A u \in PointerThreads : temp2[u] = IF u = t THEN r ELSE temp[u]
  BY DEF Retire
<1> HIDE DEF temp2
<1>3. Leaving(temp2, o) = Among(Leaving(temp, o), t, r.object = o)
  BY <1>2 DEF Leaving, Among
<1>4. ReadLast(temp2, o) = Among(ReadLast(temp, o), t, r.object = o /\ r.count = 0)
  BY <1>2 DEF ReadLast, Among
<1>5. Releasing(temp2, o) = Among(Releasing(temp, o), t, unread(r))
  BY <1>2 DEF Releasing, Among
<1>6. t \in Releasing(temp, o) <=> unread(temp[t])
  BY DEF Releasing
<1>7. Cardinality(Releasing(temp2, o)) =
        Cardinality(Releasing(temp, o)) + One(unread(r))
          - One(unread(temp[t]))
  <2>1. IsFiniteSet(Releasing(temp, o))
    BY Finite
  <2>2. unread(r) \in BOOLEAN
    OBVIOUS
  <2> HIDE DEF unread
  <2> QED
    BY <1>5, <1>6, <2>1, <2>2, Moved DEF One
<1> QED
  BY <1>1, <1>3, <1>4, <1>7 DEF temp2

-----------------------------------------------------------------------------
(* The steps.                                                              *)

\* Temporaries.
Temps == [object : Nat, count : Int]

\* The parts of the state of pointers.
LEMMA Fields ==
  ASSUME NEW now, PointersType(now)
  PROVE  /\ now.px \in PointerFields /\ now.temp \in [PointerThreads -> Temps]
         /\ now.refs \in Seq(Int) /\ now.deleted \in Seq(Int)
         /\ DOMAIN now.refs = 1 .. Len(now.refs) /\ DOMAIN now.deleted = DOMAIN now.refs
         /\ Len(now.refs) \in Nat
BY DEF PointersType, Pointers, Temps

\* What a step of t does to an object that t points to or destroys, or that it
\* does not come to.
Touches(now, next, o, t) ==
  /\ \A p \in Held(next.px, o) : p \in Held(now.px, o) \/ p[1] = t
  /\ \A u \in Leaving(next.temp, o) :
       \/ u \in Leaving(now.temp, o) /\ next.temp[u].count = now.temp[u].count
       \/ u = t /\ next.temp[u].count \in {Unread, 0}
  /\ \/ \E p \in Held(now.px, o) : p[1] = t
     \/ t \in Leaving(now.temp, o)
     \/ Held(next.px, o) \subseteq Held(now.px, o) /\ Leaving(next.temp, o) \subseteq Leaving(now.temp, o)

\* It leaves the object with its owner.
LEMMA OwnerKept ==
  ASSUME NEW now, NEW next, NEW o, NEW t \in PointerThreads, OneOwner(now, o), Touches(now, next, o, t)
  PROVE  OneOwner(next, o)
<1>1. PICK w \in PointerThreads : /\ \A p \in Held(now.px, o) : p[1] = w
                                  /\ \A u \in Leaving(now.temp, o) : u = w
  BY DEF OneOwner
<1>2. /\ \A p \in Held(next.px, o) : p[1] = w
      /\ \A u \in Leaving(next.temp, o) : u = w
  BY <1>1 DEF Touches
<1>3. \A u \in Leaving(next.temp, o) : next.temp[u].count \in {Unread, 0}
  BY DEF OneOwner, Touches
<1> QED
  BY <1>2, <1>3 DEF OneOwner

\* Adding a reference, to no object or to one of those that were made.
LEMMA AddedReference ==
  ASSUME NEW refs \in Seq(Int), NEW v \in 0 .. Len(refs)
  PROVE  /\ add_reference(refs, v) \in Seq(Int) /\ Len(add_reference(refs, v)) = Len(refs)
         /\ \A o \in DOMAIN refs : add_reference(refs, v)[o] = IF o = v THEN refs[o] + 1 ELSE refs[o]
<1>1. CASE v = 0
  BY <1>1 DEF add_reference
<1>2. CASE v # 0
  <2>1. v \in DOMAIN refs /\ refs[v] \in Int
    BY <1>2, ElementOfSeq
  <2>2. refs[v] + 1 \in Int
    BY <2>1
  <2>3. [refs EXCEPT ![v] = refs[v] + 1] \in Seq(Int) /\ Len([refs EXCEPT ![v] = refs[v] + 1]) = Len(refs)
    BY <2>1, <2>2, ExceptSeq
  <2> QED
    BY <1>2, <2>1, <2>3 DEF add_reference
<1> QED
  BY <1>1, <1>2

\* The state after a step of t that changes its pointers, the counts and its
\* temporary.
LEMMA AssignedIs ==
  ASSUME NEW now, PointersType(now), NEW t \in PointerThreads, NEW s \in Slots,
         NEW v \in 0 .. Len(now.refs), now.temp[t] = NoTemp,
         NEW next, next = Assigned(now, t, s, v)
  PROVE  /\ next.px = Repoint(now.px, t, s, v)
         /\ next.temp = Retire(now.temp, t, Temporary(now.px[t][s]))
         /\ next.deleted = now.deleted /\ next.refs \in Seq(Int) /\ Len(next.refs) = Len(now.refs)
         /\ \A o \in DOMAIN now.refs : next.refs[o] = IF o = v THEN now.refs[o] + 1 ELSE now.refs[o]
         /\ PointersType(next)
<1> DEFINE px == Repoint(now.px, t, s, v)
           temp == Retire(now.temp, t, Temporary(now.px[t][s]))
<1>1. next.px = px /\ next.refs = add_reference(now.refs, v) /\ next.deleted = now.deleted /\ next.temp = temp
  <2>1. [NoTemp EXCEPT !.object = now.px[t][s]] = Temporary(now.px[t][s])
    BY DEF NoTemp, Temporary
  <2>2. next.temp = Retire(now.temp, t, [NoTemp EXCEPT !.object = now.px[t][s]])
    BY DEF Assigned, PointersType, Pointers, Repoint, PointerFields, Retire
  <2>3. next.px = px
    BY DEF Assigned, PointersType, Pointers, Repoint, PointerFields, Retire
  <2>4. next.refs = add_reference(now.refs, v) /\ next.deleted = now.deleted
    BY DEF Assigned, PointersType, Pointers, Repoint, PointerFields, Retire
  <2> QED
    BY <2>1, <2>2, <2>3, <2>4
<1>2. /\ add_reference(now.refs, v) \in Seq(Int) /\ Len(add_reference(now.refs, v)) = Len(now.refs)
      /\ \A o \in DOMAIN now.refs :
           add_reference(now.refs, v)[o] = IF o = v THEN now.refs[o] + 1 ELSE now.refs[o]
  BY Fields, AddedReference
<1>3. px \in PointerFields /\ temp \in [PointerThreads -> Temps]
  BY Fields DEF Temps, Unread, PointersType, Repoint, PointerFields, Retire, Temporary
<1>4. \A u \in PointerThreads : \A r \in Slots : px[u][r] \in 0 .. Len(now.refs)
  BY Fields DEF PointersType, Repoint, PointerFields
<1>5. \A u \in PointerThreads : /\ temp[u].object \in 0 .. Len(now.refs)
                                /\ temp[u].object = 0 => temp[u] = NoTemp
  BY Fields DEF PointersType, NoTemp, Unread, Retire, Temporary
<1>6. next \in Pointers
  BY <1>2, <1>3, Fields DEF Pointers, PointersType, Temps, Assigned, NoTemp, Repoint, PointerFields, Retire, Temporary
<1> HIDE DEF px, temp
<1>7. PointersType(next)
  <2>1. Len(next.refs) = Len(now.refs) /\ Len(next.deleted) = Len(next.refs)
    BY <1>1, <1>2 DEF PointersType
  <2>2. \A u \in PointerThreads :
          /\ \A r \in Slots : next.px[u][r] \in 0 .. Len(next.refs)
          /\ next.temp[u].object \in 0 .. Len(next.refs)
          /\ next.temp[u].object = 0 => next.temp[u] = NoTemp
    <3>1. next.px = px /\ next.temp = temp
      BY <1>1
    <3> QED
      BY <1>4, <1>5, <2>1, <3>1
  <2> QED
    BY <1>6, <2>1, <2>2 DEF PointersType
<1> QED
  BY <1>1, <1>2, <1>7 DEF px, temp

\* An object with a pointer, or with a temporary that was not released, has
\* references, and never fewer than none.
LEMMA Referenced ==
  ASSUME ObjectsConstants, NEW now, NEW o, Counted(now, o)
  PROVE  /\ now.refs[o] \in Nat
         /\ now.refs[o] = 0 <=> Held(now.px, o) = {} /\ Releasing(now.temp, o) = {}
BY Finite DEF Counted

\* What a step of t does to object o that changes pointers of t, counts v once
\* more and leaves w to be released.
Exchange(now, next, o, t, v, w) ==
  /\ now.temp \in [PointerThreads -> Temps] /\ now.temp[t] = NoTemp
  /\ next.temp = Retire(now.temp, t, Temporary(w)) /\ next.deleted = now.deleted
  /\ next.refs[o] = now.refs[o] + One(v = o)
  /\ Cardinality(Held(next.px, o)) = Cardinality(Held(now.px, o)) + One(v = o) - One(w = o)
  /\ \A p \in Held(next.px, o) : p \in Held(now.px, o) \/ p[1] = t
  /\ v = o \/ w = o \/ ~(Held(next.px, o) \subseteq Held(now.px, o)) => \E p \in Held(now.px, o) : p[1] = t

\* It keeps what is known of the object.
LEMMA Exchanged ==
  ASSUME ObjectsConstants, NEW now, NEW next, NEW kind \in {"object", "cobject"}, NEW o \in Nat \ {0},
         NEW t \in PointerThreads, NEW v \in Nat, NEW w \in Nat, Exchange(now, next, o, t, v, w),
         Sound(kind, now, o)
  PROVE  Sound(kind, next, o)
<1> DEFINE temp == Temporary(w)
           temps == now.temp
<1>1. temp \in [object : Nat, count : Int] /\ temps \in [PointerThreads -> [object : Nat, count : Int]] /\ o \in Nat
  BY DEF Temporary, Temps, Unread, Exchange
<1>2. temps[t] = NoTemp /\ next.temp = Retire(temps, t, temp)
  BY DEF Exchange
<1>3. temp.object = w /\ temp.count = Unread
  BY DEF Temporary
<1> HIDE DEF temp, temps
<1>4. /\ Leaving(Retire(temps, t, temp), o) = Among(Leaving(temps, o), t, temp.object = o)
      /\ ReadLast(Retire(temps, t, temp), o) = Among(ReadLast(temps, o), t, temp.object = o /\ temp.count = 0)
      /\ Cardinality(Releasing(Retire(temps, t, temp), o)) =
           Cardinality(Releasing(temps, o)) + One(temp.object = o /\ temp.count = Unread)
             - One(temps[t].object = o /\ temps[t].count = Unread)
  BY <1>1, Retired
<1>5. t \notin Leaving(temps, o) /\ t \notin ReadLast(temps, o) /\ temps[t].object # o /\ temp.count # 0
  BY <1>2, <1>3 DEF Leaving, ReadLast, NoTemp, Unread
<1>6. Leaving(next.temp, o) = Among(Leaving(temps, o), t, w = o) /\ ReadLast(next.temp, o) = ReadLast(temps, o)
  BY <1>2, <1>3, <1>4, <1>5 DEF Among
<1>7. Cardinality(Held(now.px, o)) \in Nat /\ Cardinality(Releasing(temps, o)) \in Nat
  BY Finite
<1>8. Cardinality(Releasing(next.temp, o)) = Cardinality(Releasing(temps, o)) + One(w = o)
  BY <1>2, <1>3, <1>4, <1>5, <1>7 DEF One
<1>9. Counted(next, o)
  <2>1. One(v = o) \in Int /\ One(w = o) \in Int
    BY DEF One
  <2> QED
    BY <1>7, <1>8, <2>1 DEF Counted, Sound, temps, Exchange
<1>10. now.refs[o] \in Nat /\ (v = o => now.refs[o] # 0)
  BY Referenced DEF Sound, Exchange
<1>11. DeletedByLast(kind, next, o)
  BY <1>6, <1>10 DEF Sound, DeletedByLast, One, temps, Exchange
<1>12. ASSUME kind = "cobject"
       PROVE  OneOwner(next, o)
  <2>1. OneOwner(now, o)
    BY <1>12 DEF Sound
  <2>2. \A u \in Leaving(next.temp, o) : \/ u \in Leaving(now.temp, o) /\ next.temp[u].count = now.temp[u].count
                                         \/ u = t /\ next.temp[u].count \in {Unread, 0}
    <3>1. \A u \in PointerThreads : next.temp[u] = IF u = t THEN temp ELSE temps[u]
      BY <1>1, <1>2 DEF Retire
    <3> QED
      BY <1>3, <1>6, <3>1 DEF Leaving, Among, temps
  <2>3. \/ \E p \in Held(now.px, o) : p[1] = t
        \/ t \in Leaving(now.temp, o)
        \/ Held(next.px, o) \subseteq Held(now.px, o) /\ Leaving(next.temp, o) \subseteq Leaving(now.temp, o)
    BY <1>6 DEF Among, temps, Exchange
  <2>4. \A p \in Held(next.px, o) : p \in Held(now.px, o) \/ p[1] = t
    BY DEF Exchange
  <2> QED
    BY <2>1, <2>2, <2>3, <2>4, OwnerKept DEF Touches
<1> QED
  BY <1>9, <1>11, <1>12 DEF Sound

\* An assignment of an object that the thread points to keeps what is known.
LEMMA AssignedSound ==
  ASSUME ObjectsConstants, NEW now, PointersType(now), NEW t \in PointerThreads, NEW s \in Slots,
         NEW v \in 0 .. Len(now.refs), now.temp[t] = NoTemp, NEW o \in DOMAIN now.refs,
         NEW kind \in {"object", "cobject"}, Sound(kind, now, o),
         v = o => \E p \in Held(now.px, o) : p[1] = t,
         NEW next, next = Assigned(now, t, s, v)
  PROVE  Sound(kind, next, o)
<1> DEFINE w == now.px[t][s]
           px == now.px
<1>1. o \in Nat \ {0} /\ v \in Nat /\ w \in Nat /\ px \in PointerFields
  BY Fields DEF PointerFields
<1>2. now.temp \in [PointerThreads -> Temps] /\ now.refs[o] \in Int
  BY Fields, ElementOfSeq
<1>3. /\ next.temp = Retire(now.temp, t, Temporary(w)) /\ next.px = Repoint(px, t, s, v) /\ next.deleted = now.deleted
      /\ next.refs[o] = IF o = v THEN now.refs[o] + 1 ELSE now.refs[o]
  BY AssignedIs
<1>4. next.refs[o] = now.refs[o] + One(v = o)
  BY <1>2, <1>3 DEF One
<1> HIDE DEF px
<1>5. /\ Held(Repoint(px, t, s, v), o) = Among(Held(px, o), <<t, s>>, v = o)
      /\ Cardinality(Held(Repoint(px, t, s, v), o)) = Cardinality(Held(px, o)) + One(v = o) - One(px[t][s] = o)
  <2>1. v \in Nat /\ o \in Nat
    BY <1>1
  <2>2. px \in PointerFields
    BY <1>1
  <2> QED
    BY <2>1, <2>2, Repointed
<1>6. /\ \A p \in Held(next.px, o) : p \in Held(now.px, o) \/ p[1] = t
      /\ v # o => Held(next.px, o) \subseteq Held(now.px, o)
  BY <1>3, <1>5 DEF Among, px
<1>7. w = o => \E p \in Held(now.px, o) : p[1] = t
  <2>1. w = o => <<t, s>> \in Held(now.px, o)
    BY DEF Held
  <2> QED
    BY <2>1
<1>8. Cardinality(Held(next.px, o)) = Cardinality(Held(now.px, o)) + One(v = o) - One(w = o)
  BY <1>3, <1>5 DEF px
<1>9. v = o \/ w = o \/ ~(Held(next.px, o) \subseteq Held(now.px, o)) => \E p \in Held(now.px, o) : p[1] = t
  BY <1>6, <1>7
<1>10. next.temp = Retire(now.temp, t, Temporary(w)) /\ next.deleted = now.deleted
  BY <1>3
<1> HIDE DEF w
<1>11. o \in Nat \ {0} /\ v \in Nat /\ w \in Nat /\ now.temp \in [PointerThreads -> Temps]
  BY <1>1, <1>2
<1>12. Exchange(now, next, o, t, v, w)
  BY <1>4, <1>6, <1>8, <1>9, <1>10, <1>11 DEF Exchange
<1> QED
  BY <1>11, <1>12, Exchanged

\* An assignment from a pointer of the thread, or from none, keeps the objects sound.
LEMMA AssignedGood ==
  ASSUME ObjectsConstants, NEW kind \in {"object", "cobject"}, NEW now, Good(kind, now),
         NEW t \in PointerThreads, NEW s \in Slots, NEW v \in 0 .. Len(now.refs), now.temp[t] = NoTemp,
         v # 0 => \E r \in Slots : now.px[t][r] = v,
         NEW next, next = Assigned(now, t, s, v)
  PROVE  Good(kind, next)
<1>1. PointersType(now)
  BY DEF Good
<1>2. PointersType(next) /\ Len(next.refs) = Len(now.refs)
  BY <1>1, AssignedIs
<1>3. DOMAIN next.refs = DOMAIN now.refs /\ \A o \in DOMAIN now.refs : o # 0
  BY <1>1, <1>2, Fields
<1>4. ASSUME NEW o \in DOMAIN now.refs
      PROVE  Sound(kind, next, o)
  <2>1. v = o => \E p \in Held(now.px, o) : p[1] = t
    <3>1. ASSUME v = o
          PROVE  \E p \in Held(now.px, o) : p[1] = t
      <4>1. PICK r \in Slots : now.px[t][r] = o
        BY <1>3, <3>1
      <4>2. <<t, r>> \in Held(now.px, o)
        BY <4>1 DEF Held
      <4> QED
        BY <4>2
    <3> QED
      BY <3>1
  <2>2. Sound(kind, now, o)
    BY DEF Good
  <2> QED
    BY <1>1, <2>1, <2>2, AssignedSound
<1> QED
  BY <1>2, <1>3, <1>4 DEF Good

\* What create() adds.
WithNew(now) == [now EXCEPT !.refs = Append(@, 0), !.deleted = Append(@, 0)]

\* A new object has one pointer when its assignment is over.
LEMMA NewGood ==
  ASSUME ObjectsConstants, NEW kind \in {"object", "cobject"}, NEW now, Good(kind, now),
         NEW t \in PointerThreads, NEW s \in Slots, now.temp[t] = NoTemp,
         NEW made, made = WithNew(now),
         NEW next, next = Assigned(made, t, s, Len(made.refs))
  PROVE  Good(kind, next)
<1> DEFINE n == Len(now.refs) + 1
<1>1. PointersType(now) /\ n \in Nat /\ DOMAIN now.refs = 1 .. Len(now.refs)
  BY Fields DEF Good
<1>2. /\ made.px = now.px /\ made.temp = now.temp
      /\ made.refs = Append(now.refs, 0) /\ made.deleted = Append(now.deleted, 0)
  BY <1>1 DEF PointersType, Pointers, WithNew
<1>3. /\ made.refs \in Seq(Int) /\ Len(made.refs) = n /\ made.deleted \in Seq(Int) /\ Len(made.deleted) = n
      /\ \A o \in DOMAIN now.refs : made.refs[o] = now.refs[o] /\ made.deleted[o] = now.deleted[o]
      /\ made.refs[n] = 0 /\ made.deleted[n] = 0 /\ DOMAIN made.refs = DOMAIN now.refs \cup {n}
  <2>1. now.refs \in Seq(Int) /\ now.deleted \in Seq(Int) /\ Len(now.deleted) = Len(now.refs) /\ 0 \in Int
    BY <1>1, Fields DEF PointersType
  <2>2. \A q \in Seq(Int) : /\ Append(q, 0) \in Seq(Int) /\ Len(Append(q, 0)) = Len(q) + 1
                            /\ Append(q, 0)[Len(q) + 1] = 0
                            /\ \A i \in 1 .. Len(q) : Append(q, 0)[i] = q[i]
    BY <2>1, AppendProperties
  <2>3. DOMAIN made.refs = 1 .. n
    BY <1>2, <2>1, <2>2
  <2> QED
    BY <1>1, <1>2, <2>1, <2>2, <2>3
<1>4. made \in Pointers
  BY <1>1, <1>2, <1>3 DEF PointersType, Pointers, WithNew
<1>5. PointersType(made)
  <2>1. \A i \in 0 .. Len(now.refs) : i \in 0 .. n
    BY <1>1
  <2>2. \A u \in PointerThreads :
          /\ \A r \in Slots : now.px[u][r] \in 0 .. Len(now.refs)
          /\ now.temp[u].object \in 0 .. Len(now.refs)
          /\ now.temp[u].object = 0 => now.temp[u] = NoTemp
    BY <1>1 DEF PointersType
  <2>3. \A u \in PointerThreads :
          /\ \A r \in Slots : made.px[u][r] \in 0 .. Len(made.refs)
          /\ made.temp[u].object \in 0 .. Len(made.refs)
          /\ made.temp[u].object = 0 => made.temp[u] = NoTemp
    BY <1>2, <1>3, <2>1, <2>2
  <2> QED
    BY <1>3, <1>4, <2>3 DEF PointersType
<1>6. /\ n \in 0 .. Len(made.refs) /\ made.temp[t] = NoTemp /\ next = Assigned(made, t, s, n)
      /\ Len(made.refs) = n
  BY <1>1, <1>2, <1>3
<1>7. /\ next.temp = Retire(made.temp, t, Temporary(made.px[t][s])) /\ next.px = Repoint(made.px, t, s, n)
      /\ next.deleted = made.deleted /\ Len(next.refs) = n /\ next.refs \in Seq(Int)
      /\ \A o \in DOMAIN made.refs : next.refs[o] = IF o = n THEN made.refs[o] + 1 ELSE made.refs[o]
      /\ PointersType(next)
  <2> HIDE DEF n
  <2> QED
    BY <1>5, <1>6, AssignedIs
<1>8. ASSUME NEW o \in DOMAIN now.refs
      PROVE  Sound(kind, next, o)
  <2>1. Sound(kind, now, o)
    BY DEF Good
  <2>2. Sound(kind, made, o)
    BY <1>2, <1>3, <2>1 DEF Sound, Counted, DeletedByLast, OneOwner
  <2>3. o \in DOMAIN made.refs /\ n # o
    BY <1>1, <1>3
  <2> HIDE DEF n
  <2> QED
    BY <1>5, <1>6, <2>2, <2>3, AssignedSound
<1>9. Sound(kind, next, n)
  <2> DEFINE w == made.px[t][s]
  <2>1. Held(made.px, n) = {} /\ Leaving(made.temp, n) = {} /\ w # n
    BY <1>1, <1>2 DEF PointersType, Held, Leaving
  <2>2. made.px \in PointerFields /\ made.temp \in [PointerThreads -> Temps] /\ w \in Nat
    <3>1. made.px \in PointerFields /\ made.temp \in [PointerThreads -> Temps]
      BY <1>5, Fields
    <3> QED
      BY <3>1 DEF PointerFields
  <2>3. next.px = Repoint(made.px, t, s, n) /\ n \in Nat
    BY <1>1, <1>7
  <2>4. /\ Held(next.px, n) = Among(Held(made.px, n), <<t, s>>, n = n)
        /\ Cardinality(Held(next.px, n)) = Cardinality(Held(made.px, n)) + One(n = n) - One(made.px[t][s] = n)
    <3> DEFINE px == made.px
    <3>1. px \in PointerFields
      BY <2>2
    <3>2. n \in Nat
      BY <2>3
    <3> HIDE DEF n, px
    <3>3. /\ Held(Repoint(px, t, s, n), n) = Among(Held(px, n), <<t, s>>, n = n)
          /\ Cardinality(Held(Repoint(px, t, s, n), n)) = Cardinality(Held(px, n)) + One(n = n) - One(px[t][s] = n)
      BY <3>1, <3>2, Repointed
    <3> QED
      BY <2>3, <3>3 DEF px
  <2>5. Held(next.px, n) = {<<t, s>>} /\ Cardinality(Held(next.px, n)) = 1
    <3>1. One(n = n) = 1 /\ One(made.px[t][s] = n) = 0 /\ Cardinality(Held(made.px, n)) = 0
      BY <2>1, FS_EmptySet DEF One
    <3>2. Among(Held(made.px, n), <<t, s>>, n = n) = {<<t, s>>}
      BY <2>1 DEF Among
    <3> HIDE DEF n
    <3> QED
      BY <2>4, <3>1, <3>2
  <2>6. Leaving(next.temp, n) = {}
    <3>1. \A u \in PointerThreads : next.temp[u] = IF u = t THEN Temporary(w) ELSE made.temp[u]
      BY <1>7, <2>2 DEF Retire
    <3>2. Temporary(w).object = w
      BY DEF Temporary
    <3> HIDE DEF n, w
    <3> QED
      BY <2>1, <3>1, <3>2 DEF Leaving
  <2>7. ReadLast(next.temp, n) = {} /\ Releasing(next.temp, n) = {}
    BY <2>6 DEF Leaving, ReadLast, Releasing
  <2>8. next.refs[n] = 1 /\ next.deleted[n] = 0
    <3>1. n \in DOMAIN made.refs
      BY <1>3
    <3> HIDE DEF n
    <3> QED
      BY <1>3, <1>7, <3>1
  <2> HIDE DEF n
  <2>9. Counted(next, n) /\ DeletedByLast(kind, next, n)
    <3>1. Cardinality(Releasing(next.temp, n)) = 0
      BY <2>7, FS_EmptySet
    <3> QED
      BY <2>5, <2>7, <2>8, <3>1 DEF Counted, DeletedByLast
  <2>10. OneOwner(next, n)
    BY <2>5, <2>6 DEF OneOwner
  <2> QED
    BY <2>9, <2>10 DEF Sound
<1>10. DOMAIN next.refs = DOMAIN now.refs \cup {n}
  BY <1>1, <1>7, SMTT(30)
<1> QED
  BY <1>7, <1>8, <1>9, <1>10 DEF Good

\* What move() leaves: the source emptied, the pointer set to what it had, and
\* what the pointer referred to, if it was not the source, in the temporary.
Moving(now, t, s, r) ==
  LET emptied == [now.px[t] EXCEPT ![r] = 0]
  IN  [now EXCEPT !.px[t] = [emptied EXCEPT ![s] = now.px[t][r]],
                  !.temp[t] = [NoTemp EXCEPT !.object = emptied[s]]]

\* The state after a move.
LEMMA MovedIs ==
  ASSUME NEW now, PointersType(now), NEW t \in PointerThreads, NEW s \in Slots, NEW r \in Slots,
         now.temp[t] = NoTemp, NEW next, next = Moving(now, t, s, r)
  PROVE  LET w == IF s = r THEN 0 ELSE now.px[t][s]
         IN  /\ next.px = Repoint(Repoint(now.px, t, r, 0), t, s, now.px[t][r])
             /\ next.temp = Retire(now.temp, t, Temporary(w))
             /\ next.deleted = now.deleted /\ next.refs = now.refs
             /\ PointersType(next)
<1> DEFINE w == IF s = r THEN 0 ELSE now.px[t][s]
           emptied == [now.px[t] EXCEPT ![r] = 0]
           px2 == [now.px EXCEPT ![t] = [emptied EXCEPT ![s] = now.px[t][r]]]
           temp == Retire(now.temp, t, Temporary(w))
<1>1. now.px \in PointerFields /\ now.temp \in [PointerThreads -> Temps]
  BY Fields
<1>2. emptied[s] = w
  BY <1>1 DEF PointerFields
<1>3. [NoTemp EXCEPT !.object = emptied[s]] = Temporary(w)
  BY <1>2 DEF NoTemp, Temporary
<1>4. next.px = px2 /\ next.deleted = now.deleted /\ next.refs = now.refs
      /\ next.temp = Retire(now.temp, t, [NoTemp EXCEPT !.object = emptied[s]])
  <2>1. next.px = px2
    BY DEF Moving, PointersType, Pointers
  <2>2. next.temp = Retire(now.temp, t, [NoTemp EXCEPT !.object = emptied[s]])
    BY DEF Moving, PointersType, Pointers, Retire
  <2>3. next.deleted = now.deleted /\ next.refs = now.refs
    BY DEF Moving, PointersType, Pointers
  <2> QED
    BY <2>1, <2>2, <2>3
<1>5. px2 = Repoint(Repoint(now.px, t, r, 0), t, s, now.px[t][r])
  BY <1>1 DEF Repoint, PointerFields
<1>6. px2 \in PointerFields /\ temp \in [PointerThreads -> Temps]
  BY <1>1 DEF PointerFields, Temps, Unread, Retire, Temporary
<1>7. \A u \in PointerThreads : \A q \in Slots : px2[u][q] \in 0 .. Len(now.refs)
  <2>1. \A u \in PointerThreads : \A q \in Slots : now.px[u][q] \in 0 .. Len(now.refs)
    BY DEF PointersType
  <2>2. \A u \in PointerThreads : \A q \in Slots :
          px2[u][q] = IF u # t THEN now.px[u][q]
                      ELSE IF q = s THEN now.px[t][r] ELSE IF q = r THEN 0 ELSE now.px[t][q]
    BY <1>1 DEF PointerFields
  <2>3. 0 \in 0 .. Len(now.refs)
    BY Fields
  <2> HIDE DEF px2
  <2> QED
    BY <2>1, <2>2, <2>3
<1>8. \A u \in PointerThreads : /\ temp[u].object \in 0 .. Len(now.refs)
                                /\ temp[u].object = 0 => temp[u] = NoTemp
  BY Fields DEF PointersType, NoTemp, Unread, Retire, Temporary
<1> HIDE DEF px2, temp, w, emptied
<1>9. next \in Pointers
  <2>1. DOMAIN next = {"px", "refs", "deleted", "temp"} /\ next = [i \in {"px", "refs", "deleted", "temp"} |-> next[i]]
    BY DEF Moving, PointersType, Pointers, PointerFields
  <2>2. now.refs \in Seq(Int) /\ now.deleted \in Seq(Int)
    BY Fields
  <2> QED
    BY <1>3, <1>4, <1>6, <2>1, <2>2 DEF Pointers, Temps, temp
<1>10. PointersType(next)
  <2>1. next.px = px2 /\ next.temp = temp /\ next.refs = now.refs /\ Len(next.deleted) = Len(next.refs)
    BY <1>3, <1>4 DEF PointersType, temp
  <2> QED
    BY <1>7, <1>8, <1>9, <2>1 DEF PointersType
<1> QED
  BY <1>3, <1>4, <1>5, <1>10 DEF temp, w

\* A move counts nothing: it keeps the objects sound.
LEMMA MovedGood ==
  ASSUME ObjectsConstants, NEW kind \in {"object", "cobject"}, NEW now, Good(kind, now),
         NEW t \in PointerThreads, NEW s \in Slots, NEW r \in Slots, now.temp[t] = NoTemp,
         NEW next, next = Moving(now, t, s, r)
  PROVE  Good(kind, next)
<1> DEFINE w == IF s = r THEN 0 ELSE now.px[t][s]
           v == now.px[t][r]
           px == now.px
           px1 == Repoint(px, t, r, 0)
<1>1. PointersType(now)
  BY DEF Good
<1>2. /\ next.px = Repoint(px1, t, s, v) /\ next.temp = Retire(now.temp, t, Temporary(w))
      /\ next.deleted = now.deleted /\ next.refs = now.refs /\ PointersType(next)
  BY <1>1, MovedIs
<1>3. px \in PointerFields /\ now.temp \in [PointerThreads -> Temps]
  BY <1>1, Fields
<1>4. w \in Nat /\ v \in Nat /\ 0 \in Nat
  BY <1>3 DEF PointerFields
<1>5. px1 \in PointerFields /\ px1[t][s] = w
  BY <1>3 DEF Repoint, PointerFields
<1>6. ASSUME NEW o \in DOMAIN now.refs
      PROVE  Sound(kind, next, o)
  <2>1. o \in Nat \ {0} /\ now.refs[o] \in Int
    BY <1>1, Fields, ElementOfSeq
  <2>2. v = o => <<t, r>> \in Held(px, o)
    BY DEF Held
  <2>3. w = o => <<t, s>> \in Held(px, o)
    BY <2>1 DEF Held
  <2> HIDE DEF px, px1, w, v
  <2>4. /\ Held(Repoint(px, t, r, 0), o) = Among(Held(px, o), <<t, r>>, 0 = o)
        /\ Cardinality(Held(Repoint(px, t, r, 0), o)) = Cardinality(Held(px, o)) + One(0 = o) - One(px[t][r] = o)
    <3>1. o \in Nat /\ 0 \in Nat
      BY <2>1
    <3>2. px \in PointerFields
      BY <1>3
    <3> QED
      BY <3>1, <3>2, Repointed
  <2>5. /\ Held(Repoint(px1, t, s, v), o) = Among(Held(px1, o), <<t, s>>, v = o)
        /\ Cardinality(Held(Repoint(px1, t, s, v), o)) = Cardinality(Held(px1, o)) + One(v = o) - One(px1[t][s] = o)
    <3>1. o \in Nat /\ v \in Nat
      BY <1>4, <2>1
    <3>2. px1 \in PointerFields
      BY <1>5
    <3> QED
      BY <3>1, <3>2, Repointed
  <2>6. Cardinality(Held(next.px, o)) = Cardinality(Held(now.px, o)) + One(0 = o) - One(w = o)
    <3>1. Cardinality(Held(px, o)) \in Nat /\ Cardinality(Releasing(now.temp, o)) \in Nat
      BY Finite
    <3>4. One(v = o) \in Int /\ One(w = o) \in Int /\ One(0 = o) = 0
      BY <2>1 DEF One
    <3>2. Cardinality(Held(px1, o)) = Cardinality(Held(px, o)) + One(0 = o) - One(v = o)
      BY <2>4 DEF px1, v, px
    <3>3. Cardinality(Held(next.px, o)) = Cardinality(Held(px1, o)) + One(v = o) - One(w = o)
      BY <1>2, <1>5, <2>5
    <3> QED
      BY <3>1, <3>2, <3>3, <3>4 DEF px
  <2>7. \A p \in Held(next.px, o) : p \in Held(now.px, o) \/ p[1] = t
    BY <1>2, <2>4, <2>5 DEF Among, px, px1
  <2>8. v # o => Held(next.px, o) \subseteq Held(now.px, o)
    BY <1>2, <2>1, <2>4, <2>5 DEF Among, px, px1
  <2>9. 0 = o \/ w = o \/ ~(Held(next.px, o) \subseteq Held(now.px, o)) => \E p \in Held(now.px, o) : p[1] = t
    BY <2>1, <2>2, <2>3, <2>8 DEF px
  <2>10. next.refs[o] = now.refs[o] + One(0 = o)
    BY <1>2, <2>1 DEF One
  <2>11. Exchange(now, next, o, t, 0, w)
    BY <1>2, <1>3, <2>6, <2>7, <2>9, <2>10 DEF Exchange
  <2>12. Sound(kind, now, o)
    BY DEF Good
  <2> QED
    BY <1>4, <2>1, <2>11, <2>12, Exchanged
<1> QED
  BY <1>2, <1>6 DEF Good

\* A copy handed to another thread; for threads that share objects, which have
\* atomic counts.
HandedOver(now, t, s, u, r) ==
  [now EXCEPT !.refs = add_reference(@, now.px[t][s]), !.px[u][r] = now.px[t][s]]

\* A copy for another thread is counted like any other.
LEMMA HandedOverGood ==
  ASSUME ObjectsConstants, NEW now, Good("object", now), NEW t \in PointerThreads, NEW s \in Slots,
         NEW u \in PointerThreads, NEW r \in Slots, now.px[t][s] # 0, now.px[u][r] = 0,
         NEW next, next = HandedOver(now, t, s, u, r)
  PROVE  Good("object", next)
<1> DEFINE v == now.px[t][s]
           px == now.px
<1>1. PointersType(now)
  BY DEF Good
<1>2. px \in PointerFields /\ now.refs \in Seq(Int) /\ v \in 0 .. Len(now.refs) /\ v \in Nat
  BY <1>1, Fields DEF PointersType, PointerFields
<1>3. /\ next.px = Repoint(px, u, r, v) /\ next.temp = now.temp /\ next.deleted = now.deleted
      /\ next.refs = add_reference(now.refs, v)
  BY <1>1 DEF HandedOver, PointersType, Pointers, Repoint
<1>4. /\ next.refs \in Seq(Int) /\ Len(next.refs) = Len(now.refs)
      /\ \A o \in DOMAIN now.refs : next.refs[o] = IF o = v THEN now.refs[o] + 1 ELSE now.refs[o]
  BY <1>2, <1>3, AddedReference, SMTT(30)
<1>5. Repoint(px, u, r, v) \in PointerFields
  BY <1>2 DEF Repoint, PointerFields
<1>6. next \in Pointers
  <2>1. Repoint(now.px, u, r, v) \in PointerFields
    BY <1>5
  <2>2. add_reference(now.refs, v) \in Seq(Int)
    BY <1>3, <1>4
  <2> QED
    BY <1>1, <2>1, <2>2 DEF HandedOver, PointersType, Pointers, Repoint
<1>7. PointersType(next)
  <2>1. \A a \in PointerThreads : \A q \in Slots : next.px[a][q] = v \/ next.px[a][q] = now.px[a][q]
    BY <1>2, <1>3 DEF Repoint, PointerFields
  <2>2. \A a \in PointerThreads : \A q \in Slots : next.px[a][q] \in 0 .. Len(next.refs)
    BY <1>1, <1>2, <1>4, <2>1 DEF PointersType
  <2> QED
    BY <1>1, <1>3, <1>4, <1>6, <2>2 DEF PointersType
<1>8. ASSUME NEW o \in DOMAIN now.refs
      PROVE  Sound("object", next, o)
  <2>1. o \in Nat /\ o # 0 /\ now.refs[o] \in Int
    BY <1>1, Fields, ElementOfSeq
  <2>2. Sound("object", now, o)
    BY DEF Good
  <2>3. v = o => <<t, s>> \in Held(now.px, o)
    BY DEF Held
  <2>4. now.refs[o] \in Nat /\ (v = o => now.refs[o] # 0)
    BY <2>2, <2>3, Referenced DEF Sound
  <2>5. now.px[u][r] # o
    BY <2>1
  <2>6. next.refs[o] = now.refs[o] + One(v = o)
    BY <1>4, <2>1 DEF One
  <2> HIDE DEF v, px
  <2>7. /\ Held(Repoint(px, u, r, v), o) = Among(Held(px, o), <<u, r>>, v = o)
        /\ Cardinality(Held(Repoint(px, u, r, v), o)) = Cardinality(Held(px, o)) + One(v = o) - One(px[u][r] = o)
    <3>1. v \in Nat
      BY <1>2
    <3>2. px \in PointerFields /\ o \in Nat
      BY <1>2, <2>1
    <3> QED
      BY <3>1, <3>2, Repointed
  <2>8. Cardinality(Held(px, o)) \in Nat /\ Cardinality(Releasing(now.temp, o)) \in Nat
    BY Finite
  <2>9. One(v = o) \in Int /\ One(px[u][r] = o) = 0
    BY <2>5 DEF One, px
  <2>10. Counted(next, o)
    BY <1>3, <2>2, <2>6, <2>7, <2>8, <2>9 DEF Sound, Counted, px
  <2>11. DeletedByLast("object", next, o)
    BY <1>3, <2>2, <2>4, <2>6 DEF Sound, DeletedByLast, One
  <2> QED
    BY <2>10, <2>11 DEF Sound
<1>9. DOMAIN next.refs = DOMAIN now.refs
  BY <1>1, <1>4, Fields
<1> QED
  BY <1>7, <1>8, <1>9 DEF Good

\* A temporary that is released takes its reference away; c is what the thread
\* has read of the count.
Released(now, t, c) ==
  [now EXCEPT !.refs[now.temp[t].object] = @ - 1, !.temp[t].count = c]
Reads(kind, now, t, c) ==
  c = IF kind = "object" THEN now.refs[now.temp[t].object] - 1 ELSE 0
Read(o, c) == [object |-> o, count |-> c]

\* A release: an object's last one is told by what the decrement returned, a
\* cobject's by the count, which only its one thread changes.
LEMMA ReleasedGood ==
  ASSUME ObjectsConstants, NEW kind \in {"object", "cobject"}, NEW now, Good(kind, now),
         NEW t \in PointerThreads, now.temp[t].object # 0, now.temp[t].count = Unread,
         NEW c, Reads(kind, now, t, c),
         NEW next, next = Released(now, t, c)
  PROVE  Good(kind, next)
<1> DEFINE x == now.temp[t].object
           temp == Read(x, c)
           temps == now.temp
<1>1. PointersType(now)
  BY DEF Good
<1>2. /\ temps \in [PointerThreads -> Temps] /\ now.refs \in Seq(Int) /\ now.px \in PointerFields
      /\ now.deleted \in Seq(Int) /\ DOMAIN now.refs = 1 .. Len(now.refs)
  BY <1>1, Fields
<1>3. x \in DOMAIN now.refs /\ now.refs[x] \in Int /\ x \in Nat /\ x # 0
  <2>1. x \in DOMAIN now.refs /\ x \in Nat
    BY <1>1, <1>2 DEF PointersType
  <2> QED
    BY <1>2, <2>1, ElementOfSeq
<1>4. Sound(kind, now, x)
  BY <1>3 DEF Good
<1>5. t \in Releasing(temps, x) /\ t \in Leaving(temps, x)
  BY DEF Releasing, Leaving
<1>6. now.refs[x] \in Nat /\ now.refs[x] # 0
  BY <1>4, <1>5, Referenced DEF Sound
<1>7. c \in Nat /\ temp \in Temps /\ temp.object = x /\ temp.count = c /\ c # Unread
  BY <1>3, <1>6 DEF Temps, Read, Reads, Unread
<1>8. /\ next.px = now.px /\ next.deleted = now.deleted
      /\ next.refs = [now.refs EXCEPT ![x] = now.refs[x] - 1] /\ next.temp = Retire(temps, t, temp)
  <2>1. next.px = now.px /\ next.deleted = now.deleted
    BY <1>1 DEF Released, PointersType, Pointers
  <2>2. next.refs = [now.refs EXCEPT ![x] = now.refs[x] - 1]
    BY <1>1 DEF Released, PointersType, Pointers
  <2>3. [now.temp[t] EXCEPT !.count = c] = temp
    <3>1. \A q \in Temps : [q EXCEPT !.count = c] = Read(q.object, c)
      BY DEF Temps, Read
    <3> QED
      BY <1>2, <3>1
  <2>4. next.temp = [now.temp EXCEPT ![t] = [now.temp[t] EXCEPT !.count = c]]
    BY <1>1 DEF Released, PointersType, Pointers
  <2> QED
    BY <2>1, <2>2, <2>3, <2>4 DEF Retire
<1>9. /\ next.refs \in Seq(Int) /\ Len(next.refs) = Len(now.refs)
      /\ \A o \in DOMAIN now.refs : next.refs[o] = IF o = x THEN now.refs[o] - 1 ELSE now.refs[o]
  <2>1. now.refs[x] - 1 \in Int
    BY <1>3
  <2>2. [now.refs EXCEPT ![x] = now.refs[x] - 1] \in Seq(Int)
        /\ Len([now.refs EXCEPT ![x] = now.refs[x] - 1]) = Len(now.refs)
    BY <1>2, <1>3, <2>1, ExceptSeq
  <2> QED
    BY <1>2, <1>3, <1>8, <2>2
<1> HIDE DEF x, temp, temps
<1>10. Retire(temps, t, temp) \in [PointerThreads -> Temps]
       /\ \A u \in PointerThreads : Retire(temps, t, temp)[u] = IF u = t THEN temp ELSE temps[u]
  BY <1>2, <1>7 DEF Retire
<1>11. next \in Pointers
  <2>1. DOMAIN next = {"px", "refs", "deleted", "temp"} /\ next = [i \in {"px", "refs", "deleted", "temp"} |-> next[i]]
    BY <1>1 DEF Released, PointersType, Pointers
  <2> QED
    BY <1>2, <1>8, <1>9, <1>10, <2>1 DEF Pointers, Temps
<1>12. PointersType(next)
  <2>1. \A u \in PointerThreads :
          /\ \A q \in Slots : now.px[u][q] \in 0 .. Len(now.refs)
          /\ temps[u].object \in 0 .. Len(now.refs)
          /\ temps[u].object = 0 => temps[u] = NoTemp
    BY <1>1 DEF PointersType, temps
  <2>2. x \in 0 .. Len(now.refs)
    BY <1>2, <1>3
  <2>3. \A u \in PointerThreads :
          /\ \A q \in Slots : next.px[u][q] \in 0 .. Len(next.refs)
          /\ next.temp[u].object \in 0 .. Len(next.refs)
          /\ next.temp[u].object = 0 => next.temp[u] = NoTemp
    <3>1. next.px = now.px /\ Len(next.refs) = Len(now.refs)
      BY <1>8, <1>9
    <3>2. \A u \in PointerThreads : next.temp[u] = temp \/ next.temp[u] = temps[u]
      BY <1>8, <1>10
    <3>3. temp.object \in 0 .. Len(now.refs) /\ temp.object # 0
      BY <1>3, <1>7, <2>2
    <3> QED
      BY <2>1, <3>1, <3>2, <3>3
  <2>4. Len(next.deleted) = Len(next.refs)
    BY <1>1, <1>8, <1>9 DEF PointersType
  <2> QED
    BY <1>11, <2>3, <2>4 DEF PointersType
<1>13. ASSUME NEW o \in DOMAIN now.refs
       PROVE  Sound(kind, next, o)
  <2>1. o \in Nat /\ Sound(kind, now, o) /\ now.refs[o] \in Nat
    BY <1>2, Referenced DEF Good, Sound
  <2>2. temps[t].object = x /\ temps[t].count = Unread
    BY DEF temps, x
  <2>3. /\ Leaving(Retire(temps, t, temp), o) = Among(Leaving(temps, o), t, temp.object = o)
        /\ ReadLast(Retire(temps, t, temp), o) = Among(ReadLast(temps, o), t, temp.object = o /\ temp.count = 0)
        /\ Cardinality(Releasing(Retire(temps, t, temp), o)) =
             Cardinality(Releasing(temps, o)) + One(temp.object = o /\ temp.count = Unread)
               - One(temps[t].object = o /\ temps[t].count = Unread)
    <3>1. temps \in [PointerThreads -> [object : Nat, count : Int]] /\ temp \in [object : Nat, count : Int]
      BY <1>2, <1>7 DEF Temps
    <3>2. o \in Nat
      BY <2>1
    <3> QED
      BY <3>1, <3>2, Retired
  <2>4. t \notin ReadLast(temps, o) /\ (t \in Leaving(temps, o) <=> x = o)
    BY <2>2 DEF ReadLast, Leaving, Unread
  <2>5. /\ Leaving(next.temp, o) = Leaving(temps, o)
        /\ x = o /\ c = 0 => ReadLast(next.temp, o) = ReadLast(temps, o) \cup {t}
        /\ ~(x = o /\ c = 0) => ReadLast(next.temp, o) = ReadLast(temps, o)
    <3>1. Leaving(next.temp, o) = Among(Leaving(temps, o), t, x = o)
      BY <1>7, <1>8, <2>3
    <3>2. ReadLast(next.temp, o) = Among(ReadLast(temps, o), t, x = o /\ c = 0)
      BY <1>7, <1>8, <2>3
    <3> QED
      BY <2>4, <3>1, <3>2 DEF Among
  <2>6. Cardinality(Releasing(next.temp, o)) = Cardinality(Releasing(temps, o)) - One(x = o)
    <3>1. Cardinality(Releasing(temps, o)) \in Nat /\ Cardinality(Held(now.px, o)) \in Nat
      BY Finite
    <3> QED
      BY <1>7, <1>8, <2>2, <2>3, <3>1 DEF One
  <2>7. next.refs[o] = now.refs[o] - One(x = o) /\ One(x = o) \in {0, 1} /\ (One(x = o) = 1 <=> x = o)
    BY <1>9, <2>1 DEF One
  <2>8. Counted(next, o)
    <3>1. Cardinality(Releasing(temps, o)) \in Nat /\ Cardinality(Held(now.px, o)) \in Nat
      BY Finite
    <3> QED
      BY <1>8, <2>1, <2>6, <2>7, <3>1 DEF Counted, Sound, temps
  <2>9. DeletedByLast(kind, next, o)
    <3>1. CASE x # o
      BY <1>8, <2>1, <2>5, <2>7, <3>1 DEF Sound, DeletedByLast, temps
    <3>2. CASE x = o
      <4>1. next.refs[o] = now.refs[o] - 1 /\ now.refs[o] > 0 /\ now.deleted[o] = 0
            /\ (kind = "object" => ReadLast(temps, o) = {})
        BY <1>3, <1>6, <2>1, <2>7, <3>2 DEF Sound, DeletedByLast, temps
      <4>2. CASE kind = "object"
        <5>1. c = now.refs[o] - 1
          BY <3>2, <4>2 DEF x, Reads
        <5>2. c # 0 => ReadLast(next.temp, o) = {}
          BY <2>5, <4>1, <4>2
        <5>3. c = 0 => ReadLast(next.temp, o) = {t}
          BY <2>5, <3>2, <4>1, <4>2
        <5>4. next.deleted[o] = 0 /\ next.refs[o] = c
          BY <1>8, <4>1, <5>1
        <5>5. CASE c = 0
          BY <5>3, <5>4, <5>5 DEF DeletedByLast
        <5>6. CASE c # 0
          BY <1>7, <5>2, <5>4, <5>6 DEF DeletedByLast
        <5> QED
          BY <5>5, <5>6
      <4>3. CASE kind = "cobject"
        <5>1. OneOwner(now, o)
          BY <2>1, <4>3 DEF Sound
        <5>2. PICK w \in PointerThreads : \A u \in Leaving(temps, o) : u = w
          BY <5>1 DEF OneOwner, temps
        <5>3. ReadLast(temps, o) \subseteq Leaving(temps, o)
          BY DEF ReadLast, Leaving
        <5>4. ReadLast(temps, o) = {}
          BY <2>4, <3>2, <5>2, <5>3
        <5>5. c = 0
          BY <4>3 DEF Reads
        <5>6. ReadLast(next.temp, o) = {t}
          BY <2>5, <3>2, <5>4, <5>5
        <5> QED
          BY <1>8, <4>1, <4>3, <5>6 DEF DeletedByLast
      <4> QED
        BY <4>2, <4>3
    <3> QED
      BY <3>1, <3>2
  <2>10. ASSUME kind = "cobject"
         PROVE  OneOwner(next, o)
    <3>1. OneOwner(now, o)
      BY <2>1, <2>10 DEF Sound
    <3>2. \A u \in Leaving(next.temp, o) :
            \/ u \in Leaving(now.temp, o) /\ next.temp[u].count = now.temp[u].count
            \/ u = t /\ next.temp[u].count \in {Unread, 0}
      <4>1. \A u \in PointerThreads : next.temp[u] = IF u = t THEN temp ELSE temps[u]
        BY <1>8, <1>10
      <4>2. c = 0
        BY <2>10 DEF Reads
      <4> QED
        BY <1>7, <2>5, <4>1, <4>2 DEF Leaving, temps
    <3>3. Held(next.px, o) = Held(now.px, o) /\ Leaving(next.temp, o) = Leaving(now.temp, o)
      BY <1>8, <2>5 DEF temps
    <3>4. \A p \in Held(next.px, o) : p \in Held(now.px, o) \/ p[1] = t
      BY <3>3
    <3>5. \/ \E p \in Held(now.px, o) : p[1] = t
          \/ t \in Leaving(now.temp, o)
          \/ Held(next.px, o) \subseteq Held(now.px, o) /\ Leaving(next.temp, o) \subseteq Leaving(now.temp, o)
      BY <3>3
    <3>6. Touches(now, next, o, t)
      BY <3>2, <3>4, <3>5 DEF Touches
    <3> QED
      BY <3>1, <3>6, OwnerKept
  <2> QED
    BY <2>8, <2>9, <2>10 DEF Sound
<1>14. DOMAIN next.refs = DOMAIN now.refs
  BY <1>2, <1>9
<1> QED
  BY <1>12, <1>13, <1>14 DEF Good

\* The end of a release: the last reader deletes the object.
Deletes(kind, now, t) ==
  IF kind = "object" THEN now.temp[t].count = 0 ELSE now.refs[now.temp[t].object] <= 0
Deleting(now, t, n) == [now EXCEPT !.deleted[now.temp[t].object] = n, !.temp[t] = NoTemp]
DeletedTimes(kind, now, t, n) ==
  n = now.deleted[now.temp[t].object] + One(Deletes(kind, now, t))

\* The thread that deletes an object is the one that was to do it.
LEMMA LastDeletes ==
  ASSUME ObjectsConstants, NEW kind \in {"object", "cobject"}, NEW now, NEW o, Sound(kind, now, o),
         NEW t \in PointerThreads, now.temp[t].object = o, now.temp[t].count # Unread
  PROVE  IF Deletes(kind, now, t)
         THEN now.refs[o] = 0 /\ now.deleted[o] = 0 /\ ReadLast(now.temp, o) = {t}
         ELSE kind = "object" => t \notin ReadLast(now.temp, o)
<1>1. now.refs[o] \in Nat
  BY Referenced DEF Sound
<1>2. t \in ReadLast(now.temp, o) <=> now.temp[t].count = 0
  BY DEF ReadLast
<1>3. CASE kind = "object"
  <2>1. Deletes(kind, now, t) <=> t \in ReadLast(now.temp, o)
    BY <1>2, <1>3 DEF Deletes
  <2>2. t \in ReadLast(now.temp, o) => now.refs[o] = 0
    BY <1>1, <1>3 DEF Sound, DeletedByLast
  <2>3. t \in ReadLast(now.temp, o) => now.deleted[o] = 0 /\ ReadLast(now.temp, o) = {t}
    BY <2>2 DEF Sound, DeletedByLast
  <2> QED
    BY <2>1, <2>2, <2>3
<1>4. CASE kind = "cobject"
  <2>1. now.temp[t].count = 0
    BY <1>4 DEF Sound, OneOwner, Leaving
  <2>2. Deletes(kind, now, t) <=> now.refs[o] = 0
    BY <1>1, <1>4 DEF Deletes
  <2>3. now.refs[o] = 0 => now.deleted[o] = 0 /\ ReadLast(now.temp, o) = {t}
    BY <1>2, <2>1 DEF Sound, DeletedByLast
  <2> QED
    BY <1>4, <2>2, <2>3
<1> QED
  BY <1>3, <1>4

\* The end of a release keeps the objects sound.
LEMMA DeletingGood ==
  ASSUME ObjectsConstants, NEW kind \in {"object", "cobject"}, NEW now, Good(kind, now),
         NEW t \in PointerThreads, now.temp[t].object # 0, now.temp[t].count # Unread,
         NEW n, DeletedTimes(kind, now, t, n),
         NEW next, next = Deleting(now, t, n)
  PROVE  Good(kind, next)
<1> DEFINE x == now.temp[t].object
           temps == now.temp
<1>1. PointersType(now)
  BY DEF Good
<1>2. /\ temps \in [PointerThreads -> Temps] /\ now.refs \in Seq(Int) /\ now.px \in PointerFields
      /\ now.deleted \in Seq(Int) /\ DOMAIN now.refs = 1 .. Len(now.refs)
      /\ DOMAIN now.deleted = DOMAIN now.refs
  BY <1>1, Fields
<1>3. x \in DOMAIN now.refs /\ now.deleted[x] \in Int /\ x \in Nat /\ x # 0
  <2>1. x \in DOMAIN now.refs /\ x \in Nat
    BY <1>1, <1>2 DEF PointersType
  <2> QED
    BY <1>1, <1>2, <2>1, ElementOfSeq DEF PointersType
<1>4. Sound(kind, now, x)
  BY <1>3 DEF Good
<1>5. n \in Int /\ n = now.deleted[x] + One(Deletes(kind, now, t))
  BY <1>3 DEF DeletedTimes, One
<1>6. NoTemp \in Temps /\ NoTemp.object = 0
  BY DEF NoTemp, Unread, Temps
<1>7. /\ next.px = now.px /\ next.refs = now.refs
      /\ next.deleted = [now.deleted EXCEPT ![x] = n] /\ next.temp = Retire(temps, t, NoTemp)
  BY <1>1 DEF Deleting, PointersType, Pointers, Retire
<1>8. /\ next.deleted \in Seq(Int) /\ Len(next.deleted) = Len(now.deleted)
      /\ \A o \in DOMAIN now.refs : next.deleted[o] = IF o = x THEN n ELSE now.deleted[o]
  <2>1. [now.deleted EXCEPT ![x] = n] \in Seq(Int)
        /\ Len([now.deleted EXCEPT ![x] = n]) = Len(now.deleted)
    BY <1>2, <1>3, <1>5, ExceptSeq
  <2> QED
    BY <1>2, <1>3, <1>7, <2>1
<1> HIDE DEF x, temps
<1>9. Retire(temps, t, NoTemp) \in [PointerThreads -> Temps]
      /\ \A u \in PointerThreads : Retire(temps, t, NoTemp)[u] = IF u = t THEN NoTemp ELSE temps[u]
  BY <1>2, <1>6 DEF Retire
<1>10. next \in Pointers
  <2>1. DOMAIN next = {"px", "refs", "deleted", "temp"} /\ next = [i \in {"px", "refs", "deleted", "temp"} |-> next[i]]
    BY <1>1 DEF Deleting, PointersType, Pointers
  <2> QED
    BY <1>2, <1>7, <1>8, <1>9, <2>1 DEF Pointers, Temps
<1>11. PointersType(next)
  <2>1. \A u \in PointerThreads :
          /\ \A q \in Slots : now.px[u][q] \in 0 .. Len(now.refs)
          /\ temps[u].object \in 0 .. Len(now.refs)
          /\ temps[u].object = 0 => temps[u] = NoTemp
    BY <1>1 DEF PointersType, temps
  <2>2. next.px = now.px /\ Len(next.refs) = Len(now.refs) /\ 0 \in 0 .. Len(now.refs)
    BY <1>1, <1>7, Fields
  <2>3. \A u \in PointerThreads : next.temp[u] = NoTemp \/ next.temp[u] = temps[u]
    BY <1>7, <1>9
  <2>4. \A u \in PointerThreads :
          /\ \A q \in Slots : next.px[u][q] \in 0 .. Len(next.refs)
          /\ next.temp[u].object \in 0 .. Len(next.refs)
          /\ next.temp[u].object = 0 => next.temp[u] = NoTemp
    BY <1>6, <2>1, <2>2, <2>3
  <2>5. Len(next.deleted) = Len(next.refs)
    BY <1>1, <1>7, <1>8 DEF PointersType
  <2> QED
    BY <1>10, <2>4, <2>5 DEF PointersType
<1>12. ASSUME NEW o \in DOMAIN now.refs
       PROVE  Sound(kind, next, o)
  <2>1. o \in Nat /\ o # 0 /\ Sound(kind, now, o)
    BY <1>2 DEF Good
  <2>2. temps[t].object = x /\ temps[t].count # Unread
    BY DEF temps, x
  <2>3. /\ Leaving(next.temp, o) = Leaving(temps, o) \ {t}
        /\ ReadLast(next.temp, o) = ReadLast(temps, o) \ {t}
        /\ Cardinality(Releasing(next.temp, o)) = Cardinality(Releasing(temps, o))
    <3>1. temps \in [PointerThreads -> [object : Nat, count : Int]] /\ NoTemp \in [object : Nat, count : Int]
      BY <1>2, <1>6 DEF Temps
    <3>2. /\ Leaving(Retire(temps, t, NoTemp), o) = Among(Leaving(temps, o), t, NoTemp.object = o)
          /\ ReadLast(Retire(temps, t, NoTemp), o) =
               Among(ReadLast(temps, o), t, NoTemp.object = o /\ NoTemp.count = 0)
          /\ Cardinality(Releasing(Retire(temps, t, NoTemp), o)) =
               Cardinality(Releasing(temps, o)) + One(NoTemp.object = o /\ NoTemp.count = Unread)
                 - One(temps[t].object = o /\ temps[t].count = Unread)
      BY <2>1, <3>1, Retired
    <3>3. Cardinality(Releasing(temps, o)) \in Nat
      BY Finite
    <3>4. NoTemp.object # o
      BY <1>6, <2>1
    <3> QED
      BY <1>7, <2>2, <3>2, <3>3, <3>4 DEF Among, One
  <2>4. Counted(next, o)
    BY <1>7, <2>1, <2>3 DEF Counted, Sound, temps
  <2>5. next.refs[o] = now.refs[o]
    BY <1>7
  <2>6. DeletedByLast(kind, next, o)
    <3>1. CASE x # o
      <4>1. t \notin ReadLast(temps, o)
        BY <2>2, <3>1 DEF ReadLast
      <4>2. ReadLast(next.temp, o) = ReadLast(now.temp, o) /\ next.deleted[o] = now.deleted[o]
        BY <1>8, <2>3, <3>1, <4>1 DEF temps
      <4> QED
        BY <2>1, <2>5, <4>2 DEF Sound, DeletedByLast
    <3>2. CASE x = o
      <4>1. next.deleted[o] = now.deleted[o] + One(Deletes(kind, now, t)) /\ now.deleted[o] \in Int
        BY <1>3, <1>5, <1>8, <3>2
      <4>2. IF Deletes(kind, now, t)
            THEN now.refs[o] = 0 /\ now.deleted[o] = 0 /\ ReadLast(now.temp, o) = {t}
            ELSE kind = "object" => t \notin ReadLast(now.temp, o)
        BY <2>1, <2>2, <3>2, LastDeletes DEF temps
      <4>3. CASE Deletes(kind, now, t)
        <5>1. next.refs[o] = 0 /\ next.deleted[o] = 1 /\ ReadLast(next.temp, o) = {}
          BY <2>3, <2>5, <4>1, <4>2, <4>3 DEF One, temps
        <5> QED
          BY <5>1 DEF DeletedByLast
      <4>4. CASE ~Deletes(kind, now, t)
        <5>1. next.deleted[o] = now.deleted[o]
          BY <4>1, <4>4 DEF One
        <5>2. CASE kind = "object"
          <6>1. ReadLast(next.temp, o) = ReadLast(now.temp, o)
            BY <2>3, <4>2, <4>4, <5>2 DEF temps
          <6> QED
            BY <2>1, <2>5, <5>1, <6>1 DEF Sound, DeletedByLast
        <5>3. CASE kind = "cobject"
          <6>1. now.refs[o] > 0
            <7>1. now.refs[o] \in Nat
              BY <2>1, Referenced DEF Sound
            <7>2. ~(now.refs[o] <= 0)
              BY <2>2, <3>2, <4>4, <5>3 DEF Deletes, temps
            <7> QED
              BY <7>1, <7>2
          <6>2. now.deleted[o] = 0
            BY <2>1, <6>1 DEF Sound, DeletedByLast
          <6> QED
            BY <2>5, <5>1, <5>3, <6>1, <6>2 DEF DeletedByLast
        <5> QED
          BY <5>2, <5>3
      <4> QED
        BY <4>3, <4>4
    <3> QED
      BY <3>1, <3>2
  <2>7. ASSUME kind = "cobject"
        PROVE  OneOwner(next, o)
    <3>1. OneOwner(now, o)
      BY <2>1, <2>7 DEF Sound
    <3>2. Held(next.px, o) = Held(now.px, o) /\ Leaving(next.temp, o) \subseteq Leaving(now.temp, o) \ {t}
      BY <1>7, <2>3 DEF temps
    <3>3. \A u \in Leaving(next.temp, o) : next.temp[u].count = now.temp[u].count
      <4>1. \A u \in PointerThreads : u # t => next.temp[u] = temps[u]
        BY <1>7, <1>9
      <4>2. \A u \in Leaving(next.temp, o) : u \in PointerThreads /\ u # t
        BY <3>2 DEF Leaving
      <4> QED
        BY <4>1, <4>2 DEF temps
    <3>4. Touches(now, next, o, t)
      BY <3>2, <3>3 DEF Touches
    <3> QED
      BY <3>1, <3>4, OwnerKept
  <2> QED
    BY <2>4, <2>6, <2>7 DEF Sound
<1>13. DOMAIN next.refs = DOMAIN now.refs
  BY <1>7
<1> QED
  BY <1>11, <1>12, <1>13 DEF Good

-----------------------------------------------------------------------------
(* The calls.                                                              *)

\* The calls of a thread on its pointers.
LEMMA PointersStep ==
  ASSUME ObjectsConstants, PointersInv, k_part \in {"object", "cobject"}, PointersNext
  PROVE  PointersInv'
<1>1. k_part' = k_part /\ Good(k_part, k_now)
  <2>1. k_part' = k_part
    BY ZenonT(60) DEF PointersNext, assign, move, assign_new, reset, hand_over,
           release_reference, cobject_release_ref, delete_last,
           Pointing, Destroying, Call
  <2> QED
    BY <2>1 DEF PointersInv
<1>2. PICK t \in PointerThreads :
        \/ \E s, r \in Slots : assign(t, s, r) \/ move(t, s, r)
        \/ \E s \in Slots : assign_new(t, s) \/ reset(t, s)
        \/ \E u \in PointerThreads, s, r \in Slots : hand_over(t, s, u, r)
        \/ release_reference(t) \/ cobject_release_ref(t) \/ delete_last(t)
  BY DEF PointersNext
<1>3. SUFFICES Good(k_part, k_now')
  BY <1>1 DEF PointersInv
<1>4. PointersType(k_now)
  BY <1>1 DEF Good
<1>5. \A s \in Slots : k_now.px[t][s] \in 0 .. Len(k_now.refs)
  BY <1>4 DEF PointersType
<1>6. ASSUME NEW s \in Slots, NEW r \in Slots, assign(t, s, r)
      PROVE  Good(k_part, k_now')
  <2>1. k_now.temp[t] = NoTemp /\ k_now' = Assigned(k_now, t, s, k_now.px[t][r])
    BY <1>6 DEF assign, Pointing
  <2> QED
    BY <1>1, <1>5, <2>1, AssignedGood
<1>7. ASSUME NEW s \in Slots, NEW r \in Slots, move(t, s, r)
      PROVE  Good(k_part, k_now')
  <2>1. k_now.temp[t] = NoTemp /\ k_now' = Moving(k_now, t, s, r)
    BY <1>7 DEF move, Pointing, Moving
  <2> QED
    BY <1>1, <2>1, MovedGood
<1>8. ASSUME NEW s \in Slots, assign_new(t, s)
      PROVE  Good(k_part, k_now')
  <2>1. k_now.temp[t] = NoTemp /\ k_now' = Assigned(WithNew(k_now), t, s, Len(WithNew(k_now).refs))
    BY <1>8 DEF assign_new, Pointing, WithNew
  <2> QED
    BY <1>1, <2>1, NewGood
<1>9. ASSUME NEW s \in Slots, reset(t, s)
      PROVE  Good(k_part, k_now')
  <2>1. k_now.temp[t] = NoTemp /\ k_now' = Assigned(k_now, t, s, 0)
    BY <1>9 DEF reset, Pointing
  <2>2. 0 \in 0 .. Len(k_now.refs)
    BY <1>4, Fields
  <2> QED
    BY <1>1, <2>1, <2>2, AssignedGood
<1>10. ASSUME NEW u \in PointerThreads, NEW s \in Slots, NEW r \in Slots, hand_over(t, s, u, r)
       PROVE  Good(k_part, k_now')
  <2>1. /\ k_now.px[t][s] # 0 /\ k_now.px[u][r] = 0 /\ k_part = "object"
        /\ k_now' = HandedOver(k_now, t, s, u, r)
    BY <1>10 DEF hand_over, HandedOver, ObjectsConstants
  <2> QED
    BY <1>1, <2>1, HandedOverGood
<1>11. ASSUME release_reference(t)
       PROVE  Good(k_part, k_now')
  <2> DEFINE c == k_now.refs[k_now.temp[t].object] - 1
  <2>1. /\ k_now.temp[t].object # 0 /\ k_now.temp[t].count = Unread
        /\ Reads(k_part, k_now, t, c) /\ k_now' = Released(k_now, t, c)
    BY <1>11 DEF release_reference, Destroying, Reads, Released
  <2> HIDE DEF c
  <2> QED
    BY <1>1, <2>1, ReleasedGood
<1>12. ASSUME cobject_release_ref(t)
       PROVE  Good(k_part, k_now')
  <2>1. /\ k_now.temp[t].object # 0 /\ k_now.temp[t].count = Unread
        /\ Reads(k_part, k_now, t, 0) /\ k_now' = Released(k_now, t, 0)
    BY <1>12 DEF cobject_release_ref, Destroying, Reads, Released
  <2> QED
    BY <1>1, <2>1, ReleasedGood
<1>13. ASSUME delete_last(t)
       PROVE  Good(k_part, k_now')
  <2> DEFINE x == k_now.temp[t].object
             n == IF Deletes(k_part, k_now, t) THEN k_now.deleted[x] + 1 ELSE k_now.deleted[x]
  <2>1. /\ x # 0 /\ k_now.temp[t].count # Unread /\ k_now' = Deleting(k_now, t, n)
    BY <1>13 DEF delete_last, Destroying, Deleting, Deletes
  <2>2. k_now.deleted[x] \in Int
    <3>1. k_now.deleted \in Seq(Int) /\ x \in DOMAIN k_now.deleted
      BY <1>4, <2>1, Fields DEF PointersType
    <3> QED
      BY <3>1, ElementOfSeq
  <2>3. DeletedTimes(k_part, k_now, t, n)
    BY <2>2 DEF DeletedTimes, One
  <2> HIDE DEF n
  <2> QED
    BY <1>1, <2>1, <2>3, DeletingGood
<1> QED
  BY <1>2, <1>6, <1>7, <1>8, <1>9, <1>10, <1>11, <1>12, <1>13

\* The calls on the repository and the backup keep clear of the pointers.
LEMMA ObjectsStep ==
  ASSUME ObjectsConstants, PointersInv, ObjectsNext
  PROVE  PointersInv'
<1>1. CASE k_part \in {"object", "cobject"} /\ PointersNext
  BY <1>1, PointersStep
<1>2. CASE k_part \in {"repository", "backup"} /\ k_part' = k_part
  BY <1>2 DEF PointersInv
<1> QED
  BY <1>1, <1>2 DEF ObjectsNext, add_class, register_library, remove, add, clear,
                    handle_resolve, Call

\* There are no objects at first.
LEMMA ObjectsStart == ASSUME ObjectsInit PROVE PointersInv
<1>1. SUFFICES ASSUME k_part \in {"object", "cobject"} PROVE Good(k_part, k_now)
  BY DEF PointersInv
<1>2. k_now = NewPointers
  BY <1>1 DEF ObjectsInit
<1>3. << >> \in Seq(Int) /\ Len(<< >>) = 0 /\ DOMAIN << >> = {}
  BY EmptySeq
<1>4. /\ k_now.px = [t \in PointerThreads |-> [s \in Slots |-> 0]] /\ k_now.refs = << >> /\ k_now.deleted = << >>
      /\ k_now.temp = [t \in PointerThreads |-> NoTemp]
  BY <1>2 DEF NewPointers
<1>5. NoTemp \in [object : Nat, count : Int] /\ NoTemp.object = 0
  BY DEF NoTemp, Unread
<1>6. k_now \in Pointers
  <2>1. [t \in PointerThreads |-> NoTemp] \in [PointerThreads -> [object : Nat, count : Int]]
    BY <1>5
  <2>2. [t \in PointerThreads |-> [s \in Slots |-> 0]] \in PointerFields
    BY DEF PointerFields
  <2> QED
    BY <1>2, <1>3, <2>1, <2>2 DEF NewPointers, Pointers
<1>7. PointersType(k_now)
  BY <1>3, <1>4, <1>5, <1>6 DEF PointersType
<1>8. DOMAIN k_now.refs = {}
  BY <1>3, <1>4
<1> QED
  BY <1>7, <1>8 DEF Good

\* An object is deleted once.
LEMMA OnceDeleted == ASSUME ObjectsConstants, PointersInv PROVE DeletedOnce
<1>1. SUFFICES ASSUME k_part \in {"object", "cobject"}, NEW o \in DOMAIN k_now.refs
      PROVE  LET pointers == Held(k_now.px, o)
                 leaving  == Leaving(k_now.temp, o)
                 unread   == {t \in leaving : k_now.temp[t].count = Unread}
             IN  /\ k_now.deleted[o] <= 1
                 /\ k_now.refs[o] = Cardinality(pointers) + Cardinality(unread)
                 /\ k_now.deleted[o] = 1 => pointers = {} /\ unread = {} /\ (k_part = "cobject" => leaving = {})
                 /\ pointers = {} /\ leaving = {} => k_now.deleted[o] = 1
  BY DEF DeletedOnce, Held, Leaving
<1>2. Sound(k_part, k_now, o)
  BY <1>1 DEF PointersInv, Good
<1>3. {t \in Leaving(k_now.temp, o) : k_now.temp[t].count = Unread} = Releasing(k_now.temp, o)
  BY DEF Leaving, Releasing
<1>4. k_now.refs[o] \in Nat
      /\ (k_now.refs[o] = 0 <=> Held(k_now.px, o) = {} /\ Releasing(k_now.temp, o) = {})
  BY <1>2, Referenced DEF Sound
<1>5. k_now.deleted[o] \in {0, 1} /\ (k_now.deleted[o] = 1 => k_now.refs[o] = 0)
  BY <1>2, <1>4 DEF Sound, DeletedByLast
<1>6. ASSUME k_now.deleted[o] = 1, k_part = "cobject"
      PROVE  Leaving(k_now.temp, o) = {}
  <2>1. Releasing(k_now.temp, o) = {} /\ ReadLast(k_now.temp, o) = {}
    BY <1>2, <1>4, <1>5, <1>6 DEF Sound, DeletedByLast
  <2> QED
    BY <1>2, <1>6, <2>1 DEF Sound, OneOwner, Leaving, Releasing, ReadLast
<1>7. ASSUME Held(k_now.px, o) = {}, Leaving(k_now.temp, o) = {}
      PROVE  k_now.deleted[o] = 1
  <2>1. Releasing(k_now.temp, o) = {} /\ ReadLast(k_now.temp, o) = {}
    BY <1>7 DEF Leaving, Releasing, ReadLast
  <2>2. k_now.refs[o] = 0
    BY <1>4, <1>7, <2>1
  <2>3. k_now.deleted[o] = 1 \/ \E t \in PointerThreads : ReadLast(k_now.temp, o) = {t}
    BY <1>2, <2>2 DEF Sound, DeletedByLast
  <2> QED
    BY <2>1, <2>3
<1>8. k_now.refs[o] = Cardinality(Held(k_now.px, o)) + Cardinality(Releasing(k_now.temp, o))
  BY <1>2 DEF Sound, Counted
<1> DEFINE pointers == Held(k_now.px, o)
           leaving == Leaving(k_now.temp, o)
           unread == {t \in leaving : k_now.temp[t].count = Unread}
<1>9. unread = Releasing(k_now.temp, o)
  BY <1>3
<1>10. k_now.deleted[o] <= 1
  BY <1>5
<1>11. k_now.refs[o] = Cardinality(pointers) + Cardinality(unread)
  BY <1>8, <1>9
<1>12. k_now.deleted[o] = 1 => pointers = {} /\ unread = {} /\ (k_part = "cobject" => leaving = {})
  BY <1>4, <1>5, <1>6, <1>9
<1>13. pointers = {} /\ leaving = {} => k_now.deleted[o] = 1
  BY <1>7
<1> QED
  BY <1>10, <1>11, <1>12, <1>13

-----------------------------------------------------------------------------
(* The two halves together.                                                *)

\* The invariant of the log holds at first, and steps keep it.
LEMMA LogStarts == ASSUME Init PROVE LogInv
BY SharedAssumption, ChainInit, FileInit DEF LogInv, LoggingConstants

LEMMA LogSteps == ASSUME LogInv, [Next]_vars PROVE LogInv'
BY SharedAssumption, ChainStep, FileStep DEF LogInv

\* The invariant: the half a behaviour is about has its own, the other is idle.
SharedInv ==
  \/ part = "log" /\ LogInv /\ NoObjects
  \/ part = "objects" /\ PointersInv /\ NoLogging

\* An idle log has lost nothing.
LEMMA IdleLog == ASSUME NoLogging PROVE LogKeepsMessages
<1>1. EachFilterOnce
  <2>1. DOMAIN << >> = {}
    OBVIOUS
  <2> QED
    BY <2>1 DEF NoLogging, EachFilterOnce
<1>2. ThreadOrder
  <2>1. DOMAIN << >> = {}
    OBVIOUS
  <2> QED
    BY <2>1 DEF NoLogging, ThreadOrder
<1>3. RollKeepsTail
  <2>1. written = << >> /\ config.roll_count = 0
    BY DEF NoLogging
  <2> QED
    BY <2>1 DEF RollKeepsTail
<1> QED
  BY <1>1, <1>2, <1>3 DEF LogKeepsMessages

-----------------------------------------------------------------------------
(* The theorems.                                                           *)

\* The messages of a chain are in order down the chain, none is lost on a way
\* that stop() has not reached, and the files end with what was written
\* (log_filter_chain_impl::log, asio_log_transmitter, file_log_appender).
THEOREM LoggingInvariant == Spec => []LogInv
<1>1. Init => LogInv
  BY LogStarts
<1>2. LogInv /\ [Next]_vars => LogInv'
  BY LogSteps
<1> QED
  BY <1>1, <1>2, PTL DEF Spec

\* Each message that a log macro handed over is handled by a filter, or is on
\* its way there, once at most; and once exactly until stop() has set m_abort of
\* a filter on that way (log_service_impl::log and stop,
\* asio_log_transmitter::on_log, file_log_appender::on_log and stop).
THEOREM EachFilterOnceHolds == Spec => []EachFilterOnce
<1>1. LogInv => EachFilterOnce
  BY OncePerFilter DEF LogInv
<1> QED
  BY <1>1, LoggingInvariant, PTL

\* The messages of a thread reach every filter in the order it logged them,
\* over the threads of the filters (log_filter_impl::invoke_next).
THEOREM ThreadOrderHolds == Spec => []ThreadOrder
<1>1. LogInv => ThreadOrder
  BY OrderPerThread DEF LogInv
<1> QED
  BY <1>1, LoggingInvariant, PTL

\* Rolling the file over removes only the oldest messages, and none before
\* roll_count files were filled (file_log_appender::flush_log, roll_over).
THEOREM RollKeepsTailHolds == Spec => []RollKeepsTail
<1>1. LogInv => RollKeepsTail
  BY SharedAssumption, TailInFiles DEF LogInv, LoggingConstants
<1> QED
  BY <1>1, LoggingInvariant, PTL

\* The invariant of the composition (log_service_impl, object_impl, cobject_ptr).
THEOREM SharedInvariant == SharedSpec => []SharedInv
<1>1. SharedInit => SharedInv
  BY LogStarts, ObjectsStart DEF SharedInit, CountedInit, SharedInv
<1>2. SharedInv /\ [SharedNext]_sharedVars => SharedInv'
  <2> SUFFICES ASSUME SharedInv, [SharedNext]_sharedVars PROVE SharedInv'
    OBVIOUS
  <2>1. CASE part = "log" /\ Next /\ UNCHANGED <<part, objectVars>>
    <3>1. LogInv'
      BY <2>1, LogSteps DEF SharedInv
    <3> QED
      BY <2>1, <3>1 DEF SharedInv, NoObjects, objectVars
  <2>2. CASE part = "objects" /\ ObjectsNext /\ UNCHANGED <<part, vars>>
    <3>1. PointersInv'
      BY <2>2, SharedAssumption, ObjectsStep DEF SharedInv
    <3> QED
      BY <2>2, <3>1 DEF SharedInv, NoLogging, vars
  <2>3. CASE UNCHANGED sharedVars
    <3>1. UNCHANGED <<part, vars, objectVars>>
      BY <2>3 DEF sharedVars
    <3>2. LogInv => LogInv'
      BY <3>1, LogSteps
    <3>3. PointersInv => PointersInv'
      BY <3>1 DEF PointersInv, objectVars
    <3> QED
      BY <3>1, <3>2, <3>3 DEF SharedInv, NoLogging, NoObjects, vars, objectVars
  <2> QED
    BY <2>1, <2>2, <2>3 DEF SharedNext
<1> QED
  BY <1>1, <1>2, PTL DEF SharedSpec

\* What the log keeps of the messages it accepted: each reaches every filter at
\* most once, exactly once unless stop() has begun with a filter on its way, and
\* in order; rolling over drops the oldest only (log_service_impl,
\* asio_log_transmitter, file_log_appender).
THEOREM LogKeepsMessagesHolds == SharedSpec => []LogKeepsMessages
<1>1. LogInv => LogKeepsMessages
  BY SharedAssumption, OncePerFilter, OrderPerThread, TailInFiles
     DEF LogInv, LogKeepsMessages, LoggingConstants
<1>2. SharedInv => LogKeepsMessages
  BY <1>1, IdleLog DEF SharedInv
<1> QED
  BY <1>2, SharedInvariant, PTL

\* An object is deleted once, after its last pointer and by the thread that
\* released that one (object_impl::release_reference, cobject_ptr).
THEOREM DeletedOnceHolds == SharedSpec => []DeletedOnce
<1>1. PointersInv => DeletedOnce
  BY SharedAssumption, OnceDeleted
<1>2. NoObjects => DeletedOnce
  BY DEF NoObjects, DeletedOnce
<1>3. SharedInv => DeletedOnce
  BY <1>1, <1>2 DEF SharedInv
<1> QED
  BY <1>3, SharedInvariant, PTL
=============================================================================
