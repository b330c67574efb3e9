--------------------------- MODULE ServicesProofs ---------------------------
(***************************************************************************)
(* Proofs about the services of MCServices, for every number of threads,   *)
(* starts, sockets and tasks: the runner of an io_service, the timer, the  *)
(* TCP server and the task threads.                                        *)
(***************************************************************************)
EXTENDS MCServices, FiniteSetTheorems, SequenceTheorems, TLAPS

-----------------------------------------------------------------------------
(* Counting the elements of a sequence that belong to a set.               *)

Count(q, S) == Cardinality({i \in DOMAIN q : q[i] \in S})

\* A count is a natural number.
LEMMA CountType ==
  ASSUME NEW E, NEW q \in Seq(E), NEW S
  PROVE  /\ IsFiniteSet({i \in DOMAIN q : q[i] \in S})
         /\ Count(q, S) \in Nat
<1>1. DOMAIN q = 1 .. Len(q) /\ Len(q) \in Nat
  BY LenProperties
<1>2. IsFiniteSet(DOMAIN q)
  BY <1>1, FS_Interval
<1> QED
  BY <1>2, FS_Subset, FS_CardinalityType DEF Count

\* Nothing to count.
LEMMA CountNone ==
  ASSUME NEW E, NEW q \in Seq(E), NEW S, \A i \in DOMAIN q : q[i] \notin S
  PROVE  Count(q, S) = 0
<1>1. {i \in DOMAIN q : q[i] \in S} = {}
  OBVIOUS
<1> QED
  BY <1>1, FS_EmptySet DEF Count

\* Queueing an element counts it once.
LEMMA CountAppend ==
  ASSUME NEW E, NEW q \in Seq(E), NEW e \in E, NEW S
  PROVE  Count(Append(q, e), S) = Count(q, S) + (IF e \in S THEN 1 ELSE 0)
<1> DEFINE n == Len(q)
           I == {i \in DOMAIN q : q[i] \in S}
           J == {i \in DOMAIN Append(q, e) : Append(q, e)[i] \in S}
<1>1. n \in Nat /\ DOMAIN q = 1 .. n /\ DOMAIN Append(q, e) = 1 .. n + 1
  BY LenProperties, AppendProperties
<1>2. /\ \A i \in 1 .. n : Append(q, e)[i] = q[i]
      /\ Append(q, e)[n + 1] = e
  BY AppendProperties
<1>3. IsFiniteSet(I) /\ Cardinality(I) \in Nat
  BY CountType DEF Count
<1>4. n + 1 \notin I
  BY <1>1
<1>5. J = IF e \in S THEN I \cup {n + 1} ELSE I
  BY <1>1, <1>2
<1> HIDE DEF I, J
<1>6. Cardinality(I \cup {n + 1}) = Cardinality(I) + 1
  BY <1>3, <1>4, FS_AddElement
<1>7. Cardinality(J) = Cardinality(I) + (IF e \in S THEN 1 ELSE 0)
  BY <1>3, <1>5, <1>6
<1> QED
  BY <1>7 DEF Count, I, J

\* Taking the first element off a queue uncounts it once.
LEMMA CountTail ==
  ASSUME NEW E, NEW q \in Seq(E), q # <<>>, NEW S
  PROVE  Count(q, S) = Count(Tail(q), S) + (IF Head(q) \in S THEN 1 ELSE 0)
<1> DEFINE n == Len(q)
           I == {i \in DOMAIN Tail(q) : Tail(q)[i] \in S}
           K == {i \in 2 .. n : q[i] \in S}
           J == {i \in DOMAIN q : q[i] \in S}
           f == [i \in I |-> i + 1]
<1>1. n \in Nat \ {0} /\ DOMAIN q = 1 .. n
  BY LenProperties, EmptySeq
<1>2. /\ Tail(q) \in Seq(E) /\ Len(Tail(q)) = n - 1
      /\ \A i \in 1 .. n - 1 : Tail(q)[i] = q[i + 1]
      /\ Head(q) = q[1]
  BY HeadTailProperties
<1>3. DOMAIN Tail(q) = 1 .. n - 1
  BY <1>2, LenProperties
<1>4. f \in Bijection(I, K)
  <2>1. f \in [I -> K]
    BY <1>1, <1>2, <1>3
  <2>2. \A i, j \in I : f[i] = f[j] => i = j
    BY <1>1, <1>3
  <2>3. \A k \in K : \E i \in I : f[i] = k
    <3> TAKE k \in K
    <3>1. k - 1 \in I
      BY <1>1, <1>2, <1>3
    <3>2. f[k - 1] = k
      BY <3>1, <1>1
    <3> QED
      BY <3>1, <3>2
  <2> QED
    BY <2>1, <2>2, <2>3 DEF Bijection, Injection, Surjection, IsInjective
<1>5. IsFiniteSet(I) /\ Cardinality(I) \in Nat
  BY <1>2, CountType DEF Count
<1>6. IsFiniteSet(K) /\ Cardinality(K) = Cardinality(I)
  BY <1>4, <1>5, FS_Bijection DEF ExistsBijection
<1>7. 1 \notin K
  BY <1>1
<1>8. J = IF Head(q) \in S THEN K \cup {1} ELSE K
  BY <1>1, <1>2
<1> HIDE DEF I, J, K
<1>9. Cardinality(K \cup {1}) = Cardinality(I) + 1
  BY <1>6, <1>7, FS_AddElement
<1>10. Cardinality(J) = Cardinality(I) + (IF Head(q) \in S THEN 1 ELSE 0)
  BY <1>5, <1>6, <1>8, <1>9
<1> QED
  BY <1>10 DEF Count, I, J

-----------------------------------------------------------------------------
(* The timer.  Ticks in the io_service's queue are counted: those of the   *)
(* last start(), which NoDrift's fire time has not seen yet, and those of  *)
(* earlier ones, which will each move the fire time once too often.        *)

Results    == {"ok", "aborted"}
OkTick(g)  == [gen |-> g, res |-> "ok"]
OkTicks    == [gen : Nat, res : {"ok"}]
Ticks(n)   == [gen : 1 .. n, res : Results]
Current    == Count(ticks, {OkTick(timer_starts)})
AllOk      == Count(ticks, OkTicks)

TimerType ==
  /\ periodic \in BOOLEAN /\ m_started \in BOOLEAN /\ listening \in BOOLEAN
  /\ m_interval \in Nat /\ m_times \in Nat /\ m_firetime \in Nat
  /\ now \in Nat /\ expiry \in Nat /\ t0 \in Nat /\ stale \in Nat
  /\ timer_starts \in 0 .. MaxTimerStarts
  /\ ticks \in Seq(Ticks(timer_starts))
  /\ elapsed \in [1 .. MaxTimerStarts -> Nat]

\* The only wait is the last one asked for, and nothing is before start().
OneWait ==
  /\ waits = <<>> \/ waits = <<timer_starts>>
  /\ m_started \/ waits # <<>> => timer_starts > 0

\* Ticks that have not run are as many as the clock allows: one more than the
\* stale ticks that ran, and that one only if no wait is pending.
TicksCounted ==
  periodic /\ timer_starts > 0 =>
    /\ (m_times + Current - stale) * m_interval <= now - t0
    /\ Current <= stale + (IF waits = <<>> THEN 1 ELSE 0)
    /\ stale + AllOk - Current < timer_starts

\* The single callback of each start() is made, queued or waited for.
OnceCounted ==
  ~periodic => \A s \in 1 .. MaxTimerStarts :
    /\ elapsed[s] + Count(ticks, {OkTick(s)}) + (IF waits = <<s>> THEN 1 ELSE 0) <= 1
    /\ s > timer_starts => elapsed[s] = 0

TimerInv ==
  /\ TimerType /\ OneWait /\ TicksCounted /\ OnceCounted
  /\ Timers!NextTickPending /\ Timers!NoDrift

\* More ticks take no less time.
LEMMA ProductMonotone ==
  ASSUME NEW a \in Int, NEW b \in Int, NEW n \in Nat, a <= b
  PROVE  a * n <= b * n
  OBVIOUS

\* expires_at cancels at most one wait; its completion is no tick.
LEMMA CancelKeepsTicks ==
  ASSUME TimerType, OneWait, NEW q \in Seq(Ticks(timer_starts))
  PROVE  /\ q \o Timers!Cancelled \in Seq(Ticks(timer_starts))
         /\ \A S \in SUBSET OkTicks : Count(q \o Timers!Cancelled, S) = Count(q, S)
         /\ (\E i \in DOMAIN q : q[i].res = "ok") =>
              \E i \in DOMAIN (q \o Timers!Cancelled) : (q \o Timers!Cancelled)[i].res = "ok"
<1>1. CASE waits = <<>>
  <2>1. Timers!Cancelled = <<>>
    BY <1>1 DEF Timers!Cancelled
  <2>2. q \o Timers!Cancelled = q
    BY <2>1, ConcatEmptySeq
  <2> QED
    BY <2>2
<1>2. CASE waits = <<timer_starts>> /\ timer_starts > 0
  <2> DEFINE e == [gen |-> timer_starts, res |-> "aborted"]
  <2>1. Timers!Cancelled = <<e>>
    BY <1>2 DEF Timers!Cancelled
  <2>2. e \in Ticks(timer_starts) /\ e \notin OkTicks
    BY <1>2 DEF Ticks, Results, OkTicks, TimerType
  <2> HIDE DEF e
  <2>3. q \o Timers!Cancelled = Append(q, e)
    BY <2>1, <2>2, AppendIsConcat
  <2>4. Append(q, e) \in Seq(Ticks(timer_starts))
    BY <2>2, AppendProperties
  <2>5. \A S \in SUBSET OkTicks : Count(Append(q, e), S) = Count(q, S)
    <3> TAKE S \in SUBSET OkTicks
    <3>1. e \notin S
      BY <2>2
    <3>2. Count(q, S) \in Nat
      BY CountType
    <3> QED
      BY <2>2, <3>1, <3>2, CountAppend
  <2>6. \A i \in DOMAIN q : i \in DOMAIN Append(q, e) /\ Append(q, e)[i] = q[i]
    BY <2>2, <2>4, LenProperties, AppendProperties
  <2> QED
    BY <2>3, <2>4, <2>5, <2>6
<1> QED
  BY <1>1, <1>2 DEF OneWait

\* A new timer.
LEMMA TimerInitially == Timers!Init => TimerInv
<1> SUFFICES ASSUME Timers!Init PROVE TimerInv
  OBVIOUS
<1> USE DEF Timers!Init
<1>1. TimerType
  <2>1. <<>> \in Seq(Ticks(0)) /\ elapsed \in [1 .. MaxTimerStarts -> Nat]
    BY EmptySeq
  <2>2. periodic \in BOOLEAN /\ m_started \in BOOLEAN /\ listening \in BOOLEAN
    OBVIOUS
  <2>3. /\ m_interval \in Nat /\ m_times \in Nat /\ m_firetime \in Nat
        /\ now \in Nat /\ expiry \in Nat /\ t0 \in Nat /\ stale \in Nat
        /\ timer_starts \in 0 .. MaxTimerStarts /\ ticks \in Seq(Ticks(timer_starts))
    BY <2>1, ServicesAssumption
  <2> QED
    BY <2>1, <2>2, <2>3 DEF TimerType
<1>2. OneWait /\ TicksCounted /\ Timers!NextTickPending /\ Timers!NoDrift
  BY DEF OneWait, TicksCounted, Timers!NextTickPending, Timers!NoDrift
<1>3. ASSUME NEW S PROVE Count(ticks, S) = 0
  <2>1. ticks \in Seq(Nat) /\ \A i \in DOMAIN ticks : ticks[i] \notin S
    BY EmptySeq
  <2> QED
    BY <2>1, CountNone
<1>4. OnceCounted
  BY <1>3 DEF OnceCounted
<1> QED
  BY <1>1, <1>2, <1>4 DEF TimerInv

\* No queued tick belongs to the start() to come.
LEMMA TicksWiden ==
  ASSUME NEW n \in Nat, NEW q \in Seq(Ticks(n))
  PROVE  /\ q \in Seq(Ticks(n + 1))
         /\ Count(q, {OkTick(n + 1)}) = 0
         /\ n = 0 => Count(q, OkTicks) = 0
<1>1. Ticks(n) \subseteq Ticks(n + 1)
  BY DEF Ticks
<1>2. \A i \in DOMAIN q : q[i] \in Ticks(n)
  BY LenProperties
<1>3. \A i \in DOMAIN q : q[i] \notin {OkTick(n + 1)}
  BY <1>2 DEF Ticks, OkTick
<1>4. n = 0 => \A i \in DOMAIN q : q[i] \notin OkTicks
  BY <1>2 DEF Ticks
<1> QED
  BY <1>1, <1>3, <1>4, CountNone, SeqMonotonic

\* The counts are numbers, and the current ticks are ticks.
LEMMA TimerCounts ==
  ASSUME TimerType
  PROVE  /\ Current \in Nat /\ AllOk \in Nat
         /\ \A S : Count(ticks, S) \in Nat
         /\ timer_starts \in Nat /\ {OkTick(timer_starts)} \subseteq OkTicks
<1>1. ASSUME NEW S PROVE Count(ticks, S) \in Nat
  BY CountType DEF TimerType
<1>2. timer_starts \in Nat
  BY ServicesAssumption DEF TimerType
<1> QED
  BY <1>1, <1>2 DEF Current, AllOk, OkTick, OkTicks

\* start(): the queued ticks become stale.
LEMMA TimerStarts ==
  ASSUME TimerInv, NEW interval \in Intervals, Timers!start(interval)
  PROVE  TimerInv'
<1> DEFINE n == timer_starts
<1> USE DEF TimerInv
<1>1. /\ n \in Nat /\ n < MaxTimerStarts /\ MaxTimerStarts \in Nat /\ n' = n + 1
      /\ interval \in Nat /\ now \in Nat
  BY ServicesAssumption DEF Timers!start, TimerType
<1>2. /\ ticks' = ticks \o Timers!Cancelled /\ waits' = <<n + 1>> /\ expiry' = now + interval
      /\ m_interval' = interval /\ m_started' = TRUE /\ t0' = now /\ stale' = 0
      /\ periodic' = periodic /\ listening' = listening /\ now' = now /\ elapsed' = elapsed
  BY DEF Timers!start, Timers!WaitUntil
<1>3. IF periodic THEN m_firetime' = now + interval /\ m_times' = 0
      ELSE m_firetime' = m_firetime /\ m_times' = m_times
  BY DEF Timers!start
<1>4. /\ ticks' \in Seq(Ticks(n))
      /\ \A S \in SUBSET OkTicks : Count(ticks', S) = Count(ticks, S)
  BY <1>2, CancelKeepsTicks DEF TimerType
<1>5. /\ ticks' \in Seq(Ticks(n + 1)) /\ Count(ticks', {OkTick(n + 1)}) = 0
      /\ n = 0 => Count(ticks', OkTicks) = 0
  BY <1>1, <1>4, TicksWiden
<1>6. TimerType'
  <2>1. periodic' \in BOOLEAN /\ m_started' \in BOOLEAN /\ listening' \in BOOLEAN
    BY <1>2 DEF TimerType
  <2>2. /\ m_interval' \in Nat /\ m_times' \in Nat /\ m_firetime' \in Nat
        /\ now' \in Nat /\ expiry' \in Nat /\ t0' \in Nat /\ stale' \in Nat
        /\ timer_starts' \in 0 .. MaxTimerStarts
    BY <1>1, <1>2, <1>3 DEF TimerType
  <2>3. ticks' \in Seq(Ticks(timer_starts')) /\ elapsed' \in [1 .. MaxTimerStarts -> Nat]
    BY <1>1, <1>2, <1>5 DEF TimerType
  <2> QED
    BY <2>1, <2>2, <2>3 DEF TimerType
<1>7. OneWait' /\ Timers!NextTickPending'
  BY <1>1, <1>2 DEF OneWait, Timers!NextTickPending
<1>8. Timers!NoDrift'
  BY <1>1, <1>2, <1>3 DEF Timers!NoDrift
<1>9. TicksCounted'
  <2>1. Current' = 0 /\ AllOk' = AllOk
    BY <1>1, <1>4, <1>5 DEF Current, AllOk
  <2>2. Current \in Nat /\ AllOk \in Nat /\ stale \in Nat
    BY TimerCounts DEF TimerType
  <2>3. periodic => AllOk <= n
    <3>1. n = 0 => AllOk = 0
      BY <1>4, <1>5 DEF AllOk
    <3>2. periodic /\ n > 0 => AllOk <= n
      BY <1>1, <2>2 DEF TicksCounted
    <3> QED
      BY <1>1, <2>2, <3>1, <3>2
  <2>4. periodic => m_times' = 0
    BY <1>3
  <2>5. (0 + 0 - 0) * interval <= now - now
    BY <1>1
  <2> QED
    BY <1>1, <1>2, <2>1, <2>2, <2>3, <2>4, <2>5 DEF TicksCounted
<1>10. OnceCounted'
  <2> SUFFICES ASSUME ~periodic, NEW s \in 1 .. MaxTimerStarts
               PROVE  /\ elapsed[s] + Count(ticks', {OkTick(s)}) + (IF <<n + 1>> = <<s>> THEN 1 ELSE 0) <= 1
                      /\ s > n + 1 => elapsed[s] = 0
    BY <1>1, <1>2 DEF OnceCounted
  <2>1. /\ elapsed[s] + Count(ticks, {OkTick(s)}) + (IF waits = <<s>> THEN 1 ELSE 0) <= 1
        /\ s > n => elapsed[s] = 0
    BY DEF OnceCounted
  <2>2. elapsed[s] \in Nat /\ Count(ticks, {OkTick(s)}) \in Nat
    BY TimerCounts DEF TimerType
  <2>3. Count(ticks', {OkTick(s)}) = Count(ticks, {OkTick(s)})
    BY <1>4 DEF OkTick, OkTicks
  <2>4. CASE s = n + 1
    BY <1>1, <1>5, <2>1, <2>4
  <2>5. CASE s # n + 1
    BY <1>1, <2>1, <2>2, <2>3, <2>5
  <2> QED
    BY <2>4, <2>5
<1> QED
  BY <1>6, <1>7, <1>8, <1>9, <1>10

\* stop() and close(): the pending wait is cancelled, queued ticks stay.
LEMMA TimerHalts ==
  ASSUME TimerInv, Timers!stop \/ Timers!close
  PROVE  TimerInv'
<1> USE DEF TimerInv
<1>1. /\ m_started' = FALSE /\ ticks' = ticks \o Timers!Cancelled /\ waits' = <<>>
      /\ periodic' = periodic /\ m_interval' = m_interval /\ m_times' = m_times
      /\ m_firetime' = m_firetime /\ now' = now /\ expiry' = expiry
      /\ timer_starts' = timer_starts /\ t0' = t0 /\ stale' = stale /\ elapsed' = elapsed
  BY DEF Timers!stop, Timers!close
<1>2. listening' = listening \/ listening' = FALSE
  BY DEF Timers!stop, Timers!close
<1>3. /\ ticks' \in Seq(Ticks(timer_starts))
      /\ \A S \in SUBSET OkTicks : Count(ticks', S) = Count(ticks, S)
  BY <1>1, CancelKeepsTicks DEF TimerType
<1>4. TimerType'
  <2>1. periodic' \in BOOLEAN /\ m_started' \in BOOLEAN /\ listening' \in BOOLEAN
    BY <1>1, <1>2 DEF TimerType
  <2> QED
    BY <1>1, <1>3, <2>1 DEF TimerType
<1>5. OneWait' /\ Timers!NextTickPending' /\ Timers!NoDrift'
  BY <1>1 DEF OneWait, Timers!NextTickPending, Timers!NoDrift
<1>6. Current' = Current /\ AllOk' = AllOk
  BY <1>1, <1>3, TimerCounts DEF Current, AllOk
<1>7. TicksCounted'
  <2>1. Current \in Nat /\ stale \in Nat
    BY TimerCounts DEF TimerType
  <2>2. periodic /\ timer_starts > 0 => Current <= stale + 1
    BY <2>1 DEF TicksCounted
  <2> QED
    BY <1>1, <1>6, <2>2 DEF TicksCounted
<1>8. OnceCounted'
  <2> SUFFICES ASSUME ~periodic, NEW s \in 1 .. MaxTimerStarts
               PROVE  /\ elapsed[s] + Count(ticks', {OkTick(s)}) + (IF waits' = <<s>> THEN 1 ELSE 0) <= 1
                      /\ s > timer_starts => elapsed[s] = 0
    BY <1>1 DEF OnceCounted
  <2>1. /\ elapsed[s] + Count(ticks, {OkTick(s)}) + (IF waits = <<s>> THEN 1 ELSE 0) <= 1
        /\ s > timer_starts => elapsed[s] = 0
    BY DEF OnceCounted
  <2>2. elapsed[s] \in Nat /\ Count(ticks, {OkTick(s)}) \in Nat
    BY TimerCounts DEF TimerType
  <2>3. Count(ticks', {OkTick(s)}) = Count(ticks, {OkTick(s)})
    BY <1>3 DEF OkTick, OkTicks
  <2>4. waits' # <<s>>
    BY <1>1
  <2> QED
    BY <2>1, <2>2, <2>3, <2>4
<1> QED
  BY <1>4, <1>5, <1>7, <1>8

\* The io_service takes the first completion off its queue.
LEMMA TakeTick ==
  ASSUME TimerType, ticks # <<>>
  PROVE  /\ Head(ticks) \in Ticks(timer_starts) /\ Tail(ticks) \in Seq(Ticks(timer_starts))
         /\ timer_starts \in 1 .. MaxTimerStarts
         /\ \A S : /\ Count(Tail(ticks), S) \in Nat
                   /\ Count(ticks, S) = Count(Tail(ticks), S) + (IF Head(ticks) \in S THEN 1 ELSE 0)
         /\ Head(ticks).res # "ok" /\ (\E i \in DOMAIN ticks : ticks[i].res = "ok") =>
              \E i \in DOMAIN Tail(ticks) : Tail(ticks)[i].res = "ok"
<1> DEFINE n == Len(ticks)
<1>0. ticks \in Seq(Ticks(timer_starts))
  BY DEF TimerType
<1>1. /\ Head(ticks) \in Ticks(timer_starts) /\ Tail(ticks) \in Seq(Ticks(timer_starts))
      /\ Len(Tail(ticks)) = n - 1 /\ Head(ticks) = ticks[1]
      /\ \A i \in 1 .. n - 1 : Tail(ticks)[i] = ticks[i + 1]
  BY <1>0, HeadTailProperties
<1>2. n \in Nat /\ DOMAIN ticks = 1 .. n /\ DOMAIN Tail(ticks) = 1 .. n - 1
  BY <1>0, <1>1, LenProperties
<1>3. timer_starts \in 1 .. MaxTimerStarts
  BY <1>1, ServicesAssumption DEF Ticks, TimerType
<1>4. ASSUME NEW S
      PROVE  /\ Count(Tail(ticks), S) \in Nat
             /\ Count(ticks, S) = Count(Tail(ticks), S) + (IF Head(ticks) \in S THEN 1 ELSE 0)
  BY <1>0, <1>1, CountTail, CountType
<1>5. ASSUME Head(ticks).res # "ok", NEW i \in DOMAIN ticks, ticks[i].res = "ok"
      PROVE  i - 1 \in DOMAIN Tail(ticks) /\ Tail(ticks)[i - 1].res = "ok"
  <2>1. i # 1 /\ i \in 1 .. n
    BY <1>1, <1>2, <1>5
  <2>2. i - 1 \in 1 .. n - 1 /\ (i - 1) + 1 = i
    BY <2>1, <1>2
  <2> QED
    BY <1>1, <1>2, <1>5, <2>2
<1> QED
  BY <1>1, <1>3, <1>4, <1>5

\* What a completion is: an expired or a cancelled wait of some start().
LEMMA TickOk ==
  ASSUME NEW n \in Nat, NEW t \in Ticks(n)
  PROVE  /\ t.gen \in 1 .. n
         /\ t.res = "ok" \/ t.res = "aborted"
         /\ t.res = "ok" <=> t \in OkTicks
         /\ \A g : t \in {OkTick(g)} <=> t.res = "ok" /\ t.gen = g
<1>1. t = [gen |-> t.gen, res |-> t.res] /\ t.gen \in 1 .. n /\ t.res \in Results
  BY DEF Ticks
<1>2. t.res = "ok" \/ t.res = "aborted"
  BY <1>1 DEF Results
<1>3. t.gen \in Nat
  BY <1>1
<1>4. t.res = "ok" <=> t \in OkTicks
  BY <1>1, <1>3 DEF OkTicks
<1>5. ASSUME NEW g PROVE t \in {OkTick(g)} <=> t.res = "ok" /\ t.gen = g
  BY <1>1 DEF OkTick
<1> QED
  BY <1>1, <1>2, <1>4, <1>5

\* notify() counts a callback.
LEMMA NotifyType ==
  ASSUME NEW f \in [1 .. MaxTimerStarts -> Nat], NEW n \in 1 .. MaxTimerStarts, NEW g \in 1 .. n,
         NEW b
  PROVE  (IF b THEN [f EXCEPT ![g] = @ + 1] ELSE f) \in [1 .. MaxTimerStarts -> Nat]
<1>1. g \in 1 .. MaxTimerStarts
  BY ServicesAssumption
<1>2. [f EXCEPT ![g] = @ + 1] \in [1 .. MaxTimerStarts -> Nat]
  BY <1>1
<1> QED
  BY <1>2

\* on_timer_impl_callback on an aborted wait, or on a tick after stop().
LEMMA TimerIgnores ==
  ASSUME TimerInv, ticks # <<>>, Head(ticks).res = "aborted" \/ (periodic /\ ~m_started),
         ticks' = Tail(ticks),
         UNCHANGED <<periodic, m_started, m_interval, m_times, m_firetime, listening, now, expiry,
                     waits, timer_starts, t0, stale, elapsed>>
  PROVE  TimerInv'
<1> DEFINE h == Head(ticks)
<1> USE DEF TimerInv
<1>1. /\ h \in Ticks(timer_starts) /\ ticks' \in Seq(Ticks(timer_starts))
      /\ timer_starts \in 1 .. MaxTimerStarts /\ timer_starts \in Nat
  BY TakeTick, TimerCounts
<1>2. \A S : /\ Count(ticks', S) \in Nat
             /\ Count(ticks, S) = Count(ticks', S) + (IF h \in S THEN 1 ELSE 0)
  BY TakeTick
<1>3. h.res # "ok" /\ (\E i \in DOMAIN ticks : ticks[i].res = "ok") =>
        \E i \in DOMAIN ticks' : ticks'[i].res = "ok"
  BY TakeTick
<1>4. /\ periodic' = periodic /\ m_started' = m_started /\ m_interval' = m_interval
      /\ m_times' = m_times /\ m_firetime' = m_firetime /\ listening' = listening
      /\ now' = now /\ expiry' = expiry /\ waits' = waits /\ timer_starts' = timer_starts
      /\ t0' = t0 /\ stale' = stale /\ elapsed' = elapsed
  OBVIOUS
<1>5. TimerType'
  BY <1>1, <1>4 DEF TimerType
<1>6. OneWait' /\ Timers!NoDrift'
  BY <1>4 DEF OneWait, Timers!NoDrift
<1>7. Timers!NextTickPending'
  BY <1>3, <1>4 DEF Timers!NextTickPending
<1>8. TicksCounted'
  <2> SUFFICES ASSUME periodic, timer_starts > 0
               PROVE  /\ (m_times + Current' - stale) * m_interval <= now - t0
                      /\ Current' <= stale + (IF waits = <<>> THEN 1 ELSE 0)
                      /\ stale + AllOk' - Current' < timer_starts
    BY <1>4 DEF TicksCounted
  <2>1. /\ (m_times + Current - stale) * m_interval <= now - t0
        /\ Current <= stale + (IF waits = <<>> THEN 1 ELSE 0)
        /\ stale + AllOk - Current < timer_starts
    BY DEF TicksCounted
  <2>2. /\ Current' \in Nat /\ AllOk' \in Nat
        /\ Current = Current' + (IF h \in {OkTick(timer_starts)} THEN 1 ELSE 0)
        /\ AllOk = AllOk' + (IF h \in OkTicks THEN 1 ELSE 0)
    BY <1>2, <1>4 DEF Current, AllOk
  <2>3. h \in {OkTick(timer_starts)} => h \in OkTicks
    BY TimerCounts
  <2> DEFINE d == IF h \in {OkTick(timer_starts)} THEN 1 ELSE 0
             e == IF h \in OkTicks THEN 1 ELSE 0
             w == IF waits = <<>> THEN 1 ELSE 0
  <2>4. d \in {0, 1} /\ e \in {0, 1} /\ d <= e /\ w \in Nat
    BY <2>3
  <2>5. m_times \in Nat /\ stale \in Nat /\ m_interval \in Nat /\ timer_starts \in Nat /\ now - t0 \in Int
    BY <1>1 DEF TimerType
  <2>6. /\ (m_times + (Current' + d) - stale) * m_interval <= now - t0
        /\ Current' + d <= stale + w
        /\ stale + (AllOk' + e) - (Current' + d) < timer_starts
    BY <2>1, <2>2
  <2>7. Current' \in Nat /\ AllOk' \in Nat
    BY <2>2
  <2> HIDE DEF d, e, w
  <2>8. /\ (m_times + Current' - stale) * m_interval <= now - t0
        /\ Current' <= stale + w /\ stale + AllOk' - Current' < timer_starts
    <3>1. PICK c \in Nat : c = Current'
      BY <2>7
    <3>2. PICK a \in Nat : a = AllOk'
      BY <2>7
    <3>3. /\ (m_times + (c + d) - stale) * m_interval <= now - t0
          /\ c + d <= stale + w /\ stale + (a + e) - (c + d) < timer_starts
      BY <2>6, <3>1, <3>2
    <3>4. m_times + c - stale \in Int /\ m_times + (c + d) - stale \in Int
      BY <2>4, <2>5
    <3>5. (m_times + c - stale) * m_interval <= (m_times + (c + d) - stale) * m_interval
      <4>1. m_times + c - stale <= m_times + (c + d) - stale
        BY <2>4, <2>5
      <4> QED
        BY <2>5, <3>4, <4>1, ProductMonotone
    <3>6. (m_times + c - stale) * m_interval <= now - t0
      BY <2>5, <3>3, <3>4, <3>5
    <3>7. c <= stale + w /\ stale + a - c < timer_starts
      BY <2>4, <2>5, <3>3
    <3> QED
      BY <3>1, <3>2, <3>6, <3>7
  <2> QED
    BY <2>8 DEF w
<1>9. OnceCounted'
  <2> SUFFICES ASSUME ~periodic, NEW s \in 1 .. MaxTimerStarts
               PROVE  /\ elapsed[s] + Count(ticks', {OkTick(s)}) + (IF waits = <<s>> THEN 1 ELSE 0) <= 1
                      /\ s > timer_starts => elapsed[s] = 0
    BY <1>4 DEF OnceCounted
  <2>1. /\ elapsed[s] + Count(ticks, {OkTick(s)}) + (IF waits = <<s>> THEN 1 ELSE 0) <= 1
        /\ s > timer_starts => elapsed[s] = 0
    BY DEF OnceCounted
  <2>2. /\ elapsed[s] \in Nat /\ Count(ticks', {OkTick(s)}) \in Nat
        /\ Count(ticks', {OkTick(s)}) <= Count(ticks, {OkTick(s)})
    BY <1>2 DEF TimerType
  <2>3. Count(ticks, {OkTick(s)}) \in Nat
    BY TimerCounts
  <2> QED
    BY <2>1, <2>2, <2>3
<1> QED
  BY <1>5, <1>6, <1>7, <1>8, <1>9

\* asio_timer::on_timer: the wait's callback is spent.
LEMMA TimerFiresOnce ==
  ASSUME TimerInv, ticks # <<>>, ~periodic, Head(ticks).res # "aborted",
         Timers!on_timer_once(Head(ticks).gen),
         UNCHANGED <<periodic, m_started, m_interval, listening, now, timer_starts, t0>>
  PROVE  TimerInv'
<1> DEFINE h == Head(ticks)
<1> USE DEF TimerInv
<1>1. /\ h \in Ticks(timer_starts) /\ Tail(ticks) \in Seq(Ticks(timer_starts))
      /\ timer_starts \in 1 .. MaxTimerStarts /\ timer_starts \in Nat
  BY TakeTick, TimerCounts
<1>2. /\ periodic' = periodic /\ m_started' = m_started /\ m_interval' = m_interval
      /\ m_times' = m_times /\ m_firetime' = m_firetime /\ listening' = listening
      /\ now' = now /\ expiry' = expiry /\ waits' = waits /\ timer_starts' = timer_starts
      /\ t0' = t0 /\ stale' = stale /\ ticks' = Tail(ticks)
      /\ elapsed' = IF listening THEN [elapsed EXCEPT ![h.gen] = @ + 1] ELSE elapsed
  BY DEF Timers!on_timer_once, Timers!notify
<1>3. /\ h.gen \in 1 .. timer_starts /\ h.res = "ok"
      /\ \A g : h \in {OkTick(g)} <=> h.gen = g
  BY <1>1, TickOk
<1>4. \A S : /\ Count(ticks', S) \in Nat
             /\ Count(ticks, S) = Count(ticks', S) + (IF h \in S THEN 1 ELSE 0)
  BY <1>2, TakeTick
<1>5. elapsed' \in [1 .. MaxTimerStarts -> Nat]
  BY <1>1, <1>2, <1>3, NotifyType DEF TimerType
<1>6. TimerType'
  BY <1>1, <1>2, <1>5 DEF TimerType
<1>7. OneWait' /\ TicksCounted' /\ Timers!NoDrift' /\ Timers!NextTickPending'
  BY <1>2 DEF OneWait, TicksCounted, Timers!NoDrift, Timers!NextTickPending
<1>8. OnceCounted'
  <2> SUFFICES ASSUME NEW s \in 1 .. MaxTimerStarts
               PROVE  /\ elapsed'[s] + Count(ticks', {OkTick(s)}) + (IF waits = <<s>> THEN 1 ELSE 0) <= 1
                      /\ s > timer_starts => elapsed'[s] = 0
    BY <1>2 DEF OnceCounted
  <2>1. /\ elapsed[s] + Count(ticks, {OkTick(s)}) + (IF waits = <<s>> THEN 1 ELSE 0) <= 1
        /\ s > timer_starts => elapsed[s] = 0
    BY DEF OnceCounted
  <2>2. /\ elapsed[s] \in Nat /\ Count(ticks', {OkTick(s)}) \in Nat
        /\ Count(ticks, {OkTick(s)}) = Count(ticks', {OkTick(s)}) + (IF s = h.gen THEN 1 ELSE 0)
    BY <1>3, <1>4 DEF TimerType
  <2>3. CASE s = h.gen
    <3>1. elapsed'[s] = elapsed[s] \/ elapsed'[s] = elapsed[s] + 1
      BY <1>2, <2>3 DEF TimerType
    <3> QED
      BY <1>1, <1>3, <2>1, <2>2, <2>3, <3>1
  <2>4. CASE s # h.gen
    <3>1. elapsed'[s] = elapsed[s]
      BY <1>2, <2>4 DEF TimerType
    <3> QED
      BY <2>1, <2>2, <2>4, <3>1
  <2> QED
    BY <2>3, <2>4
<1> QED
  BY <1>6, <1>7, <1>8

\* asio_periodic_timer::on_timer: a tick of the last start() is counted, one
\* of an earlier start() is counted as stale.
LEMMA TimerFiresAgain ==
  ASSUME TimerInv, ticks # <<>>, periodic, m_started, Head(ticks).res # "aborted",
         Timers!on_timer_periodic(Head(ticks).gen),
         UNCHANGED <<periodic, m_started, m_interval, listening, now, timer_starts, t0>>
  PROVE  TimerInv'
<1> DEFINE h == Head(ticks)
           n == timer_starts
<1> USE DEF TimerInv
<1>1. /\ h \in Ticks(n) /\ Tail(ticks) \in Seq(Ticks(n))
      /\ n \in 1 .. MaxTimerStarts /\ n \in Nat /\ n > 0
  BY TakeTick, TimerCounts
<1>2. /\ periodic' = periodic /\ m_started' = m_started /\ m_interval' = m_interval
      /\ m_times' = m_times + 1 /\ m_firetime' = m_firetime + m_interval /\ listening' = listening
      /\ now' = now /\ expiry' = m_firetime' /\ waits' = <<n>> /\ n' = n
      /\ t0' = t0 /\ ticks' = Tail(ticks) \o Timers!Cancelled
      /\ stale' = IF h.gen < n THEN stale + 1 ELSE stale
      /\ elapsed' = IF listening THEN [elapsed EXCEPT ![h.gen] = @ + 1] ELSE elapsed
  BY DEF Timers!on_timer_periodic, Timers!notify, Timers!WaitUntil
<1>3. /\ h.gen \in 1 .. n /\ h \in OkTicks
      /\ h \in {OkTick(n)} <=> h.gen = n
  BY <1>1, TickOk
<1>4. /\ ticks' \in Seq(Ticks(n))
      /\ \A S \in SUBSET OkTicks : Count(ticks', S) = Count(Tail(ticks), S)
  BY <1>1, <1>2, CancelKeepsTicks
<1>5. elapsed' \in [1 .. MaxTimerStarts -> Nat]
  BY <1>1, <1>2, <1>3, NotifyType DEF TimerType
<1>6. /\ m_times \in Nat /\ stale \in Nat /\ m_interval \in Nat /\ now \in Nat /\ t0 \in Nat
      /\ m_firetime \in Nat
  BY DEF TimerType
<1>7. TimerType'
  <2>1. stale' \in Nat
    BY <1>2, <1>6
  <2> QED
    BY <1>1, <1>2, <1>4, <1>5, <1>6, <2>1 DEF TimerType
<1>8. OneWait' /\ Timers!NextTickPending' /\ OnceCounted'
  BY <1>1, <1>2 DEF OneWait, Timers!NextTickPending, OnceCounted
<1>9. Timers!NoDrift'
  <2>1. m_firetime = t0 + (m_times + 1) * m_interval
    BY <1>1 DEF Timers!NoDrift
  <2>2. (m_times + 1 + 1) * m_interval = (m_times + 1) * m_interval + m_interval
    BY <1>6
  <2>3. m_firetime + m_interval = t0 + (m_times + 1 + 1) * m_interval
    BY <1>6, <2>1, <2>2
  <2> QED
    BY <1>2, <2>3 DEF Timers!NoDrift
<1>10. TicksCounted'
  <2>1. /\ (m_times + Current - stale) * m_interval <= now - t0
        /\ Current <= stale + 1
        /\ stale + AllOk - Current < n
    BY <1>1, <1>6, TimerCounts DEF TicksCounted
  <2>2. Current \in Nat /\ AllOk \in Nat /\ {OkTick(n)} \subseteq OkTicks
    BY TimerCounts
  <2>3. /\ Current' = Count(Tail(ticks), {OkTick(n)})
        /\ AllOk' = Count(Tail(ticks), OkTicks)
    BY <1>2, <1>4, <2>2 DEF Current, AllOk
  <2>4. /\ Current' \in Nat /\ AllOk' \in Nat
        /\ Current = Current' + (IF h.gen = n THEN 1 ELSE 0)
        /\ AllOk = AllOk' + 1
    BY <1>3, <2>3, TakeTick DEF Current, AllOk
  <2> DEFINE d == IF h.gen = n THEN 1 ELSE 0
  <2>5. d \in {0, 1} /\ stale' = stale + (1 - d)
    BY <1>1, <1>2, <1>3, <1>6
  <2>6. /\ Current' \in Nat /\ AllOk' \in Nat /\ Current = Current' + d
        /\ Current' + d <= stale + 1 /\ stale + (AllOk' + 1) - (Current' + d) < n
    BY <2>1, <2>4
  <2> HIDE DEF d
  <2>7. /\ (m_times + 1) + Current' - stale' = m_times + Current - stale
        /\ Current' <= stale' /\ stale' + AllOk' - Current' < n
    <3>1. PICK c \in Nat : c = Current'
      BY <2>6
    <3>2. PICK a \in Nat : a = AllOk'
      BY <2>6
    <3>3. c + d <= stale + 1 /\ stale + (a + 1) - (c + d) < n
      BY <2>6, <3>1, <3>2
    <3>4. /\ (m_times + 1) + c - (stale + (1 - d)) = m_times + (c + d) - stale
          /\ c <= stale + (1 - d) /\ (stale + (1 - d)) + a - c < n
      BY <1>1, <1>6, <2>5, <3>3
    <3> QED
      BY <2>5, <2>6, <3>1, <3>2, <3>4
  <2>8. waits' # <<>>
    BY <1>2
  <2>9. Current' <= stale' + (IF waits' = <<>> THEN 1 ELSE 0)
    BY <1>6, <2>5, <2>6, <2>7, <2>8
  <2>10. (m_times' + Current' - stale') * m_interval' <= now' - t0'
    BY <1>2, <2>1, <2>7
  <2> QED
    BY <1>2, <2>7, <2>9, <2>10 DEF TicksCounted
<1> QED
  BY <1>7, <1>8, <1>9, <1>10

\* The pending wait expires: its tick is due, so the clock pays for it.
LEMMA TimerExpires ==
  ASSUME TimerInv, Timers!Expire
  PROVE  TimerInv'
<1> DEFINE n == timer_starts
           e == OkTick(n)
<1> USE DEF TimerInv
<1>1. /\ waits = <<n>> /\ n > 0 /\ now >= expiry
  BY DEF Timers!Expire, OneWait
<1>2. /\ periodic' = periodic /\ m_started' = m_started /\ m_interval' = m_interval
      /\ m_times' = m_times /\ m_firetime' = m_firetime /\ listening' = listening
      /\ now' = now /\ expiry' = expiry /\ waits' = <<>> /\ timer_starts' = timer_starts
      /\ t0' = t0 /\ stale' = stale /\ elapsed' = elapsed
      /\ ticks' = ticks \o [i \in DOMAIN waits |-> [gen |-> waits[i], res |-> "ok"]]
  BY DEF Timers!Expire
<1>3. n \in Nat /\ ticks \in Seq(Ticks(n)) /\ elapsed \in [1 .. MaxTimerStarts -> Nat]
  BY TimerCounts DEF TimerType
<1>4. e \in Ticks(n) /\ e \in OkTicks /\ e.res = "ok"
  BY <1>1, <1>3 DEF OkTick, OkTicks, Ticks, Results
<1>5. [i \in DOMAIN waits |-> [gen |-> waits[i], res |-> "ok"]] = <<e>>
  BY <1>1 DEF OkTick
<1> HIDE DEF e
<1>6. ticks' = Append(ticks, e)
  BY <1>2, <1>3, <1>4, <1>5, AppendIsConcat
<1>7. /\ ticks' \in Seq(Ticks(n)) /\ Len(ticks) + 1 \in DOMAIN ticks'
      /\ ticks'[Len(ticks) + 1] = e
  BY <1>3, <1>4, <1>6, AppendProperties, LenProperties
<1>8. ASSUME NEW S PROVE /\ Count(ticks, S) \in Nat
                         /\ Count(ticks', S) = Count(ticks, S) + (IF e \in S THEN 1 ELSE 0)
  BY <1>3, <1>4, <1>6, CountAppend, CountType
<1>9. TimerType'
  BY <1>2, <1>7 DEF TimerType
<1>10. OneWait' /\ Timers!NoDrift'
  BY <1>1, <1>2 DEF OneWait, Timers!NoDrift
<1>11. Timers!NextTickPending'
  <2>1. \E i \in DOMAIN ticks' : ticks'[i].res = "ok"
    BY <1>4, <1>7
  <2> QED
    BY <1>2, <2>1 DEF Timers!NextTickPending
<1>12. TicksCounted'
  <2> SUFFICES ASSUME periodic
               PROVE  /\ (m_times + Current' - stale) * m_interval <= now - t0
                      /\ Current' <= stale + 1
                      /\ stale + AllOk' - Current' < n
    BY <1>2 DEF TicksCounted
  <2>1. /\ Current <= stale /\ stale + AllOk - Current < n
    BY <1>1, TimerCounts DEF TicksCounted, TimerType
  <2>2. Current' = Current + 1 /\ AllOk' = AllOk + 1
    BY <1>2, <1>4, <1>8 DEF Current, AllOk, e
  <2>3. /\ m_times \in Nat /\ stale \in Nat /\ m_interval \in Nat /\ now \in Nat /\ t0 \in Nat
        /\ expiry \in Nat
    BY DEF TimerType
  <2>4. PICK c \in Nat : c = Current
    BY TimerCounts
  <2>5. PICK a \in Nat : a = AllOk
    BY TimerCounts
  <2>6. c <= stale /\ stale + a - c < n
    BY <2>1, <2>4, <2>5
  <2>7. (m_times + 1) * m_interval <= now - t0
    <3>1. expiry = t0 + (m_times + 1) * m_interval
      BY <1>1 DEF Timers!NoDrift
    <3>2. (m_times + 1) * m_interval \in Nat
      BY <2>3
    <3> QED
      BY <1>1, <2>3, <3>1, <3>2
  <2>8. (m_times + (c + 1) - stale) * m_interval <= (m_times + 1) * m_interval
    <3>1. m_times + (c + 1) - stale <= m_times + 1 /\ m_times + (c + 1) - stale \in Int
      BY <2>3, <2>6
    <3> QED
      BY <2>3, <3>1, ProductMonotone
  <2>9. (m_times + (c + 1) - stale) * m_interval <= now - t0
    <3>1. (m_times + (c + 1) - stale) * m_interval \in Int /\ (m_times + 1) * m_interval \in Int
      BY <2>3
    <3> QED
      BY <2>3, <2>7, <2>8, <3>1
  <2>10. c + 1 <= stale + 1 /\ stale + (a + 1) - (c + 1) < n
    BY <1>3, <2>3, <2>6
  <2> QED
    BY <2>2, <2>4, <2>5, <2>9, <2>10
<1>13. OnceCounted'
  <2> SUFFICES ASSUME ~periodic, NEW s \in 1 .. MaxTimerStarts
               PROVE  /\ elapsed[s] + Count(ticks', {OkTick(s)}) + (IF waits' = <<s>> THEN 1 ELSE 0) <= 1
                      /\ s > n => elapsed[s] = 0
    BY <1>2 DEF OnceCounted
  <2>1. /\ elapsed[s] + Count(ticks, {OkTick(s)}) + (IF waits = <<s>> THEN 1 ELSE 0) <= 1
        /\ s > n => elapsed[s] = 0
    BY DEF OnceCounted
  <2>2. waits' # <<s>>
    BY <1>2
  <2>3. /\ elapsed[s] \in Nat /\ Count(ticks, {OkTick(s)}) \in Nat
        /\ Count(ticks', {OkTick(s)}) = Count(ticks, {OkTick(s)}) + (IF e \in {OkTick(s)} THEN 1 ELSE 0)
    BY <1>3, <1>8
  <2>4. CASE s = n
    <3>1. waits = <<s>> /\ e \in {OkTick(s)}
      BY <1>1, <2>4 DEF e
    <3> QED
      BY <2>1, <2>2, <2>3, <3>1
  <2>5. CASE s # n
    <3>1. e \notin {OkTick(s)}
      BY <2>5 DEF e, OkTick
    <3> QED
      BY <2>1, <2>2, <2>3, <3>1
  <2> QED
    BY <2>4, <2>5
<1> QED
  BY <1>9, <1>10, <1>11, <1>12, <1>13

\* The clock moves on.
LEMMA TimerWaits ==
  ASSUME TimerInv, Timers!Clock
  PROVE  TimerInv'
<1> USE DEF TimerInv
<1>1. /\ periodic' = periodic /\ m_started' = m_started /\ m_interval' = m_interval
      /\ m_times' = m_times /\ m_firetime' = m_firetime /\ listening' = listening
      /\ now' = now + 1 /\ expiry' = expiry /\ waits' = waits /\ timer_starts' = timer_starts
      /\ t0' = t0 /\ stale' = stale /\ elapsed' = elapsed /\ ticks' = ticks
  BY DEF Timers!Clock
<1>2. /\ TimerType' /\ now \in Nat /\ t0 \in Nat
  BY <1>1 DEF TimerType
<1>3. OneWait' /\ Timers!NoDrift' /\ Timers!NextTickPending' /\ OnceCounted'
  BY <1>1 DEF OneWait, Timers!NoDrift, Timers!NextTickPending, OnceCounted
<1>4. Current' = Current /\ AllOk' = AllOk
  BY <1>1 DEF Current, AllOk
<1>5. TicksCounted'
  <2>1. PICK x \in Int : x = (m_times + Current - stale) * m_interval
    BY TimerCounts DEF TimerType
  <2>2. x <= now - t0 => x <= (now + 1) - t0
    BY <1>2
  <2> QED
    BY <1>1, <1>4, <2>1, <2>2 DEF TicksCounted
<1> QED
  BY <1>2, <1>3, <1>5

\* Every step of the timer keeps the invariant.
LEMMA TimerSteps ==
  ASSUME TimerInv, Timers!Next \/ UNCHANGED timerVars
  PROVE  TimerInv'
<1>1. ASSUME NEW interval \in Intervals, Timers!start(interval) PROVE TimerInv'
  BY <1>1, TimerStarts
<1>2. CASE Timers!stop \/ Timers!close
  BY <1>2, TimerHalts
<1>3. CASE Timers!on_timer_impl_callback
  <2>1. /\ ticks # <<>>
        /\ UNCHANGED <<periodic, m_started, m_interval, listening, now, timer_starts, t0>>
    BY <1>3 DEF Timers!on_timer_impl_callback
  <2>2. CASE Head(ticks).res = "aborted" \/ (periodic /\ ~m_started)
    <3>1. /\ ticks' = Tail(ticks)
          /\ UNCHANGED <<m_times, m_firetime, expiry, waits, stale, elapsed>>
      BY <1>3, <2>2 DEF Timers!on_timer_impl_callback
    <3> QED
      BY <2>1, <2>2, <3>1, TimerIgnores
  <2>3. CASE Head(ticks).res # "aborted" /\ periodic /\ m_started
    <3>1. Timers!on_timer_periodic(Head(ticks).gen)
      BY <1>3, <2>3 DEF Timers!on_timer_impl_callback
    <3> QED
      BY <2>1, <2>3, <3>1, TimerFiresAgain
  <2>4. CASE Head(ticks).res # "aborted" /\ ~periodic
    <3>1. Timers!on_timer_once(Head(ticks).gen)
      BY <1>3, <2>4 DEF Timers!on_timer_impl_callback
    <3> QED
      BY <2>1, <2>4, <3>1, TimerFiresOnce
  <2> QED
    BY <2>2, <2>3, <2>4
<1>4. CASE Timers!Expire
  BY <1>4, TimerExpires
<1>5. CASE Timers!Clock
  BY <1>5, TimerWaits
<1>6. CASE UNCHANGED timerVars
  BY <1>6 DEF timerVars, TimerInv, TimerType, OneWait, TicksCounted, OnceCounted, Current, AllOk, Count,
              Timers!NextTickPending, Timers!NoDrift
<1> QED
  BY <1>1, <1>2, <1>3, <1>4, <1>5, <1>6 DEF Timers!Next

\* A tick of the last start() is a tick.
LEMMA CurrentIsOk ==
  ASSUME TimerType
  PROVE  Current <= AllOk
<1> DEFINE I == {i \in DOMAIN ticks : ticks[i] \in {OkTick(timer_starts)}}
           J == {i \in DOMAIN ticks : ticks[i] \in OkTicks}
<1>1. I \subseteq J
  BY TimerCounts
<1>2. IsFiniteSet(J)
  BY CountType DEF TimerType
<1>3. Cardinality(I) <= Cardinality(J)
  BY <1>1, <1>2, FS_Subset
<1> QED
  BY <1>3 DEF Current, AllOk, Count

\* The invariant implies that the timer keeps time.
LEMMA TimerInvSuffices ==
  ASSUME TimerInv
  PROVE  TimerKeepsTime
<1> USE DEF TimerInv
<1>1. ASSUME periodic, timer_starts > 0
      PROVE  m_times * m_interval <= (now - t0) + stale * m_interval /\ stale < timer_starts
  <2>1. m_times \in Nat /\ stale \in Nat /\ m_interval \in Nat /\ now \in Nat /\ t0 \in Nat
    BY DEF TimerType
  <2>2. PICK c \in Nat : c = Current
    BY TimerCounts
  <2>3. PICK a \in Nat : a = AllOk
    BY TimerCounts
  <2>4. /\ (m_times + c - stale) * m_interval <= now - t0
        /\ stale + a - c < timer_starts /\ c <= a
    BY <1>1, <2>2, <2>3, CurrentIsOk DEF TicksCounted
  <2>5. timer_starts \in Nat
    BY TimerCounts
  <2>6. (m_times - stale) * m_interval <= (m_times + c - stale) * m_interval
    <3>1. m_times - stale <= m_times + c - stale
      BY <2>1
    <3> QED
      BY <2>1, <3>1, ProductMonotone
  <2>7. (m_times - stale) * m_interval = m_times * m_interval - stale * m_interval
    BY <2>1
  <2>8. /\ (m_times - stale) * m_interval \in Int /\ (m_times + c - stale) * m_interval \in Int
        /\ m_times * m_interval \in Nat /\ stale * m_interval \in Nat
    BY <2>1
  <2>9. m_times * m_interval <= (now - t0) + stale * m_interval
    BY <2>1, <2>4, <2>6, <2>7, <2>8
  <2> QED
    BY <2>1, <2>4, <2>5, <2>9
<1>2. Timers!ElapsedBounded
  BY <1>1 DEF Timers!ElapsedBounded
<1>3. ASSUME ~periodic, NEW s \in 1 .. MaxTimerStarts PROVE elapsed[s] <= 1
  <2>1. elapsed[s] + Count(ticks, {OkTick(s)}) + (IF waits = <<s>> THEN 1 ELSE 0) <= 1
    BY <1>3 DEF OnceCounted
  <2>2. elapsed[s] \in Nat /\ Count(ticks, {OkTick(s)}) \in Nat
    BY TimerCounts DEF TimerType
  <2> QED
    BY <2>1, <2>2
<1>4. Timers!OncePerStart
  BY <1>3 DEF Timers!OncePerStart
<1> QED
  BY <1>2, <1>4 DEF TimerKeepsTime

(***************************************************************************)
(* asio_timer keeps time, however the calls, the clock and the handlers of *)
(* the io_service interleave and however late a handler runs: a started    *)
(* periodic timer has one tick to come, its fire times are whole intervals *)
(* from start(), it is ahead of the clock only by ticks queued before      *)
(* start(), and a once timer elapses at most once for each start().        *)
(***************************************************************************)
THEOREM TimerKeepsItsTime == ServicesSpec => []TimerKeepsTime
<1>1. ServicesInit => TimerInv
  BY TimerInitially DEF ServicesInit
<1>2. TimerInv /\ [ServicesNext]_servicesVars => TimerInv'
  <2> SUFFICES ASSUME TimerInv, [ServicesNext]_servicesVars PROVE TimerInv'
    OBVIOUS
  <2>1. Timers!Next \/ UNCHANGED timerVars
    BY DEF ServicesNext, servicesVars, timerVars
  <2> QED
    BY <2>1, TimerSteps
<1>3. TimerInv => TimerKeepsTime
  BY TimerInvSuffices
<1> QED
  BY <1>1, <1>2, <1>3, PTL DEF ServicesSpec

-----------------------------------------------------------------------------
(* The runner.                                                             *)

Places == {"none", "run", "handler", "reset", "check", "exit"}

RunnerType ==
  /\ pc \in [Threads -> Places]
  /\ created \in Nat
  /\ m_thread \in {NoThread} \cup 1 .. MaxThreads

\* Only the thread of the last start(), run()'s and those given up are in
\* do_run, and run()'s is not beside a thread of start().
Owned ==
  /\ Running \subseteq abandoned \cup {Main, m_thread}
  /\ m_thread # NoThread => ~Alive(Main)

\* stop() found a thread, and nobody else writes m_continue.
Stopping ==
  owner \in {"stop:work", "stop:service", "stop:join", "timed:work", "timed:service", "timed:join"} =>
    m_thread # NoThread /\ ~m_continue

\* start() found no thread, and the owner does not begin run() inside it.
Starting ==
  owner \in {"start:work", "start:thread"} =>
    m_thread = NoThread /\ ~Alive(Main) /\ created < MaxThreads

\* While stop() waits for the only thread there is, the thread is on its way
\* out: m_continue is down, and if its loop has not come to read it yet then
\* io_service::stop() has not been undone (io_service_runner::do_run resets
\* the io_service only after it has left io_service::run).
StopHeard ==
  owner = "stop:join" /\ abandoned = {} =>
    /\ ~m_continue
    /\ pc[m_thread] \in {"run", "handler", "reset"} => stopped

RunnerInv == RunnerType /\ Owned /\ Starting /\ Stopping /\ StopHeard

\* A new runner.
LEMMA RunnerInitially == Init => RunnerInv
<1> SUFFICES ASSUME Init PROVE RunnerInv
  OBVIOUS
<1>1. RunnerType
  BY DEF Init, RunnerType, Places, Threads
<1>2. Owned
  BY DEF Init, Owned, Running, Alive, Threads
<1>3. Starting /\ Stopping /\ StopHeard
  BY DEF Init, Starting, Stopping, StopHeard
<1> QED
  BY <1>1, <1>2, <1>3 DEF RunnerInv

\* What every step of do_run has in common.
LEMMA DoRunStep ==
  ASSUME NEW t \in Threads, do_run(t), RunnerType
  PROVE  /\ UNCHANGED <<owner, m_continue, m_work, m_thread, created, abandoned>>
         /\ Alive(t)
         /\ \E p \in Places \ {"none"} : pc' = [pc EXCEPT ![t] = p]
<1> USE DEF RunnerType, Places, Alive
<1>1. CASE io_run(t)
  BY <1>1 DEF io_run, runner
<1>2. CASE handler_end(t)
  BY <1>2 DEF handler_end, runner
<1>3. CASE io_reset(t)
  BY <1>3 DEF io_reset, runner
<1>4. CASE check_continue(t)
  BY <1>4 DEF check_continue, runner
<1> QED
  BY <1>1, <1>2, <1>3, <1>4 DEF do_run

\* A thread inside do_run.
LEMMA RunnerRuns ==
  ASSUME RunnerInv, NEW t \in Threads, do_run(t)
  PROVE  RunnerInv'
<1> USE DEF RunnerInv
<1>1. /\ owner' = owner /\ m_continue' = m_continue /\ m_thread' = m_thread
      /\ created' = created /\ abandoned' = abandoned /\ Alive(t)
  BY DoRunStep
<1>2. PICK p \in Places \ {"none"} : pc' = [pc EXCEPT ![t] = p]
  BY DoRunStep
<1>3. RunnerType'
  BY <1>1, <1>2 DEF RunnerType
<1>4. Owned'
  <2>1. \A u \in Threads : Alive(u)' => Alive(u)
    BY <1>1, <1>2 DEF Alive, RunnerType
  <2>2. Main \in Threads
    BY IoServiceRunnerAssumption DEF Main, Threads
  <2> QED
    BY <1>1, <2>1, <2>2 DEF Owned, Running
<1>5. Starting' /\ Stopping'
  <2>1. ~Alive(Main) => ~Alive(Main)'
    <3>1. Main \in Threads
      BY IoServiceRunnerAssumption DEF Main, Threads
    <3> QED
      BY <1>1, <1>2, <3>1 DEF Alive, RunnerType
  <2> QED
    BY <1>1, <2>1 DEF Starting, Stopping
<1>6. StopHeard'
  <2> SUFFICES ASSUME owner = "stop:join", abandoned = {}
               PROVE  ~m_continue' /\ (pc'[m_thread] \in {"run", "handler", "reset"} => stopped')
    BY <1>1 DEF StopHeard
  <2>1. m_thread # NoThread /\ ~m_continue
    BY DEF Stopping
  <2>2. t = m_thread
    BY <1>1, <2>1 DEF Owned, Running
  <2>3. pc[t] \in {"run", "handler", "reset"} => stopped
    BY <2>2 DEF StopHeard
  <2>4. pc'[t] \in {"run", "handler", "reset"} => stopped'
    <3>1. CASE io_run(t)
      <4>1. pc[t] = "run" /\ stopped
        BY <2>3, <3>1 DEF io_run
      <4> QED
        BY <3>1, <4>1 DEF io_run, service
    <3>2. CASE handler_end(t)
      BY <2>3, <3>2 DEF handler_end, service
    <3>3. CASE io_reset(t)
      <4>1. pc' = [pc EXCEPT ![t] = "check"]
        BY <3>3 DEF io_reset
      <4>2. pc'[t] = "check"
        BY <4>1 DEF RunnerType
      <4> QED
        BY <4>2
    <3>4. CASE check_continue(t)
      <4>1. pc' = [pc EXCEPT ![t] = "exit"]
        BY <2>1, <3>4 DEF check_continue
      <4>2. pc'[t] = "exit"
        BY <4>1 DEF RunnerType
      <4> QED
        BY <4>2
    <3> QED
      BY <3>1, <3>2, <3>3, <3>4 DEF do_run
  <2> QED
    BY <1>1, <2>1, <2>2, <2>4
<1> QED
  BY <1>3, <1>4, <1>5, <1>6

\* The thread of start(), and that of run().
LEMMA RunnerStarts ==
  ASSUME RunnerInv, start_thread \/ run
  PROVE  RunnerInv'
<1> USE DEF RunnerInv
<1>0. Main \in Threads /\ NoThread \notin Threads
  BY IoServiceRunnerAssumption DEF Main, Threads, NoThread
<1>1. owner' = "idle" /\ m_thread = NoThread /\ abandoned' = abandoned
  BY DEF start_thread, run, runner, Starting
<1>2. Starting' /\ Stopping' /\ StopHeard'
  BY <1>1 DEF Starting, Stopping, StopHeard
<1>3. Running \subseteq abandoned \cup {Main}
  BY <1>0, <1>1 DEF Owned, Running
<1>4. CASE start_thread
  <2> DEFINE c == created + 1
  <2>1. /\ m_thread' = c /\ created' = c /\ pc' = [pc EXCEPT ![c] = "run"]
        /\ ~Alive(Main) /\ created < MaxThreads
    BY <1>4 DEF start_thread, Starting
  <2>2. c \in 1 .. MaxThreads /\ c \in Threads /\ c \in Nat /\ c # Main
    BY <2>1, IoServiceRunnerAssumption DEF RunnerType, Threads, Main
  <2> HIDE DEF c
  <2>3. RunnerType'
    BY <2>1, <2>2 DEF RunnerType, Places
  <2>4. \A u \in Threads : u # c => (Alive(u)' <=> Alive(u))
    BY <2>1, <2>2 DEF Alive, RunnerType
  <2>5. Owned'
    BY <1>0, <1>1, <1>3, <2>1, <2>2, <2>4 DEF Owned, Running
  <2> QED
    BY <1>2, <2>3, <2>5
<1>5. CASE run
  <2>1. m_thread' = m_thread /\ created' = created /\ pc' = [pc EXCEPT ![Main] = "run"]
    BY <1>5 DEF run, runner
  <2>2. RunnerType'
    BY <1>0, <2>1 DEF RunnerType, Places
  <2>3. \A u \in Threads : u # Main => (Alive(u)' <=> Alive(u))
    BY <2>1 DEF Alive, RunnerType
  <2>4. Owned'
    BY <1>1, <1>3, <2>1, <2>3 DEF Owned, Running
  <2> QED
    BY <1>2, <2>2, <2>4
<1> QED
  BY <1>4, <1>5

\* The steps of start(), stop() and interrupt() but for the thread and the joins,
\* and what happens outside do_run.
LEMMA RunnerCalls ==
  ASSUME RunnerInv, UNCHANGED <<m_thread, created, abandoned, pc>>,
         \/ start \/ start_work
         \/ \E timed \in BOOLEAN : stop_begin(timed)
         \/ interrupt_begin
         \/ interrupt_work("stop:work", "stop:service") \/ interrupt_service("stop:service", "stop:join")
         \/ interrupt_work("timed:work", "timed:service") \/ interrupt_service("timed:service", "timed:join")
         \/ interrupt_work("interrupt:work", "interrupt:service")
         \/ interrupt_service("interrupt:service", "idle")
         \/ post \/ op_begin \/ op_end
  PROVE  RunnerInv'
<1> USE DEF RunnerInv
<1>1. RunnerType' /\ Owned'
  BY DEF RunnerType, Owned, Running, Alive
<1>2. CASE \E timed \in BOOLEAN : stop_begin(timed)
  BY <1>1, <1>2 DEF stop_begin, Starting, Stopping, StopHeard, Alive
<1>3. CASE interrupt_begin
  BY <1>1, <1>3 DEF interrupt_begin, Starting, Stopping, StopHeard, Alive
<1>4. CASE interrupt_work("stop:work", "stop:service")
  BY <1>1, <1>4 DEF interrupt_work, Starting, Stopping, StopHeard, Alive
<1>5. CASE interrupt_service("stop:service", "stop:join")
  BY <1>1, <1>5 DEF interrupt_service, runner, Starting, Stopping, StopHeard, Alive
<1>6. CASE interrupt_work("timed:work", "timed:service")
  BY <1>1, <1>6 DEF interrupt_work, Starting, Stopping, StopHeard, Alive
<1>7. CASE interrupt_service("timed:service", "timed:join")
  BY <1>1, <1>7 DEF interrupt_service, runner, Starting, Stopping, StopHeard, Alive
<1>8. CASE interrupt_work("interrupt:work", "interrupt:service")
  BY <1>1, <1>8 DEF interrupt_work, Starting, Stopping, StopHeard, Alive
<1>9. CASE interrupt_service("interrupt:service", "idle")
  BY <1>1, <1>9 DEF interrupt_service, Starting, Stopping, StopHeard, Alive
<1>10. CASE post \/ op_begin \/ op_end
  <2>1. owner' = owner /\ m_continue' = m_continue /\ stopped' = stopped
    BY <1>10 DEF post, op_begin, op_end, runner
  <2> QED
    BY <1>1, <2>1 DEF Starting, Stopping, StopHeard, Alive
<1>11. CASE start \/ start_work
  BY <1>1, <1>11 DEF start, start_work, Starting, Stopping, StopHeard, Alive
<1> QED
  BY <1>2, <1>3, <1>4, <1>5, <1>6, <1>7, <1>8, <1>9, <1>10, <1>11

\* The joins: stop() waits for the thread, stop(milliseconds) gives it up.
LEMMA RunnerJoins ==
  ASSUME RunnerInv, stop_join \/ stop_timed_join
  PROVE  RunnerInv'
<1> USE DEF RunnerInv
<1>1. owner' = "idle" /\ m_thread' = NoThread /\ pc' = pc /\ created' = created
  BY DEF stop_join, stop_timed_join
<1>2. RunnerType' /\ Starting' /\ Stopping' /\ StopHeard'
  BY <1>1 DEF RunnerType, Starting, Stopping, StopHeard
<1>3. abandoned \subseteq abandoned'
  BY DEF stop_join, stop_timed_join
<1>4. pc[m_thread] # "exit" => m_thread \in abandoned'
  BY DEF stop_join, stop_timed_join
<1>5. Owned'
  BY <1>1, <1>3, <1>4 DEF Owned, Running, Alive
<1> QED
  BY <1>2, <1>5

\* Every step of the runner keeps the invariant.
LEMMA RunnerSteps ==
  ASSUME RunnerInv, Next \/ UNCHANGED vars
  PROVE  RunnerInv'
<1>0. CASE start \/ start_work
  <2>1. UNCHANGED <<m_thread, created, abandoned, pc>>
    BY <1>0 DEF start, start_work
  <2> QED
    BY <1>0, <2>1, RunnerCalls
<1>1. CASE start_thread \/ run
  BY <1>1, RunnerStarts
<1>2. CASE \E timed \in BOOLEAN : stop_begin(timed)
  BY <1>2, RunnerCalls DEF stop_begin
<1>3. CASE interrupt_begin \/ post \/ op_begin \/ op_end
  <2>1. UNCHANGED <<m_thread, created, abandoned, pc>>
    BY <1>3 DEF interrupt_begin, post, op_begin, op_end, runner
  <2> QED
    BY <1>3, <2>1, RunnerCalls
<1>4. CASE stop_join \/ stop_timed_join
  BY <1>4, RunnerJoins
<1>5. CASE StopSteps /\ ~(stop_join \/ stop_timed_join)
  <2>1. UNCHANGED <<m_thread, created, abandoned, pc>>
    BY <1>5 DEF StopSteps, interrupt_work, interrupt_service, runner
  <2> QED
    BY <1>5, <2>1, RunnerCalls DEF StopSteps
<1>6. CASE \E t \in Threads : do_run(t)
  BY <1>6, RunnerRuns
<1>7. CASE UNCHANGED vars
  BY <1>7 DEF vars, RunnerInv, RunnerType, Owned, Starting, Stopping, StopHeard, Running, Alive
<1> QED
  BY <1>0, <1>1, <1>2, <1>3, <1>4, <1>5, <1>6, <1>7 DEF Next

\* The invariant of io_service_runner.
LEMMA RunnerAlways == ServicesSpec => []RunnerInv
<1>1. ServicesInit => RunnerInv
  BY RunnerInitially DEF ServicesInit
<1>2. RunnerInv /\ [ServicesNext]_servicesVars => RunnerInv'
  <2> SUFFICES ASSUME RunnerInv, [ServicesNext]_servicesVars PROVE RunnerInv'
    OBVIOUS
  <2>1. Next \/ UNCHANGED vars
    BY DEF ServicesNext, servicesVars, vars
  <2> QED
    BY <2>1, RunnerSteps
<1> QED
  BY <1>1, <1>2, PTL DEF ServicesSpec

(***************************************************************************)
(* Once io_service_runner::stop() has returned no thread executes the      *)
(* io_service, save those that a timed stop() gave up and the caller of    *)
(* run(): for any number of threads, handlers, operations and interrupts.  *)
(***************************************************************************)
THEOREM RunnerJoinedOrAbandoned == ServicesSpec => []JoinedOrAbandoned
<1>1. RunnerInv => JoinedOrAbandoned
  <2>1. NoThread \notin Threads
    BY IoServiceRunnerAssumption DEF Threads, NoThread
  <2> QED
    BY <2>1 DEF RunnerInv, Owned, Running, JoinedOrAbandoned
<1> QED
  BY <1>1, RunnerAlways, PTL

(***************************************************************************)
(* io_service_runner::stop() is never undone by the thread it waits for:   *)
(* the reset() of do_run comes before the read of m_continue that ends the *)
(* loop, so the flag of io_service::stop() is up for as long as the thread *)
(* still needs it.  It is the safety half of StopReturns.                  *)
(***************************************************************************)
THEOREM StopIsHeard == ServicesSpec => []StopHeard
<1>1. RunnerInv => StopHeard
  BY DEF RunnerInv
<1> QED
  BY <1>1, RunnerAlways, PTL

-----------------------------------------------------------------------------
(* The task threads.                                                       *)

Stages == {"awake", "asleep", "running", "ended"}

\* The tasks have run, and wait, in the order of post().
InOrder ==
  /\ t_run \in Seq(Nat) /\ t_tasks \in Seq(Nat) /\ t_posted \in Nat
  /\ Len(t_run) + Len(t_tasks) = t_posted
  /\ \A i \in 1 .. Len(t_run) : t_run[i] = i
  /\ \A i \in 1 .. Len(t_tasks) : t_tasks[i] = Len(t_run) + i

TaskInv == t_workers \in Seq(Stages) /\ t_notices \in Nat /\ InOrder /\ NoLostWakeup

\* The instance of FiniteSets inside Tasks is FiniteSets.
LEMMA SameCardinality ==
  ASSUME NEW S
  PROVE  Tasks!Cardinality(S) = Cardinality(S)
  BY DEF Tasks!Cardinality, Cardinality

\* The threads awake are finitely many.
LEMMA AwakeFinite ==
  ASSUME t_workers \in Seq(Stages)
  PROVE  IsFiniteSet(Tasks!Awake)
<1>1. DOMAIN t_workers = 1 .. Len(t_workers) /\ Len(t_workers) \in Nat
  BY LenProperties
<1>2. IsFiniteSet(DOMAIN t_workers)
  BY <1>1, FS_Interval
<1>3. Tasks!Awake \subseteq DOMAIN t_workers
  BY DEF Tasks!Awake
<1> QED
  BY <1>2, <1>3, FS_Subset

\* A worker moves to another stage.
LEMMA WorkerMoves ==
  ASSUME t_workers \in Seq(Stages), NEW w \in DOMAIN t_workers, NEW s \in Stages,
         t_workers' = [t_workers EXCEPT ![w] = s]
  PROVE  /\ t_workers' \in Seq(Stages)
         /\ IsFiniteSet(Tasks!Awake)
         /\ Tasks!Awake' = IF s = "awake" THEN Tasks!Awake \cup {w} ELSE Tasks!Awake \ {w}
         /\ Tasks!Asleep' = IF s = "asleep" THEN Tasks!Asleep \cup {w} ELSE Tasks!Asleep \ {w}
<1>1. DOMAIN t_workers = 1 .. Len(t_workers) /\ Len(t_workers) \in Nat
  BY LenProperties
<1>2. t_workers' \in Seq(Stages) /\ DOMAIN t_workers' = DOMAIN t_workers
  BY <1>1, ExceptSeq
<1>3. \A i \in DOMAIN t_workers : t_workers'[i] = IF i = w THEN s ELSE t_workers[i]
  OBVIOUS
<1>4. IsFiniteSet(Tasks!Awake)
  BY AwakeFinite
<1> QED
  BY <1>2, <1>3, <1>4 DEF Tasks!Awake, Tasks!Asleep

\* No thread and no task.
LEMMA TasksInitially == Tasks!TaskInit => TaskInv
<1> SUFFICES ASSUME Tasks!TaskInit PROVE TaskInv
  OBVIOUS
<1>1. /\ t_workers = <<>> /\ t_tasks = <<>> /\ t_run = <<>> /\ t_posted = 0 /\ t_notices = 0
      /\ t_workers \in Seq(Stages) /\ t_tasks \in Seq(Nat) /\ t_run \in Seq(Nat)
      /\ Len(t_tasks) = 0 /\ Len(t_run) = 0 /\ DOMAIN t_workers = {}
  BY DEF Tasks!TaskInit
<1>2. InOrder
  BY <1>1 DEF InOrder
<1>3. NoLostWakeup
  BY <1>1 DEF NoLostWakeup, Tasks!NoLostWakeup, Tasks!Asleep
<1> QED
  BY <1>1, <1>2, <1>3 DEF TaskInv

\* start(): a thread more, on its way to the queue.
LEMMA TaskStarts ==
  ASSUME TaskInv, Tasks!start
  PROVE  TaskInv'
<1> DEFINE n == Len(t_workers)
<1> USE DEF TaskInv
<1>1. /\ t_workers' = Append(t_workers, "awake") /\ t_tasks' = t_tasks
      /\ t_run' = t_run /\ t_posted' = t_posted /\ t_notices' = t_notices
  BY DEF Tasks!start
<1>2. /\ t_workers' \in Seq(Stages) /\ DOMAIN t_workers' = 1 .. n + 1 /\ n \in Nat
      /\ DOMAIN t_workers = 1 .. n
      /\ \A i \in 1 .. n : t_workers'[i] = t_workers[i]
      /\ t_workers'[n + 1] = "awake"
  BY <1>1, AppendProperties, LenProperties DEF Stages
<1>3. Tasks!Asleep' = Tasks!Asleep /\ Tasks!Awake' = Tasks!Awake \cup {n + 1}
  BY <1>2 DEF Tasks!Asleep, Tasks!Awake
<1>4. IsFiniteSet(Tasks!Awake) /\ n + 1 \notin Tasks!Awake
  <2>1. IsFiniteSet(DOMAIN t_workers)
    BY <1>2, FS_Interval
  <2>2. Tasks!Awake \subseteq DOMAIN t_workers /\ n + 1 \notin DOMAIN t_workers
    BY <1>2 DEF Tasks!Awake
  <2> QED
    BY <2>1, <2>2, FS_Subset
<1>5. /\ Cardinality(Tasks!Awake') = Cardinality(Tasks!Awake) + 1
      /\ Cardinality(Tasks!Awake) \in Nat
  BY <1>3, <1>4, FS_AddElement, FS_CardinalityType
<1>6. Len(t_tasks) \in Nat
  BY LenProperties DEF InOrder
<1>7. NoLostWakeup'
  BY <1>1, <1>3, <1>5, <1>6, SameCardinality DEF NoLostWakeup, Tasks!NoLostWakeup
<1> QED
  BY <1>1, <1>2, <1>7 DEF InOrder

\* post(): one task more, and a notification for it to come.
LEMMA TaskPosts ==
  ASSUME TaskInv, Tasks!post
  PROVE  TaskInv'
<1> USE DEF TaskInv
<1> DEFINE n == Len(t_tasks)
<1>1. t_tasks' = Append(t_tasks, t_posted + 1) /\ t_posted' = t_posted + 1 /\ t_run' = t_run
  BY DEF Tasks!post
<1>2. /\ n \in Nat /\ t_tasks' \in Seq(Nat) /\ Len(t_tasks') = n + 1 /\ Len(t_run) \in Nat
      /\ \A i \in 1 .. n : t_tasks'[i] = t_tasks[i]
      /\ t_tasks'[n + 1] = t_posted + 1
  BY <1>1, AppendProperties, LenProperties DEF InOrder
<1>3. InOrder'
  <2>1. t_posted = Len(t_run) + n /\ t_posted \in Nat
    BY DEF InOrder
  <2>2. \A i \in 1 .. n + 1 : t_tasks'[i] = Len(t_run) + i
    <3> TAKE i \in 1 .. n + 1
    <3>1. i \in 1 .. n => t_tasks'[i] = Len(t_run) + i
      BY <1>2 DEF InOrder
    <3>2. i = n + 1 => t_tasks'[i] = Len(t_run) + i
      BY <1>2, <2>1
    <3>3. i \in 1 .. n \/ i = n + 1
      BY <1>2
    <3> QED
      BY <3>1, <3>2, <3>3
  <2>3. Len(t_run') + Len(t_tasks') = t_posted' /\ t_posted' \in Nat
    BY <1>1, <1>2, <2>1
  <2> QED
    BY <1>1, <1>2, <2>2, <2>3 DEF InOrder
<1>4. t_workers' = t_workers /\ t_notices' = t_notices + 1
  BY DEF Tasks!post
<1>5. Tasks!Asleep' = Tasks!Asleep /\ Tasks!Awake' = Tasks!Awake
  BY <1>4 DEF Tasks!Asleep, Tasks!Awake
<1>6. Cardinality(Tasks!Awake) \in Nat
  BY AwakeFinite, FS_CardinalityType
<1>7. NoLostWakeup'
  BY <1>2, <1>4, <1>5, <1>6, SameCardinality DEF NoLostWakeup, Tasks!NoLostWakeup
<1> QED
  BY <1>3, <1>4, <1>7

\* notify_one(): one notification less, and one sleeping thread woken for it.
LEMMA TaskNotifies ==
  ASSUME TaskInv, Tasks!notify_one
  PROVE  TaskInv'
<1> USE DEF TaskInv
<1>1. /\ t_notices' = t_notices - 1 /\ t_notices' \in Nat
      /\ t_tasks' = t_tasks /\ t_posted' = t_posted /\ t_run' = t_run
  BY DEF Tasks!notify_one
<1>2. InOrder' /\ Len(t_tasks) \in Nat
  BY <1>1, LenProperties DEF InOrder
<1>3. CASE Tasks!Asleep = {}
  <2>1. t_workers' = t_workers
    BY <1>3 DEF Tasks!notify_one
  <2>2. Tasks!Asleep' = {}
    BY <1>3, <2>1 DEF Tasks!Asleep
  <2> QED
    BY <1>1, <1>2, <2>1, <2>2, SameCardinality DEF NoLostWakeup, Tasks!NoLostWakeup
<1>4. CASE Tasks!Asleep # {}
  <2>1. PICK w \in Tasks!Asleep : t_workers' = [t_workers EXCEPT ![w] = "awake"]
    BY <1>4 DEF Tasks!notify_one
  <2>2. w \in DOMAIN t_workers /\ w \notin Tasks!Awake /\ "awake" \in Stages
    BY DEF Tasks!Asleep, Tasks!Awake, Stages
  <2>3. /\ t_workers' \in Seq(Stages) /\ IsFiniteSet(Tasks!Awake)
        /\ Tasks!Awake' = Tasks!Awake \cup {w}
    BY <2>1, <2>2, WorkerMoves
  <2>4. /\ Cardinality(Tasks!Awake') = Cardinality(Tasks!Awake) + 1
        /\ Cardinality(Tasks!Awake) \in Nat
    BY <2>2, <2>3, FS_AddElement, FS_CardinalityType
  <2>5. Len(t_tasks) <= Cardinality(Tasks!Awake) + t_notices
    BY <1>4, SameCardinality DEF NoLostWakeup, Tasks!NoLostWakeup
  <2>6. Len(t_tasks') <= Cardinality(Tasks!Awake') + t_notices'
    BY <1>1, <1>2, <2>4, <2>5
  <2> QED
    BY <1>1, <1>2, <2>3, <2>6, SameCardinality DEF NoLostWakeup, Tasks!NoLostWakeup
<1> QED
  BY <1>3, <1>4

\* pop_or_wait(): a thread takes the first task, or sleeps when there is none.
LEMMA TaskTaken ==
  ASSUME TaskInv, NEW w, Tasks!pop_or_wait(w)
  PROVE  TaskInv'
<1> USE DEF TaskInv
<1> DEFINE n == Len(t_tasks)
<1>1. w \in Tasks!Awake /\ w \in DOMAIN t_workers /\ t_posted' = t_posted /\ t_notices' = t_notices
  BY DEF Tasks!pop_or_wait, Tasks!Awake
<1>2. CASE t_tasks = <<>>
  <2>1. t_workers' = [t_workers EXCEPT ![w] = "asleep"] /\ t_tasks' = t_tasks /\ t_run' = t_run
    BY <1>2 DEF Tasks!pop_or_wait
  <2>2. t_workers' \in Seq(Stages) /\ IsFiniteSet(Tasks!Awake) /\ Tasks!Awake' = Tasks!Awake \ {w}
    BY <1>1, <2>1, WorkerMoves DEF Stages
  <2>3. Cardinality(Tasks!Awake') \in Nat
    BY <2>2, FS_RemoveElement, FS_CardinalityType
  <2>4. Len(t_tasks') <= Cardinality(Tasks!Awake') + t_notices'
    BY <1>1, <1>2, <2>1, <2>3
  <2>5. InOrder'
    BY <1>1, <2>1 DEF InOrder
  <2> QED
    BY <1>1, <2>2, <2>4, <2>5, SameCardinality DEF NoLostWakeup, Tasks!NoLostWakeup
<1>3. CASE t_tasks # <<>>
  <2>1. /\ t_workers' = [t_workers EXCEPT ![w] = "running"]
        /\ t_run' = Append(t_run, Head(t_tasks)) /\ t_tasks' = Tail(t_tasks)
    BY <1>3 DEF Tasks!pop_or_wait
  <2>2. /\ t_workers' \in Seq(Stages) /\ IsFiniteSet(Tasks!Awake) /\ Tasks!Awake' = Tasks!Awake \ {w}
        /\ Tasks!Asleep' = Tasks!Asleep \ {w} /\ w \notin Tasks!Asleep
    BY <1>1, <2>1, WorkerMoves DEF Stages, Tasks!Awake, Tasks!Asleep
  <2>3. /\ Cardinality(Tasks!Awake') = Cardinality(Tasks!Awake) - 1
        /\ Cardinality(Tasks!Awake) \in Nat
    BY <1>1, <2>2, FS_RemoveElement, FS_CardinalityType
  <2>4. /\ t_tasks' \in Seq(Nat) /\ Head(t_tasks) \in Nat /\ Len(t_tasks') = n - 1 /\ n \in Nat /\ n > 0
        /\ \A i \in 1 .. n - 1 : t_tasks'[i] = t_tasks[i + 1]
        /\ Head(t_tasks) = t_tasks[1]
    BY <1>3, <2>1, HeadTailProperties, LenProperties, EmptySeq DEF InOrder
  <2>5. NoLostWakeup'
    BY <1>1, <2>2, <2>3, <2>4, SameCardinality DEF NoLostWakeup, Tasks!NoLostWakeup
  <2>6. /\ t_run' \in Seq(Nat) /\ Len(t_run') = Len(t_run) + 1 /\ Len(t_run) \in Nat
        /\ \A i \in 1 .. Len(t_run) : t_run'[i] = t_run[i]
        /\ t_run'[Len(t_run) + 1] = t_tasks[1]
    BY <2>1, <2>4, AppendProperties, LenProperties DEF InOrder
  <2>7. InOrder'
    <3>1. t_tasks[1] = Len(t_run) + 1
      BY <2>4 DEF InOrder
    <3>2. \A i \in 1 .. Len(t_run') : t_run'[i] = i
      <4> TAKE i \in 1 .. Len(t_run')
      <4>1. i \in 1 .. Len(t_run) \/ i = Len(t_run) + 1
        BY <2>6
      <4> QED
        BY <2>6, <3>1, <4>1 DEF InOrder
    <3>3. \A i \in 1 .. Len(t_tasks') : t_tasks'[i] = Len(t_run') + i
      <4> TAKE i \in 1 .. Len(t_tasks')
      <4>1. t_tasks'[i] = t_tasks[i + 1] /\ i + 1 \in 1 .. n /\ i \in Nat
        BY <2>4
      <4>2. t_tasks[i + 1] = Len(t_run) + (i + 1)
        BY <4>1 DEF InOrder
      <4> QED
        BY <2>6, <4>1, <4>2
    <3>4. Len(t_run') + Len(t_tasks') = t_posted' /\ t_posted' \in Nat
      <4>1. t_posted = Len(t_run) + n /\ t_posted \in Nat
        BY DEF InOrder
      <4> QED
        BY <1>1, <2>4, <2>6, <4>1
    <3> QED
      BY <2>4, <2>6, <3>2, <3>3, <3>4 DEF InOrder
  <2> QED
    BY <1>1, <2>2, <2>5, <2>7
<1> QED
  BY <1>2, <1>3

\* Every step of the task threads keeps the invariant.
LEMMA TaskSteps ==
  ASSUME TaskInv, Tasks!TaskNext \/ UNCHANGED taskVars
  PROVE  TaskInv'
<1>1. CASE UNCHANGED <<t_workers, t_tasks, t_posted, t_notices, t_run>>
  BY <1>1 DEF TaskInv, InOrder, NoLostWakeup, Tasks!NoLostWakeup, Tasks!Asleep, Tasks!Awake
<1>2. CASE (\E call \in {"start", "stop", "wait"} : Tasks!Enter(call)) \/ Tasks!stop \/ Tasks!timed_stop
  <2>1. UNCHANGED <<t_workers, t_tasks, t_posted, t_notices, t_run>>
    BY <1>2 DEF Tasks!Enter, Tasks!stop, Tasks!timed_stop
  <2> QED
    BY <1>1, <2>1
<1>3. CASE Tasks!start
  BY <1>3, TaskStarts
<1>4. CASE Tasks!post \/ Tasks!notify_one
  BY <1>4, TaskPosts, TaskNotifies
<1>5. ASSUME NEW w, Tasks!pop_or_wait(w) PROVE TaskInv'
  BY <1>5, TaskTaken
<1>6. ASSUME NEW w, Tasks!run(w) \/ Tasks!SpuriousWake(w) PROVE TaskInv'
  <2> USE DEF TaskInv
  <2>1. /\ w \in DOMAIN t_workers /\ t_tasks' = t_tasks /\ t_posted' = t_posted /\ t_run' = t_run
        /\ t_notices' = t_notices /\ w \notin Tasks!Awake
    BY <1>6 DEF Tasks!run, Tasks!SpuriousWake, Tasks!Asleep, Tasks!Awake
  <2>2. PICK s \in {"awake", "ended"} : t_workers' = [t_workers EXCEPT ![w] = s]
    BY <1>6 DEF Tasks!run, Tasks!SpuriousWake
  <2>3. s \in Stages
    BY DEF Stages
  <2>4. /\ t_workers' \in Seq(Stages) /\ IsFiniteSet(Tasks!Awake)
        /\ Tasks!Asleep' \subseteq Tasks!Asleep
        /\ Tasks!Awake' = Tasks!Awake \cup {w} \/ Tasks!Awake' = Tasks!Awake
    <3>1. t_workers \in Seq(Stages)
      OBVIOUS
    <3>2. /\ t_workers' \in Seq(Stages) /\ IsFiniteSet(Tasks!Awake)
          /\ Tasks!Awake' = IF s = "awake" THEN Tasks!Awake \cup {w} ELSE Tasks!Awake \ {w}
          /\ Tasks!Asleep' = IF s = "asleep" THEN Tasks!Asleep \cup {w} ELSE Tasks!Asleep \ {w}
      <4>1. w \in DOMAIN t_workers
        BY <2>1
      <4> HIDE DEF TaskInv
      <4> QED
        BY <2>2, <2>3, <3>1, <4>1, WorkerMoves
    <3>3. s # "asleep" /\ (s = "awake" \/ Tasks!Awake \ {w} = Tasks!Awake)
      BY <2>1
    <3> QED
      BY <3>2, <3>3
  <2>5. Cardinality(Tasks!Awake') >= Cardinality(Tasks!Awake) /\ Cardinality(Tasks!Awake) \in Nat
    <3>1. Cardinality(Tasks!Awake \cup {w}) = Cardinality(Tasks!Awake) + 1
      BY <2>1, <2>4, FS_AddElement
    <3>2. Cardinality(Tasks!Awake) \in Nat
      BY <2>4, FS_CardinalityType
    <3>3. CASE Tasks!Awake' = Tasks!Awake
      BY <3>2, <3>3
    <3>4. CASE Tasks!Awake' = Tasks!Awake \cup {w}
      <4>1. Cardinality(Tasks!Awake') = Cardinality(Tasks!Awake) + 1
        BY <3>1, <3>4
      <4> QED
        BY <3>2, <4>1
    <3> QED
      BY <2>4, <3>3, <3>4
  <2>6. /\ Cardinality(Tasks!Awake') \in Nat /\ Len(t_tasks) \in Nat
    BY <2>4, FS_AddElement, FS_CardinalityType, LenProperties DEF InOrder
  <2>7. NoLostWakeup'
    BY <2>1, <2>4, <2>5, <2>6, SameCardinality DEF NoLostWakeup, Tasks!NoLostWakeup
  <2> QED
    BY <2>1, <2>4, <2>7 DEF InOrder
<1>7. CASE UNCHANGED taskVars
  BY <1>1, <1>7 DEF taskVars
<1> QED
  BY <1>2, <1>3, <1>4, <1>5, <1>6, <1>7 DEF Tasks!TaskNext

\* The invariant of thread_task_service.
LEMMA TasksAlways == ServicesSpec => []TaskInv
<1>1. ServicesInit => TaskInv
  BY TasksInitially DEF ServicesInit
<1>2. TaskInv /\ [ServicesNext]_servicesVars => TaskInv'
  <2> SUFFICES ASSUME TaskInv, [ServicesNext]_servicesVars PROVE TaskInv'
    OBVIOUS
  <2>1. Tasks!TaskNext \/ UNCHANGED taskVars
    BY DEF ServicesNext, servicesVars, taskVars
  <2> QED
    BY <2>1, TaskSteps
<1> QED
  BY <1>1, <1>2, PTL DEF ServicesSpec

(***************************************************************************)
(* thread_task_service never loses a wakeup, for any number of threads and *)
(* tasks: while a thread sleeps in pop_or_wait every task in m_tasks has a *)
(* thread of its own on the way to it, or the notify_one of a post() that  *)
(* has unlocked m_mutex is still to come, although notify_one wakes only   *)
(* one and a thread that woke finds the task taken by another.             *)
(***************************************************************************)
THEOREM WakeupsAreNotLost == ServicesSpec => []NoLostWakeup
<1>1. TaskInv => NoLostWakeup
  BY DEF TaskInv
<1> QED
  BY <1>1, TasksAlways, PTL

\* The tasks taken so far are the first ones posted, in that order.
TakenInOrder == t_run = [i \in 1 .. Len(t_run) |-> i]

(***************************************************************************)
(* thread_task_service takes tasks in the order of post(), each once, with *)
(* any number of threads at the queue (the safety half of OwnerReturns).   *)
(***************************************************************************)
THEOREM TasksAreTakenInOrder == ServicesSpec => []TakenInOrder
<1>1. TaskInv => TakenInOrder
  <2> SUFFICES ASSUME TaskInv PROVE TakenInOrder
    OBVIOUS
  <2>1. t_run \in Seq(Nat) /\ \A i \in 1 .. Len(t_run) : t_run[i] = i
    BY DEF TaskInv, InOrder
  <2>2. t_run = [i \in 1 .. Len(t_run) |-> t_run[i]]
    BY <2>1, LenProperties
  <2> QED
    BY <2>1, <2>2 DEF TakenInOrder
<1> QED
  BY <1>1, TasksAlways, PTL

-----------------------------------------------------------------------------
(* The TCP server.                                                         *)

Elems(q)    == {q[i] : i \in DOMAIN q}
Distinct(q) == \A i, j \in DOMAIN q : q[i] = q[j] => i = j

Completions == [sock : Nat, res : {"ok", "again", "aborted", "invalid"}]

ServerType ==
  /\ native \in {"closed", "open", "listening"} /\ careful \in BOOLEAN
  /\ sockets \in Nat /\ m_new_client \in Nat
  /\ accepts \in Seq(Nat) /\ accepted \in Seq(Completions)
  /\ offered \in Seq(Nat) /\ gone \in Seq(Nat)
  /\ m_sessions \in SUBSET Nat /\ failing \in SUBSET m_sessions

\* What keeps a listening acceptor going, however often it was started: an
\* accept in flight, or a completion whose handler will start one.
GoesOn ==
  native = "listening" =>
    accepts # <<>> \/ \E i \in DOMAIN accepted : accepted[i].res # "invalid"

\* The one accept of a server that was started carefully, and its socket.
Pending ==
  \/ accepts = <<>> /\ accepted = <<>> /\ native # "listening"
  \/ accepts = <<m_new_client>> /\ accepted = <<>> /\ native = "listening"
  \/ /\ accepts = <<>> /\ native # "open"
     /\ \E r \in {"ok", "again", "aborted"} :
          /\ accepted = <<Servers!Done(m_new_client, r)>>
          /\ r = "ok" => m_new_client \in connected

\* That socket has not been offered; sockets are numbered as they are made.
Fresh ==
  /\ accepts # <<>> \/ accepted # <<>> => m_new_client \notin Elems(offered)
  /\ m_new_client <= sockets /\ \A s \in Elems(offered) : s <= sockets

Offered == Elems(offered) \subseteq connected /\ Distinct(offered)

\* A session that ended is not in m_sessions again.
SessionsOnce ==
  /\ Distinct(gone) /\ m_sessions \subseteq Elems(offered)
  /\ Elems(gone) \subseteq Elems(offered) \ m_sessions

ServerInv ==
  /\ ServerType /\ GoesOn
  /\ careful => Pending /\ Fresh /\ Offered /\ SessionsOnce

\* Appending an element adds it, and nothing twice if it is new.
LEMMA ElemsAppend ==
  ASSUME NEW E, NEW q \in Seq(E), NEW e \in E
  PROVE  /\ Elems(Append(q, e)) = Elems(q) \cup {e}
         /\ Distinct(q) /\ e \notin Elems(q) => Distinct(Append(q, e))
<1> DEFINE n == Len(q)
           a == Append(q, e)
<1>1. n \in Nat /\ DOMAIN q = 1 .. n /\ DOMAIN a = 1 .. n + 1
  BY LenProperties, AppendProperties
<1>2. (\A i \in 1 .. n : a[i] = q[i]) /\ a[n + 1] = e
  BY AppendProperties
<1> HIDE DEF a
<1>3. Elems(a) = Elems(q) \cup {e}
  BY <1>1, <1>2 DEF Elems
<1>4. ASSUME Distinct(q), e \notin Elems(q), NEW i \in DOMAIN a, NEW j \in DOMAIN a, a[i] = a[j]
      PROVE  i = j
  <2>1. \A k \in 1 .. n : a[k] # e
    BY <1>1, <1>2, <1>4 DEF Elems
  <2>2. (i \in 1 .. n \/ i = n + 1) /\ (j \in 1 .. n \/ j = n + 1)
    BY <1>1, <1>4
  <2> QED
    BY <1>1, <1>2, <1>4, <2>1, <2>2 DEF Distinct
<1> QED
  BY <1>3, <1>4 DEF Distinct, a

\* Closing the acceptor moves its accepts to the completions.
LEMMA CancelledAccepts ==
  ASSUME ServerType
  PROVE  /\ accepted \o Servers!Cancelled \in Seq(Completions)
         /\ accepts = <<>> => accepted \o Servers!Cancelled = accepted
         /\ accepts = <<m_new_client>> /\ accepted = <<>> =>
              accepted \o Servers!Cancelled = <<Servers!Done(m_new_client, "aborted")>>
<1>1. accepted \in Seq(Completions) /\ m_new_client \in Nat
  BY DEF ServerType
<1>2. accepts \in Seq(Nat) /\ Len(accepts) \in Nat /\ DOMAIN accepts = 1 .. Len(accepts)
  BY LenProperties DEF ServerType
<1>3. \A i \in 1 .. Len(accepts) : Servers!Done(accepts[i], "aborted") \in Completions
  BY <1>2 DEF Servers!Done, Completions
<1>4. Servers!Cancelled \in Seq(Completions)
  BY <1>2, <1>3, IsASeq DEF Servers!Cancelled
<1>5. accepts = <<>> => Servers!Cancelled = <<>>
  BY DEF Servers!Cancelled
<1>6. accepts = <<m_new_client>> => Servers!Cancelled = <<Servers!Done(m_new_client, "aborted")>>
  BY DEF Servers!Cancelled
<1> QED
  BY <1>1, <1>4, <1>5, <1>6, ConcatProperties, ConcatEmptySeq

\* start_accept keeps the types, and starts an accept on a listening acceptor.
LEMMA AcceptStarted ==
  ASSUME ServerType, NEW n \in {"closed", "open", "listening"}, NEW a \in Seq(Nat),
         NEW q \in Seq(Completions), Servers!start_accept(n, a, q)
  PROVE  /\ accepts' \in Seq(Nat) /\ accepted' \in Seq(Completions)
         /\ sockets' \in Nat /\ m_new_client' \in Nat
         /\ n = "listening" => accepts' # <<>>
<1>1. sockets \in Nat /\ m_new_client \in Nat
  BY DEF ServerType
<1>2. CASE n = "closed"
  BY <1>1, <1>2 DEF Servers!start_accept
<1>3. CASE n = "listening"
  <2>1. /\ accepts' = Append(a, sockets + 1) /\ accepted' = q
        /\ sockets' = sockets + 1 /\ m_new_client' = sockets + 1
    BY <1>3 DEF Servers!start_accept
  <2>2. sockets + 1 \in Nat
    BY <1>1
  <2>3. Append(a, sockets + 1) \in Seq(Nat) /\ Append(a, sockets + 1) # <<>>
    BY <2>2, AppendProperties
  <2> QED
    BY <2>1, <2>2, <2>3
<1>4. CASE n = "open"
  <2>1. /\ accepts' = a /\ accepted' = Append(q, Servers!Done(sockets + 1, "invalid"))
        /\ sockets' = sockets + 1 /\ m_new_client' = sockets + 1
    BY <1>4 DEF Servers!start_accept
  <2>2. Servers!Done(sockets + 1, "invalid") \in Completions
    BY <1>1 DEF Servers!Done, Completions
  <2>3. Append(q, Servers!Done(sockets + 1, "invalid")) \in Seq(Completions)
    BY <2>2, AppendProperties
  <2> QED
    BY <1>1, <1>4, <2>1, <2>3
<1> QED
  BY <1>2, <1>3, <1>4

\* Sockets are numbers.
LEMMA OfferedNat ==
  ASSUME ServerType
  PROVE  Elems(offered) \subseteq Nat
  BY LenProperties DEF ServerType, Elems

\* A new server.
LEMMA ServerInitially == Servers!Init => ServerInv
<1> SUFFICES ASSUME Servers!Init PROVE ServerInv
  OBVIOUS
<1> USE DEF Servers!Init
<1>1. ServerType
  BY EmptySeq DEF ServerType
<1>2. GoesOn /\ Pending
  BY DEF GoesOn, Pending
<1>3. Elems(offered) = {} /\ Elems(gone) = {} /\ Distinct(offered) /\ Distinct(gone)
  BY DEF Elems, Distinct
<1>4. Fresh /\ Offered /\ SessionsOnce
  BY <1>3 DEF Fresh, Offered, SessionsOnce
<1> QED
  BY <1>1, <1>2, <1>4 DEF ServerInv

\* tcp_server_impl::start.
LEMMA ServerStarts ==
  ASSUME ServerInv, Servers!start
  PROVE  ServerInv'
<1> USE DEF ServerInv
<1> DEFINE q == accepted \o Servers!Cancelled
<1>1. /\ careful' = (careful /\ accepted = <<>> /\ accepts = <<>>)
      /\ m_sessions' = {} /\ failing' = {}
      /\ connected' = connected /\ offered' = offered /\ gone' = gone
      /\ native' \in {"closed", "open", "listening"}
  BY DEF Servers!start, Servers!open, Servers!history
<1>2. /\ native' = "listening" => Servers!start_accept("listening", <<>>, q)
      /\ native' # "listening" =>
           accepts' = <<>> /\ accepted' = q /\ m_new_client' = m_new_client /\ sockets' = sockets
  BY DEF Servers!start, Servers!open
<1>3. q \in Seq(Completions)
  BY CancelledAccepts
<1> HIDE DEF q
<1>4. /\ accepts' \in Seq(Nat) /\ accepted' \in Seq(Completions)
      /\ sockets' \in Nat /\ m_new_client' \in Nat
      /\ native' = "listening" => accepts' # <<>>
  <2>1. <<>> \in Seq(Nat)
    BY EmptySeq
  <2>2. CASE native' = "listening"
    BY <1>2, <1>3, <2>1, <2>2, AcceptStarted
  <2>3. CASE native' # "listening"
    BY <1>2, <1>3, <2>1, <2>3 DEF ServerType
  <2> QED
    BY <2>2, <2>3
<1>5. ServerType'
  <2>1. careful' \in BOOLEAN
    BY <1>1
  <2> QED
    BY <1>1, <1>4, <2>1 DEF ServerType
<1>6. GoesOn'
  BY <1>4 DEF GoesOn
<1>7. ASSUME careful' PROVE Pending' /\ Fresh' /\ Offered' /\ SessionsOnce'
  <2>1. careful /\ accepted = <<>> /\ accepts = <<>>
    BY <1>1, <1>7
  <2>2. q = <<>>
    BY <2>1, CancelledAccepts DEF q
  <2>3. Offered' /\ SessionsOnce'
    BY <1>1, <2>1 DEF Offered, SessionsOnce
  <2>4. CASE native' = "listening"
    <3>1. /\ accepts' = Append(<<>>, sockets + 1) /\ accepted' = <<>>
          /\ sockets' = sockets + 1 /\ m_new_client' = sockets + 1
      BY <1>2, <2>2, <2>4 DEF Servers!start_accept
    <3>2. Pending'
      BY <2>4, <3>1 DEF Pending
    <3>3. \A o \in Elems(offered) : o \in Nat /\ o <= sockets
      BY <2>1, OfferedNat DEF Fresh
    <3>4. sockets \in Nat
      BY DEF ServerType
    <3>5. Fresh'
      BY <1>1, <3>1, <3>3, <3>4 DEF Fresh
    <3> QED
      BY <2>3, <3>2, <3>5
  <2>5. CASE native' # "listening"
    BY <1>1, <1>2, <2>1, <2>2, <2>3, <2>5 DEF Pending, Fresh
  <2> QED
    BY <2>4, <2>5
<1> QED
  BY <1>5, <1>6, <1>7

\* stop() and destroy().
LEMMA ServerStops ==
  ASSUME ServerInv, Servers!stop_server \/ Servers!destroy
  PROVE  ServerInv'
<1> USE DEF ServerInv
<1>1. /\ native' = "closed" /\ accepts' = <<>> /\ accepted' = accepted \o Servers!Cancelled
      /\ m_sessions' = {} /\ failing' = {} /\ m_new_client' = m_new_client /\ sockets' = sockets
      /\ careful' = careful /\ connected' = connected /\ offered' = offered /\ gone' = gone
  BY DEF Servers!stop_server, Servers!destroy, Servers!stop, Servers!history
<1>2. ServerType'
  BY <1>1, CancelledAccepts, EmptySeq DEF ServerType
<1>3. GoesOn'
  BY <1>1 DEF GoesOn
<1>4. ASSUME careful PROVE Pending' /\ Fresh' /\ Offered' /\ SessionsOnce'
  <2>1. Offered' /\ SessionsOnce'
    BY <1>1, <1>4 DEF Offered, SessionsOnce
  <2>2. CASE accepts = <<>>
    <3>1. accepted' = accepted
      BY <1>1, <2>2, CancelledAccepts
    <3> QED
      BY <1>1, <1>4, <2>1, <2>2, <3>1 DEF Pending, Fresh
  <2>3. CASE accepts # <<>>
    <3>1. accepts = <<m_new_client>> /\ accepted = <<>>
      BY <1>4, <2>3 DEF Pending
    <3>2. accepted' = <<Servers!Done(m_new_client, "aborted")>>
      BY <1>1, <3>1, CancelledAccepts
    <3> QED
      BY <1>1, <1>4, <2>1, <2>3, <3>2 DEF Pending, Fresh, Servers!Done
  <2> QED
    BY <2>2, <2>3
<1> QED
  BY <1>1, <1>2, <1>3, <1>4

\* A connection is offered in a socket that was never offered.
LEMMA ServerOffers ==
  ASSUME ServerInv, careful, NEW s \in Nat, s \in connected', s \notin Elems(offered),
         connected \subseteq connected', failing' = failing, gone' = gone,
         Servers!on_acceptor_client(s)
  PROVE  /\ offered' \in Seq(Nat)
         /\ m_sessions' \in SUBSET Nat /\ failing' \in SUBSET m_sessions'
         /\ Elems(offered') \subseteq Elems(offered) \cup {s}
         /\ Offered' /\ SessionsOnce'
<1> USE DEF ServerInv
<1>1. offered \in Seq(Nat) /\ m_sessions \in SUBSET Nat /\ failing \in SUBSET m_sessions
  BY DEF ServerType
<1>2. CASE attached
  <2>1. offered' = Append(offered, s) /\ m_sessions' \in {m_sessions, m_sessions \cup {s}}
    BY <1>2 DEF Servers!on_acceptor_client
  <2>2. Elems(offered') = Elems(offered) \cup {s} /\ Distinct(offered') /\ offered' \in Seq(Nat)
    BY <1>1, <2>1, ElemsAppend, AppendProperties DEF Offered
  <2> QED
    BY <1>1, <2>1, <2>2 DEF Offered, SessionsOnce
<1>3. CASE ~attached
  <2>1. offered' = offered /\ m_sessions' = m_sessions
    BY <1>3 DEF Servers!on_acceptor_client
  <2> QED
    BY <1>1, <2>1 DEF Offered, SessionsOnce
<1> QED
  BY <1>2, <1>3

\* Offering a connection keeps the types.
LEMMA OfferType ==
  ASSUME ServerType, NEW s \in Nat, failing' = failing, Servers!on_acceptor_client(s)
  PROVE  offered' \in Seq(Nat) /\ m_sessions' \in SUBSET Nat /\ failing' \in SUBSET m_sessions'
<1>1. offered \in Seq(Nat) /\ m_sessions \in SUBSET Nat /\ failing \in SUBSET m_sessions
  BY DEF ServerType
<1>2. Append(offered, s) \in Seq(Nat)
  BY <1>1, AppendProperties
<1> QED
  BY <1>1, <1>2 DEF Servers!on_acceptor_client

\* feed_client().
LEMMA ServerFed ==
  ASSUME ServerInv, Servers!feed_client
  PROVE  ServerInv'
<1> DEFINE s == sockets + 1
<1> USE DEF ServerInv
<1>1. /\ sockets' = s /\ connected' = connected \cup {s} /\ Servers!on_acceptor_client(s)
      /\ native' = native /\ m_new_client' = m_new_client /\ accepts' = accepts
      /\ accepted' = accepted /\ careful' = careful /\ failing' = failing /\ gone' = gone
  BY DEF Servers!feed_client
<1>2. s \in Nat /\ sockets \in Nat /\ m_new_client \in Nat
  BY DEF ServerType
<1>3. ServerType'
  BY <1>1, <1>2, OfferType DEF ServerType
<1>4. GoesOn'
  BY <1>1 DEF GoesOn
<1>5. ASSUME careful PROVE Pending' /\ Fresh' /\ Offered' /\ SessionsOnce'
  <2>1. \A o \in Elems(offered) : o <= sockets /\ o \in Nat
    BY <1>5, OfferedNat DEF Fresh
  <2>2. s \notin Elems(offered)
    BY <1>2, <2>1
  <2> HIDE DEF s
  <2>3. Elems(offered') \subseteq Elems(offered) \cup {s} /\ Offered' /\ SessionsOnce'
    BY <1>1, <1>2, <1>5, <2>2, ServerOffers
  <2>4. Pending'
    BY <1>1, <1>5 DEF Pending
  <2>5. Fresh'
    <3>1. m_new_client <= sockets /\ m_new_client # s /\ sockets <= s
      BY <1>2, <1>5 DEF Fresh, s
    <3>2. m_new_client' <= sockets' /\ \A o \in Elems(offered') : o <= sockets'
      BY <1>1, <1>2, <2>1, <2>3, <3>1
    <3>3. accepts' # <<>> \/ accepted' # <<>> => m_new_client' \notin Elems(offered')
      BY <1>1, <1>5, <2>3, <3>1 DEF Fresh
    <3> QED
      BY <3>2, <3>3 DEF Fresh
  <2> QED
    BY <2>3, <2>4, <2>5
<1> QED
  BY <1>1, <1>3, <1>4, <1>5

\* on_accept: the completion in hand, its socket, and the next accept.
LEMMA ServerAccepts ==
  ASSUME ServerInv, Servers!on_accept
  PROVE  ServerInv'
<1> DEFINE h == Head(accepted)
           q == Tail(accepted)
<1> USE DEF ServerInv
<1>1. /\ accepted # <<>> /\ native' = native /\ careful' = careful /\ failing' = failing
      /\ connected' = connected /\ gone' = gone
  BY DEF Servers!on_accept
<1>2. /\ accepted \in Seq(Completions) /\ accepts \in Seq(Nat) /\ m_new_client \in Nat
      /\ sockets \in Nat /\ native \in {"closed", "open", "listening"}
  BY DEF ServerType
<1>3. q \in Seq(Completions) /\ h \in Completions /\ h = accepted[1]
  BY <1>1, <1>2, HeadTailProperties
<1>4. CASE h.res = "invalid"
  <2>1. /\ accepted' = q /\ m_new_client' = m_new_client /\ accepts' = accepts
        /\ sockets' = sockets /\ m_sessions' = m_sessions /\ offered' = offered
    BY <1>4 DEF Servers!on_accept
  <2>2. ServerType'
    BY <1>1, <1>3, <2>1 DEF ServerType
  <2>3. GoesOn'
    <3>1. ASSUME NEW i \in DOMAIN accepted, accepted[i].res # "invalid"
          PROVE  i - 1 \in DOMAIN q /\ q[i - 1].res # "invalid"
      <4>1. /\ DOMAIN accepted = 1 .. Len(accepted) /\ Len(accepted) \in Nat
            /\ DOMAIN q = 1 .. Len(accepted) - 1
            /\ \A j \in 1 .. Len(accepted) - 1 : q[j] = accepted[j + 1]
        BY <1>1, <1>2, <1>3, HeadTailProperties, LenProperties
      <4>2. i # 1 /\ i \in 1 .. Len(accepted)
        BY <1>3, <1>4, <3>1, <4>1
      <4>3. i - 1 \in 1 .. Len(accepted) - 1 /\ (i - 1) + 1 = i
        BY <4>1, <4>2
      <4> QED
        BY <3>1, <4>1, <4>3
    <3> QED
      BY <1>1, <2>1, <3>1 DEF GoesOn
  <2>4. ~careful
    <3> SUFFICES ASSUME careful PROVE FALSE
      OBVIOUS
    <3>1. PICK r \in {"ok", "again", "aborted"} : accepted = <<Servers!Done(m_new_client, r)>>
      BY <1>1 DEF Pending
    <3> QED
      BY <1>4, <3>1 DEF Servers!Done
  <2> QED
    BY <1>1, <2>2, <2>3, <2>4
<1>5. CASE h.res # "invalid"
  <2>1. /\ Servers!start_accept(native, accepts, q)
        /\ h.res = "ok" => Servers!on_acceptor_client(m_new_client)
        /\ h.res # "ok" => m_sessions' = m_sessions /\ offered' = offered
    BY <1>5 DEF Servers!on_accept
  <2>2. /\ accepts' \in Seq(Nat) /\ accepted' \in Seq(Completions)
        /\ sockets' \in Nat /\ m_new_client' \in Nat
        /\ native = "listening" => accepts' # <<>>
    <3> HIDE DEF q
    <3> QED
      BY <1>2, <1>3, <2>1, AcceptStarted
  <2>3. offered' \in Seq(Nat) /\ m_sessions' \in SUBSET Nat /\ failing' \in SUBSET m_sessions'
    <3>1. CASE h.res = "ok"
      BY <1>1, <1>2, <2>1, <3>1, OfferType
    <3>2. CASE h.res # "ok"
      BY <1>1, <2>1, <3>2 DEF ServerType
    <3> QED
      BY <3>1, <3>2
  <2>4. ServerType'
    <3>1. gone' \in Seq(Nat) /\ careful' \in BOOLEAN
      BY <1>1 DEF ServerType
    <3> QED
      BY <1>1, <1>2, <2>2, <2>3, <3>1 DEF ServerType
  <2>5. GoesOn'
    BY <1>1, <2>2 DEF GoesOn
  <2>6. ASSUME careful PROVE Pending' /\ Fresh' /\ Offered' /\ SessionsOnce'
    <3>1. PICK r \in {"ok", "again", "aborted"} :
            /\ accepted = <<Servers!Done(m_new_client, r)>>
            /\ r = "ok" => m_new_client \in connected
      BY <1>1, <2>6 DEF Pending
    <3>2. accepts = <<>> /\ native # "open" /\ q = <<>> /\ h.res = r
      BY <1>1, <2>6, <3>1 DEF Pending, Servers!Done
    <3>3. m_new_client \notin Elems(offered) /\ m_new_client <= sockets
      BY <1>1, <2>6 DEF Fresh
    <3>4. \A o \in Elems(offered) : o \in Nat /\ o <= sockets
      BY <2>6, OfferedNat DEF Fresh
    <3>5. Elems(offered') \subseteq Elems(offered) \cup {m_new_client} /\ Offered' /\ SessionsOnce'
      <4>1. CASE r = "ok"
        <5>1. m_new_client \in connected' /\ connected \subseteq connected'
          BY <1>1, <3>1, <4>1
        <5> QED
          BY <1>1, <1>2, <2>1, <2>6, <3>2, <3>3, <4>1, <5>1, ServerOffers
      <4>2. CASE r # "ok"
        BY <1>1, <2>1, <2>6, <3>2, <4>2 DEF Offered, SessionsOnce
      <4> QED
        BY <4>1, <4>2
    <3>6. \A o \in Elems(offered') : o \in Nat /\ o <= sockets
      BY <1>2, <3>3, <3>4, <3>5
    <3>7. CASE native = "listening"
      <4>1. /\ accepts' = Append(<<>>, sockets + 1) /\ accepted' = <<>>
            /\ sockets' = sockets + 1 /\ m_new_client' = sockets + 1
        BY <2>1, <3>2, <3>7 DEF Servers!start_accept
      <4>2. Pending'
        BY <1>1, <3>7, <4>1 DEF Pending
      <4>3. Fresh'
        BY <1>2, <3>6, <4>1 DEF Fresh
      <4> QED
        BY <3>5, <4>2, <4>3
    <3>8. CASE native # "listening"
      <4>1. /\ accepts' = <<>> /\ accepted' = <<>> /\ m_new_client' = m_new_client
            /\ sockets' = sockets
        BY <1>2, <2>1, <3>2, <3>8 DEF Servers!start_accept
      <4> QED
        BY <1>1, <3>3, <3>5, <3>6, <3>8, <4>1 DEF Pending, Fresh
    <3> QED
      BY <3>7, <3>8
  <2> QED
    BY <1>1, <2>4, <2>5, <2>6
<1> QED
  BY <1>4, <1>5

\* The operating system completes the first accept.
LEMMA ServerConnects ==
  ASSUME ServerInv, Servers!NativeAccept
  PROVE  ServerInv'
<1> DEFINE a == Head(accepts)
<1> USE DEF ServerInv
<1>1. /\ native = "listening" /\ accepts # <<>> /\ accepts' = Tail(accepts)
      /\ native' = native /\ m_new_client' = m_new_client /\ sockets' = sockets
      /\ careful' = careful /\ m_sessions' = m_sessions /\ failing' = failing
      /\ offered' = offered /\ gone' = gone
  BY DEF Servers!NativeAccept, Servers!server
<1>2. PICK r \in {"ok", "again"} :
        /\ accepted' = Append(accepted, Servers!Done(a, r))
        /\ connected' = IF r = "ok" THEN connected \cup {a} ELSE connected
  BY DEF Servers!NativeAccept
<1>3. a \in Nat /\ accepts' \in Seq(Nat)
  BY <1>1, HeadTailProperties DEF ServerType
<1>4. Servers!Done(a, r) \in Completions /\ Servers!Done(a, r).res # "invalid"
  BY <1>3 DEF Servers!Done, Completions
<1>5. /\ accepted' \in Seq(Completions) /\ Len(accepted) + 1 \in DOMAIN accepted'
      /\ accepted'[Len(accepted) + 1] = Servers!Done(a, r)
  BY <1>2, <1>4, AppendProperties, LenProperties DEF ServerType
<1>6. ServerType'
  BY <1>1, <1>3, <1>5 DEF ServerType
<1>7. GoesOn'
  BY <1>4, <1>5 DEF GoesOn
<1>8. ASSUME careful PROVE Pending' /\ Fresh' /\ Offered' /\ SessionsOnce'
  <2>1. accepts = <<m_new_client>> /\ accepted = <<>>
    BY <1>1, <1>8 DEF Pending
  <2>2. a = m_new_client /\ accepts' = <<>>
    BY <1>1, <2>1
  <2>3. accepted' = <<Servers!Done(m_new_client, r)>>
    BY <1>2, <2>1, <2>2
  <2>4. (r = "ok" => m_new_client \in connected') /\ connected \subseteq connected'
    BY <1>2, <2>2
  <2>5. Pending'
    BY <1>1, <2>2, <2>3, <2>4 DEF Pending, Servers!Done
  <2>6. Fresh' /\ Offered' /\ SessionsOnce'
    BY <1>1, <1>8, <2>4 DEF Fresh, Offered, SessionsOnce
  <2> QED
    BY <2>5, <2>6
<1> QED
  BY <1>1, <1>6, <1>7, <1>8

\* A session fails, and on_session_error removes it.
LEMMA ServerSessions ==
  ASSUME ServerInv, Servers!SessionFails \/ Servers!on_session_error
  PROVE  ServerInv'
<1> USE DEF ServerInv
<1>1. /\ native' = native /\ m_new_client' = m_new_client /\ sockets' = sockets
      /\ accepts' = accepts /\ accepted' = accepted
      /\ careful' = careful /\ connected' = connected /\ offered' = offered
  BY DEF Servers!SessionFails, Servers!on_session_error, Servers!acceptor, Servers!history
<1>2. GoesOn' /\ (careful => Pending' /\ Fresh' /\ Offered')
  BY <1>1 DEF GoesOn, Pending, Fresh, Offered, Servers!Done
<1>3. CASE Servers!SessionFails
  <2>1. PICK s \in m_sessions \ failing : failing' = failing \cup {s}
    BY <1>3 DEF Servers!SessionFails
  <2>2. m_sessions' = m_sessions /\ gone' = gone
    BY <1>3 DEF Servers!SessionFails, Servers!history
  <2>3. ServerType'
    BY <1>1, <2>1, <2>2 DEF ServerType
  <2>4. careful => SessionsOnce'
    BY <1>1, <2>2 DEF SessionsOnce
  <2> QED
    BY <1>1, <1>2, <2>3, <2>4
<1>4. CASE Servers!on_session_error
  <2>1. PICK s \in failing : /\ failing' = failing \ {s} /\ m_sessions' = m_sessions \ {s}
                             /\ gone' = Append(gone, s)
    BY <1>4 DEF Servers!on_session_error
  <2>2. s \in m_sessions /\ s \in Nat /\ gone \in Seq(Nat)
    BY DEF ServerType
  <2>3. /\ gone' \in Seq(Nat) /\ Elems(gone') = Elems(gone) \cup {s}
        /\ Distinct(gone) /\ s \notin Elems(gone) => Distinct(gone')
    BY <2>1, <2>2, ElemsAppend, AppendProperties
  <2>4. ServerType'
    BY <1>1, <2>1, <2>3 DEF ServerType
  <2>5. careful => SessionsOnce'
    BY <1>1, <2>1, <2>2, <2>3 DEF SessionsOnce
  <2> QED
    BY <1>1, <1>2, <2>4, <2>5
<1> QED
  BY <1>3, <1>4

\* Every step of the server keeps the invariant.
LEMMA ServerSteps ==
  ASSUME ServerInv, Servers!Next \/ UNCHANGED serverVars
  PROVE  ServerInv'
<1>1. CASE UNCHANGED serverVars
  <2>1. /\ native' = native /\ m_new_client' = m_new_client /\ accepts' = accepts
        /\ accepted' = accepted /\ sockets' = sockets /\ careful' = careful
        /\ m_sessions' = m_sessions /\ failing' = failing /\ connected' = connected
        /\ offered' = offered /\ gone' = gone
    BY <1>1 DEF serverVars
  <2>2. ServerType' /\ GoesOn'
    BY <2>1 DEF ServerInv, ServerType, GoesOn
  <2>3. careful => Pending' /\ Fresh' /\ Offered' /\ SessionsOnce'
    BY <2>1 DEF ServerInv, Pending, Fresh, Offered, SessionsOnce, Servers!Done
  <2> QED
    BY <2>1, <2>2, <2>3 DEF ServerInv
<1> QED
  BY <1>1, ServerStarts, ServerStops, ServerFed, ServerAccepts, ServerSessions, ServerConnects
     DEF Servers!Next

\* The invariant implies that connections are accepted once.
LEMMA ServerInvSuffices ==
  ASSUME ServerInv
  PROVE  AcceptedOnce
<1> USE DEF ServerInv
<1>1. /\ Len(accepts) \in Nat /\ Len(accepted) \in Nat
      /\ accepts # <<>> => Len(accepts) > 0
      /\ accepted # <<>> => Len(accepted) > 0
      /\ accepted = <<>> => DOMAIN accepted = {}
  BY LenProperties, EmptySeq DEF ServerType
<1>2. native = "listening" => Len(accepts) + Len(accepted) >= 1
  BY <1>1 DEF GoesOn
<1>3. ASSUME native = "listening", careful
      PROVE  /\ Len(accepts) + Len(accepted) = 1
             /\ accepts # <<>> => Head(accepts) = m_new_client
             /\ accepted # <<>> => Head(accepted).sock = m_new_client
  <2>1. CASE accepts = <<m_new_client>> /\ accepted = <<>>
    BY <2>1
  <2>2. CASE \E r : accepts = <<>> /\ accepted = <<Servers!Done(m_new_client, r)>>
    BY <2>2 DEF Servers!Done
  <2> QED
    BY <1>3, <2>1, <2>2 DEF Pending
<1>4. Servers!OneAccept
  BY <1>2, <1>3 DEF Servers!OneAccept
<1>5. Servers!OfferedOnce
  BY DEF Servers!OfferedOnce, Offered, SessionsOnce, Elems, Distinct
<1> QED
  BY <1>4, <1>5 DEF AcceptedOnce

(***************************************************************************)
(* asio_tcp_acceptor never stops accepting while it listens, and as long   *)
(* as tcp_server_impl is not started over cancelled accepts it has exactly *)
(* one accept, for the socket it will offer: every connection is offered   *)
(* at most once and its session ends at most once.  For any number of      *)
(* sockets, starts and sessions.                                           *)
(***************************************************************************)
THEOREM ConnectionsAcceptedOnce == ServicesSpec => []AcceptedOnce
<1>1. ServicesInit => ServerInv
  BY ServerInitially DEF ServicesInit
<1>2. ServerInv /\ [ServicesNext]_servicesVars => ServerInv'
  <2> SUFFICES ASSUME ServerInv, [ServicesNext]_servicesVars PROVE ServerInv'
    OBVIOUS
  <2>1. Servers!Next \/ UNCHANGED serverVars
    BY DEF ServicesNext, servicesVars, serverVars
  <2> QED
    BY <2>1, ServerSteps
<1>3. ServerInv => AcceptedOnce
  BY ServerInvSuffices
<1> QED
  BY <1>1, <1>2, <1>3, PTL DEF ServicesSpec
=============================================================================
