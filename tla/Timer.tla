------------------------------- MODULE Timer -------------------------------
(***************************************************************************)
(* asio_once_timer and asio_periodic_timer, and the timer_holder that owns *)
(* one.  The native deadline timer, its expiry and the io_service's FIFO   *)
(* of completions are external (boost.asio): setting a new expiry cancels  *)
(* the pending waits, but a wait that has already expired keeps its        *)
(* success and is delivered even after stop() or another start().          *)
(***************************************************************************)
EXTENDS Integers, Sequences

CONSTANTS
    Intervals,   \* intervals start() is called with
    MaxStarts,   \* bound: calls of start()
    MaxNow       \* bound: the clock

VARIABLES
    periodic,    \* which of the two classes this object is
    m_started, m_interval, m_times, m_firetime,
    listening,   \* a listener is attached (not the dummy one)
    now,         \* the clock
    expiry,      \* expiry time of the native timer
    waits,       \* pending waits, each tagged with the start() it belongs to
    ready,       \* completed waits whose handler has not run
    starts,      \* calls of start() so far
    t0,          \* time of the last start()
    stale,       \* ticks since then that belong to an earlier start()
    elapsed      \* elapsed[s]: on_timer_elapsed callbacks of the s-th start()

vars == <<periodic, m_started, m_interval, m_times, m_firetime, listening, now,
          expiry, waits, ready, starts, t0, stale, elapsed>>

----------------------------------------------------------------------------
(* The native deadline timer (boost.asio, external).                       *)

Cancelled == [i \in DOMAIN waits |-> [gen |-> waits[i], res |-> "aborted"]]

Expire ==
    /\ waits # <<>> /\ now >= expiry
    /\ ready' = ready \o [i \in DOMAIN waits |-> [gen |-> waits[i], res |-> "ok"]]
    /\ waits' = <<>>
    /\ UNCHANGED <<periodic, m_started, m_interval, m_times, m_firetime,
                   listening, now, expiry, starts, t0, stale, elapsed>>

Clock ==
    /\ now < MaxNow
    /\ now' = now + 1
    /\ UNCHANGED <<periodic, m_started, m_interval, m_times, m_firetime,
                   listening, expiry, waits, ready, starts, t0, stale, elapsed>>

\* expires_at / expires_from_now and async_wait: cancels what is pending.
WaitUntil(t, gen, queue) ==
    /\ expiry' = t
    /\ ready' = queue \o Cancelled
    /\ waits' = <<gen>>

----------------------------------------------------------------------------
(* The timers.                                                             *)

\* start(): stop(), then do_start of the class, then m_started.
start(interval) ==
    /\ starts < MaxStarts
    /\ starts' = starts + 1
    /\ m_interval' = interval
    /\ m_started' = TRUE
    /\ WaitUntil(now + interval, starts + 1, ready)
    /\ IF periodic
       THEN m_firetime' = now + interval /\ m_times' = 0
       ELSE UNCHANGED <<m_firetime, m_times>>
    /\ t0' = now /\ stale' = 0
    /\ UNCHANGED <<periodic, listening, now, elapsed>>

\* stop() cancels the pending wait, not a completion already queued.
stop ==
    /\ m_started' = FALSE
    /\ ready' = ready \o Cancelled
    /\ waits' = <<>>
    /\ UNCHANGED <<periodic, m_interval, m_times, m_firetime, listening, now,
                   expiry, starts, t0, stale, elapsed>>

\* timer_holder::close() and its destructor.
close ==
    /\ listening
    /\ listening' = FALSE
    /\ m_started' = FALSE
    /\ ready' = ready \o Cancelled
    /\ waits' = <<>>
    /\ UNCHANGED <<periodic, m_interval, m_times, m_firetime, now, expiry,
                   starts, t0, stale, elapsed>>

notify(gen) ==
    elapsed' = IF listening THEN [elapsed EXCEPT ![gen] = @ + 1] ELSE elapsed

\* asio_timer::on_timer: m_started is neither read nor reset.
on_timer_once(gen) ==
    /\ notify(gen)
    /\ ready' = Tail(ready)
    /\ UNCHANGED <<m_times, m_firetime, expiry, waits, stale>>

\* Mutant: counts the tick but schedules from the current time, so the delay
\* of every handler adds up.
on_timer_periodic_drifts(gen) ==
    /\ m_times' = m_times + 1
    /\ m_firetime' = now + m_interval
    /\ WaitUntil(m_firetime', starts, Tail(ready))
    /\ stale' = IF gen < starts THEN stale + 1 ELSE stale
    /\ notify(gen)

\* asio_periodic_timer::on_timer on a started timer: counts, waits for the
\* next fire time, notifies.
on_timer_periodic(gen) ==
    /\ m_times' = m_times + 1
    /\ m_firetime' = m_firetime + m_interval
    /\ WaitUntil(m_firetime', starts, Tail(ready))
    /\ stale' = IF gen < starts THEN stale + 1 ELSE stale
    /\ notify(gen)

\* The io_service runs the handler of the first completed wait; an aborted one
\* and a tick of a stopped periodic timer are ignored.
on_timer_impl_callback ==
    /\ ready # <<>>
    /\ IF Head(ready).res = "aborted" \/ (periodic /\ ~m_started)
       THEN /\ ready' = Tail(ready)
            /\ UNCHANGED <<m_times, m_firetime, expiry, waits, stale, elapsed>>
       ELSE IF periodic THEN on_timer_periodic(Head(ready).gen)
                        ELSE on_timer_once(Head(ready).gen)
    /\ UNCHANGED <<periodic, m_started, m_interval, listening, now, starts, t0>>

----------------------------------------------------------------------------
Init ==
    /\ periodic \in BOOLEAN
    /\ m_started = FALSE
    /\ m_interval = 0 /\ m_times = 0 /\ m_firetime = 0
    /\ listening = TRUE
    /\ now = 0 /\ expiry = 0
    /\ waits = <<>> /\ ready = <<>>
    /\ starts = 0 /\ t0 = 0 /\ stale = 0
    /\ elapsed = [s \in 1 .. MaxStarts |-> 0]

Next ==
    \/ \E interval \in Intervals : start(interval)
    \/ stop
    \/ close
    \/ on_timer_impl_callback
    \/ Expire
    \/ Clock

Spec == Init /\ [][Next]_vars

----------------------------------------------------------------------------
(* Properties.                                                             *)

\* A started periodic timer never stalls and never runs two chains: it has
\* exactly one pending wait, or a tick is queued that will start the next one.
NextTickPending ==
    /\ Len(waits) <= 1
    /\ periodic /\ m_started =>
         waits # <<>> \/ \E i \in DOMAIN ready : ready[i].res = "ok"

\* The fire time of tick k is k intervals after start(), however late the
\* handlers ran: delays do not add up.
NoDrift ==
    periodic /\ starts > 0 =>
      /\ m_firetime = t0 + (m_times + 1) * m_interval
      /\ waits # <<>> => expiry = m_firetime

\* get_elapsed_time() is ahead of the clock only by the ticks that were already
\* queued when start() was called.
ElapsedBounded ==
    periodic /\ starts > 0 =>
      /\ m_times * m_interval <= (now - t0) + stale * m_interval
      /\ stale < starts

\* A once timer calls its listener at most once for each start().
OncePerStart == ~periodic => \A s \in 1 .. MaxStarts : elapsed[s] <= 1
=============================================================================
