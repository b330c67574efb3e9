-------------------------- MODULE IoServiceRunner --------------------------
(***************************************************************************)
(* io_service_runner, the thread behind asio_service: an owner thread      *)
(* calls start, stop, interrupt and post while runner threads execute      *)
(* do_run.  Every shared read and write of the code is a step of its own.  *)
(* The boost io_service (its queue, stopped flag and work count) is        *)
(* external.                                                               *)
(***************************************************************************)
EXTENDS Integers, Sequences, FiniteSets

CONSTANTS
    MaxThreads,  \* bound: threads created by start()
    MaxPosts,    \* bound: handlers that enter the io_service queue
    MaxOps,      \* bound: asynchronous operations outstanding at once
    MaxInterrupts \* bound: calls of interrupt()

ASSUME IoServiceRunnerAssumption ==
    /\ MaxThreads \in Nat /\ MaxPosts \in Nat
    /\ MaxOps \in Nat /\ MaxInterrupts \in Nat

Main == 0                       \* the thread that calls run() itself
Threads == 0 .. MaxThreads
NoThread == -1

VARIABLES
    owner,       \* where the owner thread is inside start(), stop() or interrupt()
    m_continue,
    m_work,      \* an io_service::work object exists
    m_thread,    \* the thread m_thread refers to, or NoThread
    created,     \* threads created so far
    abandoned,   \* threads a timed stop() no longer waits for
    pc,          \* where each runner thread is inside do_run
    stopped,     \* the io_service's stopped flag
    queue,       \* handlers ready to run
    ops,         \* asynchronous operations outstanding
    posted,      \* handlers queued so far
    done,        \* handlers that ran, in order
    interrupts   \* calls of interrupt() so far

vars == <<owner, m_continue, m_work, m_thread, created, abandoned, pc, stopped,
          queue, ops, posted, done, interrupts>>
runner == <<m_continue, m_work, m_thread, created, abandoned>>
service == <<stopped, queue, ops, posted, done, interrupts>>

Alive(t) == pc[t] \notin {"none", "exit"}
Running == {t \in Threads : Alive(t)}

----------------------------------------------------------------------------
(* The owner's calls.  start(), stop() and interrupt() take several steps; *)
(* run() and post() touch shared state once.                               *)

\* start() does not look at m_thread; the owner stops a runner before it starts
\* it again, but a thread a timed stop() gave up may still be in do_run and see
\* each of its writes: m_continue first ...
start ==
    /\ owner = "idle"
    /\ m_thread = NoThread /\ ~Alive(Main)
    /\ created < MaxThreads
    /\ m_continue' = TRUE
    /\ owner' = "start:work"
    /\ UNCHANGED <<m_work, m_thread, created, abandoned, pc, service>>

\* ... then m_work ...
start_work ==
    /\ owner = "start:work"
    /\ m_work' = TRUE
    /\ owner' = "start:thread"
    /\ UNCHANGED <<m_continue, m_thread, created, abandoned, pc, service>>

\* ... and the thread, which may run before m_thread refers to it; only the owner
\* reads m_thread.
start_thread ==
    /\ owner = "start:thread"
    /\ created' = created + 1
    /\ m_thread' = created + 1
    /\ pc' = [pc EXCEPT ![created + 1] = "run"]
    /\ owner' = "idle"
    /\ UNCHANGED <<m_continue, m_work, abandoned, service>>

\* asio_service::run(): do_run on a thread of the caller's.
run ==
    /\ owner = "idle"
    /\ m_thread = NoThread /\ Running = {}
    /\ pc[Main] = "none"
    /\ pc' = [pc EXCEPT ![Main] = "run"]
    /\ UNCHANGED <<owner, runner, service>>

\* stop() and stop(milliseconds): m_continue first.
stop_begin(timed) ==
    /\ owner = "idle"
    /\ m_continue' = FALSE
    /\ owner' = IF m_thread = NoThread THEN "idle"
                ELSE IF timed THEN "timed:work" ELSE "stop:work"
    /\ UNCHANGED <<m_work, m_thread, created, abandoned, pc, service>>

\* interrupt() called by the owner, or by another thread to end run().
interrupt_begin ==
    /\ owner = "idle"
    /\ Running # {}
    /\ interrupts < MaxInterrupts
    /\ interrupts' = interrupts + 1
    /\ owner' = "interrupt:work"
    /\ UNCHANGED <<runner, pc, stopped, queue, ops, posted, done>>

\* interrupt(): m_work.reset() ...
interrupt_work(from, to) ==
    /\ owner = from
    /\ m_work' = FALSE
    /\ owner' = to
    /\ UNCHANGED <<m_continue, m_thread, created, abandoned, pc, service>>

\* ... then io_service::stop().
interrupt_service(from, to) ==
    /\ owner = from
    /\ stopped' = TRUE
    /\ owner' = to
    /\ UNCHANGED <<runner, pc, queue, ops, posted, done, interrupts>>

\* Mutant: the thread object is reset without waiting for the thread.
stop_join_detaches ==
    /\ owner = "stop:join"
    /\ m_thread' = NoThread
    /\ owner' = "idle"
    /\ UNCHANGED <<m_continue, m_work, created, abandoned, pc, service>>

stop_join ==
    /\ owner = "stop:join"
    /\ pc[m_thread] = "exit"
    /\ m_thread' = NoThread
    /\ owner' = "idle"
    /\ UNCHANGED <<m_continue, m_work, created, abandoned, pc, service>>

\* timed_join gives up after its time whether or not the thread has ended.
stop_timed_join ==
    /\ owner = "timed:join"
    /\ abandoned' = IF pc[m_thread] = "exit" THEN abandoned
                    ELSE abandoned \cup {m_thread}
    /\ m_thread' = NoThread
    /\ owner' = "idle"
    /\ UNCHANGED <<m_continue, m_work, created, pc, service>>

post ==
    /\ posted < MaxPosts
    /\ posted' = posted + 1
    /\ queue' = Append(queue, posted + 1)
    /\ UNCHANGED <<owner, runner, pc, stopped, ops, done, interrupts>>

----------------------------------------------------------------------------
(* do_run.                                                                 *)

\* Asynchronous operations begin and end (external).
op_begin ==
    /\ ops < MaxOps
    /\ ops' = ops + 1
    /\ UNCHANGED <<owner, runner, pc, stopped, queue, posted, done, interrupts>>

op_end ==
    /\ ops > 0 /\ posted < MaxPosts
    /\ ops' = ops - 1
    /\ posted' = posted + 1
    /\ queue' = Append(queue, posted + 1)
    /\ UNCHANGED <<owner, runner, pc, stopped, done, interrupts>>

\* io_service::run(): returns when stopped or out of work, otherwise runs the
\* next handler or blocks.
io_run(t) ==
    /\ pc[t] = "run"
    /\ \/ /\ stopped
          /\ pc' = [pc EXCEPT ![t] = "reset"]
          /\ UNCHANGED service
       \/ /\ ~stopped /\ queue # <<>>
          /\ pc' = [pc EXCEPT ![t] = "handler"]
          /\ queue' = Tail(queue)
          /\ done' = Append(done, Head(queue))
          /\ UNCHANGED <<stopped, ops, posted, interrupts>>
       \/ /\ ~stopped /\ queue = <<>> /\ ~m_work /\ ops = 0
          /\ stopped' = TRUE
          /\ pc' = [pc EXCEPT ![t] = "reset"]
          /\ UNCHANGED <<queue, ops, posted, done, interrupts>>
    /\ UNCHANGED <<owner, runner>>

handler_end(t) ==
    /\ pc[t] = "handler"
    /\ pc' = [pc EXCEPT ![t] = "run"]
    /\ UNCHANGED <<owner, runner, service>>

\* Mutant: the flag is left set.
io_reset_forgotten(t) ==
    /\ pc[t] = "reset"
    /\ pc' = [pc EXCEPT ![t] = "check"]
    /\ UNCHANGED <<owner, runner, service>>

\* io_service::reset() clears the stopped flag ...
io_reset(t) ==
    /\ pc[t] = "reset"
    /\ stopped' = FALSE
    /\ pc' = [pc EXCEPT ![t] = "check"]
    /\ UNCHANGED <<owner, runner, queue, ops, posted, done, interrupts>>

\* Mutant: m_continue was read when the loop was entered.
check_continue_stale(t) ==
    /\ pc[t] = "check"
    /\ pc' = [pc EXCEPT ![t] = IF t = Main THEN "exit" ELSE "run"]
    /\ UNCHANGED <<owner, runner, service>>

\* ... and only then m_continue is read.
check_continue(t) ==
    /\ pc[t] = "check"
    /\ pc' = [pc EXCEPT ![t] = IF m_continue THEN "run" ELSE "exit"]
    /\ UNCHANGED <<owner, runner, service>>

do_run(t) == io_run(t) \/ handler_end(t) \/ io_reset(t) \/ check_continue(t)

----------------------------------------------------------------------------
Init ==
    /\ owner = "idle"
    /\ m_continue = FALSE /\ m_work = FALSE
    /\ m_thread = NoThread /\ created = 0 /\ abandoned = {}
    /\ pc = [t \in Threads |-> "none"]
    /\ stopped = FALSE
    /\ queue = <<>> /\ ops = 0 /\ posted = 0 /\ done = <<>>
    /\ interrupts = 0

StopSteps ==
    \/ interrupt_work("stop:work", "stop:service")
    \/ interrupt_service("stop:service", "stop:join")
    \/ stop_join
    \/ interrupt_work("timed:work", "timed:service")
    \/ interrupt_service("timed:service", "timed:join")
    \/ stop_timed_join
    \/ interrupt_work("interrupt:work", "interrupt:service")
    \/ interrupt_service("interrupt:service", "idle")

Next ==
    \/ start \/ start_work \/ start_thread \/ run
    \/ \E timed \in BOOLEAN : stop_begin(timed)
    \/ interrupt_begin
    \/ StopSteps
    \/ post \/ op_begin \/ op_end
    \/ \E t \in Threads : do_run(t)

\* Threads are scheduled fairly and handlers return; a call that has begun
\* goes on.  Nothing obliges the owner to call anything, or an operation to
\* complete.
Fairness == WF_vars(start_work \/ start_thread) /\ WF_vars(StopSteps) /\ \A t \in Threads : WF_vars(do_run(t))

Spec == Init /\ [][Next]_vars /\ Fairness

----------------------------------------------------------------------------
(* Properties.                                                             *)

\* When stop() has returned no thread executes the io_service, unless a timed
\* stop gave it up: handlers of the next start() never run beside old ones.
JoinedOrAbandoned ==
    m_thread = NoThread => Running \subseteq abandoned \cup {Main}

\* stop() returns: the thread leaves do_run whatever it was doing, even when
\* operations are outstanding and an interrupt() came before, provided that no
\* abandoned thread is there to swallow io_service::stop() with its reset().
StopReturns ==
    (owner = "stop:work" /\ Running \subseteq {m_thread}) ~> (owner = "idle")

\* A handler queued while a thread serves the io_service runs, or every thread
\* leaves: an interrupt() does not strand it in a stopped io_service.
HandlersRun ==
    \A n \in 1 .. MaxPosts :
      (Running # {} /\ n <= posted /\ n > Len(done))
        ~> (n <= Len(done) \/ Running = {})
=============================================================================
