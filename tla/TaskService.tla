---------------------------- MODULE TaskService ----------------------------
(***************************************************************************)
(* thread_task_service: tasks posted from any thread run in a thread of    *)
(* their own.  The owner starts it, waits for it and stops it.             *)
(***************************************************************************)
EXTENDS Integers, Sequences, FiniteSets

CONSTANTS MaxWorkers,  \* bound: threads created by start()
          MaxTasks     \* bound: tasks posted

VARIABLES
    t_owner,    \* "free", or the call of the owner that joins the thread
    t_thread,   \* the worker m_thread refers to, or 0
    t_workers,  \* where each worker is: "awake", "asleep", "running" or "ended"
    t_tasks,    \* m_tasks, numbered in the order of post()
    t_posted,   \* tasks posted so far
    t_notices,  \* calls of post() that have unlocked m_mutex and not yet notified
    t_run       \* tasks taken, in order

taskVars == <<t_owner, t_thread, t_workers, t_tasks, t_posted, t_notices, t_run>>

Workers == 1 .. MaxWorkers
Asleep  == {w \in DOMAIN t_workers : t_workers[w] = "asleep"}
Awake   == {w \in DOMAIN t_workers : t_workers[w] = "awake"}

\* [io/detail/thread_task_service.hpp 47-51 thread_task_service::wait]
\* start(), stop() and wait() begin by joining the thread there is.
Enter(call) ==
  /\ t_owner = "free" /\ t_owner' = call
  /\ call = "start" => Len(t_workers) < MaxWorkers
  /\ UNCHANGED <<t_thread, t_workers, t_tasks, t_posted, t_notices, t_run>>

Joined == t_thread # 0 => t_workers[t_thread] = "ended"

\* [io/detail/thread_task_service.hpp 26-30 thread_task_service::start]
start ==
  /\ t_owner = "start" /\ Joined
  /\ t_workers' = Append(t_workers, "awake")
  /\ t_thread' = Len(t_workers')
  /\ t_owner' = "free"
  /\ UNCHANGED <<t_tasks, t_posted, t_notices, t_run>>

\* [io/detail/thread_task_service.hpp 31-38 thread_task_service::stop]
stop ==
  /\ t_owner \in {"stop", "wait"} /\ Joined
  /\ t_thread' = IF t_owner = "stop" THEN 0 ELSE t_thread
  /\ t_owner' = "free"
  /\ UNCHANGED <<t_workers, t_tasks, t_posted, t_notices, t_run>>

\* [io/detail/thread_task_service.hpp 39-46 thread_task_service::stop]
\* The join may time out; the thread is given up and goes on.
timed_stop ==
  /\ t_owner = "free" /\ t_thread # 0
  /\ t_thread' = 0
  /\ UNCHANGED <<t_owner, t_workers, t_tasks, t_posted, t_notices, t_run>>

\* Mutant of post: nobody is notified of a task behind another.
post_notifies_first ==
  /\ t_posted < MaxTasks
  /\ t_posted' = t_posted + 1
  /\ t_tasks' = Append(t_tasks, t_posted')
  /\ t_notices' = t_notices + (IF t_tasks = <<>> THEN 1 ELSE 0)
  /\ UNCHANGED <<t_owner, t_thread, t_workers, t_run>>

\* [io/detail/thread_task_service.hpp 52-58 thread_task_service::post]
\* Any thread may post, several at once.  The task is queued under m_mutex ...
post ==
  /\ t_posted < MaxTasks
  /\ t_posted' = t_posted + 1
  /\ t_tasks' = Append(t_tasks, t_posted')
  /\ t_notices' = t_notices + 1
  /\ UNCHANGED <<t_owner, t_thread, t_workers, t_run>>

\* [io/detail/thread_task_service.hpp 59-60 thread_task_service::post]
\* ... and after the unlock one of the threads that sleep by then is woken, if any.
notify_one ==
  /\ t_notices > 0
  /\ t_notices' = t_notices - 1
  /\ IF Asleep = {} THEN UNCHANGED t_workers
     ELSE \E w \in Asleep : t_workers' = [t_workers EXCEPT ![w] = "awake"]
  /\ UNCHANGED <<t_owner, t_thread, t_tasks, t_posted, t_run>>

\* [io/detail/thread_task_service.hpp 75-85 thread_task_service::pop_or_wait]
pop_or_wait(w) ==
  /\ w \in Awake
  /\ IF t_tasks = <<>> THEN /\ t_workers' = [t_workers EXCEPT ![w] = "asleep"]
                            /\ UNCHANGED <<t_tasks, t_run>>
     ELSE /\ t_workers' = [t_workers EXCEPT ![w] = "running"]
          /\ t_run' = Append(t_run, Head(t_tasks)) /\ t_tasks' = Tail(t_tasks)
  /\ UNCHANGED <<t_owner, t_thread, t_posted, t_notices>>

\* Mutant of run: the loop goes on, and nothing ends it.
run_continues(w) ==
  /\ w \in DOMAIN t_workers /\ t_workers[w] = "running"
  /\ t_workers' = [t_workers EXCEPT ![w] = "awake"]
  /\ UNCHANGED <<t_owner, t_thread, t_tasks, t_posted, t_notices, t_run>>

\* [io/detail/thread_task_service.hpp 63-74 thread_task_service::run]
\* The loop is left after the first task.
run(w) ==
  /\ w \in DOMAIN t_workers /\ t_workers[w] = "running"
  /\ t_workers' = [t_workers EXCEPT ![w] = "ended"]
  /\ UNCHANGED <<t_owner, t_thread, t_tasks, t_posted, t_notices, t_run>>

\* [external boost::condition_variable::wait]
\* A condition variable may wake without being notified.
SpuriousWake(w) ==
  /\ w \in Asleep
  /\ t_workers' = [t_workers EXCEPT ![w] = "awake"]
  /\ UNCHANGED <<t_owner, t_thread, t_tasks, t_posted, t_notices, t_run>>

TaskInit ==
  /\ t_owner = "free" /\ t_thread = 0 /\ t_workers = <<>>
  /\ t_tasks = <<>> /\ t_posted = 0 /\ t_notices = 0 /\ t_run = <<>>

TaskNext ==
  \/ \E call \in {"start", "stop", "wait"} : Enter(call)
  \/ start \/ stop \/ timed_stop \/ post \/ notify_one
  \/ \E w \in Workers : pop_or_wait(w) \/ run(w) \/ SpuriousWake(w)

\* Threads that can go on do, the ones inside post() too, and tasks return.
\* Nobody has to post.
TaskFairness ==
  /\ WF_taskVars(start \/ stop)
  /\ WF_taskVars(notify_one)
  /\ \A w \in Workers : WF_taskVars(pop_or_wait(w) \/ run(w))

TaskSpec == TaskInit /\ [][TaskNext]_taskVars /\ TaskFairness

-----------------------------------------------------------------------------
(* Properties.                                                             *)

\* No task waits beside a thread that nobody will wake: while a thread sleeps
\* every waiting task has a thread of its own that is on its way to it, or the
\* notification of a post() that is still to come.
NoLostWakeup == Asleep # {} => Len(t_tasks) <= Cardinality(Awake) + t_notices

\* stop(), wait() and start() return once as many tasks have been posted as
\* threads were started, and the tasks have run in the order they were posted
\* in.  (Each thread runs one task and leaves, so with fewer tasks the owner
\* waits for ever.)
OwnerReturns ==
  /\ (t_owner # "free" /\ t_posted >= Len(t_workers)) ~> (t_owner = "free")
  /\ [](t_run = [i \in 1 .. Len(t_run) |-> i])
=============================================================================
