----------------------------- MODULE MCServices -----------------------------
(***************************************************************************)
(* The threads and the objects they serve: the runner of an io_service, a  *)
(* timer, a TCP server and a task thread.  A behaviour is one of any of    *)
(* the four; the others keep their initial state.                          *)
(***************************************************************************)
EXTENDS IoServiceRunner

CONSTANTS Intervals, MaxTimerStarts, MaxNow, MaxSockets, MaxServerStarts, MaxWorkers, MaxTasks

VARIABLES part
VARIABLES periodic, m_started, m_interval, m_times, m_firetime, listening, now, expiry, waits, ticks,
          timer_starts, t0, stale, elapsed
VARIABLES native, m_new_client, accepts, accepted, attached, sockets, server_starts, careful, m_sessions,
          failing, connected, offered, gone
VARIABLES t_owner, t_thread, t_workers, t_tasks, t_posted, t_notices, t_run

timerVars  == <<periodic, m_started, m_interval, m_times, m_firetime, listening, now, expiry, waits, ticks,
                timer_starts, t0, stale, elapsed>>
serverVars == <<native, m_new_client, accepts, accepted, attached, sockets, server_starts, careful,
                m_sessions, failing, connected, offered, gone>>
taskVars   == <<t_owner, t_thread, t_workers, t_tasks, t_posted, t_notices, t_run>>

Timers  == INSTANCE Timer WITH ready <- ticks, starts <- timer_starts, MaxStarts <- MaxTimerStarts
Servers == INSTANCE TcpServer WITH ready <- accepted, starts <- server_starts, MaxStarts <- MaxServerStarts
Tasks   == INSTANCE TaskService

ASSUME ServicesAssumption ==
  /\ Intervals \subseteq Nat \ {0}
  /\ MaxTimerStarts \in Nat

servicesVars == <<vars, part, timerVars, serverVars, taskVars>>

ServicesInit ==
  /\ part \in {"runner", "timer", "server", "tasks"}
  /\ Init /\ Timers!Init /\ Servers!Init /\ Tasks!TaskInit
  /\ part # "timer" => periodic

ServicesNext ==
  \/ part = "runner" /\ Next             /\ UNCHANGED <<part, timerVars, serverVars, taskVars>>
  \/ part = "timer"  /\ Timers!Next      /\ UNCHANGED <<part, vars, serverVars, taskVars>>
  \/ part = "server" /\ Servers!Next     /\ UNCHANGED <<part, vars, timerVars, taskVars>>
  \/ part = "tasks"  /\ Tasks!TaskNext   /\ UNCHANGED <<part, vars, timerVars, serverVars>>

\* The fairness of the runner's threads and of the task threads.
ServicesSpec == ServicesInit /\ [][ServicesNext]_servicesVars /\ Fairness /\ Tasks!TaskFairness

\* A timer keeps time (asio_timer): a started periodic timer has exactly one
\* tick to come, its fire times stay whole intervals from the start however
\* late its handlers run, it counts no tick that has not passed save those
\* queued before the start, and a once timer elapses once for each start.
TimerKeepsTime == Timers!NextTickPending /\ Timers!NoDrift /\ Timers!ElapsedBounded /\ Timers!OncePerStart

\* A connection is accepted once (asio_tcp_acceptor, tcp_server_impl): a
\* listening acceptor always has one accept under way, into the socket that
\* it will offer, and every connection is offered once in its own socket.
AcceptedOnce == Servers!OneAccept /\ Servers!OfferedOnce

\* No task is left beside a thread that nobody wakes, whatever runs between the
\* queueing of a task and its notification (thread_task_service).
NoLostWakeup == Tasks!NoLostWakeup

\* The owner of a task thread gets out of start(), stop() and wait() once
\* every thread has had its task.
OwnerReturns == Tasks!OwnerReturns
=============================================================================
