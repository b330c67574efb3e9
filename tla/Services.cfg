\* Two starts and one run() of a runner, two handlers, one operation that may
\* stay outstanding for ever, one interrupt(); three starts of a timer with
\* intervals 1 and 2 on a clock that stops at 5; four sockets over three starts
\* of a server; three tasks for three threads.
CONSTANTS
    MaxThreads = 2
    MaxPosts = 2
    MaxOps = 1
    MaxInterrupts = 1
    Intervals = {1, 2}
    MaxTimerStarts = 3
    MaxNow = 5
    MaxSockets = 4
    MaxServerStarts = 3
    MaxWorkers = 3
    MaxTasks = 3
SPECIFICATION ServicesSpec
INVARIANTS JoinedOrAbandoned TimerKeepsTime AcceptedOnce NoLostWakeup
PROPERTIES StopReturns HandlersRun OwnerReturns
CHECK_DEADLOCK FALSE
