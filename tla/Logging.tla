------------------------------ MODULE Logging ------------------------------
(***************************************************************************)
(* The logging service: log_service_impl with its loggers and its chain of *)
(* filters (console_log_appender, asio_log_transmitter, file_log_appender),*)
(* the log macros that call it from any thread, and the files the file     *)
(* appender writes, flushes and rolls over.                                *)
(*                                                                         *)
(* Abstracted: the text of a message (a message is <<thread, number>>),    *)
(* the clock (Tick makes more than five seconds pass), the names of files  *)
(* (the current file and the rolled ones by their index).                  *)
(*                                                                         *)
(* Assumed of callers: filters are added before the service is started,    *)
(* start() and stop() alternate, loggers are looked up by one thread at a  *)
(* time, and no thread is inside a log macro when set_filter_chain         *)
(* exchanges the chain.  A filter is not started again while handlers of   *)
(* its first life are queued.  A file appender in the foreground has no    *)
(* lock: the threads that would enter it take turns (TakesTurns).  A       *)
(* handler takes less than the two seconds a stop() waits for its thread.  *)
(***************************************************************************)
EXTENDS Integers, Sequences, FiniteSets, SequencesExt, FiniteSetsExt

CONSTANTS LogThreads,     \* threads that log
          MaxLogs,        \* messages a thread tries to log
          Chains,         \* chains of filters a service is configured with
          MaxControl,     \* bound on calls that configure the service
          RollSizes,      \* roll_size, in messages
          RollCounts,     \* roll_count
          MaxRolls        \* bound on roll-overs

VARIABLES m_started, m_log_level, m_loggers, m_filters, logthread,
          disk, m_fout, flushDue, rolls, config, written, accepted, control,
          stopping        \* where main is in stop(), and whether for set_filter_chain

vars == <<m_started, m_log_level, m_loggers, m_filters, logthread,
          disk, m_fout, flushDue, rolls, config, written, accepted, control, stopping>>

-----------------------------------------------------------------------------
\* [log/log_level.hpp 9-19 log_level]
\* The levels the model tells apart: LOG_NOT_SET, LOG_DEBUG and LOG_INFO.
LOG_NOT_SET == 0
LOG_DEBUG == 1
LOG_INFO == 2
Levels == {LOG_DEBUG, LOG_INFO}

\* [libs/log/logger_impl.hpp 53-58 logger_impl::get_level]
get_level(name) == IF m_loggers[name].level <= LOG_NOT_SET THEN m_log_level
                                                 ELSE m_loggers[name].level

\* [libs/log/log_service_impl.hpp 96-103 log_service_impl::need_log]
need_log(name, level) == /\ m_filters # <<>>
                         /\ m_started
                         /\ level >= get_level(name)

\* [libs/log/log_service_impl.hpp 114-125 log_service_impl::get_logger]
\* The collection is copied, extended and published.
get_logger(loggers, name) ==
  IF name \in DOMAIN loggers THEN loggers
  ELSE [n \in DOMAIN loggers \cup {name} |->
          IF n = name THEN [id |-> Cardinality(DOMAIN loggers), level |-> 0]
                      ELSE loggers[n]]

\* [libs/log/log_library_impl.hpp 217-245 create_log_filter]
\* A filter as it is created: with no runner, so that m_abort is not looked at.
create_log_filter(kind, background) ==
  [kind |-> kind, background |-> background,
   runner |-> FALSE, abort |-> kind = "asio", queue |-> <<>>, handled |-> <<>>]

\* [log/log_manager.hpp 113-142 log_manager::start_log_service]
\* What a service without a configuration file is given: the file appender
\* with its default of a background thread.
default_filters(console, file) ==
  (IF console THEN <<"console">> ELSE <<>>) \o (IF file THEN <<"bgfile">> ELSE <<>>)

\* [libs/log/properties_log_configurator.hpp 43-84 configure_filter_chain]
\* The filters named by a configuration, in its order; unknown names add none.
configure_filter_chain(names) ==
  FlattenSeq([i \in DOMAIN names |->
    IF names[i] \in {"console", "asio", "file"} THEN <<create_log_filter(names[i], FALSE)>>
    ELSE IF names[i] = "bgfile" THEN <<create_log_filter("file", TRUE)>>
    ELSE <<>>])

-----------------------------------------------------------------------------
(* The file of the file appender.                                          *)

\* [libs/log/file_log_appender.hpp 111-135 file_log_appender::open_log]
\* Truncated unless it is the first opening in append mode.
open_log(files, fout, first, ok) ==
  [files |-> IF ok /\ ~(first /\ config.append) THEN [files EXCEPT ![-1] = <<>>] ELSE files,
   fout |-> [open |-> ok, buffer |-> <<>>]]

\* [libs/log/file_log_appender.hpp 153-168 file_log_appender::roll_over]
\* Every file becomes one older; the oldest one is removed.
roll_over(files) ==
  [i \in DOMAIN files |-> IF i = -1 THEN <<>> ELSE files[i - 1]]

\* [libs/log/file_log_appender.hpp 137-151 file_log_appender::flush_log]
flush_log(files, fout, ok) ==
  LET flushed == [files EXCEPT ![-1] = @ \o fout.buffer]
      full    == config.roll_size > 0 /\ Len(flushed[-1]) > config.roll_size
      rolled  == IF config.roll_count > 0 THEN roll_over(flushed) ELSE flushed
  IN  IF full THEN open_log(rolled, fout, FALSE, ok)
              ELSE [files |-> flushed, fout |-> [fout EXCEPT !.buffer = <<>>]]

\* [libs/log/file_log_appender.hpp 58-70 file_log_appender::do_log]
do_log_file(files, fout, msg, due, ok) ==
  LET put == [fout EXCEPT !.buffer = Append(@, msg)]
  IN  IF ~fout.open THEN [files |-> files, fout |-> fout]
      ELSE IF due THEN flush_log(files, put, ok)
      ELSE [files |-> files, fout |-> put]

\* [libs/log/file_log_appender.hpp 179-182 file_log_appender::on_stop]
close_log(files, fout) ==
  [files |-> [files EXCEPT ![-1] = @ \o fout.buffer], fout |-> [open |-> FALSE, buffer |-> <<>>]]

-----------------------------------------------------------------------------
(* A message going down the chain.                                         *)

\* [libs/log/file_log_appender.hpp 43-56 file_log_appender::log]
\* A filter that hands the message to its own thread: asio_log_transmitter
\* does always, the file appender unless it works in the caller's thread.
Posts(f) == f.kind = "asio" \/ (f.kind = "file" /\ f.background)

\* An appender in the foreground that a log macro enters in its own thread.
Unlocked ==
  \E i \in DOMAIN m_filters :
    /\ m_filters[i].kind = "file" /\ ~m_filters[i].background
    /\ \A j \in 1 .. i - 1 : ~Posts(m_filters[j])

\* Its callers take turns: do_log and stop() hold no lock over m_fout.
TakesTurns(t) == Unlocked => \A u \in DOMAIN logthread \ {t} : logthread[u].pc = "idle"

\* [libs/log/log_filter_impl.hpp 37-43 log_filter_impl::invoke_next]
\* The filters a message passed on by the i-th one reaches before another
\* thread than the caller's takes over.
invoke_next(base, i) ==
  {j \in i + 1 .. Len(base) : \A k \in i + 1 .. j - 1 : ~Posts(base[k])}

\* [libs/log/simple_log_appenders.hpp 11-19 console_log_appender::log]
\* The message handled at position i by its filter, then by the ones it is
\* passed to; base is the chain with the message already taken off a queue.
PassOn(base, i, msg) ==
  [j \in DOMAIN base |->
     IF j # i /\ j \notin invoke_next(base, i) THEN base[j]
     ELSE IF j # i /\ Posts(base[j]) THEN [base[j] EXCEPT !.queue = Append(@, msg)]
     ELSE [base[j] EXCEPT !.handled = Append(@, msg)]]

\* Whether the message is written by the file filter in this call.
FileHandles(after) ==
  \E j \in DOMAIN after : after[j].kind = "file" /\ after[j].handled # m_filters[j].handled

\* The file after a call that changes the chain to `after`.
WriteFile(after, msg) ==
  \E ok \in BOOLEAN :
    LET r == do_log_file(disk, m_fout, msg, flushDue, ok)
        rolling == FileHandles(after) /\ m_fout.open /\ flushDue
                   /\ config.roll_size > 0
                   /\ Len(disk[-1]) + Len(m_fout.buffer) + 1 > config.roll_size
    IN  IF ~FileHandles(after)
        THEN ok /\ UNCHANGED <<disk, m_fout, flushDue, rolls, written>>
        ELSE /\ rolling \/ ok
             /\ rolling => rolls < MaxRolls
             /\ disk' = r.files /\ m_fout' = r.fout
             /\ flushDue' = (flushDue /\ ~m_fout.open)
             /\ rolls' = IF rolling THEN rolls + 1 ELSE rolls
             /\ written' = IF m_fout.open THEN Append(written, msg) ELSE written

-----------------------------------------------------------------------------
(* The actions.                                                            *)

\* [libs/log/log_service_impl.hpp 61-74 log_service_impl::log_service_impl]
Init ==
  /\ \E names \in Chains \cup {default_filters(c, f) : c, f \in BOOLEAN} :
       m_filters = configure_filter_chain(names)
  /\ \E size \in RollSizes, count \in RollCounts, append \in BOOLEAN :
       /\ config = [roll_size |-> size, roll_count |-> count, append |-> append]
       /\ disk = [i \in -1 .. count - 1 |-> <<>>]
  /\ m_started = FALSE /\ m_log_level = LOG_DEBUG
  /\ m_loggers = get_logger(<<>>, "root")
  /\ logthread = [t \in LogThreads \cup {"main"} |-> [pc |-> "idle", count |-> 0, name |-> "root"]]
  /\ m_fout = [open |-> FALSE, buffer |-> <<>>]
  /\ flushDue = FALSE /\ rolls = 0 /\ written = <<>> /\ accepted = <<>> /\ control = 0
  /\ stopping = [at |-> 0, replaces |-> FALSE]

\* [libs/log/file_log_appender.hpp 72-91 file_log_appender::start]
start_filter(f) ==
  [f EXCEPT !.abort = FALSE, !.runner = Posts(f)]

\* [libs/log/log_filter_chain_impl.hpp 43-51 log_filter_chain_impl::start]
\* The filters are started in order up to one that fails: only a file that
\* cannot be opened does.  The calling thread ("main") then logs a message of
\* its own.  One step: before m_started is set no macro gets past need_log.
start_chain(filters, files, fout) ==
  LET fileAt == {i \in DOMAIN filters : filters[i].kind = "file"}
  IN  \E ok \in BOOLEAN :
        LET opened == open_log(files, fout, TRUE, ok)
            upTo   == IF ok \/ fileAt = {} THEN Len(filters) ELSE Min(fileAt) - 1
        IN  /\ fileAt = {} => ok
            /\ m_filters' = [i \in DOMAIN filters |->
                               IF i <= upTo THEN start_filter(filters[i]) ELSE filters[i]]
            /\ m_started' = ok
            /\ logthread' = IF ok THEN [logthread EXCEPT !["main"].pc = "log", !["main"].count = @ + 1]
                                  ELSE [logthread EXCEPT !["main"].pc = "idle"]
            /\ accepted' = <<>> /\ written' = <<>> /\ rolls' = 0
            /\ IF fileAt = {} THEN disk' = files /\ m_fout' = fout
                              ELSE disk' = opened.files /\ m_fout' = opened.fout

\* Calls that configure the service, at most MaxControl of them.
Control == /\ control < MaxControl /\ control' = control + 1
           /\ logthread["main"].pc = "idle"

\* [libs/log/log_service_impl.hpp 81-88 log_service_impl::start]
start ==
  /\ Control /\ TakesTurns("main")
  /\ ~m_started
  /\ \A i \in DOMAIN m_filters : ~m_filters[i].runner /\ m_filters[i].queue = <<>>
  /\ start_chain(m_filters, disk, m_fout)
  /\ UNCHANGED <<m_log_level, m_loggers, flushDue, config, stopping>>

\* The main thread goes on inside stop(); m_started is still set.
StopGoesOn(pc, at) ==
  /\ logthread' = [logthread EXCEPT !["main"].pc = pc]
  /\ stopping' = [stopping EXCEPT !.at = at]
  /\ UNCHANGED <<m_started, m_log_level, m_loggers, flushDue, rolls, config, written,
                 accepted, control>>

\* [libs/log/log_service_impl.hpp 89-94 log_service_impl::stop]
\* stop() begins, called by the owner or first of all by set_filter_chain.
stop(replaces) ==
  /\ Control /\ TakesTurns("main")
  /\ m_started \/ replaces
  /\ logthread' = [logthread EXCEPT !["main"].pc = "stop"]
  /\ stopping' = [at |-> 1, replaces |-> replaces]
  /\ UNCHANGED <<m_started, m_log_level, m_loggers, m_filters, disk, m_fout, flushDue,
                 rolls, config, written, accepted>>

\* [libs/log/log_filter_chain_impl.hpp 52-58 log_filter_chain_impl::stop]
\* The next filter whose stop() runs.
Stopping(pc) == logthread["main"].pc = pc /\ stopping.at \in DOMAIN m_filters

\* [libs/log/file_log_appender.hpp 93-108 file_log_appender::stop]
\* An appender in the foreground closes its file; other filters without a
\* thread have nothing to stop.
stop_in_caller ==
  LET f == m_filters[stopping.at]
      c == close_log(disk, m_fout)
  IN  /\ Stopping("stop") /\ ~Posts(f)
      /\ IF f.kind = "file" THEN disk' = c.files /\ m_fout' = c.fout
                             ELSE UNCHANGED <<disk, m_fout>>
      /\ UNCHANGED m_filters
      /\ StopGoesOn("stop", stopping.at + 1)

\* [libs/log/file_log_appender.hpp 97-97 file_log_appender::stop]
\* m_abort is set: the thread goes on, and drops what it takes off its queue.
stop_aborts ==
  /\ Stopping("stop") /\ Posts(m_filters[stopping.at])
  /\ m_filters' = [m_filters EXCEPT ![stopping.at].abort = TRUE]
  /\ UNCHANGED <<disk, m_fout>>
  /\ StopGoesOn(IF m_filters[stopping.at].kind = "file" /\ m_filters[stopping.at].runner
                 THEN "post" ELSE "join", stopping.at)

\* [libs/log/file_log_appender.hpp 100-100 file_log_appender::stop]
stop_posts ==
  /\ Stopping("post") /\ Posts(m_filters[stopping.at])
  /\ m_filters' = [m_filters EXCEPT ![stopping.at].queue = Append(@, <<"on_stop", 0>>)]
  /\ UNCHANGED <<disk, m_fout>>
  /\ StopGoesOn("join", stopping.at)

\* [libs/log/asio_log_transmitter.hpp 45-49 asio_log_transmitter::stop]
\* The runner is stopped and its thread joined, whatever is still queued.
stop_joins ==
  /\ Stopping("join")
  /\ m_filters' = [m_filters EXCEPT ![stopping.at].runner = FALSE]
  /\ UNCHANGED <<disk, m_fout>>
  /\ StopGoesOn("stop", stopping.at + 1)

\* [libs/log/log_service_impl.hpp 93-93 log_service_impl::stop]
\* Only now does need_log refuse messages.
stop_ends ==
  /\ logthread["main"].pc = "stop" /\ stopping.at > Len(m_filters)
  /\ m_started' = FALSE
  /\ logthread' = [logthread EXCEPT !["main"].pc = IF stopping.replaces THEN "swap" ELSE "idle"]
  /\ stopping' = [at |-> 0, replaces |-> FALSE]
  /\ UNCHANGED <<m_log_level, m_loggers, m_filters, disk, m_fout, flushDue, rolls, config,
                 written, accepted, control>>

\* [libs/log/log_service_impl.hpp 155-162 log_service_impl::set_filter_chain]
\* After stop(): the new chain, and start.  An appender whose on_stop is still
\* queued is held by that handler: its file is not closed, and what it buffers
\* does not reach the disk.
set_filter_chain ==
  /\ logthread["main"].pc = "swap"
  /\ \A t \in LogThreads : logthread[t].pc = "idle"
  /\ \E names \in Chains :
       start_chain(configure_filter_chain(names), disk, [open |-> FALSE, buffer |-> <<>>])
  /\ UNCHANGED <<m_log_level, m_loggers, flushDue, config, control, stopping>>

\* [log/logging.hpp 16-19 logging::get_logger]
lookup(t, name) ==
  /\ Control /\ logthread[t].name # name
  /\ logthread[t].pc = "idle"
  /\ m_loggers' = get_logger(m_loggers, name)
  /\ logthread' = [logthread EXCEPT ![t].name = name]
  /\ UNCHANGED <<m_started, m_log_level, m_filters, disk, m_fout, flushDue, rolls,
                 config, written, accepted, stopping>>

\* [libs/log/logger_impl.hpp 48-51 logger_impl::set_level]
set_level(name, level) ==
  /\ Control
  /\ name \in DOMAIN m_loggers /\ m_loggers[name].level # level
  /\ m_loggers' = [m_loggers EXCEPT ![name].level = level]
  /\ UNCHANGED <<m_started, m_log_level, m_filters, logthread, disk, m_fout, flushDue,
                 rolls, config, written, accepted, stopping>>

\* [libs/log/log_service_impl.hpp 105-108 log_service_impl::set_log_level]
set_log_level(level) ==
  /\ Control
  /\ m_log_level # level
  /\ m_log_level' = level
  /\ UNCHANGED <<m_started, m_loggers, m_filters, logthread, disk, m_fout, flushDue,
                 rolls, config, written, accepted, stopping>>

\* [log/log.hpp 43-52 XUL_REL_LOG]
\* The macro asks need_log first and logs in a second step.
check_level(t, level) ==
  /\ logthread[t].pc = "idle" /\ logthread[t].count < MaxLogs /\ TakesTurns(t)
  /\ logthread' = [logthread EXCEPT ![t].pc = IF need_log(logthread[t].name, level) THEN "log" ELSE "idle",
                                    ![t].count = @ + 1]
  /\ UNCHANGED <<m_started, m_log_level, m_loggers, m_filters, disk, m_fout, flushDue,
                 rolls, config, written, accepted, control, stopping>>

\* [libs/log/log_filter_chain_impl.hpp 36-42 log_filter_chain_impl::log]
chain_log(msg) ==
  IF m_filters = <<>> THEN <<>>
  ELSE IF Posts(m_filters[1]) THEN [m_filters EXCEPT ![1].queue = Append(@, msg)]
  ELSE PassOn(m_filters, 1, msg)

\* [libs/log/log_service_impl.hpp 127-142 log_service_impl::log]
log(t) ==
  LET msg   == <<t, logthread[t].count>>
      after == chain_log(msg)
  IN  /\ logthread[t].pc = "log"
      /\ logthread' = [logthread EXCEPT ![t].pc = "idle"]
      /\ m_filters' = after
      /\ accepted' = Append(accepted, msg)
      /\ WriteFile(after, msg)
      /\ UNCHANGED <<m_started, m_log_level, m_loggers, config, control, stopping>>

\* What the queue of filter i holds next, taken by the thread of its runner.
Takes(i, entry) ==
  m_filters[i].runner /\ m_filters[i].queue # <<>> /\ Head(m_filters[i].queue) = entry
Taken(i) == [m_filters EXCEPT ![i].queue = Tail(@)]

\* A transmitter that forgets to take the message off: the mutant of on_log.
on_log_keeps_message(i, msg) ==
  /\ Takes(i, msg) /\ ~m_filters[i].abort
  /\ Len(m_filters[i].handled) < MaxLogs
  /\ m_filters' = PassOn(m_filters, i, msg)
  /\ WriteFile(m_filters', msg)
  /\ UNCHANGED <<m_started, m_log_level, m_loggers, logthread, config, accepted, control, stopping>>

\* [libs/log/file_log_appender.hpp 171-178 file_log_appender::on_log]
\* The runner's thread takes the next message; while its filter is stopped it
\* drops it.
on_log(i, msg) ==
  LET after == IF m_filters[i].abort THEN Taken(i) ELSE PassOn(Taken(i), i, msg)
  IN  /\ Takes(i, msg)
      /\ m_filters' = after
      /\ WriteFile(after, msg)
      /\ UNCHANGED <<m_started, m_log_level, m_loggers, logthread, config, accepted, control, stopping>>

\* [libs/log/file_log_appender.hpp 179-182 file_log_appender::on_stop]
on_stop(i) ==
  LET c == close_log(disk, m_fout)
  IN  /\ Takes(i, <<"on_stop", 0>>)
      /\ m_filters' = Taken(i)
      /\ disk' = c.files /\ m_fout' = c.fout
      /\ UNCHANGED <<m_started, m_log_level, m_loggers, logthread, flushDue, rolls, config,
                     written, accepted, control, stopping>>

\* [external clock]
\* More than five seconds pass since the last flush.
Tick ==
  /\ ~flushDue /\ m_fout.open
  /\ flushDue' = TRUE
  /\ UNCHANGED <<m_started, m_log_level, m_loggers, m_filters, logthread, disk, m_fout,
                 rolls, config, written, accepted, control, stopping>>

Next ==
  \/ start \/ set_filter_chain \/ Tick
  \/ \E replaces \in BOOLEAN : stop(replaces)
  \/ stop_in_caller \/ stop_aborts \/ stop_posts \/ stop_joins \/ stop_ends
  \/ \E t \in LogThreads :
        \/ \E name \in {"root", "app"} : lookup(t, name)
        \/ \E level \in Levels : check_level(t, level)
  \/ \E t \in LogThreads \cup {"main"} : log(t)
  \/ \E name \in {"app"}, level \in Levels : set_level(name, level)
  \/ \E level \in Levels : set_log_level(level)
  \/ \E i \in DOMAIN m_filters : on_stop(i)
  \/ \E i \in DOMAIN m_filters, t \in LogThreads \cup {"main"} :
        \E n \in 1 .. logthread[t].count : on_log(i, <<t, n>>)

Spec == Init /\ [][Next]_vars

-----------------------------------------------------------------------------
(* Properties.                                                             *)

\* Every message of the service's life since the chain was installed, oldest
\* first, that the file of the file appender and its rolled predecessors hold.
Kept == FlattenSeq([i \in 1 .. config.roll_count |-> disk[config.roll_count - i]])
          \o disk[-1] \o m_fout.buffer

\* Where message x is: handled by filter i, or in the queue of that filter or of
\* one before it.
Places(i, x) ==
  {<<0, n>> : n \in {n \in DOMAIN m_filters[i].handled : m_filters[i].handled[n] = x}}
    \cup UNION {{<<j, n>> : n \in {n \in DOMAIN m_filters[j].queue : m_filters[j].queue[n] = x}} :
                  j \in 1 .. i}

\* stop() has reached none of the filters a message passes on its way to filter
\* i, itself included.
Flows(i) == \A j \in 1 .. i : Posts(m_filters[j]) => ~m_filters[j].abort

\* Each message that a log macro handed over is in one place: no filter handles
\* it twice, and until stop() sets m_abort of a filter on its way none is lost,
\* over the threads of asio_log_transmitter and of the background file
\* appender.  From then on a message may be dropped, also one accepted before:
\* need_log lets messages in until the last filter has stopped.
EachFilterOnce ==
  \A i \in DOMAIN m_filters :
    \A k \in DOMAIN accepted :
      /\ \A p, q \in Places(i, accepted[k]) : p = q
      /\ Flows(i) => Places(i, accepted[k]) # {}

\* The messages of one thread reach every filter in the order it logged them.
ThreadOrder ==
  \A i \in DOMAIN m_filters :
    \A a, b \in DOMAIN m_filters[i].handled :
      LET x == m_filters[i].handled[a]
          y == m_filters[i].handled[b]
      IN  a < b /\ x[1] = y[1] => x[2] < y[2]

\* Rolling the log over (flush_log, roll_over) removes only the oldest
\* messages, and none before roll_count files have been filled: the files from
\* oldest to newest end with the messages written, in order.
RollKeepsTail ==
  /\ written # <<>> => IsSuffix(Kept, written) \/ IsSuffix(written, Kept)
  /\ config.roll_count > 0 /\ rolls <= config.roll_count => IsSuffix(written, Kept)

\* What the log keeps: an accepted message reaches every filter at most once,
\* exactly once unless stop() has begun with a filter on its way, and in the
\* order its thread logged it, over the threads of the transmitters; rolling the
\* files over drops only the oldest of those written.
LogKeepsMessages == EachFilterOnce /\ ThreadOrder /\ RollKeepsTail
=============================================================================
