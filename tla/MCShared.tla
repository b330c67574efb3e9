------------------------------ MODULE MCShared ------------------------------
(***************************************************************************)
(* What all users of the library share: the log, and objects that are      *)
(* counted.  A behaviour is about one of the two; the other half keeps one *)
(* state.  (The tables by name of Objects are parts of MCLibrary.)         *)
(***************************************************************************)
EXTENDS Logging, Objects

VARIABLES part

sharedVars == <<part, vars, objectVars>>

\* Names of filters: all strings.
Names == STRING \cup {"console", "asio", "file", "bgfile"}

\* Chains are sequences of names, and no thread has the name of the marker that
\* ends the queue of a file appender.
LoggingConstants ==
  Chains \subseteq Seq(Names) /\ RollCounts \subseteq Nat /\ "on_stop" \notin LogThreads

\* Threads are finitely many, and a cobject stays with one of them.
ObjectsConstants == IsFiniteSet(PointerThreads) /\ ~SharesCObjects

ASSUME SharedAssumption == LoggingConstants /\ ObjectsConstants

\* Filters on threads of their own before others, and a name that is unknown.
LogChains == {<<"asio", "bgfile", "console">>, <<"file", "unknown", "asio", "console">>}

NoLogging ==
  /\ m_started = FALSE /\ m_log_level = 0 /\ m_loggers = <<>> /\ m_filters = <<>> /\ logthread = <<>>
  /\ disk = <<>> /\ m_fout = <<>> /\ flushDue = FALSE /\ rolls = 0 /\ config = [roll_count |-> 0]
  /\ written = <<>> /\ accepted = <<>> /\ control = 0 /\ stopping = <<>>

\* Objects with their pointers, and cobjects with their references.
CountedInit == ObjectsInit /\ k_part \in {"object", "cobject"}

NoObjects == k_part = "none" /\ k_now = <<>> /\ k_log = <<>> /\ k_calls = 0

SharedInit ==
  /\ part \in {"log", "objects"}
  /\ IF part = "log" THEN Init /\ NoObjects ELSE CountedInit /\ NoLogging

SharedNext ==
  \/ part = "log" /\ Next /\ UNCHANGED <<part, objectVars>>
  \/ part = "objects" /\ ObjectsNext /\ UNCHANGED <<part, vars>>

SharedSpec == SharedInit /\ [][SharedNext]_sharedVars
=============================================================================
