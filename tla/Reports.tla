-------------------------------- MODULE Reports --------------------------------
(***************************************************************************)
(* The error reporter (internal/sentry/sentry.go): errors logged anywhere  *)
(* in the server go into a bounded queue that one worker posts from, and   *)
(* that close flushes.  What a report holds is left out.                   *)
(***************************************************************************)
EXTENDS Integers, Sequences, FiniteSets

CONSTANTS
  Errors,      \* errors the server may log, each once
  queueDepth,  \* how many reports the queue holds
  NoEvent

VARIABLES
  queue,       \* the channel
  worker,      \* what drain is doing: [phase, event, flushing]
  stopped,     \* close has closed the stopped channel
  dropped,     \* how many reports found the queue full
  told,        \* how many of those drain said were dropped
  logged,      \* errors logged, and those of them logged before close
  posted       \* reports posted, whatever the ingest answered

reportVars == <<queue, worker, stopped, dropped, told, logged, posted>>

ASSUME DepthAssumption == queueDepth \in Nat \ {0}

ReportsInit ==
  /\ queue = <<>> /\ stopped = FALSE
  /\ worker = [phase |-> "waiting", event |-> NoEvent, flushing |-> FALSE]
  /\ dropped = 0 /\ told = 0 /\ posted = {}
  /\ logged = [ever |-> {}, early |-> {}]

(* Handle: the record is written to the log first, whatever comes of this. *)
Log(e) ==
  /\ e \notin logged.ever
  /\ logged' = [ever |-> logged.ever \union {e},
                early |-> IF stopped THEN logged.early ELSE logged.early \union {e}]

(* report never blocks: a full queue costs this report, and is counted.    *)
report(e) ==
  /\ Log(e)
  /\ IF Len(queue) < queueDepth
     THEN queue' = Append(queue, e) /\ UNCHANGED dropped
     ELSE dropped' = dropped + 1 /\ UNCHANGED queue
  /\ UNCHANGED <<worker, stopped, told, posted>>

(* close: the queue itself stays open, for those who still log.            *)
close ==
  /\ ~stopped /\ stopped' = TRUE
  /\ UNCHANGED <<queue, worker, dropped, told, logged, posted>>

(* drain: with a report waiting and the channel closed, select takes       *)
(* either.                                                                 *)
Receive ==
  /\ worker.phase = "waiting" /\ queue # <<>>
  /\ worker' = [worker EXCEPT !.phase = "sending", !.event = Head(queue)]
  /\ queue' = Tail(queue)
  /\ UNCHANGED <<stopped, dropped, told, logged, posted>>

(* send: one post and no retry; a failure is complained of on stderr.      *)
send ==
  /\ worker.phase = "sending"
  /\ posted' = posted \union {worker.event}
  /\ worker' = [worker EXCEPT !.phase = "waiting", !.event = NoEvent]
  /\ UNCHANGED <<queue, stopped, dropped, told, logged>>

reportDrops == told' = dropped

Gone == worker' = [worker EXCEPT !.phase = "gone"]

(* Mutant: the worker leaves as soon as it is stopped.                     *)
LeaveAtOnce ==
  /\ worker.phase = "waiting" /\ stopped
  /\ Gone /\ reportDrops
  /\ UNCHANGED <<queue, stopped, dropped, logged, posted>>

Flush ==
  /\ worker.phase = "waiting" /\ stopped
  /\ \/ ~worker.flushing /\ worker' = [worker EXCEPT !.flushing = TRUE] /\ UNCHANGED told
     \/ worker.flushing /\ queue = <<>> /\ Gone /\ reportDrops
  /\ UNCHANGED <<queue, stopped, dropped, logged, posted>>

ReportsNext == (\E e \in Errors : report(e)) \/ close \/ Receive \/ send \/ Flush

(* http.Client has a timeout, so a post ends; the worker is always running.*)
ReportsSpec ==
  ReportsInit /\ [][ReportsNext]_reportVars /\ WF_reportVars(Receive \/ send \/ Flush)

-----------------------------------------------------------------------------
(* Close: "flushes what is queued and stops the worker", and "A dropped    *)
(* event is counted".  When close returns, every error logged before it    *)
(* was called has been posted, or is among those said to be dropped.       *)
FlushedAndTold ==
  worker.phase = "gone" => Cardinality(logged.early \ posted) <= told
=============================================================================
