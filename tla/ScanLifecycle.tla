---------------------------- MODULE ScanLifecycle ----------------------------
(***************************************************************************)
(* The owner-thread state of SourceScanLifecycle as one record, and its    *)
(* private methods as operators from record to record.  The methods call   *)
(* each other in tail position (_finish and _enqueue end in _start_next),  *)
(* so a handler is a composition of these operators.                       *)
(***************************************************************************)
EXTENDS SourceConfig, SequencesExt

CONSTANT NoSource    \* the empty source id

ASSUME NoSourceAssumption == NoSource \notin Sources

Statuses  == {"IDLE", "RUNNING", "FAILED"}
Terminals == {"NONE", "COMPLETED", "CANCELLED", "FAILED"}
Phases    == {"NONE", "PROBING", "WORKING"}

Lifecycle ==
    [queue           : Seq(Sources),             \* _queue
     generation      : Nat,                      \* _generation
     active          : BOOLEAN,                  \* _active
     cancelRequested : BOOLEAN,                  \* _cancel_requested
     snapshot        : ConfigRecord,             \* _active_source_snapshot
     snapshotEpoch   : Nat,                      \* _active_source_config_epoch
     rejected        : SUBSET Nat,               \* _rejected_generations
     hint            : Terminals,                \* _terminal_hint
     status          : Statuses,                 \* the published run state:
     current         : Sources \cup {NoSource},  \*   current_source_id
     phase           : Phases,                   \*   phase and its counters
     failed          : Seq(Sources),             \*   failed_source_ids
     lastTerminal    : Terminals,                \*   last_terminal_status
     lastSource      : Sources \cup {NoSource},  \*   last_source_id
     raised          : BOOLEAN]   \* for the properties: a read of the catalog raised

InitialLifecycle ==
    [queue |-> <<>>, generation |-> 0, active |-> FALSE, cancelRequested |-> FALSE,
     snapshot |-> Unconfigured, snapshotEpoch |-> 0, rejected |-> {}, hint |-> "NONE",
     status |-> "IDLE", current |-> NoSource, phase |-> "NONE", failed |-> <<>>,
     lastTerminal |-> "NONE", lastSource |-> NoSource, raised |-> FALSE]

-----------------------------------------------------------------------------
(* _start_next                                                             *)

(* Sources that are not runnable are popped and skipped: the next scan is  *)
(* that of the first runnable source (a set of at most one position).      *)
NextRunnable(q, cfg) ==
    {i \in DOMAIN q :
        /\ Runnable(cfg[q[i]])
        /\ \A j \in 1 .. i - 1 : ~Runnable(cfg[q[j]])}

(* The terminal status of a run: a failure dominates, then the hint a      *)
(* superseded scan left, then the user's Cancel.                           *)
TerminalOf(l) ==
    CASE l.failed # <<>>                                         -> "FAILED"
      [] l.failed = <<>> /\ l.hint # "NONE"                          -> l.hint
      [] l.failed = <<>> /\ l.hint = "NONE" /\ l.cancelRequested     -> "CANCELLED"
      [] l.failed = <<>> /\ l.hint = "NONE" /\ ~l.cancelRequested    -> "COMPLETED"

EndRun(l) ==
    IF l.status # "IDLE" \/ l.lastTerminal = "NONE"
    THEN [l EXCEPT !.queue = <<>>, !.status = "IDLE", !.current = NoSource,
                   !.phase = "NONE", !.lastTerminal = TerminalOf(l)]
    ELSE [l EXCEPT !.queue = <<>>]

StartAt(l, i, cfg, ep) ==
    LET s == l.queue[i]
    IN [l EXCEPT !.queue = SubSeq(l.queue, i + 1, Len(l.queue)),
                 !.active = TRUE, !.generation = l.generation + 1,
                 !.snapshot = cfg[s], !.snapshotEpoch = ep[s],
                 !.status = "RUNNING", !.current = s, !.phase = "PROBING"]

StartNext(l, cfg, ep) ==
    CASE l.active -> l
      [] ~l.active /\ NextRunnable(l.queue, cfg) = {} -> EndRun(l)
      [] ~l.active /\ NextRunnable(l.queue, cfg) # {} ->
            StartAt(l, CHOOSE i \in NextRunnable(l.queue, cfg) : TRUE, cfg, ep)

(* list_sources raises after the pop, at any of the turns up to the first  *)
(* runnable source: what was popped is gone, the rest waits in the queue.  *)
ListingRaises(l, cfg) ==
    {[l EXCEPT !.queue = SubSeq(l.queue, i + 1, Len(l.queue)), !.raised = TRUE] :
        i \in {i \in DOMAIN l.queue : \A j \in 1 .. i - 1 : ~Runnable(cfg[l.queue[j]])}}

(* source_config_epoch raises: _active is set, and nothing was submitted   *)
(* that could ever reset it.                                               *)
EpochRaises(l, cfg) ==
    {[l EXCEPT !.queue = SubSeq(l.queue, i + 1, Len(l.queue)), !.active = TRUE,
               !.generation = l.generation + 1, !.snapshot = cfg[l.queue[i]],
               !.raised = TRUE] : i \in NextRunnable(l.queue, cfg)}

(* _start_next, its two reads of the catalog included. *)
Resume(l, cfg, ep) ==
    {StartNext(l, cfg, ep)} \cup
    IF l.active THEN {} ELSE ListingRaises(l, cfg) \cup EpochRaises(l, cfg)

-----------------------------------------------------------------------------
(* The other private methods.  Those that end in _start_next have the      *)
(* outcomes of Resume; the others have one.                                *)

ResetTerminal(l) ==
    [l EXCEPT !.cancelRequested = FALSE, !.hint = "NONE", !.lastTerminal = "NONE",
              !.lastSource = NoSource, !.failed = <<>>]

(* The sources of a request that _enqueue appends. *)
Missing(l, requested) == requested \ (Range(l.queue) \cup {l.current})

(* "ids" is the order in which the catalog lists the missing sources. *)
Enqueue(l, ids, cfg, ep) == Resume([l EXCEPT !.queue = l.queue \o ids], cfg, ep)

Without(q, s) ==
    IF \E i \in DOMAIN q : q[i] = s
    THEN RemoveAt(q, CHOOSE i \in DOMAIN q : q[i] = s)   \* never there twice
    ELSE q

(* mutant: rejecting a generation frees the slot before its worker is done *)
RejectAndRelease(l) ==
    IF l.active
    THEN [l EXCEPT !.rejected = l.rejected \cup {l.generation}, !.active = FALSE]
    ELSE l

Reject(l) ==
    IF l.active THEN [l EXCEPT !.rejected = l.rejected \cup {l.generation}] ELSE l

IsScanning(l, s) == l.active /\ l.current = s

(* mutant: takes s off the queue but lets its scan run on                  *)
InvalidateQueued(l, s) == [l EXCEPT !.queue = Without(l.queue, s)]

InvalidateSource(l, s) ==
    LET dequeued == [l EXCEPT !.queue = Without(l.queue, s)]
    IN IF IsScanning(l, s) THEN Reject(dequeued) ELSE dequeued

(* mutant: rejects the scan of s without queueing its replacement          *)
RescheduleLater(l, s, cfg, ep) ==
    LET next == [l EXCEPT !.queue = <<s>> \o Without(l.queue, s)]
    IN IF IsScanning(l, s) THEN {Reject(l)} ELSE Resume(next, cfg, ep)

RescheduleSource(l, s, cfg, ep) ==
    LET next == [l EXCEPT !.queue = <<s>> \o Without(l.queue, s)]
    IN IF IsScanning(l, s) THEN {Reject(next)} ELSE Resume(next, cfg, ep)

(* mutant: cancels the scan in progress, not the run                       *)
CancelCurrent(l) ==
    IF l.active THEN Reject([l EXCEPT !.cancelRequested = TRUE]) ELSE l

Cancel(l) ==
    LET emptied == [l EXCEPT !.queue = <<>>]
    IN IF l.active THEN Reject([emptied EXCEPT !.cancelRequested = TRUE]) ELSE emptied

(* How a generation ended, for _finish. *)
Endings == {"stale", "done", "failed", "cancelled"}

(* The scan is over.  The diagnostic kept for the user is that of the      *)
(* FIRST failure of the run.                                               *)
Ended(l, how) ==
    LET fails == how = "failed"
    IN [l EXCEPT
            !.active = FALSE, !.snapshot = Unconfigured, !.snapshotEpoch = 0,
            !.phase = "NONE",
            !.status = IF fails THEN "FAILED" ELSE "IDLE",
            !.hint = IF how = "stale" /\ l.queue = <<>> /\ l.failed = <<>>
                     THEN "CANCELLED" ELSE @,
            !.failed = IF fails /\ l.current \notin Range(l.failed)
                       THEN Append(@, l.current) ELSE @,
            !.lastSource = IF fails /\ l.lastSource = NoSource THEN l.current ELSE @]

(* mutant: a superseded scan frees the slot, but the queue is not resumed  *)
FinishWithoutResuming(l, how, cfg, ep) ==
    IF how = "stale" THEN {Ended(l, how)} ELSE Resume(Ended(l, how), cfg, ep)

Finish(l, how, cfg, ep) == Resume(Ended(l, how), cfg, ep)

=============================================================================
