---------------------------- MODULE EnrichmentJob ----------------------------
(***************************************************************************)
(* LibraryEnrichmentJob: the whole library is enriched on request, artists *)
(* before albums, with a bounded number of entities in work.  The thread   *)
(* inside start() admits entities to a small pool; a pool worker asks the  *)
(* coordinator, which answers later, on another thread, with a terminal    *)
(* event; that event frees the slot.  Cancel and shutdown come from any    *)
(* other thread.                                                           *)
(*                                                                         *)
(* Of the coordinator only its answer is modelled: each operation that was *)
(* asked for ends once, with one outcome (EnrichmentOperations), perhaps   *)
(* cancelled by the user's own operation on that entity.  The order of the *)
(* entities of a phase and the coalesced invalidations are left out.       *)
(***************************************************************************)
EXTENDS EnrichmentEntities, Integers, FiniteSets

CONSTANTS
    MaxPending,  \* JOB_MAX_PENDING
    MaxStarts    \* bound on the calls of start()

ASSUME JobBoundsAssumption == MaxPending \in Nat \ {0} /\ MaxStarts \in Nat

(* The job tells entities apart by their keys alone: no artist is named    *)
(* like the key of an album, "<length>::<title>::<artist>".                *)
ASSUME KeysAssumption == Artists \cap Albums = {}

VARIABLES
    job,      \* the fields of the job that its lock guards
    thread,   \* where the thread inside start() is
    pool,     \* entities that the pool has: queued, or past the cancel check
    asked,    \* operations of the coordinator that have not ended
    known,    \* entities with knowledge
    cancels,  \* a cancel_all that is still to come
    unheard,  \* history: an operation ended with an event the job does not handle
    starts

jobVars == <<job, thread, pool, asked, known, cancels, unheard, starts>>

Final == {"CANCELLED", "COMPLETED", "PARTIAL", "FAILED"}
States == Final \cup {"IDLE", "PREPARING", "RUNNING", "CANCELLING"}

Job == [state : States, pending : SUBSET Entities, albums : SUBSET Albums,
        inflight : Int, terminal : SUBSET Entities, cancel : BOOLEAN,
        processed : Nat, failed : Nat]

JobTypeOK ==
    /\ job \in Job
    /\ thread \in {"idle", "preparing", "artists", "albums", "closing"}
    /\ pool \subseteq [entity : Entities, checked : BOOLEAN]
    /\ asked \subseteq [entity : Entities, run : 1..MaxStarts, cancelled : BOOLEAN]
    /\ known \subseteq Entities
    /\ cancels \in BOOLEAN /\ unheard \in BOOLEAN /\ starts \in 0..MaxStarts

JobInit ==
    /\ job = [state |-> "IDLE", pending |-> {}, albums |-> {}, inflight |-> 0,
              terminal |-> {}, cancel |-> FALSE, processed |-> 0, failed |-> 0]
    /\ thread = "idle"
    /\ pool = {} /\ asked = {}
    /\ known \in SUBSET Entities
    /\ cancels = FALSE /\ unheard = FALSE /\ starts = 0

-----------------------------------------------------------------------------
(* The thread inside start().                                              *)

(* The terminal entities are not reset.                                    *)
Start ==
    /\ thread = "idle" /\ starts < MaxStarts
    /\ job.state \in Final \cup {"IDLE"}
    /\ job' = [job EXCEPT !.state = "PREPARING", !.cancel = FALSE,
                          !.processed = 0, !.failed = 0]
    /\ thread' = "preparing"
    /\ starts' = starts + 1
    /\ UNCHANGED <<pool, asked, known, cancels, unheard>>

(* Cache first: what is known is not asked for.  The state is set whatever *)
(* it has become meanwhile.                                                *)
Prepared ==
    /\ thread = "preparing"
    /\ job' = [job EXCEPT !.state = "RUNNING", !.inflight = 0,
                          !.pending = Artists \ known, !.albums = Albums \ known]
    /\ thread' = "artists"
    /\ UNCHANGED <<pool, asked, known, cancels, unheard, starts>>

(* _drain                                                                  *)
Draining == thread \in {"artists", "albums"}

Admit(e) ==
    /\ Draining /\ ~job.cancel
    /\ e \in job.pending
    /\ job.inflight < MaxPending
    /\ job' = [job EXCEPT !.pending = @ \ {e}, !.inflight = @ + 1]
    /\ pool' = pool \cup {[entity |-> e, checked |-> FALSE]}
    /\ UNCHANGED <<thread, asked, known, cancels, unheard, starts>>

DrainedWhenAdmitted == job.cancel \/ job.pending = {}

Drained == job.cancel \/ (job.pending = {} /\ job.inflight = 0)

PhaseEnds ==
    /\ Draining /\ Drained
    /\ IF thread = "artists" /\ ~job.cancel
       THEN thread' = "albums" /\ job' = [job EXCEPT !.pending = job.albums]
       ELSE thread' = "closing" /\ UNCHANGED job
    /\ UNCHANGED <<pool, asked, known, cancels, unheard, starts>>

(* _finalize                                                               *)
Verdict ==
    IF job.state = "CANCELLING" THEN "CANCELLED"
    ELSE IF job.failed > 0 /\ job.failed = job.processed THEN "FAILED"
    ELSE IF job.failed > 0 THEN "PARTIAL" ELSE "COMPLETED"

(* The pool is waited for, not the coordinator.                            *)
Finish ==
    /\ thread = "closing" /\ pool = {}
    /\ job' = IF job.state \in {"RUNNING", "CANCELLING"}
              THEN [job EXCEPT !.state = Verdict] ELSE job
    /\ thread' = "idle"
    /\ UNCHANGED <<pool, asked, known, cancels, unheard, starts>>

-----------------------------------------------------------------------------
(* The pool: _run_entity.                                                  *)

Released(e) == IF e \in job.terminal THEN job
               ELSE [job EXCEPT !.terminal = @ \cup {e}, !.inflight = @ - 1]

(* Cancelled before it started, or it cannot be asked for.                 *)
RunLocally(w) ==
    /\ w.checked \/ job.cancel
    /\ pool' = pool \ {w}
    /\ job' = Released(w.entity)
    /\ UNCHANGED <<thread, asked, known, cancels, unheard, starts>>

Check(w) ==
    /\ ~w.checked /\ ~job.cancel
    /\ pool' = (pool \ {w}) \cup {[w EXCEPT !.checked = TRUE]}
    /\ UNCHANGED <<job, thread, asked, known, cancels, unheard, starts>>

(* The operation supersedes the one of that entity that is under way.      *)
Ask(w) ==
    /\ w.checked
    /\ pool' = pool \ {w}
    /\ asked' = { IF o.entity = w.entity THEN [o EXCEPT !.cancelled = TRUE] ELSE o : o \in asked }
                \cup {[entity |-> w.entity, run |-> starts, cancelled |-> FALSE]}
    /\ UNCHANGED <<job, thread, known, cancels, unheard, starts>>

-----------------------------------------------------------------------------
(* The coordinator's threads: _on_state and _commit_entity.                *)

CountedWithoutRelease(e, outcome) ==
    [(IF outcome = "NOT_FOUND" THEN job ELSE Released(e))
       EXCEPT !.processed = @ + 1, !.failed = IF outcome = "FAILED" THEN @ + 1 ELSE @]

Counted(e, outcome) ==
    [Released(e) EXCEPT !.processed = @ + 1,
                        !.failed = IF outcome = "FAILED" THEN @ + 1 ELSE @]

(* READY stands for PARTIAL too, NOT_FOUND for AMBIGUOUS.                  *)
Heard(o, outcome) ==
    /\ outcome \in {"READY", "NOT_FOUND", "FAILED", "CANCELLED"}
    /\ o.cancelled => outcome = "CANCELLED"
    /\ asked' = asked \ {o}
    /\ known' = IF outcome = "READY" THEN known \cup {o.entity} ELSE known
    /\ job' = IF /\ job.state \in {"RUNNING", "CANCELLING"}
                 /\ job.cancel => outcome = "CANCELLED"
              THEN Counted(o.entity, outcome) ELSE job
    /\ UNCHANGED <<thread, pool, cancels, unheard, starts>>

(* OFFLINE (a transient failure of the provider) and DISABLED are terminal *)
(* too, and the job does not handle them.                                  *)
Unheard(o) ==
    /\ ~o.cancelled
    /\ asked' = asked \ {o}
    /\ unheard' = TRUE
    /\ UNCHANGED <<job, thread, pool, known, cancels, starts>>

-----------------------------------------------------------------------------
(* Other threads.                                                          *)

CancelJob ==
    /\ job.state \in {"RUNNING", "PREPARING"}
    /\ job' = [job EXCEPT !.state = "CANCELLING", !.cancel = TRUE]
    /\ cancels' = TRUE
    /\ UNCHANGED <<thread, pool, asked, known, unheard, starts>>

(* Whatever the state: also when nothing runs, and after a Cancel.         *)
ShutdownJob ==
    /\ job' = [job EXCEPT !.cancel = TRUE,
                 !.state = IF @ \in {"RUNNING", "PREPARING", "CANCELLING"} THEN "CANCELLED" ELSE @]
    /\ cancels' = TRUE
    /\ UNCHANGED <<thread, pool, asked, known, unheard, starts>>

(* coordinator.cancel_all() sees what was begun so far.                    *)
CancelAll ==
    /\ cancels
    /\ asked' = { [o EXCEPT !.cancelled = TRUE] : o \in asked }
    /\ cancels' = FALSE
    /\ UNCHANGED <<job, thread, pool, known, unheard, starts>>

-----------------------------------------------------------------------------
StartThread == Prepared \/ (\E e \in Entities : Admit(e)) \/ PhaseEnds \/ Finish
PoolThread == \E w \in pool : RunLocally(w) \/ Check(w) \/ Ask(w)
Answer == \E o \in asked : (\E outcome \in {"READY", "NOT_FOUND", "FAILED", "CANCELLED"} :
                              Heard(o, outcome)) \/ Unheard(o)

JobNext == Start \/ StartThread \/ PoolThread \/ Answer \/ CancelJob \/ ShutdownJob \/ CancelAll

(* The threads run, and the provider's calls end: they have timeouts.      *)
Fairness == /\ WF_jobVars(StartThread) /\ WF_jobVars(PoolThread)
            /\ WF_jobVars(Answer) /\ WF_jobVars(CancelAll)

JobSpec == JobInit /\ [][JobNext]_jobVars /\ Fairness

-----------------------------------------------------------------------------
InWork == {w.entity : w \in pool} \cup {o.entity : o \in asked}

(* While a first run is neither cancelled nor missed an event, each slot   *)
(* it holds is one entity in work, never more than MaxPending at once, and *)
(* no album is in work before every artist has ended.                      *)
SlotsAreWork ==
    Draining /\ starts = 1 /\ ~job.cancel /\ ~unheard =>
      /\ job.inflight = Cardinality(pool) + Cardinality(asked)
      /\ job.inflight = Cardinality(InWork) /\ job.inflight <= MaxPending
      /\ InWork \subseteq (IF thread = "artists" THEN Artists ELSE Albums)

(* A first run that ends uncancelled has dealt with the whole library: no  *)
(* entity is left out or still in work when the user reads COMPLETED.      *)
CompletedIsComplete ==
    job.state \in Final /\ starts = 1 /\ ~job.cancel =>
      /\ Entities \subseteq known \cup job.terminal
      /\ asked = {} /\ pool = {}

(* Over both phases of a run, slots, entities and outcomes stay in step.   *)
Consistent == JobTypeOK /\ SlotsAreWork /\ CompletedIsComplete

(* Whatever its entities' operations come to, start() returns.             *)
Ends == (thread # "idle") ~> (thread = "idle")

(* The run ends and start() returns, whatever the entities' outcomes and   *)
(* whenever Cancel comes, for a first run that heard of every operation;   *)
(* and any run ends that is cancelled: Cancel is the way out.              *)
RunsEnd ==
    (thread # "idle") ~> (thread = "idle" \/ (~job.cancel /\ (unheard \/ starts > 1)))
=============================================================================
