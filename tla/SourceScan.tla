----------------------------- MODULE SourceScan -----------------------------
(***************************************************************************)
(* Source scanning: the owner (GUI) thread runs the bridge's slots and the *)
(* handlers of SourceScanLifecycle and SourceScanCoordinator; one worker   *)
(* thread per scan generation (ThreadScanRunner) computes a plan and       *)
(* emits its result into a Qt relay whose queued connection brings it to   *)
(* the owner thread later.  Every slot and handler runs to completion on   *)
(* the owner thread, so it is one action; workers and messages interleave  *)
(* with them freely.                                                       *)
(***************************************************************************)
EXTENDS ScanLifecycle

CONSTANT MaxIntents   \* bound on the number of user intents explored

ASSUME MaxIntentsAssumption == MaxIntents \in Nat

VARIABLES
    config, epoch,        \* SourceScanCoordinator: catalog sources, config epochs
    catalog, published,   \* epoch the durable / visible rows of a source describe
    obs,                  \* SourceScanCoordinator._observations
    lc,                   \* SourceScanLifecycle
    workers,              \* ThreadScanRunner: running threads and their tokens
    relay,                \* emissions queued for the owner thread
    closed,               \* ThreadScanRunner._closed
    intents,              \* user intents so far (environment bound)
    history               \* what happened, for the properties only

authority == <<config, epoch, catalog, published, obs>>
runner    == <<workers, relay, closed>>
vars      == <<config, epoch, catalog, published, obs, lc, workers, relay, closed,
               intents, history>>

(* What a worker's closure captured at submit. *)
Job == [gen : Nat, source : Sources, config : ConfigRecord, epoch : Nat]

Worker  == [job : Job, cancelled : BOOLEAN, reported : BOOLEAN]
Message == [kind : {"progress", "plan", "error", "cancelled"}, job : Job]

(* History: the sources whose scan the user asked for and has neither got  *)
(* nor withdrawn ("lost" are those among them asked for while a rejected   *)
(* scan of the same source was unwinding), the generations the owner       *)
(* rejected, and those whose plan it committed.                            *)
History == [asked : SUBSET Sources, lost : SUBSET Sources,
            rejected : SUBSET Nat, committed : SUBSET Nat]

(* No two configured sources overlap. *)
RootsAreDisjoint ==
    \A s \in Sources : Configured(config[s]) => RootIsFree(config, config[s].root, {s})

-----------------------------------------------------------------------------
(* The runner, seen from the owner thread                                  *)

(* submit: a new generation gets a thread and a fresh token, unless the    *)
(* runner is closed.  One whose start raised is not RUNNING.               *)
Submitted(new) ==
    IF new.generation # lc.generation /\ new.status = "RUNNING" /\ ~closed
    THEN {[job |-> [gen |-> new.generation, source |-> new.current,
                    config |-> new.snapshot, epoch |-> new.snapshotEpoch],
           cancelled |-> FALSE, reported |-> FALSE]}
    ELSE {}

(* cancel: the tokens of the generations rejected in this step. *)
Signalled(new) ==
    {[w EXCEPT !.cancelled = w.cancelled \/ w.job.gen \in new.rejected] : w \in workers}

(* The lifecycle moves to "new" and the runner follows. *)
Advance(new) ==
    /\ lc' = new
    /\ workers' = Signalled(new) \cup Submitted(new)

-----------------------------------------------------------------------------
(* Bookkeeping of the history                                              *)

Unwinding(s) == IsScanning(lc, s) /\ lc.generation \in lc.rejected

(* What is no longer runnable and no longer queued was skipped: it needs   *)
(* a new request.                                                          *)
Remember(asked, lost, new, commits) ==
    LET keep(T) == {s \in T : Runnable(config'[s]) \/ s \in Range(new.queue)}
    IN history' = [asked |-> keep(asked), lost |-> keep(lost),
                   rejected |-> history.rejected \cup new.rejected,
                   committed |-> history.committed \cup commits]

Ask(S, new) ==
    LET drops == {s \in S : Unwinding(s) /\ s \notin Range(lc.queue)}
    IN Remember(history.asked \cup S, (history.lost \ S) \cup drops, new, {})

Withdraw(S, new) == Remember(history.asked \ S, history.lost \ S, new, {})

-----------------------------------------------------------------------------
(* Configuration: what every mutation of the coordinator does              *)

(* mutant: the old observation stands                                      *)
ConfigureOnly(s, c) ==
    /\ config' = [config EXCEPT ![s] = c]
    /\ epoch' = EpochsAfter(config, config', epoch)
    /\ UNCHANGED <<obs, catalog>>

(* s is given configuration c; the old physical observation is dropped.    *)
Configure(s, c) ==
    /\ config' = [config EXCEPT ![s] = c]
    /\ epoch' = EpochsAfter(config, config', epoch)
    /\ obs' = [obs EXCEPT ![s] = "UNKNOWN"]
    /\ UNCHANGED catalog

(* The source add_source ends up with for root r: a retired source of that *)
(* very root is reactivated, otherwise a new one is created.               *)
AddSource(s, r) ==
    /\ \/ /\ config[s].lifecycle = "retired"
          /\ config[s].root = r
       \/ /\ ~Configured(config[s])
          /\ RootIsFree(config, r, {})
    /\ Configure(s, NewSource(r))
    /\ UNCHANGED published

-----------------------------------------------------------------------------
(* User intents, as the bridge's slots carry them out                      *)

Intent ==
    /\ ~closed
    /\ intents < MaxIntents
    /\ intents' = intents + 1
    /\ UNCHANGED <<relay, closed>>

RequestScanAll ==
    /\ Intent
    /\ UNCHANGED authority
    /\ LET all == {s \in Sources : Runnable(config[s])}
           l   == ResetTerminal(lc)
       IN \E ids \in SetToSeqs(Missing(l, all)) :
              \E new \in Enqueue(l, ids, config, epoch) :
                  Advance(new) /\ Ask(all, new)

(* request_scan_source: "ids" is empty when the source is already there.   *)
RequestScan(s, cfg, ep) ==
    LET l   == ResetTerminal(lc)
        ids == IF Missing(l, {s}) = {} THEN <<>> ELSE <<s>>
    IN Enqueue(l, ids, cfg, ep)

(* The row of a source that is not runnable may ask too: it is skipped.    *)
RequestScanSource(s) ==
    /\ Intent
    /\ Configured(config[s])
    /\ UNCHANGED authority
    /\ \E new \in RequestScan(s, config, epoch) : Advance(new) /\ Ask({s}, new)

(* Refused with a message while a scan is running. *)
RequestAddSource(s, r) ==
    /\ Intent
    /\ ~lc.active
    /\ AddSource(s, r)
    /\ \E new \in RequestScan(s, config', epoch') : Advance(new) /\ Ask({s}, new)

(* add_music_source configures without scanning. *)
AddMusicSource(s, r) ==
    /\ Intent
    /\ AddSource(s, r)
    /\ UNCHANGED <<lc, workers, history>>

(* add or relocate with a root that overlaps, or does not exist, or a scan *)
(* of all sources that the catalog does not list: the terminal record was  *)
(* already reset, by add and relocate only when idle.                      *)
RequestRefused ==
    /\ Intent
    /\ UNCHANGED authority
    /\ LET new == ResetTerminal(lc)
       IN Advance(new) /\ Ask({}, new)

RequestRelocate(s, r) ==
    /\ Intent
    /\ Configured(config[s])
    /\ RootIsFree(config, r, {s})
    /\ Configure(s, [config[s] EXCEPT !.root = r])
    /\ LET l == IF lc.active THEN lc ELSE ResetTerminal(lc)
       IN \E new \in RescheduleSource(l, s, config', epoch') :
              Advance(new) /\ Ask({s}, new)
    /\ UNCHANGED published

RetireSource(s) ==
    /\ Intent
    /\ Configured(config[s])
    /\ Configure(s, [config[s] EXCEPT !.lifecycle = "retired"])
    /\ published' = [published EXCEPT ![s] = Hidden]
    /\ LET new == InvalidateSource(lc, s)
       IN Advance(new) /\ Withdraw({s}, new)

SetSourceEnabled(s, enabled) ==
    /\ Intent
    /\ Configured(config[s])
    /\ Configure(s, [config[s] EXCEPT !.enabled = enabled])
    /\ LET new == InvalidateSource(lc, s)
       IN Advance(new) /\ Withdraw({s}, new)
    /\ UNCHANGED published

(* reactivate_source, then request_scan_source. *)
RestoreSource(s) ==
    /\ Intent
    /\ Configured(config[s])
    /\ IF Runnable(config[s])
       THEN UNCHANGED <<config, epoch, obs, catalog>>
       ELSE Configure(s, NewSource(config[s].root))
    /\ \E new \in RequestScan(s, config', epoch') : Advance(new) /\ Ask({s}, new)
    /\ UNCHANGED published

(* The bridge cancels only a running scan. *)
CancelScan ==
    /\ Intent
    /\ lc.status = "RUNNING"
    /\ UNCHANGED authority
    /\ LET new == Cancel(lc)
       IN Advance(new) /\ Withdraw(Sources, new)

(* Teardown: cancel, then close the runner and cancel every token, then    *)
(* disconnect the relay.                                                   *)
Shutdown ==
    /\ ~closed
    /\ closed' = TRUE
    /\ lc' = Cancel(lc)
    /\ workers' = {[w EXCEPT !.cancelled = TRUE] : w \in workers}
    /\ UNCHANGED <<authority, relay, intents>>
    /\ Withdraw(Sources, lc')

-----------------------------------------------------------------------------
(* Worker threads                                                          *)

Emit(kind, job) ==
    relay' = IF closed THEN relay ELSE Append(relay, [kind |-> kind, job |-> job])

(* The many progress reports of a worker are collapsed into one. *)
ReportProgress(w) ==
    /\ ~w.reported
    /\ workers' = (workers \ {w}) \cup {[w EXCEPT !.reported = TRUE]}
    /\ Emit("progress", w.job)
    /\ UNCHANGED <<authority, lc, closed, intents, history>>

(* The token is cooperative: a cancelled worker may have made its last     *)
(* check already and still deliver a plan or an error.                     *)
FinishWork(w, kind) ==
    /\ kind = "cancelled" => w.cancelled
    /\ workers' = workers \ {w}
    /\ Emit(kind, w.job)
    /\ UNCHANGED <<authority, lc, closed, intents, history>>

-----------------------------------------------------------------------------
(* Relay handlers on the owner thread                                      *)

Receive(kinds) ==
    /\ relay # <<>>
    /\ Head(relay).kind \in kinds
    /\ relay' = Tail(relay)
    /\ UNCHANGED <<closed, intents>>

HandleProgress ==
    /\ Receive({"progress"})
    /\ LET g == Head(relay).job.gen
       IN lc' = IF g = lc.generation /\ g \notin lc.rejected
                THEN [lc EXCEPT !.phase = "WORKING"]
                ELSE lc
    /\ UNCHANGED <<authority, workers, history>>

(* source_configuration_is_current, and gates 3 to 5 of the commit. *)
ConfigurationIsCurrent(s, c, e) ==
    /\ Configured(config[s])
    /\ e = epoch[s]
    /\ c = config[s]
    /\ Runnable(config[s])

(* mutant: the registry of rejected generations is not consulted           *)
IsOutdated(m) ==
    \/ lc.snapshot = Unconfigured
    \/ /\ m.kind = "error"
       /\ ~ConfigurationIsCurrent(lc.current, lc.snapshot, lc.snapshotEpoch)
    \/ /\ m.kind = "plan"
       /\ ~ConfigurationIsCurrent(m.job.source, m.job.config, m.job.epoch)

(* handle_done drops the result: the owner rejected the generation, or the *)
(* configuration it is about is not the current one.  An error is judged   *)
(* by the snapshot the lifecycle kept, a plan by the one it carries.       *)
IsStale(m) ==
    \/ m.job.gen \in lc.rejected
    \/ lc.snapshot = Unconfigured
    \/ /\ m.kind = "error"
       /\ ~ConfigurationIsCurrent(lc.current, lc.snapshot, lc.snapshotEpoch)
    \/ /\ m.kind = "plan"
       /\ ~ConfigurationIsCurrent(m.job.source, m.job.config, m.job.epoch)

Dones == {"plan", "error", "cancelled"}

IsCurrent(m) == m.job.gen = lc.generation

(* mutant: applies the result of the current generation, stale or not      *)
IsResult(m) == IsCurrent(m) /\ m.kind # "cancelled"

(* The result changes what the Library shows. *)
IsAccepted(m) == IsCurrent(m) /\ ~IsStale(m) /\ m.kind # "cancelled"

(* mutant: returns early when the generation was rejected                  *)
DropWithoutFinish ==
    /\ Receive(Dones)
    /\ UNCHANGED authority
    /\ LET m   == Head(relay)
           l   == [lc EXCEPT !.rejected = @ \ {m.job.gen}]
       IN /\ ~IsAccepted(m)
          /\ \E new \in IF ~IsCurrent(m) \/ IsStale(m) THEN {l}
                        ELSE Finish(l, "cancelled", config, epoch) :
                 Advance(new) /\ Ask({}, new)

(* handle_done without effect on the Library: the result of a superseded   *)
(* generation, a stale one, or a cancelled walk.  The rejection of the     *)
(* generation, if any, is popped.                                          *)
DropResult ==
    /\ Receive(Dones)
    /\ UNCHANGED authority
    /\ LET m   == Head(relay)
           l   == [lc EXCEPT !.rejected = @ \ {m.job.gen}]
           how == IF IsStale(m) THEN "stale" ELSE "cancelled"
       IN /\ ~IsAccepted(m)
          /\ \E new \in IF IsCurrent(m) THEN Finish(l, how, config, epoch) ELSE {lc} :
                 Advance(new) /\ Ask({}, new)

(* The gates of an error or a plan read the catalog before anything else.  *)
(* When that raises, the result is consumed and _finish is never reached.  *)
GateRaises ==
    /\ Receive({"plan", "error"})
    /\ LET m == Head(relay)
       IN IsCurrent(m) /\ m.job.gen \notin lc.rejected /\ lc.snapshot # Unconfigured
    /\ lc' = [lc EXCEPT !.raised = TRUE]
    /\ UNCHANGED <<authority, workers, history>>

(* record_source_scan_error *)
RecordError ==
    /\ Receive({"error"})
    /\ IsAccepted(Head(relay))
    /\ obs' = [obs EXCEPT ![lc.current] = "UNREACHABLE"]
    /\ UNCHANGED <<config, epoch, catalog, published>>
    /\ \E new \in Finish(lc, "failed", config, epoch) :
           Advance(new) /\ Withdraw({lc.current}, new)

(* commit_source_reconciliation: one catalog transaction; publication of   *)
(* the new rows may fail after it and is only logged.                      *)
CommitPlan ==
    /\ Receive({"plan"})
    /\ IsAccepted(Head(relay))
    /\ UNCHANGED <<config, epoch>>
    /\ LET job == Head(relay).job
           s   == job.source
       IN /\ catalog' = [catalog EXCEPT ![s] = job.epoch]
          /\ \E shown \in {job.epoch, published[s]} :
                 published' = [published EXCEPT ![s] = shown]
          /\ obs' = [obs EXCEPT ![s] = "AVAILABLE"]
          /\ \E new \in Finish(lc, "done", config, epoch) :
                 /\ Advance(new)
                 /\ Remember(history.asked \ {s}, history.lost \ {s}, new, {job.gen})

(* The catalog transaction failed: nothing changed, the source failed. *)
CommitFails ==
    /\ Receive({"plan"})
    /\ IsAccepted(Head(relay))
    /\ UNCHANGED authority
    /\ \E new \in Finish(lc, "failed", config, epoch) :
           Advance(new) /\ Withdraw({lc.current}, new)

(* Qt may or may not deliver what was queued before the disconnect. *)
LoseMessage ==
    /\ closed
    /\ Receive({"progress"} \cup Dones)
    /\ UNCHANGED <<authority, lc, workers, history>>

-----------------------------------------------------------------------------

(* Any configuration an earlier process may have left: no two overlap. *)
InitialConfigs ==
    [Sources -> {Unconfigured} \cup
                [root : Roots, enabled : BOOLEAN, lifecycle : {"active", "retired"}]]

Init ==
    /\ config \in InitialConfigs
    /\ RootsAreDisjoint
    /\ epoch = [s \in Sources |-> 0]
    /\ catalog = [s \in Sources |-> EarlierRun]
    /\ published = [s \in Sources |->
                       IF config[s].lifecycle = "active" THEN EarlierRun ELSE Hidden]
    /\ obs = [s \in Sources |-> "UNKNOWN"]
    /\ lc = InitialLifecycle
    /\ workers = {}
    /\ relay = <<>>
    /\ closed = FALSE
    /\ intents = 0
    /\ history = [asked |-> {}, lost |-> {}, rejected |-> {}, committed |-> {}]

UserNext ==
    \/ RequestScanAll \/ RequestRefused \/ CancelScan \/ Shutdown
    \/ \E s \in Sources : RequestScanSource(s) \/ RetireSource(s) \/ RestoreSource(s)
    \/ \E s \in Sources, e \in BOOLEAN : SetSourceEnabled(s, e)
    \/ \E s \in Sources, r \in Roots :
           RequestAddSource(s, r) \/ AddMusicSource(s, r) \/ RequestRelocate(s, r)

WorkerNext ==
    \E w \in workers :
        ReportProgress(w) \/ \E kind \in Dones : FinishWork(w, kind)

OwnerNext ==
    \/ HandleProgress \/ DropResult \/ GateRaises \/ RecordError \/ CommitPlan \/ CommitFails
    \/ LoseMessage

Next == UserNext \/ WorkerNext \/ OwnerNext

Spec == Init /\ [][Next]_vars

(* A scan terminates (its walk and extraction are finite) and Qt delivers  *)
(* a queued signal while the event loop runs.                              *)
Fairness ==
    /\ WF_vars(\E w \in workers, kind \in Dones : FinishWork(w, kind))
    /\ WF_vars(OwnerNext)

FairSpec == Spec /\ Fairness

-----------------------------------------------------------------------------
(* Properties                                                              *)

(* Type invariant of the owner, the runner and the history. *)
TypeOK ==
    /\ config \in [Sources -> ConfigRecord]
    /\ epoch \in [Sources -> Nat]
    /\ catalog \in [Sources -> RowsEpoch]
    /\ published \in [Sources -> PublishedEpoch]
    /\ obs \in [Sources -> Availability]
    /\ lc \in Lifecycle
    /\ workers \subseteq Worker
    /\ relay \in Seq(Message)
    /\ closed \in BOOLEAN
    /\ intents \in 0 .. MaxIntents
    /\ history \in History

(* A generation whose result is still to come: its thread runs, or its     *)
(* done signal is queued.                                                  *)
RunningJobs == {w.job : w \in workers}
DoneAt      == {i \in DOMAIN relay : relay[i].kind \in Dones}
Unresolved  == RunningJobs \cup {relay[i].job : i \in DoneAt}

(* Serialization: whatever the user does while scans are being cancelled,  *)
(* at most one scan is in flight, it is the one the lifecycle believes     *)
(* active, and its worker holds the very snapshot and epoch the lifecycle  *)
(* will judge its errors by.                                               *)
SingleFlight ==
    /\ \A j \in Unresolved :
           /\ lc.active /\ lc.status = "RUNNING"
           /\ j = [gen |-> lc.generation, source |-> lc.current,
                   config |-> lc.snapshot, epoch |-> lc.snapshotEpoch]
    /\ \A w1, w2 \in workers : w1 = w2
    /\ \A i, k \in DoneAt : i = k
    /\ workers # {} => DoneAt = {}

(* Two-layer staleness defence of the commit: no interleaving of edits,    *)
(* scans and late results leaves a result in flight that was computed      *)
(* under an outdated configuration and that the owner has not rejected.    *)
(* The epoch gates of the commit are a second line that is never reached.  *)
StaleIsRejected ==
    \A j \in Unresolved :
        \/ j.gen \in lc.rejected
        \/ ConfigurationIsCurrent(j.source, j.config, j.epoch)

(* "A queued SUCCESS can never commit after the owner processed Cancel,    *)
(* invalidate or reschedule": no generation is both rejected and           *)
(* committed, in either order.                                             *)
RejectedNeverCommits == history.rejected \cap history.committed = {}

(* A source is observed only while it may be scanned, and it is called     *)
(* AVAILABLE only if its durable rows were scanned under exactly its       *)
(* present configuration: no disable, retire, relocate or restore, in any  *)
(* order with late results, lets an old observation stand.                 *)
ObservationIsCurrent ==
    \A s \in Sources :
        /\ obs[s] # "UNKNOWN" => Runnable(config[s])
        /\ obs[s] = "AVAILABLE" => catalog[s] = epoch[s]

(* "An old plan can never re-publish retired tracks". *)
RetiredIsHidden ==
    \A s \in Sources : config[s].lifecycle = "retired" => published[s] = Hidden

(* Every source the user asked to scan, and did not cancel, retire or      *)
(* disable since, is queued or being scanned by a generation that can      *)
(* still commit (but see NoRequestIsLost).                                 *)
WillBeScanned(s) ==
    s \in Range(lc.queue) \/ (IsScanning(lc, s) /\ lc.generation \notin lc.rejected)

(* Standing requests are neither dropped nor doubled: a source is never    *)
(* queued twice, nor behind a scan of it that will still commit, and an    *)
(* idle lifecycle has nothing left to do.  Until a read of the catalog     *)
(* raises: _start_next and handle_done then leave a source popped or the   *)
(* active flag set, and nothing repairs either.                            *)
RequestsStand == lc.raised \/
    /\ \A s \in history.asked \ history.lost : WillBeScanned(s)
    /\ IsInjective(lc.queue)
    /\ lc.active /\ lc.generation \notin lc.rejected => lc.current \notin Range(lc.queue)
    /\ ~lc.active => /\ lc.queue = <<>> /\ lc.rejected = {}
                     /\ lc.current = NoSource /\ lc.phase = "NONE"

(* The same without the exception.  restore_source promises to "reconcile  *)
(* its current root asynchronously", but while a rejected scan of the      *)
(* source unwinds, _enqueue takes it for a scan of the source in progress  *)
(* and drops the request.                                                  *)
NoRequestIsLost == lc.raised \/ \A s \in history.asked : WillBeScanned(s)

(* The diagnostic the user sees belongs to the first failed source of the  *)
(* run, and a run with a failure never ends as COMPLETED or CANCELLED.     *)
FirstFailureIsKept ==
    /\ lc.lastSource = IF lc.failed = <<>> THEN NoSource ELSE Head(lc.failed)
    /\ lc.lastTerminal # "NONE" /\ lc.failed # <<>> => lc.lastTerminal = "FAILED"

(* Over a run, neither a request nor the first failure is lost.            *)
NothingIsForgotten == RequestsStand /\ FirstFailureIsKept

(* A scan starts only for a source with a standing request: Cancel,        *)
(* retire and disable withdraw it, so nothing they withdrew ever starts.   *)
StartsOnlyWhatWasAsked ==
    [][\A j \in RunningJobs' \ RunningJobs : j.source \in history'.asked]_vars

(* After teardown, late results change neither catalog nor Library. *)
NothingAfterShutdown == [][closed => UNCHANGED authority]_vars

(* No two configured sources ever overlap. *)
SourcesAreDisjoint == RootsAreDisjoint

(* The scan and the sources, whatever the user does: the types, the        *)
(* serialization and the separation of the sources.                        *)
Consistent == TypeOK /\ SingleFlight /\ SourcesAreDisjoint

(* Until teardown, or until a read of the catalog raises, every run comes  *)
(* to an end, with a terminal status for the user.                         *)
RunsEnd ==
    lc.active ~> (closed \/ lc.raised \/ (~lc.active /\ lc.lastTerminal # "NONE"))

(* A request that is neither satisfied nor withdrawn does not stand        *)
(* forever, unless a read of the catalog raises.                           *)
RequestsAreAnswered ==
    \A s \in Sources :
        s \in history.asked \ history.lost
            ~> (lc.raised \/ s \notin history.asked \ history.lost)

(* Every step of the concurrent scan is a step of the atomic one. *)
Authority == INSTANCE SourceAuthority
ImplementsAuthority == Authority!Spec

=============================================================================
