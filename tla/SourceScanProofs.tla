-------------------------- MODULE SourceScanProofs --------------------------
(***************************************************************************)
(* Proofs about SourceScan, for any sources, roots and number of intents.  *)
(***************************************************************************)
EXTENDS SourceScan, SequenceTheorems, FiniteSetTheorems, WellFoundedInduction, TLAPS

-----------------------------------------------------------------------------
(* The pure operators of the lifecycle                                     *)

Configs == [Sources -> ConfigRecord]
Epochs  == [Sources -> Nat]

(* From l to n the scan in flight stayed the same one. *)
Keeps(l, n) ==
    /\ n.generation = l.generation
    /\ n.active = l.active
    /\ n.status = "RUNNING" => l.status = "RUNNING"
    /\ l.active => /\ n.status = l.status
                   /\ n.current = l.current
                   /\ n.snapshot = l.snapshot
                   /\ n.snapshotEpoch = l.snapshotEpoch

(* From l to n a scan of a runnable source started, and holds its          *)
(* configuration and epoch.                                                *)
Starts(l, n, cfg, ep) ==
    /\ n.active
    /\ n.status = "RUNNING"
    /\ n.generation = l.generation + 1
    /\ n.rejected = l.rejected
    /\ n.current \in Sources
    /\ Runnable(cfg[n.current])
    /\ n.snapshot = cfg[n.current]
    /\ n.snapshotEpoch = ep[n.current]

(* From l to n the start of a scan raised: there is a generation without a *)
(* worker.                                                                 *)
Sticks(l, n) ==
    /\ n.active
    /\ n.status # "RUNNING"
    /\ n.generation = l.generation + 1
    /\ n.rejected = l.rejected

(* A run is called RUNNING only while a scan is active. *)
RunIsActive(l) == l.status = "RUNNING" => l.active

(* _start_next never touches a scan in flight, and what it starts is       *)
(* runnable under the configuration it is given.                           *)
LEMMA StartNextLemma ==
    ASSUME NEW l \in Lifecycle, NEW cfg \in Configs, NEW ep \in Epochs
    PROVE  LET n == StartNext(l, cfg, ep)
           IN /\ n \in Lifecycle
              /\ n.rejected = l.rejected
              /\ l.active => n = l
              /\ ~l.active => Keeps(l, n) \/ Starts(l, n, cfg, ep)
<1>1. CASE l.active
    BY <1>1 DEF StartNext, Lifecycle
<1>2. CASE ~l.active /\ NextRunnable(l.queue, cfg) = {}
    <2>1. StartNext(l, cfg, ep) = EndRun(l)
        BY <1>2 DEF StartNext
    <2>2. TerminalOf(l) \in Terminals
        BY DEF TerminalOf, Terminals, Lifecycle
    <2>3. EndRun(l) \in Lifecycle /\ EndRun(l).rejected = l.rejected /\ Keeps(l, EndRun(l))
        <3>0. <<>> \in Seq(Sources)
            BY EmptySeq
        <3>1. CASE l.status # "IDLE" \/ l.lastTerminal = "NONE"
            BY <1>2, <2>2, <3>0, <3>1 DEF EndRun, Lifecycle, Keeps, Statuses, Phases
        <3>2. CASE ~(l.status # "IDLE" \/ l.lastTerminal = "NONE")
            BY <1>2, <3>0, <3>2 DEF EndRun, Lifecycle, Keeps
        <3> QED
            BY <3>1, <3>2
    <2> QED
        BY <1>2, <2>1, <2>3
<1>3. CASE ~l.active /\ NextRunnable(l.queue, cfg) # {}
    <2> DEFINE i == CHOOSE i \in NextRunnable(l.queue, cfg) : TRUE
    <2>1. i \in NextRunnable(l.queue, cfg)
        BY <1>3
    <2>2. StartNext(l, cfg, ep) = StartAt(l, i, cfg, ep)
        BY <1>3 DEF StartNext
    <2> HIDE DEF i
    <2>3. l.queue \in Seq(Sources)
        BY DEF Lifecycle
    <2>4. i \in 1 .. Len(l.queue) /\ l.queue[i] \in Sources /\ Runnable(cfg[l.queue[i]])
        BY <2>1, <2>3 DEF NextRunnable
    <2>5. SubSeq(l.queue, i + 1, Len(l.queue)) \in Seq(Sources)
        BY <2>3, <2>4, SubSeqProperties
    <2>6. cfg[l.queue[i]] \in ConfigRecord /\ ep[l.queue[i]] \in Nat
        BY <2>4 DEF Configs, Epochs
    <2>7. StartAt(l, i, cfg, ep) \in Lifecycle
        <3> DEFINE q == SubSeq(l.queue, i + 1, Len(l.queue))
                   s == l.queue[i]
                   c == cfg[s]
                   e == ep[s]
        <3>1. q \in Seq(Sources) /\ s \in Sources /\ c \in ConfigRecord /\ e \in Nat
            BY <2>4, <2>5, <2>6
        <3>2. StartAt(l, i, cfg, ep) =
                 [l EXCEPT !.queue = q, !.active = TRUE, !.generation = l.generation + 1,
                           !.snapshot = c, !.snapshotEpoch = e, !.status = "RUNNING",
                           !.current = s, !.phase = "PROBING"]
            BY DEF StartAt
        <3>3. "RUNNING" \in Statuses /\ "PROBING" \in Phases
            BY DEF Statuses, Phases
        <3>4. l.generation + 1 \in Nat
            BY DEF Lifecycle
        <3> DEFINE g == l.generation + 1
        <3>5. g \in Nat
            BY <3>4
        <3> HIDE DEF q, s, c, e, g
        <3> DEFINE m == [l EXCEPT !.queue = q, !.active = TRUE, !.generation = g,
                                  !.snapshot = c]
        <3>6. m \in Lifecycle
            BY <3>1, <3>5 DEF Lifecycle
        <3>7. StartAt(l, i, cfg, ep) =
                 [m EXCEPT !.snapshotEpoch = e, !.status = "RUNNING",
                           !.current = s, !.phase = "PROBING"]
            BY <3>2 DEF g
        <3> HIDE DEF m
        <3> QED
            BY <3>1, <3>3, <3>6, <3>7 DEF Lifecycle
    <2>8. Starts(l, StartAt(l, i, cfg, ep), cfg, ep)
        BY <2>4 DEF StartAt, Lifecycle, Starts
    <2> QED
        BY <1>3, <2>2, <2>7, <2>8 DEF Starts
<1> QED
    BY <1>1, <1>2, <1>3

(* So also when one of its reads of the catalog raises, which may leave a  *)
(* generation without a worker.                                            *)
LEMMA ResumeLemma ==
    ASSUME NEW l \in Lifecycle, NEW cfg \in Configs, NEW ep \in Epochs,
           NEW n \in Resume(l, cfg, ep), RunIsActive(l)
    PROVE  /\ n \in Lifecycle
           /\ n.rejected = l.rejected
           /\ l.active => n = l
           /\ ~l.active => Keeps(l, n) \/ Starts(l, n, cfg, ep) \/ Sticks(l, n)
<1>1. CASE n = StartNext(l, cfg, ep)
    BY <1>1, StartNextLemma
<1> DEFINE rest(i) == SubSeq(l.queue, i + 1, Len(l.queue))
<1>2. ASSUME NEW i \in DOMAIN l.queue
      PROVE  rest(i) \in Seq(Sources) /\ cfg[l.queue[i]] \in ConfigRecord
    <2>1. l.queue \in Seq(Sources)
        BY DEF Lifecycle
    <2>2. i \in 1 .. Len(l.queue) /\ l.queue[i] \in Sources
        BY <2>1
    <2> QED
        BY <2>1, <2>2, SubSeqProperties DEF Configs
<1>3. CASE ~l.active /\ n \in ListingRaises(l, cfg)
    <2>1. PICK i \in DOMAIN l.queue : n = [l EXCEPT !.queue = rest(i), !.raised = TRUE]
        BY <1>3 DEF ListingRaises
    <2> DEFINE q == rest(i)
    <2>2. q \in Seq(Sources) /\ n = [l EXCEPT !.queue = q, !.raised = TRUE]
        BY <1>2, <2>1
    <2> HIDE DEF q
    <2>3. n \in Lifecycle /\ n.rejected = l.rejected /\ Keeps(l, n)
        BY <1>3, <2>2 DEF Lifecycle, Keeps
    <2> QED
        BY <1>3, <2>3
<1>4. CASE ~l.active /\ n \in EpochRaises(l, cfg)
    <2>1. PICK i \in NextRunnable(l.queue, cfg) :
              n = [l EXCEPT !.queue = rest(i), !.active = TRUE,
                            !.generation = l.generation + 1, !.snapshot = cfg[l.queue[i]],
                            !.raised = TRUE]
        BY <1>4 DEF EpochRaises
    <2> DEFINE q == rest(i)
               g == l.generation + 1
               c == cfg[l.queue[i]]
    <2>2. q \in Seq(Sources) /\ c \in ConfigRecord
        BY <1>2 DEF NextRunnable
    <2>3. g \in Nat
        BY DEF Lifecycle
    <2>4. n = [l EXCEPT !.queue = q, !.active = TRUE, !.generation = g, !.snapshot = c,
                        !.raised = TRUE] /\ g = l.generation + 1
        BY <2>1
    <2> HIDE DEF q, g, c
    <2>5. n \in Lifecycle /\ n.rejected = l.rejected
        BY <2>2, <2>3, <2>4 DEF Lifecycle
    <2>6. Sticks(l, n)
        BY <1>4, <2>4 DEF Lifecycle, Sticks, RunIsActive
    <2> QED
        BY <1>4, <2>5, <2>6
<1> QED
    BY <1>1, <1>3, <1>4 DEF Resume

(* _finish ends the scan in flight; what is active afterwards is new.      *)
LEMMA FinishLemma ==
    ASSUME NEW l \in Lifecycle, NEW cfg \in Configs, NEW ep \in Epochs,
           NEW how \in Endings, l.current \in Sources, NEW n \in Finish(l, how, cfg, ep)
    PROVE  /\ n \in Lifecycle
           /\ n.rejected = l.rejected
           /\ \/ ~n.active /\ n.status # "RUNNING" /\ n.generation = l.generation
              \/ Starts(l, n, cfg, ep)
              \/ Sticks(l, n)
<1> DEFINE fails == how = "failed"
           ended == Ended(l, how)
<1>1. n \in Resume(ended, cfg, ep)
    BY DEF Finish
<1>2. /\ ended \in Lifecycle
      /\ ~ended.active
      /\ ended.status # "RUNNING"
      /\ ended.generation = l.generation
      /\ ended.rejected = l.rejected
    <2> DEFINE hint == IF how = "stale" /\ l.queue = <<>> /\ l.failed = <<>>
                       THEN "CANCELLED" ELSE l.hint
               failed == IF fails /\ l.current \notin Range(l.failed)
                         THEN Append(l.failed, l.current) ELSE l.failed
               last == IF fails /\ l.lastSource = NoSource THEN l.current ELSE l.lastSource
               status == IF fails THEN "FAILED" ELSE "IDLE"
    <2>1. l.failed \in Seq(Sources) /\ l.hint \in Terminals
          /\ l.lastSource \in Sources \cup {NoSource}
        BY DEF Lifecycle
    <2>2. hint \in Terminals /\ last \in Sources \cup {NoSource}
          /\ status \in Statuses \ {"RUNNING"}
        BY <2>1 DEF Terminals, Statuses
    <2>3. failed \in Seq(Sources)
        BY <2>1
    <2>4. "NONE" \in Phases /\ Unconfigured \in ConfigRecord
        BY DEF Phases, Unconfigured, ConfigRecord, Lifecycles
    <2>5. ended = [l EXCEPT !.active = FALSE, !.snapshot = Unconfigured,
                            !.snapshotEpoch = 0, !.phase = "NONE", !.status = status,
                            !.hint = hint, !.failed = failed, !.lastSource = last]
        BY DEF Ended, Lifecycle
    <2> HIDE DEF ended, hint, status, failed, last
    <2> QED
        BY <2>2, <2>3, <2>4, <2>5 DEF Lifecycle
<1> HIDE DEF ended
<1>3. /\ n \in Lifecycle
      /\ n.rejected = ended.rejected
      /\ Keeps(ended, n) \/ Starts(ended, n, cfg, ep) \/ Sticks(ended, n)
    BY <1>1, <1>2, ResumeLemma DEF RunIsActive
<1> QED
    BY <1>2, <1>3 DEF Keeps, Starts, Sticks

(* Rejecting changes nothing but the registry, and rejects only the        *)
(* current generation.                                                     *)
LEMMA RejectLemma ==
    ASSUME NEW l \in Lifecycle
    PROVE  /\ Reject(l) \in Lifecycle
           /\ Keeps(l, Reject(l))
           /\ l.active => Reject(l).rejected = l.rejected \cup {l.generation}
           /\ ~l.active => Reject(l).rejected = l.rejected
BY DEF Reject, Lifecycle, Keeps

LEMMA WithoutType ==
    ASSUME NEW q \in Seq(Sources), NEW s
    PROVE  Without(q, s) \in Seq(Sources)
<1>1. CASE \E i \in DOMAIN q : q[i] = s
    <2> DEFINE i == CHOOSE i \in DOMAIN q : q[i] = s
    <2>1. i \in 1 .. Len(q)
        BY <1>1
    <2>2. Without(q, s) = SubSeq(q, 1, i - 1) \o SubSeq(q, i + 1, Len(q))
        BY <1>1 DEF Without, RemoveAt
    <2> HIDE DEF i
    <2>3. SubSeq(q, 1, i - 1) \in Seq(Sources)
        BY <2>1, SubSeqProperties
    <2>4. SubSeq(q, i + 1, Len(q)) \in Seq(Sources)
        BY <2>1, SubSeqProperties
    <2> QED
        BY <2>2, <2>3, <2>4, ConcatProperties
<1>2. CASE ~\E i \in DOMAIN q : q[i] = s
    BY <1>2 DEF Without
<1> QED
    BY <1>1, <1>2

(* What every owner-thread method other than a done handler does to the    *)
(* scan in flight: it keeps it, possibly rejecting it, or starts one when  *)
(* there is none.                                                          *)
Moves(l, n, cfg, ep) ==
    /\ n \in Lifecycle
    /\ Keeps(l, n) \/ (~l.active /\ (Starts(l, n, cfg, ep) \/ Sticks(l, n)))
    /\ \/ n.rejected = l.rejected
       \/ l.active /\ n.rejected = l.rejected \cup {l.generation}

LEMMA ResetLemma ==
    ASSUME NEW l \in Lifecycle
    PROVE  LET n == ResetTerminal(l)
           IN n \in Lifecycle /\ Keeps(l, n) /\ n.rejected = l.rejected
<1>1. <<>> \in Seq(Sources) /\ "NONE" \in Terminals
    BY EmptySeq DEF Terminals
<1> QED
    BY <1>1 DEF ResetTerminal, Lifecycle, Keeps

LEMMA EnqueueLemma ==
    ASSUME NEW l \in Lifecycle, NEW cfg \in Configs, NEW ep \in Epochs,
           NEW ids \in Seq(Sources), NEW n \in Enqueue(l, ids, cfg, ep), RunIsActive(l)
    PROVE  Moves(l, n, cfg, ep)
<1> DEFINE m == [l EXCEPT !.queue = l.queue \o ids]
<1>1. l.queue \o ids \in Seq(Sources)
    BY ConcatProperties DEF Lifecycle
<1>2. m \in Lifecycle /\ Keeps(l, m) /\ m.rejected = l.rejected
    BY <1>1 DEF Lifecycle, Keeps
<1>3. n \in Resume(m, cfg, ep) /\ RunIsActive(m)
    BY <1>2 DEF Enqueue, RunIsActive, Keeps
<1> HIDE DEF m
<1> QED
    BY <1>2, <1>3, ResumeLemma DEF Moves, Keeps, Starts, Sticks

LEMMA InvalidateLemma ==
    ASSUME NEW l \in Lifecycle, NEW s, NEW cfg, NEW ep
    PROVE  LET n == InvalidateSource(l, s)
           IN /\ Moves(l, n, cfg, ep)
              /\ IsScanning(l, s) => l.generation \in n.rejected
<1> DEFINE m == [l EXCEPT !.queue = Without(l.queue, s)]
<1>1. Without(l.queue, s) \in Seq(Sources)
    BY WithoutType DEF Lifecycle
<1>2. m \in Lifecycle /\ Keeps(l, m) /\ m.rejected = l.rejected
    BY <1>1 DEF Lifecycle, Keeps
<1>3. InvalidateSource(l, s) = IF IsScanning(l, s) THEN Reject(m) ELSE m
    BY DEF InvalidateSource
<1> HIDE DEF m
<1> QED
    BY <1>2, <1>3, RejectLemma DEF Moves, Keeps, IsScanning

LEMMA RescheduleLemma ==
    ASSUME NEW l \in Lifecycle, NEW s \in Sources,
           NEW cfg \in Configs, NEW ep \in Epochs,
           NEW n \in RescheduleSource(l, s, cfg, ep), RunIsActive(l)
    PROVE  /\ Moves(l, n, cfg, ep)
           /\ IsScanning(l, s) => l.generation \in n.rejected
<1> DEFINE m == [l EXCEPT !.queue = <<s>> \o Without(l.queue, s)]
<1>1. <<s>> \o Without(l.queue, s) \in Seq(Sources)
    BY WithoutType, ConcatProperties DEF Lifecycle
<1>2. m \in Lifecycle /\ Keeps(l, m) /\ m.rejected = l.rejected
    BY <1>1 DEF Lifecycle, Keeps
<1>3. n \in IF IsScanning(l, s) THEN {Reject(m)} ELSE Resume(m, cfg, ep)
    BY DEF RescheduleSource
<1> HIDE DEF m
<1>4. CASE IsScanning(l, s)
    <2>1. n = Reject(m) /\ l.active
        BY <1>3, <1>4 DEF IsScanning
    <2>2. Reject(m) \in Lifecycle /\ Keeps(m, Reject(m)) /\ m.active
          /\ Reject(m).rejected = m.rejected \cup {m.generation}
        BY <1>2, <2>1, RejectLemma DEF Keeps
    <2> QED
        BY <1>2, <2>1, <2>2 DEF Moves, Keeps
<1>5. CASE ~IsScanning(l, s)
    <2>1. n \in Resume(m, cfg, ep) /\ RunIsActive(m)
        BY <1>2, <1>3, <1>5 DEF RunIsActive, Keeps
    <2>2. /\ n \in Lifecycle
          /\ n.rejected = m.rejected
          /\ m.active => n = m
          /\ ~m.active => Keeps(m, n) \/ Starts(m, n, cfg, ep) \/ Sticks(m, n)
        BY <1>2, <2>1, ResumeLemma
    <2>3. CASE l.active
        BY <1>2, <2>2, <2>3, <1>5 DEF Moves, Keeps
    <2>4. CASE ~l.active
        BY <1>2, <2>2, <2>4, <1>5 DEF Moves, Keeps, Starts, Sticks
    <2> QED
        BY <2>3, <2>4
<1> QED
    BY <1>4, <1>5

LEMMA CancelLemma ==
    ASSUME NEW l \in Lifecycle, NEW cfg, NEW ep
    PROVE  LET n == Cancel(l)
           IN /\ Moves(l, n, cfg, ep)
              /\ Keeps(l, n)
              /\ l.active => l.generation \in n.rejected
<1> DEFINE e == [l EXCEPT !.queue = <<>>]
           m == [e EXCEPT !.cancelRequested = TRUE]
<1>1. <<>> \in Seq(Sources)
    BY EmptySeq
<1>2. e \in Lifecycle /\ Keeps(l, e) /\ e.rejected = l.rejected
    BY <1>1 DEF Lifecycle, Keeps
<1>3. m \in Lifecycle /\ Keeps(l, m) /\ m.rejected = l.rejected
    BY <1>1 DEF Lifecycle, Keeps
<1>4. Cancel(l) = IF l.active THEN Reject(m) ELSE e
    BY DEF Cancel
<1> HIDE DEF e, m
<1> QED
    BY <1>2, <1>3, <1>4, RejectLemma DEF Moves, Keeps

(* request_scan_source: reset, then enqueue. *)
LEMMA RequestScanLemma ==
    ASSUME lc \in Lifecycle, RunIsActive(lc), NEW s \in Sources,
           NEW cfg \in Configs, NEW ep \in Epochs, NEW n \in RequestScan(s, cfg, ep)
    PROVE  Moves(lc, n, cfg, ep)
<1> DEFINE l == ResetTerminal(lc)
           ids == IF Missing(l, {s}) = {} THEN <<>> ELSE <<s>>
<1>1. ids \in Seq(Sources)
    BY EmptySeq
<1>2. n \in Enqueue(l, ids, cfg, ep)
    BY DEF RequestScan
<1>3. l \in Lifecycle /\ Keeps(lc, l) /\ l.rejected = lc.rejected
    BY ResetLemma
<1> HIDE DEF l, ids
<1>4. RunIsActive(l)
    BY <1>3 DEF RunIsActive, Keeps
<1> QED
    BY <1>1, <1>2, <1>3, <1>4, EnqueueLemma DEF Moves, Keeps, Starts, Sticks

-----------------------------------------------------------------------------
(* The inductive invariant                                                 *)

(* Only the active generation can be rejected, and without one nothing is  *)
(* called RUNNING.                                                         *)
RejectionInv ==
    /\ lc.rejected \subseteq {lc.generation}
    /\ lc.rejected # {} => lc.active
    /\ RunIsActive(lc)

(* The scan in flight is of a source that was runnable, and unless it is   *)
(* rejected its snapshot and epoch are still the current ones.             *)
SnapshotInv ==
    lc.status = "RUNNING" =>
        /\ lc.current \in Sources
        /\ Runnable(lc.snapshot)
        /\ lc.generation \notin lc.rejected =>
              /\ lc.snapshot = config[lc.current]
              /\ lc.snapshotEpoch = epoch[lc.current]

(* What happened concerns past generations and the one in flight, whose    *)
(* rejection the lifecycle remembers until its result arrives.             *)
HistoryInv ==
    /\ history.committed \subseteq 0 .. lc.generation
    /\ history.rejected \subseteq 0 .. lc.generation
    /\ lc.active => lc.generation \notin history.committed
    /\ lc.active /\ lc.generation \in history.rejected => lc.generation \in lc.rejected
    /\ RejectedNeverCommits

LifecyclePart ==
    /\ lc \in Lifecycle
    /\ workers \subseteq Worker
    /\ SingleFlight
    /\ RejectionInv
    /\ SnapshotInv
    /\ HistoryInv

AuthorityPart ==
    /\ config \in Configs
    /\ epoch \in Epochs
    /\ catalog \in [Sources -> RowsEpoch]
    /\ published \in [Sources -> PublishedEpoch]
    /\ obs \in [Sources -> Availability]
    /\ ObservationIsCurrent
    /\ RetiredIsHidden

EnvironmentPart ==
    /\ relay \in Seq(Message)
    /\ closed \in BOOLEAN
    /\ intents \in 0 .. MaxIntents
    /\ history \in History

Inv == LifecyclePart /\ AuthorityPart /\ EnvironmentPart

-----------------------------------------------------------------------------
(* Steps of the lifecycle                                                  *)

LEMMA RememberLemma ==
    ASSUME history \in History, NEW asked \in SUBSET Sources, NEW lost \in SUBSET Sources,
           NEW new \in Lifecycle, NEW commits \in SUBSET Nat,
           Remember(asked, lost, new, commits)
    PROVE  /\ history' \in History
           /\ history'.rejected = history.rejected \cup new.rejected
           /\ history'.committed = history.committed \cup commits
BY DEF Remember, History, Lifecycle

(* While the scan in flight stays the same and no worker or done signal    *)
(* appears, there is still at most one.                                    *)
LEMMA FlightKept ==
    ASSUME SingleFlight, relay' = relay, Keeps(lc, lc'),
           \A v \in workers' : \E w \in workers : v.job = w.job,
           \A v1, v2 \in workers' : v1 = v2
    PROVE  SingleFlight'
<1>1. DoneAt' = DoneAt
    BY DEF DoneAt
<1>2. RunningJobs' \subseteq RunningJobs
    BY DEF RunningJobs
<1>3. Unresolved' \subseteq Unresolved
    BY <1>1, <1>2 DEF Unresolved
<1>4. workers' # {} => workers # {}
    OBVIOUS
<1> QED
    BY <1>1, <1>3, <1>4 DEF SingleFlight, Keeps

(* A new worker appears only when nothing was in flight.                   *)
LEMMA FlightStarted ==
    ASSUME lc'.active, lc'.status = "RUNNING", workers = {},
           \A i \in DOMAIN relay' : relay'[i].kind \notin Dones,
           workers' = Submitted(lc')
    PROVE  SingleFlight'
<1>1. DoneAt' = {}
    BY DEF DoneAt
<1> DEFINE j == [gen |-> lc'.generation, source |-> lc'.current,
                 config |-> lc'.snapshot, epoch |-> lc'.snapshotEpoch]
<1>2. \A w \in workers' : w = [job |-> j, cancelled |-> FALSE, reported |-> FALSE]
    BY DEF Submitted
<1>3. RunningJobs' \subseteq {j}
    BY <1>2 DEF RunningJobs
<1>4. Unresolved' \subseteq {j}
    BY <1>1, <1>3 DEF Unresolved
<1> QED
    BY <1>1, <1>2, <1>4 DEF SingleFlight

LEMMA SubmittedType ==
    ASSUME NEW n \in Lifecycle, n.current \in Sources
    PROVE  Submitted(n) \subseteq Worker
<1> DEFINE j == [gen |-> n.generation, source |-> n.current,
                 config |-> n.snapshot, epoch |-> n.snapshotEpoch]
           w == [job |-> j, cancelled |-> FALSE, reported |-> FALSE]
<1>1. j \in Job
    BY DEF Job, Lifecycle
<1>2. w \in Worker
    BY <1>1 DEF Worker
<1>3. Submitted(n) \subseteq {w}
    BY DEF Submitted
<1> QED
    BY <1>2, <1>3

(* The owner-thread methods outside the done handlers.  A source whose     *)
(* configuration they change is not left with an unrejected scan.          *)
LEMMA MoveStep ==
    ASSUME LifecyclePart, NEW new, config' \in Configs, epoch' \in Epochs,
           Moves(lc, new, config', epoch'), Advance(new), relay' = relay,
           lc.status = "RUNNING" /\ lc.generation \notin new.rejected =>
               /\ config'[lc.current] = config[lc.current]
               /\ epoch'[lc.current] = epoch[lc.current],
           history'.rejected = history.rejected \cup new.rejected,
           history'.committed = history.committed
    PROVE  LifecyclePart'
<1>1. lc' = new /\ lc' \in Lifecycle
    BY DEF Advance, Moves
<1>2. lc \in Lifecycle /\ workers \subseteq Worker /\ SingleFlight /\ RejectionInv
      /\ SnapshotInv /\ HistoryInv
    BY DEF LifecyclePart
<1>3. CASE Keeps(lc, new)
    <2>1. workers' = Signalled(new)
        BY <1>3 DEF Advance, Submitted, Keeps
    <2>2. workers' \subseteq Worker
        BY <1>2, <2>1 DEF Signalled, Worker
    <2>3. SingleFlight'
        <3>1. \A v \in workers' : \E w \in workers : v.job = w.job
            BY <1>2, <2>1 DEF Signalled, Worker
        <3>2. \A v1, v2 \in workers' : v1 = v2
            BY <1>2, <2>1 DEF Signalled, SingleFlight
        <3> QED
            BY <1>1, <1>2, <1>3, <3>1, <3>2, FlightKept
    <2>4. RejectionInv'
        BY <1>1, <1>2, <1>3 DEF RejectionInv, RunIsActive, Moves, Keeps
    <2>5. SnapshotInv'
        <3> SUFFICES ASSUME new.status = "RUNNING"
                     PROVE  /\ new.current \in Sources
                            /\ Runnable(new.snapshot)
                            /\ new.generation \notin new.rejected =>
                                  /\ new.snapshot = config'[new.current]
                                  /\ new.snapshotEpoch = epoch'[new.current]
            BY <1>1 DEF SnapshotInv
        <3>1. lc.status = "RUNNING" /\ lc.active
            BY <1>2, <1>3 DEF RejectionInv, RunIsActive, Keeps
        <3>2. new.current = lc.current /\ new.snapshot = lc.snapshot
              /\ new.snapshotEpoch = lc.snapshotEpoch /\ new.generation = lc.generation
            BY <1>3, <3>1 DEF Keeps
        <3>3. lc.rejected \subseteq new.rejected
            BY DEF Moves
        <3> QED
            BY <1>2, <3>1, <3>2, <3>3 DEF SnapshotInv
    <2>6. HistoryInv'
        <3>1. lc.rejected \subseteq {lc.generation} /\ (lc.rejected # {} => lc.active)
            BY <1>2 DEF RejectionInv
        <3>2. /\ new.generation = lc.generation /\ new.active = lc.active
              /\ \/ new.rejected = lc.rejected
                 \/ lc.active /\ new.rejected = lc.rejected \cup {lc.generation}
            BY <1>3 DEF Moves, Keeps
        <3> QED
            BY <1>1, <1>2, <3>1, <3>2 DEF HistoryInv, RejectedNeverCommits, Lifecycle
    <2> QED
        BY <1>1, <2>2, <2>3, <2>4, <2>5, <2>6 DEF LifecyclePart
<1>4. CASE ~lc.active /\ Starts(lc, new, config', epoch')
    <2>1. workers = {} /\ \A i \in DOMAIN relay' : relay'[i].kind \notin Dones
        BY <1>2, <1>4 DEF SingleFlight, Unresolved, RunningJobs, DoneAt
    <2>2. workers' = Submitted(lc')
        BY <1>1, <2>1 DEF Advance, Signalled
    <2>3. SingleFlight'
        BY <1>1, <1>4, <2>1, <2>2, FlightStarted DEF Starts
    <2>4. workers' \subseteq Worker
        BY <1>1, <1>4, <2>2, SubmittedType DEF Starts
    <2>5. lc.rejected = {} /\ new.rejected = {}
        BY <1>2, <1>4 DEF RejectionInv, Starts
    <2>6. RejectionInv'
        BY <1>1, <1>4, <2>5 DEF RejectionInv, RunIsActive, Starts
    <2>7. SnapshotInv'
        BY <1>1, <1>4 DEF SnapshotInv, Starts
    <2>8. HistoryInv'
        BY <1>1, <1>2, <1>4, <2>5 DEF HistoryInv, RejectedNeverCommits, Starts, Lifecycle
    <2> QED
        BY <1>1, <2>3, <2>4, <2>6, <2>7, <2>8 DEF LifecyclePart
<1>5. CASE ~lc.active /\ Sticks(lc, new)
    <2>1. workers = {} /\ DoneAt = {}
        BY <1>2, <1>5 DEF SingleFlight, Unresolved, RunningJobs
    <2>2. workers' = {} /\ DoneAt' = {}
        BY <1>5, <2>1 DEF Advance, Signalled, Submitted, Sticks, DoneAt
    <2>3. SingleFlight'
        BY <2>2 DEF SingleFlight, Unresolved, RunningJobs
    <2>4. lc.rejected = {} /\ new.rejected = {}
        BY <1>2, <1>5 DEF RejectionInv, Sticks
    <2>5. RejectionInv' /\ SnapshotInv'
        BY <1>1, <1>5, <2>4 DEF RejectionInv, SnapshotInv, RunIsActive, Sticks
    <2>6. HistoryInv'
        BY <1>1, <1>2, <1>5, <2>4 DEF HistoryInv, RejectedNeverCommits, Sticks, Lifecycle
    <2> QED
        BY <1>1, <2>2, <2>3, <2>5, <2>6 DEF LifecyclePart
<1> QED
    BY <1>3, <1>4, <1>5 DEF Moves

(* What a done signal at the head of the relay means: it belongs to the    *)
(* scan in flight, no worker runs, and no other done signal is queued.     *)
LEMMA DoneLemma ==
    ASSUME LifecyclePart, EnvironmentPart, relay # <<>>, Head(relay).kind \in Dones
    PROVE  /\ Head(relay) \in Message
           /\ Tail(relay) \in Seq(Message)
           /\ lc.active /\ lc.status = "RUNNING"
           /\ Head(relay).job = [gen |-> lc.generation, source |-> lc.current,
                                 config |-> lc.snapshot, epoch |-> lc.snapshotEpoch]
           /\ workers = {}
           /\ \A i \in DOMAIN Tail(relay) : Tail(relay)[i].kind \notin Dones
<1>1. relay \in Seq(Message) /\ SingleFlight
    BY DEF LifecyclePart, EnvironmentPart
<1>2. Len(relay) \in Nat \ {0} /\ DOMAIN relay = 1 .. Len(relay) /\ Head(relay) = relay[1]
    BY <1>1, EmptySeq, LenProperties
<1>3. 1 \in DoneAt
    BY <1>2 DEF DoneAt
<1>4. Head(relay).job \in Unresolved
    BY <1>2, <1>3 DEF Unresolved
<1>5. /\ Head(relay) \in Message /\ Tail(relay) \in Seq(Message)
      /\ Len(Tail(relay)) = Len(relay) - 1
      /\ \A i \in 1 .. Len(Tail(relay)) : Tail(relay)[i] = relay[i + 1]
    BY <1>1, HeadTailProperties
<1>6. ASSUME NEW i \in DOMAIN Tail(relay)
      PROVE  Tail(relay)[i].kind \notin Dones
    <2>1. i \in 1 .. Len(Tail(relay)) /\ i + 1 \in DOMAIN relay /\ i + 1 # 1
        BY <1>2, <1>5
    <2>2. i + 1 \notin DoneAt
        BY <1>1, <1>3, <2>1 DEF SingleFlight
    <2> QED
        BY <1>5, <2>1, <2>2 DEF DoneAt
<1> QED
    BY <1>1, <1>3, <1>4, <1>5, <1>6 DEF SingleFlight

(* The done handlers: _finish after the rejection was popped.  Only an     *)
(* unrejected generation commits.                                          *)
LEMMA FinishStep ==
    ASSUME LifecyclePart, EnvironmentPart, relay # <<>>, Head(relay).kind \in Dones,
           relay' = Tail(relay), config \in Configs, epoch \in Epochs,
           UNCHANGED <<config, epoch>>,
           NEW l \in Lifecycle, l.generation = lc.generation, l.current = lc.current,
           l.rejected = {}, NEW how \in Endings,
           NEW n \in Finish(l, how, config, epoch), Advance(n),
           NEW commits \in SUBSET {lc.generation},
           commits # {} => lc.generation \notin lc.rejected,
           history'.rejected = history.rejected \cup lc'.rejected,
           history'.committed = history.committed \cup commits
    PROVE  LifecyclePart'
<1>1. lc \in Lifecycle /\ RejectionInv /\ SnapshotInv /\ HistoryInv
    BY DEF LifecyclePart
<1>2. /\ lc.active /\ lc.status = "RUNNING" /\ workers = {}
      /\ \A i \in DOMAIN relay' : relay'[i].kind \notin Dones
    BY DoneLemma
<1>3. l.current \in Sources
    BY <1>1, <1>2 DEF SnapshotInv
<1>4. /\ n \in Lifecycle
      /\ n.rejected = {}
      /\ \/ ~n.active /\ n.status # "RUNNING" /\ n.generation = lc.generation
         \/ Starts(l, n, config, epoch)
         \/ Sticks(l, n)
    BY <1>3, FinishLemma
<1>5. lc' = n /\ workers' = Submitted(n)
    BY <1>2 DEF Advance, Signalled
<1>6. RejectionInv'
    BY <1>4, <1>5 DEF RejectionInv, RunIsActive, Starts, Sticks
<1>7. CASE n.status # "RUNNING"
    <2>1. workers' = {}
        BY <1>5, <1>7 DEF Submitted
    <2>2. SingleFlight'
        BY <1>2, <2>1 DEF SingleFlight, Unresolved, RunningJobs, DoneAt
    <2>3. SnapshotInv'
        BY <1>5, <1>7 DEF SnapshotInv
    <2>4. HistoryInv'
        BY <1>1, <1>2, <1>4, <1>5, <1>7
           DEF HistoryInv, RejectedNeverCommits, Starts, Sticks, Lifecycle
    <2> QED
        BY <1>4, <1>5, <1>6, <2>1, <2>2, <2>3, <2>4 DEF LifecyclePart
<1>8. CASE Starts(l, n, config, epoch)
    <2>1. workers' = Submitted(lc') /\ lc'.active /\ lc'.status = "RUNNING"
        BY <1>5, <1>8 DEF Starts
    <2>2. SingleFlight'
        BY <1>2, <2>1, FlightStarted
    <2>3. workers' \subseteq Worker
        BY <1>4, <1>5, <1>8, SubmittedType DEF Starts
    <2>4. SnapshotInv'
        BY <1>5, <1>8 DEF SnapshotInv, Starts
    <2>5. HistoryInv'
        BY <1>1, <1>2, <1>4, <1>5, <1>8 DEF HistoryInv, RejectedNeverCommits, Starts, Lifecycle
    <2> QED
        BY <1>4, <1>5, <1>6, <2>2, <2>3, <2>4, <2>5 DEF LifecyclePart
<1> QED
    BY <1>4, <1>7, <1>8 DEF Sticks

-----------------------------------------------------------------------------
(* Changes of configuration                                                *)

LEMMA ConfigureLemma ==
    ASSUME AuthorityPart, NEW s \in Sources, NEW c \in ConfigRecord, Configure(s, c)
    PROVE  /\ config' \in Configs
           /\ epoch' \in Epochs
           /\ catalog' \in [Sources -> RowsEpoch]
           /\ obs' \in [Sources -> Availability]
           /\ config'[s] = c
           /\ \A x \in Sources \ {s} : config'[x] = config[x] /\ epoch'[x] = epoch[x]
           /\ ObservationIsCurrent'
<1>1. /\ config' = [config EXCEPT ![s] = c] /\ obs' = [obs EXCEPT ![s] = "UNKNOWN"]
      /\ epoch' = EpochsAfter(config, config', epoch) /\ catalog' = catalog
    BY DEF Configure
<1>2. config \in Configs /\ epoch \in Epochs /\ obs \in [Sources -> Availability]
      /\ catalog \in [Sources -> RowsEpoch] /\ ObservationIsCurrent
    BY DEF AuthorityPart
<1>3. config' \in Configs /\ config'[s] = c /\ \A x \in Sources \ {s} : config'[x] = config[x]
    BY <1>1, <1>2 DEF Configs
<1>4. epoch' \in Epochs /\ \A x \in Sources \ {s} : epoch'[x] = epoch[x]
    BY <1>1, <1>2, <1>3 DEF Epochs, EpochsAfter
<1>5. obs' \in [Sources -> Availability]
    BY <1>1, <1>2 DEF Availability
<1>6. ObservationIsCurrent'
    BY <1>1, <1>2, <1>3, <1>4 DEF ObservationIsCurrent
<1> QED
    BY <1>1, <1>2, <1>3, <1>4, <1>5, <1>6

LEMMA AuthorityKept ==
    ASSUME AuthorityPart, UNCHANGED authority
    PROVE  AuthorityPart'
BY DEF AuthorityPart, authority, ObservationIsCurrent, RetiredIsHidden

(* A configuration change that neither retires a source nor publishes.     *)
LEMMA AuthorityConfigured ==
    ASSUME AuthorityPart, NEW s \in Sources, NEW c \in ConfigRecord, Configure(s, c),
           UNCHANGED published,
           c.lifecycle = "retired" => config[s].lifecycle = "retired"
    PROVE  AuthorityPart'
<1>1. RetiredIsHidden'
    BY ConfigureLemma DEF AuthorityPart, RetiredIsHidden
<1> QED
    BY <1>1, ConfigureLemma DEF AuthorityPart

-----------------------------------------------------------------------------
(* The user's intents preserve the invariant                               *)

LEMMA IntentLemma ==
    ASSUME EnvironmentPart, Intent, history' \in History
    PROVE  EnvironmentPart' /\ relay' = relay /\ closed' = closed
BY MaxIntentsAssumption DEF EnvironmentPart, Intent

LEMMA AskLemma ==
    ASSUME history \in History, NEW S \in SUBSET Sources, NEW new \in Lifecycle, Ask(S, new)
    PROVE  /\ history' \in History
           /\ history'.rejected = history.rejected \cup new.rejected
           /\ history'.committed = history.committed
<1> DEFINE asked == history.asked \cup S
           lost  == (history.lost \ S)
                       \cup {s \in S : Unwinding(s) /\ s \notin Range(lc.queue)}
<1>1. asked \in SUBSET Sources /\ lost \in SUBSET Sources /\ {} \in SUBSET Nat
    BY DEF History
<1>2. Remember(asked, lost, new, {})
    BY DEF Ask
<1> HIDE DEF asked, lost
<1>3. /\ history' \in History
      /\ history'.rejected = history.rejected \cup new.rejected
      /\ history'.committed = history.committed \cup {}
    BY <1>1, <1>2, RememberLemma
<1> QED
    BY <1>3

LEMMA WithdrawLemma ==
    ASSUME history \in History, NEW S, NEW new \in Lifecycle, Withdraw(S, new)
    PROVE  /\ history' \in History
           /\ history'.rejected = history.rejected \cup new.rejected
           /\ history'.committed = history.committed
<1> DEFINE asked == history.asked \ S
           lost  == history.lost \ S
<1>1. asked \in SUBSET Sources /\ lost \in SUBSET Sources /\ {} \in SUBSET Nat
    BY DEF History
<1>2. Remember(asked, lost, new, {})
    BY DEF Withdraw
<1> HIDE DEF asked, lost
<1>3. /\ history' \in History
      /\ history'.rejected = history.rejected \cup new.rejected
      /\ history'.committed = history.committed \cup {}
    BY <1>1, <1>2, RememberLemma
<1> QED
    BY <1>3

(* The intents that end in one lifecycle operation with result "new".      *)
LEMMA IntentStep ==
    ASSUME Inv, Intent, NEW new, Moves(lc, new, config', epoch'), Advance(new),
           AuthorityPart',
           NEW S \in SUBSET Sources, Ask(S, new) \/ Withdraw(S, new),
           lc.status = "RUNNING" /\ lc.generation \notin new.rejected =>
               /\ config'[lc.current] = config[lc.current]
               /\ epoch'[lc.current] = epoch[lc.current]
    PROVE  Inv'
<1>1. new \in Lifecycle /\ history \in History
    BY DEF Moves, Inv, EnvironmentPart
<1>2. /\ history' \in History
      /\ history'.rejected = history.rejected \cup new.rejected
      /\ history'.committed = history.committed
    BY <1>1, AskLemma, WithdrawLemma
<1>3. EnvironmentPart' /\ relay' = relay
    BY <1>2, IntentLemma DEF Inv
<1>4. LifecyclePart'
    BY <1>2, <1>3, MoveStep DEF Inv, AuthorityPart
<1> QED
    BY <1>3, <1>4 DEF Inv

LEMMA RequestScanAllStep == Inv /\ RequestScanAll => Inv'
<1> SUFFICES ASSUME Inv, RequestScanAll PROVE Inv'
    OBVIOUS
<1> USE DEF Inv
<1> DEFINE all == {s \in Sources : Runnable(config[s])}
           l == ResetTerminal(lc)
<1>a. PICK ids \in SetToSeqs(Missing(l, all)) :
          \E new \in Enqueue(l, ids, config, epoch) : Advance(new) /\ Ask(all, new)
    BY DEF RequestScanAll
<1>1. PICK new \in Enqueue(l, ids, config, epoch) : Advance(new) /\ Ask(all, new)
    BY <1>a
<1>2. UNCHANGED authority /\ Intent
    BY DEF RequestScanAll
<1>3. l \in Lifecycle /\ Keeps(lc, l) /\ l.rejected = lc.rejected
    BY ResetLemma DEF LifecyclePart
<1>4. ids \in Seq(Sources)
    <2> DEFINE M == Missing(l, all)
    <2>1. M \subseteq Sources
        BY DEF Missing
    <2>2. Cardinality(M) \in Nat
        BY <2>1, SourcesAssumption, FS_Subset, FS_CardinalityType
    <2>3. ids \in [1 .. Cardinality(M) -> M]
        BY DEF SetToSeqs
    <2> HIDE DEF M
    <2>4. ids \in [1 .. Cardinality(M) -> Sources]
        BY <2>1, <2>3
    <2> QED
        BY <2>2, <2>4, SeqDef
<1>5. Moves(l, new, config, epoch)
    <2>1. RunIsActive(l)
        BY <1>3 DEF LifecyclePart, RejectionInv, RunIsActive, Keeps
    <2> QED
        BY <1>1, <1>3, <1>4, <2>1, EnqueueLemma DEF AuthorityPart
<1>6. Moves(lc, new, config, epoch)
    BY <1>3, <1>5 DEF Moves, Keeps, Starts, Sticks
<1>7. Advance(new) /\ Ask(all, new) /\ all \in SUBSET Sources
    BY <1>1
<1> HIDE DEF all, l
<1>8. config' = config /\ epoch' = epoch /\ AuthorityPart'
    BY <1>2, AuthorityKept DEF authority
<1> QED
    BY <1>2, <1>6, <1>7, <1>8, IntentStep

(* A scan of s that is not rejected is of a runnable source. *)
LEMMA FlightIsRunnable ==
    ASSUME Inv, lc.status = "RUNNING", lc.generation \notin lc.rejected
    PROVE  lc.current \in Sources /\ Runnable(config[lc.current])
BY DEF Inv, LifecyclePart, SnapshotInv

LEMMA RequestScanSourceStep ==
    ASSUME Inv, NEW s \in Sources, RequestScanSource(s)
    PROVE  Inv'
<1>1. PICK new \in RequestScan(s, config, epoch) : Advance(new) /\ Ask({s}, new)
    BY DEF RequestScanSource
<1>a. Intent /\ UNCHANGED authority
    BY DEF RequestScanSource
<1>2. config' = config /\ epoch' = epoch /\ AuthorityPart'
    BY <1>a, AuthorityKept DEF authority, Inv
<1>3. Moves(lc, new, config, epoch)
    BY <1>1, RequestScanLemma DEF Inv, LifecyclePart, RejectionInv, AuthorityPart
<1> QED
    BY <1>1, <1>a, <1>2, <1>3, IntentStep

(* What add_source leaves: s has a new configuration, and no unrejected    *)
(* scan of s was in flight because s was not runnable.                     *)
LEMMA AddSourceLemma ==
    ASSUME Inv, NEW s \in Sources, NEW r \in Roots, AddSource(s, r)
    PROVE  /\ AuthorityPart'
           /\ \A x \in Sources \ {s} : config'[x] = config[x] /\ epoch'[x] = epoch[x]
           /\ ~Runnable(config[s])
<1>1. NewSource(r) \in ConfigRecord
    BY DEF NewSource, ConfigRecord, Lifecycles
<1>2. Configure(s, NewSource(r)) /\ UNCHANGED published
    BY DEF AddSource
<1>3. AuthorityPart'
    BY <1>1, <1>2, AuthorityConfigured DEF NewSource, Inv
<1>4. ~Runnable(config[s])
    BY DEF AddSource, Runnable, Configured
<1> QED
    BY <1>1, <1>2, <1>3, <1>4, ConfigureLemma DEF Inv

LEMMA RequestAddSourceStep ==
    ASSUME Inv, NEW s \in Sources, NEW r \in Roots, RequestAddSource(s, r)
    PROVE  Inv'
<1>1. Intent /\ ~lc.active /\ AddSource(s, r)
    BY DEF RequestAddSource
<1>2. PICK new \in RequestScan(s, config', epoch') : Advance(new) /\ Ask({s}, new)
    BY DEF RequestAddSource
<1>3. AuthorityPart'
    BY <1>1, AddSourceLemma
<1>4. Moves(lc, new, config', epoch')
    BY <1>2, <1>3, RequestScanLemma DEF Inv, LifecyclePart, RejectionInv, AuthorityPart
<1>5. lc.status # "RUNNING"
    BY <1>1 DEF Inv, LifecyclePart, RejectionInv, RunIsActive
<1> QED
    BY <1>1, <1>2, <1>3, <1>4, <1>5, IntentStep

LEMMA AddMusicSourceStep ==
    ASSUME Inv, NEW s \in Sources, NEW r \in Roots, AddMusicSource(s, r)
    PROVE  Inv'
<1>1. Intent /\ AddSource(s, r) /\ UNCHANGED <<lc, workers, history>>
    BY DEF AddMusicSource
<1>2. AuthorityPart'
    BY <1>1, AddSourceLemma
<1>3. EnvironmentPart' /\ relay' = relay
    BY <1>1, IntentLemma DEF Inv, EnvironmentPart
<1>4. SingleFlight'
    BY <1>1, <1>3 DEF Inv, LifecyclePart, SingleFlight, Unresolved, RunningJobs, DoneAt
<1>5. SnapshotInv'
    BY <1>1, AddSourceLemma, FlightIsRunnable DEF Inv, LifecyclePart, SnapshotInv
<1>6. LifecyclePart'
    BY <1>1, <1>4, <1>5
       DEF Inv, LifecyclePart, RejectionInv, HistoryInv, RejectedNeverCommits
<1> QED
    BY <1>2, <1>3, <1>6 DEF Inv

LEMMA RequestRefusedStep ==
    ASSUME Inv, RequestRefused
    PROVE  Inv'
<1> DEFINE new == ResetTerminal(lc)
<1>1. Intent /\ UNCHANGED authority /\ Advance(new) /\ Ask({}, new)
    BY DEF RequestRefused
<1>2. config' = config /\ epoch' = epoch /\ AuthorityPart'
    BY <1>1, AuthorityKept DEF authority, Inv
<1>3. Moves(lc, new, config', epoch')
    BY ResetLemma DEF Moves, Inv, LifecyclePart
<1>4. {} \in SUBSET Sources
    OBVIOUS
<1> HIDE DEF new
<1> QED
    BY <1>1, <1>2, <1>3, <1>4, IntentStep

LEMMA RequestRelocateStep ==
    ASSUME Inv, NEW s \in Sources, NEW r \in Roots, RequestRelocate(s, r)
    PROVE  Inv'
<1> DEFINE c == [config[s] EXCEPT !.root = r]
           l == IF lc.active THEN lc ELSE ResetTerminal(lc)
<1>1. Intent /\ Configure(s, c) /\ UNCHANGED published
    BY DEF RequestRelocate
<1>a. PICK new \in RescheduleSource(l, s, config', epoch') :
          Advance(new) /\ Ask({s}, new)
    BY DEF RequestRelocate
<1>2. lc \in Lifecycle /\ AuthorityPart
    BY DEF Inv, LifecyclePart
<1>3. c \in ConfigRecord /\ c.lifecycle = config[s].lifecycle
    BY <1>2 DEF AuthorityPart, Configs, ConfigRecord
<1> HIDE DEF c
<1>4. AuthorityPart'
    BY <1>1, <1>2, <1>3, AuthorityConfigured
<1>5. config' \in Configs /\ epoch' \in Epochs
      /\ \A x \in Sources \ {s} : config'[x] = config[x] /\ epoch'[x] = epoch[x]
    BY <1>1, <1>2, <1>3, ConfigureLemma
<1>6. l \in Lifecycle /\ Keeps(lc, l) /\ l.rejected = lc.rejected
    BY <1>2, ResetLemma DEF Keeps
<1> HIDE DEF l
<1>7. Moves(l, new, config', epoch') /\ (IsScanning(l, s) => l.generation \in new.rejected)
    <2>1. RunIsActive(l)
        BY <1>6 DEF Inv, LifecyclePart, RejectionInv, RunIsActive, Keeps
    <2> QED
        BY <1>a, <1>5, <1>6, <2>1, RescheduleLemma
<1>8. Moves(lc, new, config', epoch') /\ (IsScanning(lc, s) => lc.generation \in new.rejected)
    BY <1>6, <1>7 DEF Moves, Keeps, Starts, Sticks, IsScanning
<1>9. lc.status = "RUNNING" => lc.active /\ lc.current \in Sources
    BY DEF Inv, LifecyclePart, RejectionInv, RunIsActive, SnapshotInv
<1> QED
    BY <1>1, <1>a, <1>4, <1>5, <1>8, <1>9, IntentStep DEF IsScanning

LEMMA RetireSourceStep ==
    ASSUME Inv, NEW s \in Sources, RetireSource(s)
    PROVE  Inv'
<1> DEFINE c == [config[s] EXCEPT !.lifecycle = "retired"]
           new == InvalidateSource(lc, s)
<1>1. Intent /\ Configure(s, c) /\ Advance(new) /\ Withdraw({s}, new)
      /\ published' = [published EXCEPT ![s] = Hidden]
    BY DEF RetireSource
<1>2. lc \in Lifecycle /\ AuthorityPart
    BY DEF Inv, LifecyclePart
<1>3. c \in ConfigRecord
    BY <1>2 DEF AuthorityPart, Configs, ConfigRecord, Lifecycles
<1> HIDE DEF c
<1>4. /\ config' \in Configs /\ epoch' \in Epochs
      /\ catalog' \in [Sources -> RowsEpoch]
      /\ obs' \in [Sources -> Availability]
      /\ \A x \in Sources \ {s} : config'[x] = config[x] /\ epoch'[x] = epoch[x]
      /\ ObservationIsCurrent'
    BY <1>1, <1>2, <1>3, ConfigureLemma
<1>5. RetiredIsHidden' /\ published' \in [Sources -> PublishedEpoch]
    BY <1>1, <1>2, <1>4 DEF AuthorityPart, RetiredIsHidden, PublishedEpoch
<1>6. AuthorityPart'
    BY <1>4, <1>5 DEF AuthorityPart
<1>7. Moves(lc, new, config', epoch') /\ (IsScanning(lc, s) => lc.generation \in new.rejected)
    BY <1>2, InvalidateLemma
<1> HIDE DEF new
<1>8. lc.status = "RUNNING" => lc.active /\ lc.current \in Sources
    BY DEF Inv, LifecyclePart, RejectionInv, RunIsActive, SnapshotInv
<1> QED
    BY <1>1, <1>4, <1>6, <1>7, <1>8, IntentStep DEF IsScanning

LEMMA SetSourceEnabledStep ==
    ASSUME Inv, NEW s \in Sources, NEW enabled \in BOOLEAN, SetSourceEnabled(s, enabled)
    PROVE  Inv'
<1> DEFINE c == [config[s] EXCEPT !.enabled = enabled]
           new == InvalidateSource(lc, s)
<1>1. Intent /\ Configure(s, c) /\ Advance(new) /\ Withdraw({s}, new) /\ UNCHANGED published
    BY DEF SetSourceEnabled
<1>2. lc \in Lifecycle /\ AuthorityPart
    BY DEF Inv, LifecyclePart
<1>3. c \in ConfigRecord /\ c.lifecycle = config[s].lifecycle
    BY <1>2 DEF AuthorityPart, Configs, ConfigRecord
<1> HIDE DEF c
<1>4. AuthorityPart'
    BY <1>1, <1>2, <1>3, AuthorityConfigured
<1>5. config' \in Configs /\ epoch' \in Epochs
      /\ \A x \in Sources \ {s} : config'[x] = config[x] /\ epoch'[x] = epoch[x]
    BY <1>1, <1>2, <1>3, ConfigureLemma
<1>6. Moves(lc, new, config', epoch') /\ (IsScanning(lc, s) => lc.generation \in new.rejected)
    BY <1>2, InvalidateLemma
<1> HIDE DEF new
<1>7. lc.status = "RUNNING" => lc.active /\ lc.current \in Sources
    BY DEF Inv, LifecyclePart, RejectionInv, RunIsActive, SnapshotInv
<1> QED
    BY <1>1, <1>4, <1>5, <1>6, <1>7, IntentStep DEF IsScanning

LEMMA RestoreSourceStep ==
    ASSUME Inv, NEW s \in Sources, RestoreSource(s)
    PROVE  Inv'
<1>1. Intent /\ UNCHANGED published
    BY DEF RestoreSource
<1>a. PICK new \in RequestScan(s, config', epoch') : Advance(new) /\ Ask({s}, new)
    BY DEF RestoreSource
<1>2. lc \in Lifecycle /\ AuthorityPart
    BY DEF Inv, LifecyclePart
<1>3. /\ AuthorityPart'
      /\ lc.status = "RUNNING" /\ lc.generation \notin lc.rejected =>
            /\ config'[lc.current] = config[lc.current]
            /\ epoch'[lc.current] = epoch[lc.current]
    <2>1. CASE Runnable(config[s])
        <3>1. UNCHANGED authority
            BY <1>1, <2>1 DEF RestoreSource, authority
        <3> QED
            BY <1>2, <3>1, AuthorityKept DEF authority
    <2>2. CASE ~Runnable(config[s])
        <3> DEFINE c == NewSource(config[s].root)
        <3>1. Configure(s, c)
            BY <2>2 DEF RestoreSource
        <3>2. c \in ConfigRecord /\ c.lifecycle = "active"
            BY <1>2 DEF AuthorityPart, Configs, NewSource, ConfigRecord, Lifecycles
        <3> HIDE DEF c
        <3>3. AuthorityPart'
            BY <1>1, <1>2, <3>1, <3>2, AuthorityConfigured
        <3>4. \A x \in Sources \ {s} : config'[x] = config[x] /\ epoch'[x] = epoch[x]
            BY <1>2, <3>1, <3>2, ConfigureLemma
        <3> QED
            BY <2>2, <3>3, <3>4, FlightIsRunnable
    <2> QED
        BY <2>1, <2>2
<1>4. Moves(lc, new, config', epoch')
    BY <1>a, <1>2, <1>3, RequestScanLemma
       DEF Inv, LifecyclePart, RejectionInv, AuthorityPart
<1>5. lc.generation \notin new.rejected => lc.generation \notin lc.rejected
    BY <1>4 DEF Moves
<1> QED
    BY <1>1, <1>a, <1>3, <1>4, <1>5, IntentStep

LEMMA CancelScanStep ==
    ASSUME Inv, CancelScan
    PROVE  Inv'
<1> DEFINE new == Cancel(lc)
<1>1. Intent /\ UNCHANGED authority /\ Advance(new) /\ Withdraw(Sources, new)
    BY DEF CancelScan
<1>2. config' = config /\ epoch' = epoch /\ AuthorityPart'
    BY <1>1, AuthorityKept DEF authority, Inv
<1>3. Moves(lc, new, config', epoch')
    BY CancelLemma DEF Inv, LifecyclePart
<1> HIDE DEF new
<1> QED
    BY <1>1, <1>2, <1>3, IntentStep

LEMMA ShutdownStep ==
    ASSUME Inv, Shutdown
    PROVE  Inv'
<1> DEFINE new == Cancel(lc)
<1>1. /\ closed' = TRUE /\ lc' = new
      /\ workers' = {[w EXCEPT !.cancelled = TRUE] : w \in workers}
      /\ UNCHANGED <<authority, relay, intents>>
      /\ Withdraw(Sources, new)
    BY DEF Shutdown
<1>2. /\ lc \in Lifecycle /\ workers \subseteq Worker /\ SingleFlight /\ RejectionInv
      /\ SnapshotInv /\ HistoryInv /\ history \in History
    BY DEF Inv, LifecyclePart, EnvironmentPart
<1>3. /\ new \in Lifecycle
      /\ Keeps(lc, new)
      /\ \/ new.rejected = lc.rejected
         \/ lc.active /\ new.rejected = lc.rejected \cup {lc.generation}
      /\ lc.active => lc.generation \in new.rejected
    BY <1>2, CancelLemma DEF Moves
<1> HIDE DEF new
<1>4. /\ history' \in History
      /\ history'.rejected = history.rejected \cup new.rejected
      /\ history'.committed = history.committed
    BY <1>1, <1>2, <1>3, WithdrawLemma
<1>5. workers' \subseteq Worker /\ \A v \in workers' : \E w \in workers : v.job = w.job
    BY <1>1, <1>2 DEF Worker
<1>6. \A v1, v2 \in workers' : v1 = v2
    BY <1>1, <1>2 DEF SingleFlight
<1>7. SingleFlight'
    BY <1>1, <1>2, <1>3, <1>5, <1>6, FlightKept
<1>8. RejectionInv' /\ SnapshotInv'
    BY <1>1, <1>2, <1>3 DEF RejectionInv, RunIsActive, SnapshotInv, Keeps, authority
<1>9. HistoryInv'
    <2>1. lc' = new /\ lc' \in Lifecycle
        BY <1>1, <1>3
    <2>2. lc.rejected \subseteq {lc.generation} /\ (lc.rejected # {} => lc.active)
        BY <1>2 DEF RejectionInv
    <2>3. new.generation = lc.generation /\ new.active = lc.active
        BY <1>3 DEF Keeps
    <2> QED
        BY <2>1, <2>2, <2>3, <1>2, <1>3, <1>4
           DEF HistoryInv, RejectedNeverCommits, Lifecycle
<1>10. LifecyclePart'
    BY <1>1, <1>3, <1>5, <1>7, <1>8, <1>9 DEF LifecyclePart
<1>11. AuthorityPart' /\ EnvironmentPart'
    BY <1>1, <1>4, AuthorityKept DEF Inv, EnvironmentPart
<1> QED
    BY <1>10, <1>11 DEF Inv

-----------------------------------------------------------------------------
(* The workers preserve the invariant                                      *)

(* When the lifecycle keeps its scan, nothing new is in flight and one     *)
(* signal at most stands for it.                                           *)
LEMMA FlightShrinks ==
    ASSUME SingleFlight, Keeps(lc, lc'), Unresolved' \subseteq Unresolved,
           \A v1, v2 \in workers' : v1 = v2,
           \A i, k \in DoneAt' : i = k,
           workers' # {} => DoneAt' = {}
    PROVE  SingleFlight'
BY DEF SingleFlight, Keeps

LEMMA EmitLemma ==
    ASSUME relay \in Seq(Message), closed \in BOOLEAN, NEW kind, NEW job \in Job,
           kind \in {"progress"} \cup Dones, Emit(kind, job)
    PROVE  /\ relay' \in Seq(Message)
           /\ \A i \in DoneAt' : \/ i \in DoneAt /\ relay'[i] = relay[i]
                                \/ /\ kind \in Dones
                                   /\ i = Len(relay) + 1
                                   /\ relay'[i].job = job
<1> DEFINE m == [kind |-> kind, job |-> job]
<1>1. m \in Message
    BY DEF Message, Dones
<1>2. CASE closed
    BY <1>2 DEF Emit, DoneAt
<1>3. CASE ~closed
    <2>1. relay' = Append(relay, m)
        BY <1>3 DEF Emit
    <2>2. m.kind = kind /\ m.job = job
        OBVIOUS
    <2> HIDE DEF m
    <2>3. /\ relay' \in Seq(Message)
          /\ Len(relay') = Len(relay) + 1
          /\ \A i \in 1 .. Len(relay) : relay'[i] = relay[i]
          /\ relay'[Len(relay) + 1] = m
        BY <1>1, <2>1, AppendProperties
    <2>4. DOMAIN relay = 1 .. Len(relay) /\ DOMAIN relay' = 1 .. Len(relay) + 1
          /\ Len(relay) \in Nat
        BY <2>3, LenProperties
    <2>5. ASSUME NEW i \in DoneAt'
          PROVE  \/ i \in DoneAt /\ relay'[i] = relay[i]
                 \/ kind \in Dones /\ i = Len(relay) + 1 /\ relay'[i].job = job
        <3>1. i \in 1 .. Len(relay) + 1 /\ relay'[i].kind \in Dones
            BY <2>4 DEF DoneAt
        <3>2. CASE i = Len(relay) + 1
            BY <2>2, <2>3, <3>1, <3>2
        <3>3. CASE i # Len(relay) + 1
            <4>1. i \in 1 .. Len(relay)
                BY <2>4, <3>1, <3>3
            <4> QED
                BY <2>3, <2>4, <3>1, <4>1 DEF DoneAt
        <3> QED
            BY <3>2, <3>3
    <2> QED
        BY <2>3, <2>5
<1> QED
    BY <1>2, <1>3

(* Steps that touch neither the owner's state nor its history. *)
LEMMA OwnerUntouched ==
    ASSUME Inv, UNCHANGED <<authority, lc, closed, intents, history>>,
           relay' \in Seq(Message), workers' \subseteq Worker, SingleFlight'
    PROVE  Inv'
<1>1. AuthorityPart' /\ EnvironmentPart'
    BY AuthorityKept DEF Inv, EnvironmentPart
<1>2. RejectionInv' /\ SnapshotInv' /\ HistoryInv'
    BY DEF Inv, LifecyclePart, RejectionInv, SnapshotInv, HistoryInv,
           RejectedNeverCommits, authority
<1> QED
    BY <1>1, <1>2 DEF Inv, LifecyclePart

LEMMA ReportProgressStep ==
    ASSUME Inv, NEW w \in workers, ReportProgress(w)
    PROVE  Inv'
<1> DEFINE v == [w EXCEPT !.reported = TRUE]
<1>1. /\ workers' = (workers \ {w}) \cup {v} /\ Emit("progress", w.job)
      /\ UNCHANGED <<authority, lc, closed, intents, history>>
    BY DEF ReportProgress
<1>2. w \in Worker /\ workers \subseteq Worker /\ SingleFlight /\ relay \in Seq(Message)
      /\ closed \in BOOLEAN
    BY DEF Inv, LifecyclePart, EnvironmentPart
<1>3. v \in Worker /\ v.job = w.job /\ w.job \in Job
    BY <1>2 DEF Worker
<1> HIDE DEF v
<1>4. workers = {w} /\ DoneAt = {}
    BY <1>2 DEF SingleFlight
<1>5. workers' = {v}
    BY <1>1, <1>4
<1>6. relay' \in Seq(Message) /\ DoneAt' = {}
    BY <1>1, <1>2, <1>3, <1>4, EmitLemma DEF Dones
<1>7. Unresolved' \subseteq Unresolved
    BY <1>3, <1>4, <1>5, <1>6 DEF Unresolved, RunningJobs
<1>8. SingleFlight'
    BY <1>1, <1>2, <1>5, <1>6, <1>7, FlightShrinks DEF Keeps
<1> QED
    BY <1>1, <1>3, <1>5, <1>6, <1>8, OwnerUntouched

LEMMA FinishWorkStep ==
    ASSUME Inv, NEW w \in workers, NEW kind \in Dones, FinishWork(w, kind)
    PROVE  Inv'
<1>1. /\ workers' = workers \ {w} /\ Emit(kind, w.job)
      /\ UNCHANGED <<authority, lc, closed, intents, history>>
    BY DEF FinishWork
<1>2. w \in Worker /\ workers \subseteq Worker /\ SingleFlight /\ relay \in Seq(Message)
      /\ closed \in BOOLEAN
    BY DEF Inv, LifecyclePart, EnvironmentPart
<1>3. workers = {w} /\ DoneAt = {}
    BY <1>2 DEF SingleFlight
<1>4. workers' = {}
    BY <1>1, <1>3
<1>5. relay' \in Seq(Message)
      /\ \A i \in DoneAt' : i = Len(relay) + 1 /\ relay'[i].job = w.job
    BY <1>1, <1>2, <1>3, EmitLemma DEF Worker
<1>6. Unresolved' \subseteq Unresolved
    BY <1>4, <1>5 DEF Unresolved, RunningJobs
<1>7. SingleFlight'
    BY <1>1, <1>2, <1>4, <1>5, <1>6, FlightShrinks DEF Keeps
<1> QED
    BY <1>1, <1>4, <1>5, <1>7, OwnerUntouched

-----------------------------------------------------------------------------
(* The relay handlers preserve the invariant                               *)

LEMMA TailLemma ==
    ASSUME relay \in Seq(Message), relay # <<>>, relay' = Tail(relay)
    PROVE  /\ relay' \in Seq(Message)
           /\ \A i \in DoneAt' : i \in Nat /\ i + 1 \in DoneAt /\ relay'[i] = relay[i + 1]
<1>1. /\ relay' \in Seq(Message)
      /\ Len(relay') = Len(relay) - 1
      /\ \A i \in 1 .. Len(relay') : relay'[i] = relay[i + 1]
    BY HeadTailProperties
<1>2. Len(relay) \in Nat \ {0} /\ DOMAIN relay = 1 .. Len(relay)
      /\ DOMAIN relay' = 1 .. Len(relay')
    BY <1>1, EmptySeq, LenProperties
<1> QED
    BY <1>1, <1>2 DEF DoneAt

LEMMA ReceiveStep ==
    ASSUME Inv, NEW kinds, Receive(kinds), Keeps(lc, lc'), UNCHANGED workers
    PROVE  SingleFlight' /\ relay' \in Seq(Message)
<1>1. relay # <<>> /\ relay' = Tail(relay)
    BY DEF Receive
<1>2. relay \in Seq(Message) /\ SingleFlight
    BY DEF Inv, LifecyclePart, EnvironmentPart
<1>3. relay' \in Seq(Message)
      /\ \A i \in DoneAt' : i \in Nat /\ i + 1 \in DoneAt /\ relay'[i] = relay[i + 1]
    BY <1>1, <1>2, TailLemma
<1>4. Unresolved' \subseteq Unresolved
    BY <1>3 DEF Unresolved, RunningJobs
<1>5. \A i, k \in DoneAt' : i = k
    BY <1>2, <1>3 DEF SingleFlight
<1> QED
    BY <1>2, <1>3, <1>4, <1>5, FlightShrinks DEF SingleFlight

LEMMA HandleProgressStep ==
    ASSUME Inv, HandleProgress
    PROVE  Inv'
<1>1. Receive({"progress"}) /\ UNCHANGED <<authority, workers, history>>
      /\ (lc' = lc \/ lc' = [lc EXCEPT !.phase = "WORKING"])
    BY DEF HandleProgress
<1>2. lc \in Lifecycle
    BY DEF Inv, LifecyclePart
<1>3. lc' \in Lifecycle /\ Keeps(lc, lc') /\ lc'.rejected = lc.rejected
    <2> DEFINE n == [lc EXCEPT !.phase = "WORKING"]
    <2>1. "WORKING" \in Phases
        BY DEF Phases
    <2>2. n \in Lifecycle /\ Keeps(lc, n) /\ n.rejected = lc.rejected
        BY <1>2, <2>1 DEF Lifecycle, Keeps
    <2> QED
        BY <1>1, <1>2, <2>2 DEF Keeps
<1>4. SingleFlight' /\ relay' \in Seq(Message)
    BY <1>1, <1>3, ReceiveStep
<1>5. RejectionInv' /\ SnapshotInv' /\ HistoryInv'
    BY <1>1, <1>3 DEF Inv, LifecyclePart, RejectionInv, RunIsActive, SnapshotInv, HistoryInv,
                      RejectedNeverCommits, Keeps, authority
<1>6. AuthorityPart' /\ EnvironmentPart'
    BY <1>1, <1>4, AuthorityKept DEF Inv, EnvironmentPart, Receive
<1> QED
    BY <1>1, <1>3, <1>4, <1>5, <1>6 DEF Inv, LifecyclePart

LEMMA GateRaisesStep ==
    ASSUME Inv, GateRaises
    PROVE  Inv'
<1>1. Receive({"plan", "error"}) /\ UNCHANGED <<authority, workers, history>>
      /\ lc' = [lc EXCEPT !.raised = TRUE]
    BY DEF GateRaises
<1>2. lc' \in Lifecycle /\ Keeps(lc, lc') /\ lc'.rejected = lc.rejected
    BY <1>1 DEF Inv, LifecyclePart, Lifecycle, Keeps
<1>3. SingleFlight' /\ relay' \in Seq(Message)
    BY <1>1, <1>2, ReceiveStep
<1>4. RejectionInv' /\ SnapshotInv' /\ HistoryInv'
    BY <1>1, <1>2 DEF Inv, LifecyclePart, RejectionInv, RunIsActive, SnapshotInv, HistoryInv,
                      RejectedNeverCommits, Keeps, authority
<1>5. AuthorityPart' /\ EnvironmentPart'
    BY <1>1, <1>3, AuthorityKept DEF Inv, EnvironmentPart, Receive
<1> QED
    BY <1>1, <1>2, <1>3, <1>4, <1>5 DEF Inv, LifecyclePart

LEMMA LoseMessageStep ==
    ASSUME Inv, LoseMessage
    PROVE  Inv'
<1>1. Receive({"progress"} \cup Dones) /\ UNCHANGED <<authority, lc, workers, history>>
    BY DEF LoseMessage
<1>2. SingleFlight' /\ relay' \in Seq(Message)
    BY <1>1, ReceiveStep DEF Keeps
<1> QED
    BY <1>1, <1>2, OwnerUntouched DEF Inv, LifecyclePart, Receive

(* The three outcomes a result at the head of the relay can have share     *)
(* this: the lifecycle finishes the generation the result belongs to.      *)
LEMMA ResultStep ==
    ASSUME Inv, Receive(Dones), UNCHANGED <<config, epoch>>, AuthorityPart',
           NEW l \in Lifecycle, l.generation = lc.generation, l.current = lc.current,
           l.rejected = {}, NEW how \in Endings,
           NEW n \in Finish(l, how, config, epoch), Advance(n),
           NEW asked \in SUBSET Sources, NEW lost \in SUBSET Sources,
           NEW commits \in SUBSET {lc.generation},
           commits # {} => lc.generation \notin lc.rejected,
           Remember(asked, lost, n, commits)
    PROVE  Inv'
<1>1. /\ relay # <<>> /\ Head(relay).kind \in Dones /\ relay' = Tail(relay)
      /\ UNCHANGED <<closed, intents>>
    BY DEF Receive
<1>2. /\ LifecyclePart /\ EnvironmentPart /\ config \in Configs /\ epoch \in Epochs
      /\ history \in History /\ lc \in Lifecycle
    BY DEF Inv, LifecyclePart, AuthorityPart, EnvironmentPart
<1>3. lc.status = "RUNNING" /\ relay' \in Seq(Message)
    BY <1>1, <1>2, DoneLemma
<1>4. l.current \in Sources /\ commits \in SUBSET Nat
    BY <1>2, <1>3 DEF LifecyclePart, SnapshotInv, Lifecycle
<1>5. n \in Lifecycle /\ lc' = n
    BY <1>2, <1>4, FinishLemma DEF Advance
<1>6. /\ history' \in History
      /\ history'.rejected = history.rejected \cup n.rejected
      /\ history'.committed = history.committed \cup commits
    BY <1>2, <1>4, <1>5, RememberLemma
<1>7. LifecyclePart'
    BY <1>1, <1>2, <1>5, <1>6, FinishStep
<1>8. EnvironmentPart'
    BY <1>1, <1>2, <1>3, <1>6 DEF EnvironmentPart
<1> QED
    BY <1>7, <1>8 DEF Inv

(* Popping the rejection leaves no rejection. *)
LEMMA PoppedLemma ==
    ASSUME Inv
    PROVE  LET l == [lc EXCEPT !.rejected = @ \ {lc.generation}]
           IN /\ l \in Lifecycle /\ l.generation = lc.generation
              /\ l.current = lc.current /\ l.rejected = {}
<1>1. lc \in Lifecycle /\ RejectionInv
    BY DEF Inv, LifecyclePart
<1>2. lc.rejected \ {lc.generation} = {}
    BY <1>1 DEF RejectionInv
<1> QED
    BY <1>1, <1>2 DEF Lifecycle

LEMMA DropResultStep ==
    ASSUME Inv, DropResult
    PROVE  Inv'
<1> DEFINE m == Head(relay)
           l == [lc EXCEPT !.rejected = @ \ {m.job.gen}]
           how == IF IsStale(m) THEN "stale" ELSE "cancelled"
<1>1. Receive(Dones) /\ UNCHANGED authority
    BY DEF DropResult
<1>2. LifecyclePart /\ EnvironmentPart /\ AuthorityPart /\ history \in History
    BY DEF Inv, EnvironmentPart
<1>3. m.job.gen = lc.generation
    BY <1>1, <1>2, DoneLemma DEF Receive
<1>4. PICK new \in Finish(l, how, config, epoch) : Advance(new) /\ Ask({}, new)
    BY <1>3 DEF DropResult, IsCurrent
<1>5. /\ l \in Lifecycle /\ l.generation = lc.generation
      /\ l.current = lc.current /\ l.rejected = {}
    BY <1>3, PoppedLemma
<1>6. AuthorityPart' /\ UNCHANGED <<config, epoch>>
    BY <1>1, <1>2, AuthorityKept DEF authority
<1> DEFINE asked == history.asked \cup {}
           lost  == (history.lost \ {})
                       \cup {s \in {} : Unwinding(s) /\ s \notin Range(lc.queue)}
<1>7. asked \in SUBSET Sources /\ lost \in SUBSET Sources
    BY <1>2 DEF History
<1>8. Remember(asked, lost, new, {})
    BY <1>4 DEF Ask
<1>9. how \in Endings
    BY DEF Endings
<1> HIDE DEF l, how, m, asked, lost
<1>10. {} \in SUBSET {lc.generation}
    OBVIOUS
<1> QED
    BY <1>1, <1>4, <1>5, <1>6, <1>7, <1>8, <1>9, <1>10, ResultStep

(* An accepted result was not rejected: popping changes nothing. *)
LEMMA AcceptedLemma ==
    ASSUME Inv, NEW kinds, kinds \subseteq Dones, Receive(kinds), IsAccepted(Head(relay))
    PROVE  /\ lc \in Lifecycle /\ lc.rejected = {} /\ lc.active
           /\ lc.current \in Sources /\ Runnable(config[lc.current])
           /\ Head(relay).job = [gen |-> lc.generation, source |-> lc.current,
                                 config |-> lc.snapshot, epoch |-> lc.snapshotEpoch]
           /\ lc.snapshotEpoch = epoch[lc.current] /\ lc.status = "RUNNING"
<1>1. relay # <<>> /\ Head(relay).kind \in Dones
    BY DEF Receive
<1>2. LifecyclePart /\ EnvironmentPart /\ lc \in Lifecycle /\ RejectionInv
    BY DEF Inv, LifecyclePart
<1>3. lc.active /\ lc.status = "RUNNING"
      /\ Head(relay).job = [gen |-> lc.generation, source |-> lc.current,
                            config |-> lc.snapshot, epoch |-> lc.snapshotEpoch]
    BY <1>1, <1>2, DoneLemma
<1>4. lc.generation \notin lc.rejected
    BY <1>3 DEF IsAccepted, IsStale
<1>5. lc.current \in Sources /\ Runnable(config[lc.current])
      /\ lc.snapshotEpoch = epoch[lc.current]
    BY <1>2, <1>3, <1>4 DEF LifecyclePart, SnapshotInv
<1> QED
    BY <1>2, <1>3, <1>4, <1>5 DEF RejectionInv

LEMMA RecordErrorStep ==
    ASSUME Inv, RecordError
    PROVE  Inv'
<1>1. /\ Receive({"error"}) /\ IsAccepted(Head(relay))
      /\ obs' = [obs EXCEPT ![lc.current] = "UNREACHABLE"]
      /\ UNCHANGED <<config, epoch, catalog, published>>
    BY DEF RecordError
<1>a. PICK n \in Finish(lc, "failed", config, epoch) :
          Advance(n) /\ Withdraw({lc.current}, n)
    BY DEF RecordError
<1>2. AuthorityPart /\ history \in History
    BY DEF Inv, EnvironmentPart
<1>3. /\ lc \in Lifecycle /\ lc.rejected = {} /\ lc.current \in Sources
      /\ Runnable(config[lc.current])
    BY <1>1, AcceptedLemma DEF Dones
<1>4. obs' \in [Sources -> Availability] /\ ObservationIsCurrent'
    BY <1>1, <1>2, <1>3 DEF AuthorityPart, Availability, ObservationIsCurrent
<1>5. AuthorityPart'
    BY <1>1, <1>2, <1>4 DEF AuthorityPart, RetiredIsHidden
<1> DEFINE asked == history.asked \ {lc.current}
           lost  == history.lost \ {lc.current}
<1>6. asked \in SUBSET Sources /\ lost \in SUBSET Sources
    BY <1>2 DEF History
<1>7. Remember(asked, lost, n, {})
    BY <1>a DEF Withdraw
<1> HIDE DEF asked, lost
<1>8. Receive(Dones) /\ "failed" \in Endings /\ {} \in SUBSET {lc.generation}
    BY <1>1 DEF Receive, Dones, Endings
<1> QED
    BY <1>1, <1>a, <1>3, <1>5, <1>6, <1>7, <1>8, ResultStep

LEMMA CommitFailsStep ==
    ASSUME Inv, CommitFails
    PROVE  Inv'
<1>1. Receive({"plan"}) /\ IsAccepted(Head(relay)) /\ UNCHANGED authority
    BY DEF CommitFails
<1>a. PICK n \in Finish(lc, "failed", config, epoch) :
          Advance(n) /\ Withdraw({lc.current}, n)
    BY DEF CommitFails
<1>2. AuthorityPart /\ history \in History
    BY DEF Inv, EnvironmentPart
<1>3. lc \in Lifecycle /\ lc.rejected = {} /\ lc.current \in Sources
    BY <1>1, AcceptedLemma DEF Dones
<1>4. AuthorityPart' /\ UNCHANGED <<config, epoch>>
    BY <1>1, <1>2, AuthorityKept DEF authority
<1> DEFINE asked == history.asked \ {lc.current}
           lost  == history.lost \ {lc.current}
<1>5. asked \in SUBSET Sources /\ lost \in SUBSET Sources
    BY <1>2 DEF History
<1>6. Remember(asked, lost, n, {})
    BY <1>a DEF Withdraw
<1> HIDE DEF asked, lost
<1>7. Receive(Dones) /\ "failed" \in Endings /\ {} \in SUBSET {lc.generation}
    BY <1>1 DEF Receive, Dones, Endings
<1> QED
    BY <1>1, <1>a, <1>3, <1>4, <1>5, <1>6, <1>7, ResultStep

LEMMA CommitPlanStep ==
    ASSUME Inv, CommitPlan
    PROVE  Inv'
<1> DEFINE s == lc.current
           e == lc.snapshotEpoch
<1>1. /\ Receive({"plan"}) /\ IsAccepted(Head(relay)) /\ UNCHANGED <<config, epoch>>
    BY DEF CommitPlan
<1>2. AuthorityPart /\ history \in History
    BY DEF Inv, EnvironmentPart
<1>3. /\ lc \in Lifecycle /\ lc.rejected = {} /\ s \in Sources
      /\ Runnable(config[s]) /\ e = epoch[s]
      /\ Head(relay).job = [gen |-> lc.generation, source |-> s,
                            config |-> lc.snapshot, epoch |-> e]
    BY <1>1, AcceptedLemma DEF Dones
<1>4. /\ catalog' = [catalog EXCEPT ![s] = e]
      /\ \E shown \in {e, published[s]} : published' = [published EXCEPT ![s] = shown]
      /\ obs' = [obs EXCEPT ![s] = "AVAILABLE"]
      /\ \E n \in Finish(lc, "done", config, epoch) :
             /\ Advance(n)
             /\ Remember(history.asked \ {s}, history.lost \ {s}, n, {lc.generation})
    <2> DEFINE job == Head(relay).job
    <2>1. job.source = s /\ job.epoch = e /\ job.gen = lc.generation
        BY <1>3
    <2>2. /\ catalog' = [catalog EXCEPT ![job.source] = job.epoch]
          /\ \E shown \in {job.epoch, published[job.source]} :
                 published' = [published EXCEPT ![job.source] = shown]
          /\ obs' = [obs EXCEPT ![job.source] = "AVAILABLE"]
          /\ \E n \in Finish(lc, "done", config, epoch) :
                 /\ Advance(n)
                 /\ Remember(history.asked \ {job.source}, history.lost \ {job.source},
                             n, {job.gen})
        BY DEF CommitPlan
    <2> HIDE DEF job, s, e
    <2> QED
        BY <2>1, <2>2
<1>a. PICK n \in Finish(lc, "done", config, epoch) :
          /\ Advance(n)
          /\ Remember(history.asked \ {s}, history.lost \ {s}, n, {lc.generation})
    BY <1>4
<1>5. e \in Nat
    BY <1>3 DEF Lifecycle
<1> HIDE DEF s, e
<1>6. catalog' \in [Sources -> RowsEpoch] /\ obs' \in [Sources -> Availability]
    BY <1>2, <1>4, <1>5 DEF AuthorityPart, RowsEpoch, Availability
<1>7. published' \in [Sources -> PublishedEpoch]
    BY <1>2, <1>3, <1>4, <1>5 DEF AuthorityPart, RowsEpoch, PublishedEpoch
<1>8. ObservationIsCurrent'
    BY <1>1, <1>2, <1>3, <1>4 DEF AuthorityPart, ObservationIsCurrent
<1>9. RetiredIsHidden'
    <2>1. config[s].lifecycle # "retired"
        BY <1>3 DEF Runnable
    <2>2. \A x \in Sources \ {s} : published'[x] = published[x]
        BY <1>2, <1>4 DEF AuthorityPart
    <2> QED
        BY <1>1, <1>2, <2>1, <2>2 DEF AuthorityPart, RetiredIsHidden
<1>10. AuthorityPart'
    BY <1>1, <1>2, <1>6, <1>7, <1>8, <1>9 DEF AuthorityPart
<1>11. (history.asked \ {s}) \in SUBSET Sources /\ (history.lost \ {s}) \in SUBSET Sources
    BY <1>2 DEF History
<1>12. Receive(Dones) /\ "done" \in Endings /\ {lc.generation} \in SUBSET {lc.generation}
    BY <1>1 DEF Receive, Dones, Endings
<1> QED
    BY <1>1, <1>a, <1>3, <1>10, <1>11, <1>12, ResultStep

-----------------------------------------------------------------------------
(* The invariant                                                           *)

LEMMA InitInv == Init => Inv
<1> SUFFICES ASSUME Init PROVE Inv
    OBVIOUS
<1>1. <<>> \in Seq(Sources) /\ <<>> \in Seq(Message) /\ DOMAIN <<>> = {}
    BY EmptySeq
<1>2. config \in Configs
    <2>1. Unconfigured \in ConfigRecord
        BY DEF Unconfigured, ConfigRecord, Lifecycles
    <2>2. [root : Roots, enabled : BOOLEAN, lifecycle : {"active", "retired"}]
              \subseteq ConfigRecord
        BY DEF ConfigRecord, Lifecycles
    <2> DEFINE C == {Unconfigured} \cup
                     [root : Roots, enabled : BOOLEAN, lifecycle : {"active", "retired"}]
    <2>3. C \subseteq ConfigRecord
        BY <2>1, <2>2
    <2>4. config \in [Sources -> C]
        BY DEF Init, InitialConfigs
    <2> HIDE DEF C
    <2> QED
        BY <2>3, <2>4 DEF Configs
<1>3. lc \in Lifecycle
    <2>1. Unconfigured \in ConfigRecord
        BY DEF Unconfigured, ConfigRecord, Lifecycles
    <2>2. "IDLE" \in Statuses /\ "NONE" \in Phases /\ "NONE" \in Terminals
        BY DEF Statuses, Phases, Terminals
    <2> QED
        BY <1>1, <2>1, <2>2 DEF Init, InitialLifecycle, Lifecycle
<1>4. SingleFlight
    <2>1. workers = {} /\ relay = <<>>
        BY DEF Init
    <2>2. DoneAt = {}
        BY <1>1, <2>1 DEF DoneAt
    <2>3. Unresolved = {}
        BY <2>1, <2>2 DEF Unresolved, RunningJobs
    <2> QED
        BY <2>1, <2>2, <2>3 DEF SingleFlight
<1>5. RejectionInv /\ SnapshotInv /\ HistoryInv /\ workers \subseteq Worker
    BY DEF Init, InitialLifecycle, RejectionInv, RunIsActive, SnapshotInv, HistoryInv,
           RejectedNeverCommits
<1>6. epoch \in Epochs /\ catalog \in [Sources -> RowsEpoch]
      /\ published \in [Sources -> PublishedEpoch] /\ obs \in [Sources -> Availability]
    BY DEF Init, Epochs, RowsEpoch, PublishedEpoch, Availability
<1>7. ObservationIsCurrent /\ RetiredIsHidden
    BY DEF Init, ObservationIsCurrent, RetiredIsHidden
<1>8. EnvironmentPart
    <2>1. /\ relay = <<>> /\ closed = FALSE /\ intents = 0
          /\ history = [asked |-> {}, lost |-> {}, rejected |-> {}, committed |-> {}]
        BY DEF Init
    <2>2. relay \in Seq(Message) /\ closed \in BOOLEAN
        BY <1>1, <2>1
    <2>3. intents \in 0 .. MaxIntents
        BY <2>1, MaxIntentsAssumption
    <2>4. history \in History
        BY <2>1 DEF History
    <2> QED
        BY <2>2, <2>3, <2>4 DEF EnvironmentPart
<1> QED
    BY <1>2, <1>3, <1>4, <1>5, <1>6, <1>7, <1>8 DEF Inv, LifecyclePart, AuthorityPart

LEMMA NextInv == Inv /\ [Next]_vars => Inv'
<1> SUFFICES ASSUME Inv, [Next]_vars PROVE Inv'
    OBVIOUS
<1>1. CASE UserNext
    BY <1>1, RequestScanAllStep, RequestRefusedStep, CancelScanStep, ShutdownStep,
       RequestScanSourceStep, RetireSourceStep, RestoreSourceStep, SetSourceEnabledStep,
       RequestAddSourceStep, AddMusicSourceStep, RequestRelocateStep
       DEF UserNext
<1>2. CASE WorkerNext
    BY <1>2, ReportProgressStep, FinishWorkStep DEF WorkerNext
<1>3. CASE OwnerNext
    BY <1>3, HandleProgressStep, DropResultStep, GateRaisesStep, RecordErrorStep,
       CommitPlanStep, CommitFailsStep, LoseMessageStep DEF OwnerNext
<1>4. CASE UNCHANGED vars
    <2>1. UNCHANGED <<authority, lc, closed, intents, history>> /\ UNCHANGED <<workers, relay>>
        BY <1>4 DEF vars, authority
    <2>2. SingleFlight' /\ workers' \subseteq Worker /\ relay' \in Seq(Message)
        BY <2>1 DEF Inv, LifecyclePart, EnvironmentPart, SingleFlight, Unresolved,
                    RunningJobs, DoneAt
    <2> QED
        BY <2>1, <2>2, OwnerUntouched
<1> QED
    BY <1>1, <1>2, <1>3, <1>4 DEF Next

THEOREM InvariantHolds == Spec => []Inv
<1> QED
    BY InitInv, NextInv, PTL DEF Spec

(* Every variable keeps its type, for any sources, roots and intents. *)
THEOREM TypeCorrect == Spec => []TypeOK
<1>1. Inv => TypeOK
    BY DEF Inv, LifecyclePart, AuthorityPart, EnvironmentPart, TypeOK, Configs, Epochs
<1> QED
    BY <1>1, InvariantHolds, PTL

(* At most one scan is ever in flight, and it is the one the lifecycle     *)
(* (SourceScanLifecycle._active) accounts for.                             *)
THEOREM Serialization == Spec => []SingleFlight
<1>1. Inv => SingleFlight
    BY DEF Inv, LifecyclePart
<1> QED
    BY <1>1, InvariantHolds, PTL

(* The owner has rejected every result in flight that was computed under   *)
(* an outdated configuration, so the epoch gates of the commit never have  *)
(* to stop one.                                                            *)
THEOREM StalenessDefence == Spec => []StaleIsRejected
<1>1. Inv => StaleIsRejected
    <2> SUFFICES ASSUME Inv, NEW j \in Unresolved, j.gen \notin lc.rejected
                 PROVE  ConfigurationIsCurrent(j.source, j.config, j.epoch)
        BY DEF StaleIsRejected
    <2>1. lc.status = "RUNNING"
          /\ j = [gen |-> lc.generation, source |-> lc.current,
                  config |-> lc.snapshot, epoch |-> lc.snapshotEpoch]
        BY DEF Inv, LifecyclePart, SingleFlight
    <2>2. /\ Runnable(lc.snapshot)
          /\ lc.snapshot = config[lc.current]
          /\ lc.snapshotEpoch = epoch[lc.current]
        BY <2>1 DEF Inv, LifecyclePart, SnapshotInv
    <2> QED
        BY <2>1, <2>2 DEF ConfigurationIsCurrent, Runnable, Configured
<1> QED
    BY <1>1, InvariantHolds, PTL

(* A generation the owner rejected (cancel, invalidate, reschedule) never  *)
(* commits, however late its result arrives.                               *)
THEOREM RejectionIsFinal == Spec => []RejectedNeverCommits
<1>1. Inv => RejectedNeverCommits
    BY DEF Inv, LifecyclePart, HistoryInv
<1> QED
    BY <1>1, InvariantHolds, PTL

(* No observation outlives the configuration it was made under, and no     *)
(* retired source is ever published again.                                 *)
THEOREM ObservationsAreCurrent == Spec => [](ObservationIsCurrent /\ RetiredIsHidden)
<1>1. Inv => ObservationIsCurrent /\ RetiredIsHidden
    BY DEF Inv, AuthorityPart
<1> QED
    BY <1>1, InvariantHolds, PTL

-----------------------------------------------------------------------------
(* SourceScan implements SourceAuthority: although a scan reads the        *)
(* configuration on one thread long before it commits on another, every    *)
(* step is a step of the specification whose scans are atomic.             *)

(* Both modules mean the same by the words they share. *)
LEMMA SharedVocabulary ==
    /\ Authority!ConfigRecord = ConfigRecord
    /\ Authority!EarlierRun = EarlierRun
    /\ Authority!Hidden = Hidden
    /\ \A c : Authority!Configured(c) = Configured(c) /\ Authority!Runnable(c) = Runnable(c)
    /\ \A cfg, new, ep : Authority!EpochsAfter(cfg, new, ep) = EpochsAfter(cfg, new, ep)
BY DEF Authority!ConfigRecord, ConfigRecord, Authority!Lifecycles, Lifecycles,
       Authority!EarlierRun, EarlierRun, Authority!Hidden, Hidden,
       Authority!Configured, Configured, Authority!Runnable, Runnable,
       Authority!EpochsAfter, EpochsAfter

LEMMA InitRefines == Init => Authority!Init
<1> SUFFICES ASSUME Init PROVE Authority!Init
    OBVIOUS
<1>1. config \in [Sources -> ConfigRecord]
    BY InitInv DEF Inv, AuthorityPart, Configs
<1> QED
    BY <1>1, SharedVocabulary DEF Init, Authority!Init

(* Giving a source a configuration is a step of the abstract user. *)
LEMMA ReconfigureStep ==
    ASSUME NEW s \in Sources, NEW c \in ConfigRecord, Configured(c), Configure(s, c),
           published' = [published EXCEPT
                            ![s] = IF c.lifecycle = "retired" THEN Hidden ELSE @]
    PROVE  Authority!Next
<1>1. Authority!Reconfigure(s)
    BY SharedVocabulary DEF Configure, Authority!Reconfigure
<1> QED
    BY <1>1 DEF Authority!Next

(* So is one that leaves the visible Library alone, unless it retires.     *)
LEMMA ReconfigureQuietly ==
    ASSUME Inv, NEW s \in Sources, NEW c \in ConfigRecord, Configured(c), Configure(s, c),
           UNCHANGED published,
           c.lifecycle = "retired" => config[s].lifecycle = "retired"
    PROVE  Authority!Next
<1>1. published \in [Sources -> PublishedEpoch] /\ RetiredIsHidden
    BY DEF Inv, AuthorityPart
<1>2. published' = [published EXCEPT ![s] = IF c.lifecycle = "retired" THEN Hidden ELSE @]
    BY <1>1 DEF RetiredIsHidden
<1> QED
    BY <1>2, ReconfigureStep

LEMMA AddSourceRefines ==
    ASSUME Inv, NEW s \in Sources, NEW r \in Roots, AddSource(s, r)
    PROVE  Authority!Next
<1>1. NewSource(r) \in ConfigRecord /\ Configured(NewSource(r))
      /\ NewSource(r).lifecycle = "active"
    BY DEF NewSource, ConfigRecord, Lifecycles, Configured
<1>2. Configure(s, NewSource(r)) /\ UNCHANGED published
    BY DEF AddSource
<1> QED
    BY <1>1, <1>2, ReconfigureQuietly

LEMMA EditRefines ==
    ASSUME Inv, NEW s \in Sources, Configured(config[s]),
           NEW c \in ConfigRecord, c.lifecycle = config[s].lifecycle,
           Configure(s, c), UNCHANGED published
    PROVE  Authority!Next
BY ReconfigureQuietly DEF Configured

LEMMA RetireRefines ==
    ASSUME Inv, NEW s \in Sources, RetireSource(s)
    PROVE  Authority!Next
<1> DEFINE c == [config[s] EXCEPT !.lifecycle = "retired"]
<1>1. config[s] \in ConfigRecord
    BY DEF Inv, AuthorityPart, Configs
<1>2. c \in ConfigRecord /\ c.lifecycle = "retired" /\ Configured(c)
    BY <1>1 DEF ConfigRecord, Lifecycles, Configured
<1>3. Configure(s, c) /\ published' = [published EXCEPT ![s] = Hidden]
    BY DEF RetireSource
<1> HIDE DEF c
<1> QED
    BY <1>2, <1>3, ReconfigureStep

LEMMA RestoreRefines ==
    ASSUME Inv, NEW s \in Sources, RestoreSource(s)
    PROVE  Authority!Next \/ UNCHANGED authority
<1>1. CASE Runnable(config[s])
    BY <1>1 DEF RestoreSource, authority
<1>2. CASE ~Runnable(config[s])
    <2> DEFINE c == NewSource(config[s].root)
    <2>1. config[s] \in ConfigRecord
        BY DEF Inv, AuthorityPart, Configs
    <2>2. c \in ConfigRecord /\ Configured(c) /\ c.lifecycle = "active"
        BY <2>1 DEF NewSource, ConfigRecord, Lifecycles, Configured
    <2>3. Configure(s, c) /\ UNCHANGED published
        BY <1>2 DEF RestoreSource
    <2> HIDE DEF c
    <2> QED
        BY <2>2, <2>3, ReconfigureQuietly
<1> QED
    BY <1>1, <1>2

(* A commit is the atomic scan: the result it applies was computed under   *)
(* the configuration the source has now.                                   *)
LEMMA CommitRefines ==
    ASSUME Inv, CommitPlan
    PROVE  Authority!Next
<1> DEFINE s == lc.current
           job == Head(relay).job
<1>1. Receive({"plan"}) /\ IsAccepted(Head(relay)) /\ UNCHANGED <<config, epoch>>
    BY DEF CommitPlan
<1>2. s \in Sources /\ Runnable(config[s]) /\ job.source = s /\ job.epoch = epoch[s]
    BY <1>1, AcceptedLemma DEF Dones
<1>3. /\ catalog' = [catalog EXCEPT ![job.source] = job.epoch]
      /\ \E shown \in {job.epoch, published[job.source]} :
             published' = [published EXCEPT ![job.source] = shown]
      /\ obs' = [obs EXCEPT ![job.source] = "AVAILABLE"]
    BY DEF CommitPlan
<1> HIDE DEF s, job
<1>4. Authority!Reconcile(s)
    BY <1>1, <1>2, <1>3, SharedVocabulary DEF Authority!Reconcile
<1> QED
    BY <1>2, <1>4 DEF Authority!Next

LEMMA ErrorRefines ==
    ASSUME Inv, RecordError
    PROVE  Authority!Next
<1>1. /\ Receive({"error"}) /\ IsAccepted(Head(relay))
      /\ obs' = [obs EXCEPT ![lc.current] = "UNREACHABLE"]
      /\ UNCHANGED <<config, epoch, catalog, published>>
    BY DEF RecordError
<1>2. lc.current \in Sources /\ Runnable(config[lc.current])
    BY <1>1, AcceptedLemma DEF Dones
<1>3. Authority!ObserveFailure(lc.current)
    BY <1>1, <1>2, SharedVocabulary DEF Authority!ObserveFailure
<1> QED
    BY <1>2, <1>3 DEF Authority!Next

LEMMA NextRefines ==
    ASSUME Inv, Next
    PROVE  Authority!Next \/ UNCHANGED authority
<1>0. \A x \in Sources : config[x] \in ConfigRecord
    BY DEF Inv, AuthorityPart, Configs
<1>1. CASE RequestScanAll \/ RequestRefused \/ CancelScan \/ Shutdown
    BY <1>1 DEF RequestScanAll, RequestRefused, CancelScan, Shutdown
<1>2. ASSUME NEW s \in Sources, RequestScanSource(s) \/ RetireSource(s) \/ RestoreSource(s)
      PROVE  Authority!Next \/ UNCHANGED authority
    BY <1>2, RetireRefines, RestoreRefines DEF RequestScanSource
<1>3. ASSUME NEW s \in Sources, NEW e \in BOOLEAN, SetSourceEnabled(s, e)
      PROVE  Authority!Next
    <2> DEFINE c == [config[s] EXCEPT !.enabled = e]
    <2>1. c \in ConfigRecord /\ c.lifecycle = config[s].lifecycle
        BY <1>0 DEF ConfigRecord
    <2>2. Configured(config[s]) /\ Configure(s, c) /\ UNCHANGED published
        BY <1>3 DEF SetSourceEnabled
    <2> HIDE DEF c
    <2> QED
        BY <2>1, <2>2, EditRefines
<1>4. ASSUME NEW s \in Sources, NEW r \in Roots, RequestAddSource(s, r) \/ AddMusicSource(s, r)
      PROVE  Authority!Next
    BY <1>4, AddSourceRefines DEF RequestAddSource, AddMusicSource
<1>5. ASSUME NEW s \in Sources, NEW r \in Roots, RequestRelocate(s, r)
      PROVE  Authority!Next
    <2> DEFINE c == [config[s] EXCEPT !.root = r]
    <2>1. c \in ConfigRecord /\ c.lifecycle = config[s].lifecycle
        BY <1>0 DEF ConfigRecord
    <2>2. Configured(config[s]) /\ Configure(s, c) /\ UNCHANGED published
        BY <1>5 DEF RequestRelocate
    <2> HIDE DEF c
    <2> QED
        BY <2>1, <2>2, EditRefines
<1>6. CASE WorkerNext
    BY <1>6 DEF WorkerNext, ReportProgress, FinishWork
<1>7. CASE HandleProgress \/ DropResult \/ GateRaises \/ CommitFails \/ LoseMessage
    BY <1>7 DEF HandleProgress, DropResult, GateRaises, CommitFails, LoseMessage
<1>8. CASE RecordError \/ CommitPlan
    BY <1>8, ErrorRefines, CommitRefines
<1> QED
    BY <1>1, <1>2, <1>3, <1>4, <1>5, <1>6, <1>7, <1>8 DEF Next, UserNext, OwnerNext

(* The concurrent scan implements the atomic one, for any sources, roots   *)
(* and number of user intents.                                             *)
THEOREM Refinement == Spec => ImplementsAuthority
<1>1. Inv /\ [Next]_vars => [Authority!Next]_Authority!authorityVars
    <2> SUFFICES ASSUME Inv, [Next]_vars
                 PROVE  Authority!Next \/ UNCHANGED Authority!authorityVars
        OBVIOUS
    <2>1. UNCHANGED authority => UNCHANGED Authority!authorityVars
        BY DEF authority, Authority!authorityVars
    <2>2. UNCHANGED vars => UNCHANGED authority
        BY DEF vars, authority
    <2> QED
        BY <2>1, <2>2, NextRefines
<1> QED
    BY <1>1, InitRefines, InvariantHolds, PTL DEF Spec, ImplementsAuthority, Authority!Spec

-----------------------------------------------------------------------------
(* Overlap                                                                 *)

(* A source may take root r when no other configured source overlaps it.   *)
LEMMA TakeRoot ==
    ASSUME Inv, RootsAreDisjoint, NEW s \in Sources, NEW c \in ConfigRecord,
           Configure(s, c), c.root \in Roots,
           RootIsFree(config, c.root, {s})
    PROVE  RootsAreDisjoint'
<1>1. config' = [config EXCEPT ![s] = c] /\ config \in [Sources -> ConfigRecord]
    BY DEF Configure, Inv, AuthorityPart, Configs
<1>2. config'[s] = c /\ \A x \in Sources \ {s} : config'[x] = config[x]
    BY <1>1
<1>3. SUFFICES ASSUME NEW x \in Sources, NEW y \in Sources, x # y,
                      Configured(config'[x]), Configured(config'[y])
               PROVE  <<config'[x].root, config'[y].root>> \notin Overlap
    BY DEF RootsAreDisjoint, RootIsFree
<1>4. CASE x = s
    BY <1>2, <1>3, <1>4 DEF RootIsFree
<1>5. CASE y = s
    <2>1. <<c.root, config[x].root>> \notin Overlap
        BY <1>2, <1>3, <1>5 DEF RootIsFree
    <2> QED
        BY <1>2, <1>3, <1>5, <2>1, RootsAssumption
<1>6. CASE x # s /\ y # s
    BY <1>2, <1>3, <1>6 DEF RootsAreDisjoint, RootIsFree
<1> QED
    BY <1>4, <1>5, <1>6

(* An edit that keeps the root of a configured source changes no overlap.  *)
LEMMA KeepRoot ==
    ASSUME Inv, RootsAreDisjoint, NEW s \in Sources, NEW c,
           Configure(s, c), Configured(config[s]), c.root = config[s].root
    PROVE  RootsAreDisjoint'
<1>1. config' = [config EXCEPT ![s] = c] /\ config \in [Sources -> ConfigRecord]
    BY DEF Configure, Inv, AuthorityPart, Configs
<1>2. config'[s] = c /\ \A x \in Sources \ {s} : config'[x] = config[x]
    BY <1>1
<1>3. \A x \in Sources : /\ Configured(config'[x]) => Configured(config[x])
                         /\ config'[x].root = config[x].root
    BY <1>2
<1> QED
    BY <1>3 DEF RootsAreDisjoint, RootIsFree

LEMMA AddSourceIsDisjoint ==
    ASSUME Inv, RootsAreDisjoint, NEW s \in Sources, NEW r \in Roots, AddSource(s, r)
    PROVE  RootsAreDisjoint'
<1>1. Configure(s, NewSource(r)) /\ NewSource(r).root = r
    BY DEF AddSource, NewSource
<1>2. NewSource(r) \in ConfigRecord
    BY DEF NewSource, ConfigRecord, Lifecycles
<1>3. CASE config[s].lifecycle = "retired" /\ config[s].root = r
    BY <1>1, <1>3, KeepRoot DEF Configured
<1>4. CASE RootIsFree(config, r, {})
    <2>1. RootIsFree(config, r, {s})
        BY <1>4 DEF RootIsFree
    <2> QED
        BY <1>1, <1>2, <2>1, TakeRoot
<1> QED
    BY <1>3, <1>4 DEF AddSource

LEMMA EditsAreDisjoint ==
    ASSUME Inv, RootsAreDisjoint, NEW s \in Sources,
           \/ RetireSource(s)
           \/ RestoreSource(s)
           \/ \E e \in BOOLEAN : SetSourceEnabled(s, e)
    PROVE  RootsAreDisjoint'
<1>0. config[s] \in ConfigRecord
    BY DEF Inv, AuthorityPart, Configs
<1>1. CASE RetireSource(s)
    <2> DEFINE c == [config[s] EXCEPT !.lifecycle = "retired"]
    <2>1. Configured(config[s]) /\ Configure(s, c) /\ c.root = config[s].root
        BY <1>0, <1>1 DEF RetireSource, ConfigRecord
    <2> HIDE DEF c
    <2> QED
        BY <2>1, KeepRoot
<1>2. CASE RestoreSource(s) /\ Runnable(config[s])
    BY <1>2 DEF RestoreSource, RootsAreDisjoint, RootIsFree
<1>3. CASE RestoreSource(s) /\ ~Runnable(config[s])
    <2> DEFINE c == NewSource(config[s].root)
    <2>1. Configured(config[s]) /\ Configure(s, c) /\ c.root = config[s].root
        BY <1>3 DEF RestoreSource, NewSource
    <2> HIDE DEF c
    <2> QED
        BY <2>1, KeepRoot
<1>4. ASSUME NEW e \in BOOLEAN, SetSourceEnabled(s, e) PROVE RootsAreDisjoint'
    <2> DEFINE c == [config[s] EXCEPT !.enabled = e]
    <2>1. Configured(config[s]) /\ Configure(s, c) /\ c.root = config[s].root
        BY <1>0, <1>4 DEF SetSourceEnabled, ConfigRecord
    <2> HIDE DEF c
    <2> QED
        BY <2>1, KeepRoot
<1> QED
    BY <1>1, <1>2, <1>3, <1>4

LEMMA RelocateIsDisjoint ==
    ASSUME Inv, RootsAreDisjoint, NEW s \in Sources, NEW r \in Roots, RequestRelocate(s, r)
    PROVE  RootsAreDisjoint'
<1> DEFINE c == [config[s] EXCEPT !.root = r]
<1>1. config[s] \in ConfigRecord
    BY DEF Inv, AuthorityPart, Configs
<1>2. c \in ConfigRecord /\ c.root = r
    BY <1>1 DEF ConfigRecord
<1>3. Configure(s, c) /\ RootIsFree(config, r, {s})
    BY DEF RequestRelocate
<1> HIDE DEF c
<1> QED
    BY <1>2, <1>3, TakeRoot

LEMMA NextIsDisjoint == Inv /\ RootsAreDisjoint /\ [Next]_vars => RootsAreDisjoint'
<1> SUFFICES ASSUME Inv, RootsAreDisjoint, [Next]_vars PROVE RootsAreDisjoint'
    OBVIOUS
<1>1. config' = config => RootsAreDisjoint'
    BY DEF RootsAreDisjoint, RootIsFree
<1>2. CASE RequestScanAll \/ RequestRefused \/ CancelScan \/ Shutdown
    BY <1>1, <1>2 DEF RequestScanAll, RequestRefused, CancelScan, Shutdown, authority
<1>3. ASSUME NEW s \in Sources, RequestScanSource(s) \/ RetireSource(s) \/ RestoreSource(s)
      PROVE  RootsAreDisjoint'
    BY <1>1, <1>3, EditsAreDisjoint DEF RequestScanSource, authority
<1>4. ASSUME NEW s \in Sources, NEW e \in BOOLEAN, SetSourceEnabled(s, e)
      PROVE  RootsAreDisjoint'
    BY <1>4, EditsAreDisjoint
<1>5. ASSUME NEW s \in Sources, NEW r \in Roots,
             RequestAddSource(s, r) \/ AddMusicSource(s, r) \/ RequestRelocate(s, r)
      PROVE  RootsAreDisjoint'
    BY <1>5, AddSourceIsDisjoint, RelocateIsDisjoint DEF RequestAddSource, AddMusicSource
<1>6. CASE WorkerNext
    BY <1>1, <1>6 DEF WorkerNext, ReportProgress, FinishWork, authority
<1>7. CASE OwnerNext
    BY <1>1, <1>7 DEF OwnerNext, HandleProgress, DropResult, GateRaises, RecordError,
                      CommitPlan, CommitFails, LoseMessage, authority
<1>8. CASE UNCHANGED vars
    BY <1>1, <1>8 DEF vars
<1> QED
    BY <1>2, <1>3, <1>4, <1>5, <1>6, <1>7, <1>8 DEF Next, UserNext

(* No two configured sources ever overlap. *)
THEOREM SourcesStayDisjoint == Spec => []SourcesAreDisjoint
<1>1. Init => RootsAreDisjoint
    BY DEF Init
<1> QED
    BY <1>1, NextIsDisjoint, InvariantHolds, PTL DEF Spec, SourcesAreDisjoint

(* The source scan stays consistent, for any sources, roots and intents:   *)
(* well typed, one scan at a time, no two sources that overlap.            *)
THEOREM StaysConsistent == Spec => []Consistent
<1>1. TypeOK /\ SingleFlight /\ SourcesAreDisjoint => Consistent
    BY DEF Consistent
<1> QED
    BY <1>1, TypeCorrect, Serialization, SourcesStayDisjoint, PTL

-----------------------------------------------------------------------------
(* Teardown                                                                *)

(* After teardown nothing is queued and the scan in flight is rejected.    *)
ClosedInv ==
    closed => /\ lc.queue = <<>>
              /\ lc.active => lc.generation \in lc.rejected

(* With nothing queued, _finish starts nothing and reads nothing. *)
LEMMA FinishEmpty ==
    ASSUME NEW l \in Lifecycle, l.queue = <<>>, NEW how, NEW cfg, NEW ep,
           NEW n \in Finish(l, how, cfg, ep)
    PROVE  ~n.active /\ n.queue = <<>>
<1> DEFINE ended == Ended(l, how)
<1>1. n \in Resume(ended, cfg, ep)
    BY DEF Finish
<1>2. ~ended.active /\ ended.queue = <<>>
    BY DEF Ended, Lifecycle
<1>3. EndRun(ended).active = ended.active /\ EndRun(ended).queue = <<>>
    BY DEF EndRun, Ended, Lifecycle
<1> HIDE DEF ended
<1>4. DOMAIN <<>> = {}
    BY EmptySeq
<1>5. NextRunnable(ended.queue, cfg) = {} /\ ListingRaises(ended, cfg) = {}
    BY <1>2, <1>4 DEF NextRunnable, ListingRaises
<1>6. n = StartNext(ended, cfg, ep)
    BY <1>1, <1>5 DEF Resume, EpochRaises
<1> QED
    BY <1>2, <1>3, <1>5, <1>6 DEF StartNext

LEMMA NextClosed == Inv /\ ClosedInv /\ [Next]_vars => ClosedInv' /\ (closed => UNCHANGED authority)
<1> SUFFICES ASSUME Inv, ClosedInv, [Next]_vars
             PROVE  ClosedInv' /\ (closed => UNCHANGED authority)
    OBVIOUS
<1>0. lc \in Lifecycle /\ closed \in BOOLEAN
    BY DEF Inv, LifecyclePart, EnvironmentPart
<1>1. CASE UserNext /\ ~Shutdown
    <2>1. ~closed /\ closed' = closed
        BY <1>1 DEF UserNext, RequestScanAll, RequestRefused, CancelScan, RequestScanSource,
           RetireSource, RestoreSource, SetSourceEnabled, RequestAddSource, AddMusicSource,
           RequestRelocate, Intent
    <2> QED
        BY <2>1 DEF ClosedInv
<1>2. CASE Shutdown
    <2>1. lc' = Cancel(lc) /\ UNCHANGED authority
        BY <1>2 DEF Shutdown, authority
    <2>2. Cancel(lc).queue = <<>>
        BY <1>0 DEF Cancel, Reject, Lifecycle
    <2>3. Keeps(lc, Cancel(lc)) /\ (lc.active => lc.generation \in Cancel(lc).rejected)
        BY <1>0, CancelLemma
    <2> QED
        BY <2>1, <2>2, <2>3 DEF ClosedInv, Keeps
<1>3. CASE WorkerNext
    BY <1>3 DEF WorkerNext, ReportProgress, FinishWork, ClosedInv
<1>4. CASE HandleProgress
    <2>1. closed' = closed /\ UNCHANGED authority
          /\ (lc' = lc \/ lc' = [lc EXCEPT !.phase = "WORKING"])
        BY <1>4 DEF HandleProgress, Receive
    <2> QED
        BY <1>0, <2>1 DEF ClosedInv, Lifecycle
<1>5. CASE LoseMessage
    BY <1>5 DEF LoseMessage, Receive, ClosedInv
<1>6. CASE RecordError \/ CommitPlan \/ CommitFails
    <2>1. PICK kinds \in SUBSET Dones : Receive(kinds) /\ IsAccepted(Head(relay))
        <3>1. {"plan"} \in SUBSET Dones /\ {"error"} \in SUBSET Dones
            BY DEF Dones
        <3> QED
            BY <1>6, <3>1 DEF RecordError, CommitPlan, CommitFails
    <2>2. ~closed
        BY <2>1, AcceptedLemma DEF ClosedInv
    <2>3. closed' = closed
        BY <2>1 DEF Receive
    <2> QED
        BY <2>2, <2>3 DEF ClosedInv
<1>7. CASE DropResult
    <2> DEFINE m == Head(relay)
               l == [lc EXCEPT !.rejected = @ \ {m.job.gen}]
               how == IF IsStale(m) THEN "stale" ELSE "cancelled"
    <2>1. PICK new \in IF IsCurrent(m) THEN Finish(l, how, config, epoch) ELSE {lc} :
              lc' = new
        BY <1>7 DEF DropResult, Advance
    <2>2. l \in Lifecycle /\ l.queue = lc.queue
        BY <1>0 DEF Lifecycle
    <2>3. closed' = closed /\ UNCHANGED authority
        BY <1>7 DEF DropResult, Receive
    <2> HIDE DEF l, m, how
    <2>4. CASE ~IsCurrent(m)
        BY <2>1, <2>3, <2>4 DEF ClosedInv
    <2>5. CASE IsCurrent(m)
        <3>1. closed => ~new.active /\ new.queue = <<>>
            BY <2>1, <2>2, <2>5, FinishEmpty DEF ClosedInv
        <3> QED
            BY <2>1, <2>3, <3>1 DEF ClosedInv
    <2> QED
        BY <2>4, <2>5
<1>8. CASE UNCHANGED vars
    BY <1>8 DEF vars, ClosedInv, authority
<1>9. CASE GateRaises
    <2>1. closed' = closed /\ UNCHANGED authority /\ lc' = [lc EXCEPT !.raised = TRUE]
        BY <1>9 DEF GateRaises, Receive
    <2> QED
        BY <1>0, <2>1 DEF ClosedInv, Lifecycle
<1> QED
    BY <1>1, <1>2, <1>3, <1>4, <1>5, <1>6, <1>7, <1>8, <1>9 DEF Next, OwnerNext, UserNext

(* After teardown, late results change neither catalog nor Library. *)
THEOREM TeardownIsFinal == Spec => NothingAfterShutdown
<1>1. Init => ClosedInv
    BY DEF Init, ClosedInv
<1>2. Inv /\ ClosedInv /\ [Next]_vars => [closed => UNCHANGED authority]_vars
    BY NextClosed
<1> QED
    BY <1>1, <1>2, NextClosed, InvariantHolds, PTL DEF Spec, NothingAfterShutdown

-----------------------------------------------------------------------------
(* Requests                                                                *)

(* The diagnostic of a run is that of its first failure. *)
KeepsFirstFailure(l) ==
    /\ l.lastSource = IF l.failed = <<>> THEN NoSource ELSE Head(l.failed)
    /\ l.lastTerminal # "NONE" /\ l.failed # <<>> => l.lastTerminal = "FAILED"

(* What stands of the record even after a read of the catalog raised. *)
Tidy(l) ==
    /\ IsInjective(l.queue)
    /\ l.status = "RUNNING" => l.lastTerminal = "NONE"
    /\ l.status = "RUNNING" /\ l.generation \notin l.rejected => l.current \notin Range(l.queue)
    /\ KeepsFirstFailure(l)

(* The record between two handlers: no source is queued twice, nor behind  *)
(* a scan of it that will still commit; a run in progress has no terminal  *)
(* status yet, and an idle lifecycle has nothing left to do.               *)
Sound(l) ==
    /\ IsInjective(l.queue)
    /\ l.active => l.lastTerminal = "NONE"
    /\ l.active /\ l.generation \notin l.rejected => l.current \notin Range(l.queue)
    /\ ~l.active => /\ l.queue = <<>> /\ l.rejected = {}
                    /\ l.current = NoSource /\ l.phase = "NONE"
    /\ KeepsFirstFailure(l)

(* s is queued, or being scanned by a generation that can still commit. *)
InHand(l, s) ==
    s \in Range(l.queue) \/ (IsScanning(l, s) /\ l.generation \notin l.rejected)

(* Only the scan in flight is ever cancelled, and only with its rejection; *)
(* a done signal is the last one queued, so that nothing a generation      *)
(* emitted is handled after its scan is over.                              *)
SignalsInv ==
    /\ \A w \in workers : w.cancelled => lc.generation \in lc.rejected
    /\ \A i \in DOMAIN relay :
           /\ relay[i].job.gen <= lc.generation
           /\ relay[i].job.gen = lc.generation => lc.active
           /\ relay[i].kind \in Dones => i = Len(relay)
           /\ relay[i].kind = "cancelled" => lc.generation \in lc.rejected

(* What was asked for is in hand. *)
Standing == \A s \in history.asked \ history.lost : InHand(lc, s)

(* Always, only what was asked for is queued.  Until a read of the catalog *)
(* raises, the record is sound and all that was asked for is in hand.      *)
QueueInv == Tidy(lc) /\ Range(lc.queue) \subseteq history.asked

ServiceInv == lc.raised \/ (Sound(lc) /\ SignalsInv /\ Standing)

RequestInv == QueueInv /\ ServiceInv

(* Every set of naturals has a least element. *)
LEMMA LeastNatural ==
    ASSUME NEW T \in SUBSET Nat, T # {}
    PROVE  \E m \in T : \A k \in T : m <= k
<1> DEFINE R == OpToRel(<, Nat)
<1>1. IsWellFoundedOn(R, Nat)
    BY NatLessThanWellFounded
<1>2. \A x, y \in Nat : y < x => <<y, x>> \in R
    BY DEF OpToRel
<1> HIDE DEF R
<1>3. PICK m \in T : \A k \in T : <<k, m>> \notin R
    BY <1>1, WFMin
<1>4. ASSUME NEW k \in T PROVE m <= k
    <2>1. m \in Nat /\ k \in Nat /\ ~(k < m)
        BY <1>2, <1>3
    <2> QED
        BY <2>1
<1> QED
    BY <1>4

LEMMA ConcatRange ==
    ASSUME NEW p \in Seq(Sources), NEW q \in Seq(Sources)
    PROVE  /\ Range(p \o q) = Range(p) \cup Range(q)
           /\ /\ IsInjective(p) /\ IsInjective(q)
              /\ Range(p) \cap Range(q) = {}
              => IsInjective(p \o q)
<1> DEFINE r == p \o q
<1>1. /\ r \in Seq(Sources) /\ Len(r) = Len(p) + Len(q)
      /\ \A i \in 1 .. Len(r) : r[i] = IF i <= Len(p) THEN p[i] ELSE q[i - Len(p)]
    BY ConcatProperties
<1>2. /\ DOMAIN p = 1 .. Len(p) /\ DOMAIN q = 1 .. Len(q) /\ DOMAIN r = 1 .. Len(r)
      /\ Len(p) \in Nat /\ Len(q) \in Nat
    BY <1>1, LenProperties
<1> HIDE DEF r
<1>3. \A i \in DOMAIN p : i \in DOMAIN r /\ r[i] = p[i]
    BY <1>1, <1>2
<1>4. \A i \in DOMAIN q : i + Len(p) \in DOMAIN r /\ r[i + Len(p)] = q[i]
    BY <1>1, <1>2
<1>5. \A i \in DOMAIN r : \/ i \in DOMAIN p /\ r[i] = p[i]
                          \/ i - Len(p) \in DOMAIN q /\ r[i] = q[i - Len(p)]
    BY <1>1, <1>2
<1>6. Range(r) = Range(p) \cup Range(q)
    BY <1>3, <1>4, <1>5 DEF Range
<1>7. ASSUME IsInjective(p), IsInjective(q), Range(p) \cap Range(q) = {},
             NEW i \in DOMAIN r, NEW k \in DOMAIN r, r[i] = r[k]
      PROVE  i = k
    <2>1. CASE i \in DOMAIN p /\ r[i] = p[i] /\ k \in DOMAIN p /\ r[k] = p[k]
        BY <1>7, <2>1 DEF IsInjective
    <2>2. CASE /\ i - Len(p) \in DOMAIN q /\ r[i] = q[i - Len(p)]
               /\ k - Len(p) \in DOMAIN q /\ r[k] = q[k - Len(p)]
        <3>1. i - Len(p) = k - Len(p)
            BY <1>7, <2>2 DEF IsInjective
        <3> QED
            BY <1>1, <1>2, <3>1
    <2>3. CASE \/ /\ i \in DOMAIN p /\ r[i] = p[i]
                  /\ k - Len(p) \in DOMAIN q /\ r[k] = q[k - Len(p)]
               \/ /\ k \in DOMAIN p /\ r[k] = p[k]
                  /\ i - Len(p) \in DOMAIN q /\ r[i] = q[i - Len(p)]
        BY <1>7, <2>3 DEF Range
    <2> QED
        BY <1>5, <2>1, <2>2, <2>3
<1>8. IsInjective(p) /\ IsInjective(q) /\ Range(p) \cap Range(q) = {} => IsInjective(r)
    BY <1>7 DEF IsInjective
<1> QED
    BY <1>6, <1>8 DEF r

(* A stretch of a sequence shows the elements at its positions, and those  *)
(* of an injective one each once.                                          *)
LEMMA StretchRange ==
    ASSUME NEW q \in Seq(Sources), NEW m \in Nat, NEW n \in Nat,
           1 <= m, m <= n + 1, n <= Len(q)
    PROVE  /\ SubSeq(q, m, n) \in Seq(Sources)
           /\ Range(SubSeq(q, m, n)) = {q[i] : i \in m .. n}
           /\ IsInjective(q) => IsInjective(SubSeq(q, m, n))
<1> DEFINE r == SubSeq(q, m, n)
<1>1. /\ r \in Seq(Sources) /\ Len(r) = n - m + 1
      /\ \A i \in 1 .. n - m + 1 : r[i] = q[m + i - 1]
    BY SubSeqProperties
<1>2. DOMAIN r = 1 .. n - m + 1 /\ DOMAIN q = 1 .. Len(q) /\ Len(q) \in Nat
    BY <1>1, LenProperties
<1> HIDE DEF r
<1>3. \A i \in m .. n : i - m + 1 \in DOMAIN r /\ r[i - m + 1] = q[i]
    BY <1>1, <1>2
<1>4. \A i \in DOMAIN r : m + i - 1 \in m .. n /\ m + i - 1 \in DOMAIN q /\ r[i] = q[m + i - 1]
    BY <1>1, <1>2
<1>5. Range(r) = {q[i] : i \in m .. n}
    BY <1>3, <1>4 DEF Range
<1>6. ASSUME IsInjective(q), NEW i \in DOMAIN r, NEW k \in DOMAIN r, r[i] = r[k]
      PROVE  i = k
    <2>1. m + i - 1 = m + k - 1
        BY <1>4, <1>6 DEF IsInjective
    <2> QED
        BY <1>2, <2>1
<1>7. IsInjective(q) => IsInjective(r)
    BY <1>6 DEF IsInjective
<1> QED
    BY <1>1, <1>5, <1>7 DEF r

(* Taking s off a queue that has nothing twice leaves all the others, in   *)
(* it and only once.                                                       *)
LEMMA WithoutRange ==
    ASSUME NEW q \in Seq(Sources), IsInjective(q), NEW s
    PROVE  /\ Without(q, s) \in Seq(Sources)
           /\ Range(Without(q, s)) = Range(q) \ {s}
           /\ IsInjective(Without(q, s))
<1>1. CASE ~\E i \in DOMAIN q : q[i] = s
    BY <1>1 DEF Without, Range
<1>2. CASE \E i \in DOMAIN q : q[i] = s
    <2> DEFINE i == CHOOSE i \in DOMAIN q : q[i] = s
               head == SubSeq(q, 1, i - 1)
               tail == SubSeq(q, i + 1, Len(q))
    <2>1. i \in DOMAIN q /\ q[i] = s
        BY <1>2
    <2>2. Without(q, s) = head \o tail
        BY <1>2 DEF Without, RemoveAt
    <2>3. DOMAIN q = 1 .. Len(q) /\ Len(q) \in Nat
        BY LenProperties
    <2> HIDE DEF i
    <2>4. i \in 1 .. Len(q) /\ i - 1 \in Nat /\ i + 1 \in Nat
        BY <2>1, <2>3
    <2>5. /\ head \in Seq(Sources) /\ IsInjective(head)
          /\ Range(head) = {q[k] : k \in 1 .. i - 1}
        BY <2>3, <2>4, StretchRange
    <2>6. /\ tail \in Seq(Sources) /\ IsInjective(tail)
          /\ Range(tail) = {q[k] : k \in i + 1 .. Len(q)}
        BY <2>3, <2>4, StretchRange
    <2> HIDE DEF head, tail
    <2>7. \A k \in DOMAIN q : q[k] = s => k = i
        BY <2>1 DEF IsInjective
    <2>8. Range(head) \cap Range(tail) = {}
        <3> SUFFICES ASSUME NEW k \in 1 .. i - 1, NEW j \in i + 1 .. Len(q), q[k] = q[j]
                     PROVE  FALSE
            BY <2>5, <2>6
        <3>1. k \in DOMAIN q /\ j \in DOMAIN q /\ k # j
            BY <2>3, <2>4
        <3> QED
            BY <3>1 DEF IsInjective
    <2>9. Range(head) \cup Range(tail) = Range(q) \ {s}
        <3>1. ASSUME NEW k \in DOMAIN q, k # i
              PROVE  k \in 1 .. i - 1 \/ k \in i + 1 .. Len(q)
            BY <2>3, <2>4, <3>1
        <3>2. ASSUME NEW k, k \in 1 .. i - 1 \/ k \in i + 1 .. Len(q)
              PROVE  k \in DOMAIN q /\ k # i
            BY <2>3, <2>4, <3>2
        <3> QED
            BY <2>1, <2>5, <2>6, <2>7, <3>1, <3>2 DEF Range
    <2>10. IsInjective(head \o tail) /\ Range(head \o tail) = Range(head) \cup Range(tail)
        BY <2>5, <2>6, <2>8, ConcatRange
    <2> QED
        BY <2>2, <2>9, <2>10, WithoutType
<1> QED
    BY <1>1, <1>2, WithoutType

(* n hands on what is queued in l: a runnable source stays queued or is    *)
(* being scanned.                                                          *)
HandsOn(l, n, cfg) ==
    /\ Sound(n)
    /\ \A s \in Range(l.queue) : Runnable(cfg[s]) => InHand(n, s)

(* A record with no scan in flight, before _start_next. *)
Ready(l) ==
    /\ ~l.active
    /\ l.rejected = {}
    /\ l.phase = "NONE"
    /\ IsInjective(l.queue)
    /\ l.status # "IDLE" \/ l.lastTerminal = "NONE" \/ l.current = NoSource
    /\ KeepsFirstFailure(l)

LEMMA EmptyRange == <<>> \in Seq(Sources) /\ IsInjective(<<>>) /\ Range(<<>>) = {}
<1>1. <<>> \in Seq(Sources) /\ DOMAIN <<>> = {}
    BY EmptySeq
<1> QED
    BY <1>1 DEF Range, IsInjective

(* When nothing queued is runnable, the run ends with the queue empty. *)
LEMMA EndRunHandsOn ==
    ASSUME NEW l \in Lifecycle, Ready(l), NEW cfg,
           \A s \in Range(l.queue) : ~Runnable(cfg[s])
    PROVE  HandsOn(l, EndRun(l), cfg)
<1> DEFINE n == EndRun(l)
<1>1. /\ n.queue = <<>> /\ n.generation = l.generation /\ ~n.active /\ n.rejected = {}
      /\ n.failed = l.failed /\ n.lastSource = l.lastSource
    BY DEF EndRun, Ready, Lifecycle
<1>2. n.current = NoSource /\ n.phase = "NONE"
    BY DEF EndRun, Ready, Lifecycle
<1>3. n.lastTerminal # "NONE" /\ n.failed # <<>> => n.lastTerminal = "FAILED"
    BY DEF EndRun, Ready, KeepsFirstFailure, TerminalOf, Lifecycle
<1> HIDE DEF n
<1>4. Sound(n)
    BY <1>1, <1>2, <1>3, EmptyRange DEF Sound, Ready, KeepsFirstFailure
<1> QED
    BY <1>1, <1>4, EmptyRange DEF HandsOn, n

(* Otherwise the first runnable source starts: those before it, skipped,   *)
(* were not runnable, and those after it stay.                             *)
LEMMA StartAtHandsOn ==
    ASSUME NEW l \in Lifecycle, Ready(l), l.lastTerminal = "NONE", NEW cfg, NEW ep,
           NEW i \in NextRunnable(l.queue, cfg)
    PROVE  HandsOn(l, StartAt(l, i, cfg, ep), cfg)
<1> DEFINE n == StartAt(l, i, cfg, ep)
           q == l.queue
<1>1. q \in Seq(Sources) /\ DOMAIN q = 1 .. Len(q) /\ Len(q) \in Nat /\ IsInjective(q)
    BY LenProperties DEF Lifecycle, Ready
<1>2. i \in 1 .. Len(q) /\ Runnable(cfg[q[i]]) /\ \A k \in 1 .. i - 1 : ~Runnable(cfg[q[k]])
    BY <1>1 DEF NextRunnable
<1>3. /\ n.queue = SubSeq(q, i + 1, Len(q)) /\ n.active /\ n.generation = l.generation + 1
      /\ n.current = q[i] /\ n.rejected = {}
      /\ n.failed = l.failed /\ n.lastSource = l.lastSource /\ n.lastTerminal = "NONE"
    BY DEF StartAt, Ready, Lifecycle
<1> HIDE DEF n, q
<1>4. IsInjective(n.queue) /\ Range(n.queue) = {q[k] : k \in i + 1 .. Len(q)}
    BY <1>1, <1>2, <1>3, StretchRange
<1>5. \A k \in DOMAIN q : k \in 1 .. i - 1 \/ k = i \/ k \in i + 1 .. Len(q)
    BY <1>1, <1>2
<1>6. \A k \in i + 1 .. Len(q) : k \in DOMAIN q /\ k # i
    BY <1>1, <1>2
<1>7. i \in DOMAIN q
    BY <1>1, <1>2
<1>8. n.current \notin Range(n.queue)
    BY <1>1, <1>3, <1>4, <1>6, <1>7 DEF IsInjective
<1>9. Sound(n)
    BY <1>3, <1>4, <1>8 DEF Sound, KeepsFirstFailure, Ready
<1>10. \A s \in Range(q) : Runnable(cfg[s]) => InHand(n, s)
    BY <1>2, <1>3, <1>4, <1>5 DEF Range, InHand, IsScanning
<1> QED
    BY <1>9, <1>10 DEF HandsOn, n, q

LEMMA StartNextHandsOn ==
    ASSUME NEW l \in Lifecycle, Ready(l), NEW cfg, NEW ep,
           l.queue # <<>> => l.lastTerminal = "NONE"
    PROVE  HandsOn(l, StartNext(l, cfg, ep), cfg)
<1>1. l.queue \in Seq(Sources)
    BY DEF Lifecycle
<1>2. DOMAIN l.queue = 1 .. Len(l.queue) /\ Len(l.queue) \in Nat
    BY <1>1, LenProperties
<1>3. CASE NextRunnable(l.queue, cfg) = {}
    <2>1. StartNext(l, cfg, ep) = EndRun(l)
        BY <1>3 DEF StartNext, Ready
    <2>2. ASSUME NEW s \in Range(l.queue), Runnable(cfg[s]) PROVE FALSE
        <3> DEFINE T == {k \in DOMAIN l.queue : Runnable(cfg[l.queue[k]])}
        <3>1. T \in SUBSET Nat /\ T # {}
            BY <1>2, <2>2 DEF Range
        <3>2. PICK i \in T : \A k \in T : i <= k
            BY <3>1, LeastNatural
        <3>3. \A k \in 1 .. i - 1 : k \in DOMAIN l.queue /\ ~(i <= k)
            BY <1>2, <3>2
        <3>4. i \in NextRunnable(l.queue, cfg)
            BY <3>2, <3>3 DEF NextRunnable
        <3> QED
            BY <1>3, <3>4
    <2> QED
        BY <2>1, <2>2, EndRunHandsOn
<1>4. CASE NextRunnable(l.queue, cfg) # {}
    <2> DEFINE i == CHOOSE i \in NextRunnable(l.queue, cfg) : TRUE
    <2>1. i \in NextRunnable(l.queue, cfg)
        BY <1>4
    <2>2. StartNext(l, cfg, ep) = StartAt(l, i, cfg, ep)
        BY <1>4 DEF StartNext, Ready
    <2> HIDE DEF i
    <2>3. l.queue # <<>>
        BY <2>1, EmptySeq DEF NextRunnable
    <2> QED
        BY <2>1, <2>2, <2>3, StartAtHandsOn
<1> QED
    BY <1>3, <1>4

(* Whatever _start_next reads and whichever read raises: it takes from the *)
(* queue only, and forgets no failure.                                     *)
FromQueue(l, n, cfg) ==
    /\ Tidy(n)
    /\ Range(n.queue) \subseteq Range(l.queue)
    /\ n.generation # l.generation /\ n.status = "RUNNING" =>
           n.current \in Range(l.queue) /\ Runnable(cfg[n.current])
    /\ l.raised => n.raised

LEMMA EndRunFromQueue ==
    ASSUME NEW l \in Lifecycle, Tidy(l), NEW cfg
    PROVE  FromQueue(l, EndRun(l), cfg)
<1> DEFINE n == EndRun(l)
<1>1. /\ n.queue = <<>> /\ n.generation = l.generation /\ n.raised = l.raised
      /\ n.failed = l.failed /\ n.lastSource = l.lastSource
      /\ n.status # "RUNNING"
    BY DEF EndRun, Lifecycle
<1>2. n.lastTerminal # "NONE" /\ n.failed # <<>> => n.lastTerminal = "FAILED"
    BY DEF EndRun, Tidy, KeepsFirstFailure, TerminalOf, Lifecycle
<1> HIDE DEF n
<1>3. Tidy(n)
    BY <1>1, <1>2, EmptyRange DEF Tidy, KeepsFirstFailure
<1> QED
    BY <1>1, <1>3, EmptyRange DEF FromQueue, n

(* What follows a position of the queue. *)
LEMMA RestOfQueue ==
    ASSUME NEW l \in Lifecycle, IsInjective(l.queue), NEW i \in DOMAIN l.queue
    PROVE  LET rest == SubSeq(l.queue, i + 1, Len(l.queue))
           IN /\ IsInjective(rest) /\ Range(rest) \subseteq Range(l.queue)
              /\ l.queue[i] \notin Range(rest)
<1> DEFINE q == l.queue
<1>1. q \in Seq(Sources) /\ DOMAIN q = 1 .. Len(q) /\ Len(q) \in Nat
    BY LenProperties DEF Lifecycle
<1> HIDE DEF q
<1>2. i \in 1 .. Len(q)
    BY <1>1 DEF q
<1>3. i \in DOMAIN q /\ \A k \in i + 1 .. Len(q) : k \in DOMAIN q /\ k # i
    BY <1>1, <1>2
<1>4. /\ IsInjective(q) => IsInjective(SubSeq(q, i + 1, Len(q)))
      /\ Range(SubSeq(q, i + 1, Len(q))) = {q[k] : k \in i + 1 .. Len(q)}
    BY <1>1, <1>2, StretchRange
<1>5. q[i] \notin {q[k] : k \in i + 1 .. Len(q)}
    BY <1>3 DEF IsInjective, q
<1> QED
    BY <1>3, <1>4, <1>5 DEF Range, q

LEMMA ResumeFromQueue ==
    ASSUME NEW l \in Lifecycle, Tidy(l), RunIsActive(l), NEW cfg, NEW ep,
           l.active \/ l.lastTerminal = "NONE",
           NEW n \in Resume(l, cfg, ep)
    PROVE  /\ FromQueue(l, n, cfg)
           /\ n = StartNext(l, cfg, ep) \/ n.raised
<1> DEFINE rest(i) == SubSeq(l.queue, i + 1, Len(l.queue))
<1>1. ASSUME NEW i \in DOMAIN l.queue
      PROVE  /\ IsInjective(rest(i)) /\ Range(rest(i)) \subseteq Range(l.queue)
             /\ l.queue[i] \notin Range(rest(i))
    BY RestOfQueue DEF Tidy
<1>2. CASE n = StartNext(l, cfg, ep)
    <2>1. CASE l.active
        BY <1>2, <2>1 DEF StartNext, FromQueue
    <2>2. CASE ~l.active /\ NextRunnable(l.queue, cfg) = {}
        BY <1>2, <2>2, EndRunFromQueue DEF StartNext
    <2>3. CASE ~l.active /\ NextRunnable(l.queue, cfg) # {}
        <3> DEFINE i == CHOOSE i \in NextRunnable(l.queue, cfg) : TRUE
        <3>1. i \in NextRunnable(l.queue, cfg)
            BY <2>3
        <3>2. n = StartAt(l, i, cfg, ep)
            BY <1>2, <2>3 DEF StartNext
        <3> HIDE DEF i
        <3>3. i \in DOMAIN l.queue /\ Runnable(cfg[l.queue[i]])
            BY <3>1 DEF NextRunnable
        <3>4. /\ n.queue = rest(i) /\ n.current = l.queue[i] /\ n.raised = l.raised
              /\ n.failed = l.failed /\ n.lastSource = l.lastSource
              /\ n.lastTerminal = "NONE"
            BY <2>3, <3>2 DEF StartAt, Lifecycle
        <3> HIDE DEF rest
        <3>5. Tidy(n)
            BY <1>1, <3>3, <3>4 DEF Tidy, KeepsFirstFailure
        <3> QED
            BY <1>1, <1>2, <3>3, <3>4, <3>5 DEF FromQueue, Range
    <2> QED
        BY <1>2, <2>1, <2>2, <2>3
<1>3. ASSUME ~l.active, NEW i \in DOMAIN l.queue, n.queue = rest(i), n.status = l.status,
             n.failed = l.failed, n.lastSource = l.lastSource,
             n.lastTerminal = l.lastTerminal, n.raised
      PROVE  FromQueue(l, n, cfg)
    <2>1. n.status # "RUNNING"
        BY <1>3 DEF RunIsActive
    <2> HIDE DEF rest
    <2> QED
        BY <1>1, <1>3, <2>1 DEF FromQueue, Tidy, KeepsFirstFailure
<1>4. CASE ~l.active /\ n \in ListingRaises(l, cfg)
    <2>1. PICK i \in DOMAIN l.queue : n = [l EXCEPT !.queue = rest(i), !.raised = TRUE]
        BY <1>4 DEF ListingRaises
    <2>2. /\ n.queue = rest(i) /\ n.status = l.status /\ n.failed = l.failed
          /\ n.lastSource = l.lastSource /\ n.lastTerminal = l.lastTerminal /\ n.raised
        BY <2>1 DEF Lifecycle
    <2> QED
        BY <1>3, <1>4, <2>2
<1>5. CASE ~l.active /\ n \in EpochRaises(l, cfg)
    <2>1. PICK i \in NextRunnable(l.queue, cfg) :
              n = [l EXCEPT !.queue = rest(i), !.active = TRUE,
                            !.generation = l.generation + 1, !.snapshot = cfg[l.queue[i]],
                            !.raised = TRUE]
        BY <1>5 DEF EpochRaises
    <2>2. /\ n.queue = rest(i) /\ n.status = l.status /\ n.failed = l.failed
          /\ n.lastSource = l.lastSource /\ n.lastTerminal = l.lastTerminal /\ n.raised
        BY <2>1 DEF Lifecycle
    <2>3. i \in DOMAIN l.queue
        BY DEF NextRunnable
    <2> QED
        BY <1>3, <1>5, <2>2, <2>3
<1> QED
    BY <1>2, <1>4, <1>5 DEF Resume

-----------------------------------------------------------------------------
(* What each method does with the requests                                 *)

(* n takes from the queue of l and from S only. *)
TakesFrom(l, n, S, cfg) ==
    /\ Tidy(n)
    /\ Range(n.queue) \subseteq Range(l.queue) \cup S
    /\ n.generation # l.generation /\ n.status = "RUNNING" =>
           n.current \in Range(l.queue) \cup S /\ Runnable(cfg[n.current])
    /\ l.raised => n.raised

(* n serves the requests of l and those of S: all that is runnable under   *)
(* cfg stays in hand or comes into hand.  A request for the source being   *)
(* scanned is taken for that scan.                                         *)
Serves(l, n, S, cfg) ==
    /\ Sound(n)
    /\ \A s \in Sources : Runnable(cfg[s]) /\ InHand(l, s) => InHand(n, s)
    /\ \A s \in S : Runnable(cfg[s]) => InHand(n, s) \/ IsScanning(l, s)

LEMMA ResetIsSound ==
    ASSUME NEW l \in Lifecycle, Tidy(l), RunIsActive(l)
    PROVE  LET n == ResetTerminal(l)
           IN /\ n \in Lifecycle /\ Tidy(n) /\ RunIsActive(n)
              /\ n.queue = l.queue /\ n.current = l.current
              /\ n.generation = l.generation /\ n.active = l.active
              /\ n.rejected = l.rejected
              /\ n.lastTerminal = "NONE" /\ n.raised = l.raised
              /\ Sound(l) => Sound(n)
<1> DEFINE n == ResetTerminal(l)
<1>1. /\ n.queue = l.queue /\ n.current = l.current /\ n.phase = l.phase
      /\ n.generation = l.generation /\ n.active = l.active /\ n.rejected = l.rejected
      /\ n.status = l.status /\ n.raised = l.raised
      /\ n.lastTerminal = "NONE" /\ n.failed = <<>> /\ n.lastSource = NoSource
    BY DEF ResetTerminal, Lifecycle
<1>2. n \in Lifecycle
    BY ResetLemma
<1> HIDE DEF n
<1>3. Tidy(n) /\ RunIsActive(n)
    BY <1>1 DEF Tidy, KeepsFirstFailure, RunIsActive
<1>4. Sound(l) => Sound(n)
    BY <1>1 DEF Sound, KeepsFirstFailure
<1> QED
    BY <1>1, <1>2, <1>3, <1>4 DEF n

(* _enqueue: ids lists the sources of S that are missing, each once. *)
LEMMA EnqueueServes ==
    ASSUME NEW l \in Lifecycle, Tidy(l), RunIsActive(l), l.lastTerminal = "NONE",
           NEW S \in SUBSET Sources, NEW cfg, NEW ep,
           NEW ids \in Seq(Sources), IsInjective(ids), Range(ids) = Missing(l, S),
           NEW n \in Enqueue(l, ids, cfg, ep)
    PROVE  /\ TakesFrom(l, n, S, cfg)
           /\ Sound(l) /\ ~n.raised => Serves(l, n, S, cfg)
<1> DEFINE q == l.queue \o ids
           m == [l EXCEPT !.queue = q]
<1>1. l.queue \in Seq(Sources) /\ IsInjective(l.queue)
    BY DEF Lifecycle, Tidy
<1>2. Range(l.queue) \cap Range(ids) = {}
    BY DEF Missing
<1>3. q \in Seq(Sources) /\ Range(q) = Range(l.queue) \cup Range(ids) /\ IsInjective(q)
    BY <1>1, <1>2, ConcatRange, ConcatProperties
<1>4. n \in Resume(m, cfg, ep)
    BY DEF Enqueue
<1> HIDE DEF q
<1>5. /\ m \in Lifecycle /\ m.queue = q /\ m.generation = l.generation
      /\ m.active = l.active /\ m.current = l.current /\ m.rejected = l.rejected
      /\ m.phase = l.phase /\ m.status = l.status /\ m.lastTerminal = "NONE"
      /\ m.failed = l.failed /\ m.lastSource = l.lastSource /\ m.raised = l.raised
    BY <1>3 DEF Lifecycle
<1> HIDE DEF m
<1>6. \A s \in S : s \in Range(q) \/ s = l.current
    BY <1>3 DEF Missing
<1>7. Range(q) \subseteq Range(l.queue) \cup S
    BY <1>3 DEF Missing
<1>8. Tidy(m) /\ RunIsActive(m)
    <2>1. l.current \notin Range(ids)
        BY DEF Missing
    <2> QED
        BY <1>3, <1>5, <2>1 DEF Tidy, KeepsFirstFailure, RunIsActive
<1>9. FromQueue(m, n, cfg) /\ (n = StartNext(m, cfg, ep) \/ n.raised)
    BY <1>4, <1>5, <1>8, ResumeFromQueue
<1>10. TakesFrom(l, n, S, cfg)
    BY <1>5, <1>7, <1>9 DEF FromQueue, TakesFrom
<1>11. ASSUME Sound(l), n = StartNext(m, cfg, ep) PROVE Serves(l, n, S, cfg)
    <2>1. CASE l.active
        <3>1. n = m
            BY <1>5, <1>11, <2>1 DEF StartNext
        <3>2. l.current \notin Range(ids)
            BY DEF Missing
        <3>3. Sound(m)
            BY <1>3, <1>5, <1>11, <2>1, <3>2 DEF Sound, KeepsFirstFailure
        <3> QED
            BY <1>3, <1>5, <1>6, <2>1, <3>1, <3>3 DEF Serves, InHand, IsScanning
    <2>2. CASE ~l.active
        <3>1. Ready(m)
            BY <1>3, <1>5, <1>11, <2>2 DEF Sound, Ready, KeepsFirstFailure
        <3>2. HandsOn(m, n, cfg)
            BY <1>5, <1>11, <3>1, StartNextHandsOn
        <3>3. l.current = NoSource /\ NoSource \notin S
            BY <1>11, <2>2, NoSourceAssumption DEF Sound
        <3>4. \A s : InHand(l, s) => s \in Range(q)
            BY <1>3, <2>2 DEF InHand, IsScanning
        <3>5. Sound(n) /\ \A s \in Range(q) : Runnable(cfg[s]) => InHand(n, s)
            BY <1>5, <3>2 DEF HandsOn
        <3> QED
            BY <1>6, <3>3, <3>4, <3>5 DEF Serves
    <2> QED
        BY <2>1, <2>2
<1> QED
    BY <1>9, <1>10, <1>11

LEMMA SingletonRange ==
    ASSUME NEW s \in Sources
    PROVE  <<s>> \in Seq(Sources) /\ IsInjective(<<s>>) /\ Range(<<s>>) = {s}
<1>1. <<s>> \in Seq(Sources) /\ DOMAIN <<s>> = {1} /\ <<s>>[1] = s
    OBVIOUS
<1> QED
    BY <1>1 DEF IsInjective, Range

(* request_scan_source *)
LEMMA RequestScanServes ==
    ASSUME lc \in Lifecycle, Tidy(lc), RunIsActive(lc), NEW s \in Sources,
           NEW cfg, NEW ep, NEW n \in RequestScan(s, cfg, ep)
    PROVE  /\ TakesFrom(lc, n, {s}, cfg)
           /\ Sound(lc) /\ ~n.raised => Serves(lc, n, {s}, cfg)
<1> DEFINE l == ResetTerminal(lc)
           ids == IF Missing(l, {s}) = {} THEN <<>> ELSE <<s>>
<1>1. n \in Enqueue(l, ids, cfg, ep)
    BY DEF RequestScan
<1>2. /\ l \in Lifecycle /\ Tidy(l) /\ RunIsActive(l)
      /\ l.queue = lc.queue /\ l.current = lc.current
      /\ l.generation = lc.generation /\ l.active = lc.active /\ l.rejected = lc.rejected
      /\ l.lastTerminal = "NONE" /\ l.raised = lc.raised /\ (Sound(lc) => Sound(l))
    BY ResetIsSound
<1>3. Missing(l, {s}) = {} \/ Missing(l, {s}) = {s}
    BY DEF Missing
<1>4. ids \in Seq(Sources) /\ IsInjective(ids) /\ Range(ids) = Missing(l, {s})
    BY <1>3, EmptyRange, SingletonRange
<1> HIDE DEF l, ids
<1>5. TakesFrom(l, n, {s}, cfg) /\ (Sound(l) /\ ~n.raised => Serves(l, n, {s}, cfg))
    BY <1>1, <1>2, <1>4, EnqueueServes
<1> QED
    BY <1>2, <1>5 DEF TakesFrom, Serves, InHand, IsScanning

(* A rejection leaves the queue alone, and makes it free for the source    *)
(* being scanned to be queued again.                                       *)
LEMMA RejectFields ==
    ASSUME NEW l \in Lifecycle, l.active
    PROVE  LET n == Reject(l)
           IN /\ n.queue = l.queue /\ n.active /\ n.generation = l.generation
              /\ n.current = l.current /\ n.generation \in n.rejected
              /\ n.lastTerminal = l.lastTerminal /\ n.status = l.status
              /\ n.failed = l.failed /\ n.lastSource = l.lastSource
              /\ n.raised = l.raised
BY DEF Reject, Lifecycle

LEMMA RescheduleServes ==
    ASSUME NEW l \in Lifecycle, Tidy(l), RunIsActive(l),
           l.active \/ l.lastTerminal = "NONE",
           NEW s \in Sources, NEW cfg, NEW ep, NEW n \in RescheduleSource(l, s, cfg, ep)
    PROVE  /\ TakesFrom(l, n, {s}, cfg)
           /\ Sound(l) /\ ~n.raised => Serves(l, n, {s}, cfg)
<1> DEFINE rest == Without(l.queue, s)
           q == <<s>> \o rest
           m == [l EXCEPT !.queue = q]
<1>1. l.queue \in Seq(Sources) /\ IsInjective(l.queue)
    BY DEF Lifecycle, Tidy
<1>2. rest \in Seq(Sources) /\ Range(rest) = Range(l.queue) \ {s} /\ IsInjective(rest)
    BY <1>1, WithoutRange
<1> HIDE DEF rest
<1>3. q \in Seq(Sources) /\ Range(q) = {s} \cup Range(l.queue) /\ IsInjective(q)
    <2>1. /\ <<s>> \in Seq(Sources) /\ IsInjective(<<s>>) /\ Range(<<s>>) = {s}
          /\ Range(<<s>>) \cap Range(rest) = {}
        BY <1>2, SingletonRange
    <2>2. q \in Seq(Sources)
        BY <1>2, <2>1, ConcatProperties
    <2>3. Range(q) = Range(<<s>>) \cup Range(rest) /\ IsInjective(q)
        BY <1>2, <2>1, ConcatRange
    <2> QED
        BY <1>2, <2>1, <2>2, <2>3
<1>4. n \in IF IsScanning(l, s) THEN {Reject(m)} ELSE Resume(m, cfg, ep)
    BY DEF RescheduleSource, rest
<1> HIDE DEF q
<1>5. /\ m \in Lifecycle /\ m.queue = q /\ m.generation = l.generation
      /\ m.active = l.active /\ m.current = l.current /\ m.rejected = l.rejected
      /\ m.phase = l.phase /\ m.status = l.status /\ m.lastTerminal = l.lastTerminal
      /\ m.failed = l.failed /\ m.lastSource = l.lastSource /\ m.raised = l.raised
    BY <1>3 DEF Lifecycle
<1> HIDE DEF m
<1>6. ~IsScanning(l, s) => Tidy(m) /\ RunIsActive(m)
    BY <1>3, <1>5 DEF Tidy, KeepsFirstFailure, RunIsActive, IsScanning
<1>7. CASE IsScanning(l, s)
    <2>1. l.active /\ l.current = s /\ n = Reject(m)
        BY <1>4, <1>7 DEF IsScanning
    <2>2. /\ n.queue = q /\ n.active /\ n.generation = l.generation
          /\ n.generation \in n.rejected /\ n.lastTerminal = l.lastTerminal
          /\ n.failed = l.failed /\ n.lastSource = l.lastSource
          /\ n.status = l.status /\ n.raised = l.raised
        BY <1>5, <2>1, RejectFields
    <2>3. Tidy(n)
        BY <1>3, <2>2 DEF Tidy, KeepsFirstFailure
    <2>4. TakesFrom(l, n, {s}, cfg)
        BY <1>3, <2>2, <2>3 DEF TakesFrom
    <2>5. Sound(l) => Sound(n)
        BY <1>3, <2>1, <2>2 DEF Sound, KeepsFirstFailure
    <2>6. \A x : InHand(l, x) => x \in Range(n.queue)
        BY <1>3, <2>1, <2>2 DEF InHand, IsScanning
    <2> QED
        BY <1>3, <2>1, <2>2, <2>4, <2>5, <2>6 DEF Serves, InHand
<1>8. CASE ~IsScanning(l, s)
    <2>1. n \in Resume(m, cfg, ep)
        BY <1>4, <1>8
    <2>2. FromQueue(m, n, cfg) /\ (n = StartNext(m, cfg, ep) \/ n.raised)
        BY <1>5, <1>6, <1>8, <2>1, ResumeFromQueue
    <2>3. TakesFrom(l, n, {s}, cfg)
        BY <1>3, <1>5, <2>2 DEF FromQueue, TakesFrom
    <2>4. ASSUME Sound(l), n = StartNext(m, cfg, ep), l.active
          PROVE  Serves(l, n, {s}, cfg)
        <3>1. n = m /\ l.current # s
            BY <1>5, <1>8, <2>4 DEF StartNext, IsScanning
        <3>2. Sound(m)
            BY <1>3, <1>5, <2>4, <3>1 DEF Sound, KeepsFirstFailure
        <3> QED
            BY <1>3, <1>5, <3>1, <3>2 DEF Serves, InHand, IsScanning
    <2>5. ASSUME Sound(l), n = StartNext(m, cfg, ep), ~l.active
          PROVE  Serves(l, n, {s}, cfg)
        <3>1. Ready(m)
            BY <1>3, <1>5, <2>5 DEF Sound, Ready, KeepsFirstFailure
        <3>2. HandsOn(m, n, cfg)
            BY <1>5, <2>5, <3>1, StartNextHandsOn
        <3>3. \A x : InHand(l, x) => x \in Range(q)
            BY <1>3, <2>5 DEF InHand, IsScanning
        <3> QED
            BY <1>3, <1>5, <3>2, <3>3 DEF Serves, HandsOn
    <2> QED
        BY <2>2, <2>3, <2>4, <2>5
<1> QED
    BY <1>7, <1>8

(* n takes S off the queue of l and starts nothing. *)
TakesOff(l, n, S) ==
    /\ Tidy(n)
    /\ Range(n.queue) \subseteq Range(l.queue) \ S
    /\ n.generation = l.generation
    /\ n.raised = l.raised

(* Without the source it withdraws, a method leaves in hand what was. *)
Drops(l, n, S) ==
    /\ Sound(n)
    /\ \A s : s \notin S /\ InHand(l, s) => InHand(n, s)

LEMMA InvalidateDrops ==
    ASSUME NEW l \in Lifecycle, Tidy(l), NEW s
    PROVE  LET n == InvalidateSource(l, s)
           IN TakesOff(l, n, {s}) /\ (Sound(l) => Drops(l, n, {s}))
<1> DEFINE q == Without(l.queue, s)
           m == [l EXCEPT !.queue = q]
           n == InvalidateSource(l, s)
<1>1. l.queue \in Seq(Sources) /\ IsInjective(l.queue)
    BY DEF Lifecycle, Tidy
<1>2. q \in Seq(Sources) /\ Range(q) = Range(l.queue) \ {s} /\ IsInjective(q)
    BY <1>1, WithoutRange
<1>3. l.queue = <<>> => q = <<>>
    BY EmptySeq DEF Without
<1>4. n = IF IsScanning(l, s) THEN Reject(m) ELSE m
    BY DEF InvalidateSource
<1> HIDE DEF q, n
<1>5. /\ m \in Lifecycle /\ m.queue = q /\ m.generation = l.generation
      /\ m.active = l.active /\ m.current = l.current /\ m.rejected = l.rejected
      /\ m.phase = l.phase /\ m.lastTerminal = l.lastTerminal /\ m.status = l.status
      /\ m.failed = l.failed /\ m.lastSource = l.lastSource /\ m.raised = l.raised
    BY <1>2 DEF Lifecycle
<1> HIDE DEF m
<1>6. CASE IsScanning(l, s)
    <2>1. l.active /\ l.current = s /\ n = Reject(m)
        BY <1>4, <1>6 DEF IsScanning
    <2>2. /\ n.queue = q /\ n.active /\ n.generation = l.generation
          /\ n.generation \in n.rejected /\ n.lastTerminal = l.lastTerminal
          /\ n.failed = l.failed /\ n.lastSource = l.lastSource
          /\ n.status = l.status /\ n.raised = l.raised
        BY <1>5, <2>1, RejectFields
    <2>3. TakesOff(l, n, {s})
        BY <1>2, <2>2 DEF TakesOff, Tidy, KeepsFirstFailure
    <2>4. Sound(l) => Sound(n)
        BY <1>2, <2>1, <2>2 DEF Sound, KeepsFirstFailure
    <2>5. \A x : x # s /\ InHand(l, x) => InHand(n, x)
        BY <1>2, <2>1, <2>2 DEF InHand, IsScanning
    <2> QED
        BY <2>3, <2>4, <2>5 DEF Drops, n
<1>7. CASE ~IsScanning(l, s)
    <2>1. n = m
        BY <1>4, <1>7
    <2>2. TakesOff(l, m, {s})
        BY <1>2, <1>5 DEF TakesOff, Tidy, KeepsFirstFailure
    <2>3. Sound(l) => Sound(m)
        BY <1>2, <1>3, <1>5 DEF Sound, KeepsFirstFailure
    <2>4. \A x : x # s /\ InHand(l, x) => InHand(m, x)
        BY <1>2, <1>5 DEF InHand, IsScanning
    <2> QED
        BY <2>1, <2>2, <2>3, <2>4 DEF Drops, n
<1> QED
    BY <1>6, <1>7

LEMMA CancelDrops ==
    ASSUME NEW l \in Lifecycle, Tidy(l)
    PROVE  LET n == Cancel(l)
           IN /\ Tidy(n) /\ n.queue = <<>> /\ n.generation = l.generation
              /\ n.raised = l.raised
              /\ Sound(l) => Sound(n)
<1> DEFINE n == Cancel(l)
<1>1. /\ n.queue = <<>> /\ n.active = l.active /\ n.generation = l.generation
      /\ l.active => n.generation \in n.rejected
      /\ ~l.active => n.rejected = l.rejected
      /\ n.lastTerminal = l.lastTerminal /\ n.status = l.status
      /\ n.current = l.current /\ n.phase = l.phase
      /\ n.failed = l.failed /\ n.lastSource = l.lastSource /\ n.raised = l.raised
    BY DEF Cancel, Reject, Lifecycle
<1> HIDE DEF n
<1>2. Tidy(n)
    BY <1>1, EmptyRange DEF Tidy, KeepsFirstFailure
<1>3. Sound(l) => Sound(n)
    BY <1>1, EmptyRange DEF Sound, KeepsFirstFailure
<1> QED
    BY <1>1, <1>2, <1>3 DEF n

(* The end of a scan keeps the diagnostic of the first failure. *)
LEMMA EndedIsTidy ==
    ASSUME NEW l \in Lifecycle, l.lastTerminal = "NONE", l.current \in Sources,
           IsInjective(l.queue), KeepsFirstFailure(l), NEW how \in Endings
    PROVE  LET m == Ended(l, how)
           IN /\ m \in Lifecycle /\ Tidy(m) /\ RunIsActive(m)
              /\ m.queue = l.queue /\ m.generation = l.generation /\ ~m.active
              /\ m.rejected = l.rejected /\ m.phase = "NONE" /\ m.lastTerminal = "NONE"
              /\ m.raised = l.raised
<1> DEFINE m == Ended(l, how)
           fails == how = "failed"
<1>2. /\ m.queue = l.queue /\ m.generation = l.generation
      /\ ~m.active /\ m.rejected = l.rejected /\ m.raised = l.raised /\ m.status # "RUNNING"
      /\ m.phase = "NONE" /\ m.lastTerminal = "NONE"
      /\ m.failed = IF fails /\ l.current \notin Range(l.failed)
                    THEN Append(l.failed, l.current) ELSE l.failed
      /\ m.lastSource = IF fails /\ l.lastSource = NoSource THEN l.current ELSE l.lastSource
    BY DEF Ended, Lifecycle
<1>3. m \in Lifecycle
    <2> DEFINE hint == IF how = "stale" /\ l.queue = <<>> /\ l.failed = <<>>
                       THEN "CANCELLED" ELSE l.hint
               failed == IF fails /\ l.current \notin Range(l.failed)
                         THEN Append(l.failed, l.current) ELSE l.failed
               last == IF fails /\ l.lastSource = NoSource THEN l.current ELSE l.lastSource
               status == IF fails THEN "FAILED" ELSE "IDLE"
    <2>1. l.failed \in Seq(Sources) /\ l.hint \in Terminals
          /\ l.lastSource \in Sources \cup {NoSource}
        BY DEF Lifecycle
    <2>2. hint \in Terminals /\ status \in Statuses /\ last \in Sources \cup {NoSource}
        BY <2>1 DEF Terminals, Statuses
    <2>3. failed \in Seq(Sources)
        BY <2>1
    <2>4. "NONE" \in Phases /\ Unconfigured \in ConfigRecord
        BY DEF Phases, Unconfigured, ConfigRecord, Lifecycles
    <2>5. m = [l EXCEPT !.active = FALSE, !.snapshot = Unconfigured,
                        !.snapshotEpoch = 0, !.phase = "NONE", !.status = status,
                        !.hint = hint, !.failed = failed, !.lastSource = last]
        BY DEF Ended, Lifecycle
    <2> HIDE DEF m, hint, status, failed, last
    <2> QED
        BY <2>2, <2>3, <2>4, <2>5 DEF Lifecycle
<1> HIDE DEF m
<1>4. m.lastSource = IF m.failed = <<>> THEN NoSource ELSE Head(m.failed)
    <2>1. l.failed \in Seq(Sources)
        BY DEF Lifecycle
    <2>2. CASE ~fails
        BY <1>2, <2>2 DEF KeepsFirstFailure
    <2>3. CASE fails /\ l.failed = <<>>
        <3>1. l.current \notin Range(l.failed) /\ l.lastSource = NoSource
            BY <2>3, EmptyRange DEF KeepsFirstFailure
        <3>2. m.failed = Append(<<>>, l.current) /\ m.lastSource = l.current
            BY <1>2, <2>3, <3>1
        <3>3. Append(<<>>, l.current) = <<l.current>> /\ Head(<<l.current>>) = l.current
              /\ <<l.current>> # <<>>
            OBVIOUS
        <3> QED
            BY <3>2, <3>3
    <2>4. CASE fails /\ l.failed # <<>>
        <3>1. Len(l.failed) \in Nat \ {0} /\ Head(l.failed) = l.failed[1]
              /\ l.failed[1] \in Sources
            BY <2>1, <2>4, EmptySeq, LenProperties, HeadTailProperties
        <3>2. l.lastSource = Head(l.failed) /\ l.lastSource # NoSource
            BY <2>4, <3>1, NoSourceAssumption DEF KeepsFirstFailure
        <3>3. m.lastSource = Head(l.failed)
            BY <1>2, <3>2
        <3>4. /\ Append(l.failed, l.current) \in Seq(Sources)
              /\ Len(Append(l.failed, l.current)) = Len(l.failed) + 1
              /\ Append(l.failed, l.current)[1] = l.failed[1]
            BY <2>1, <3>1, AppendProperties
        <3>5. Append(l.failed, l.current) # <<>>
              /\ Head(Append(l.failed, l.current)) = Append(l.failed, l.current)[1]
            BY <3>1, <3>4, EmptySeq, HeadTailProperties
        <3> QED
            BY <1>2, <2>4, <3>1, <3>3, <3>4, <3>5
    <2> QED
        BY <2>2, <2>3, <2>4
<1>5. Tidy(m) /\ RunIsActive(m)
    BY <1>2, <1>4 DEF Tidy, KeepsFirstFailure, RunIsActive
<1> QED
    BY <1>2, <1>3, <1>5 DEF m

(* _finish, after the rejection was popped. *)
LEMMA FinishHandsOn ==
    ASSUME NEW l \in Lifecycle, l.rejected = {}, l.lastTerminal = "NONE",
           l.current \in Sources, IsInjective(l.queue), KeepsFirstFailure(l),
           NEW how \in Endings, NEW cfg, NEW ep, NEW n \in Finish(l, how, cfg, ep)
    PROVE  FromQueue(l, n, cfg) /\ (n.raised \/ HandsOn(l, n, cfg))
<1> DEFINE m == Ended(l, how)
<1>1. n \in Resume(m, cfg, ep)
    BY DEF Finish
<1>2. /\ m \in Lifecycle /\ Tidy(m) /\ RunIsActive(m)
      /\ m.queue = l.queue /\ m.generation = l.generation /\ ~m.active
      /\ m.rejected = {} /\ m.phase = "NONE" /\ m.lastTerminal = "NONE"
      /\ m.raised = l.raised
    BY EndedIsTidy
<1> HIDE DEF m
<1>3. FromQueue(m, n, cfg) /\ (n = StartNext(m, cfg, ep) \/ n.raised)
    BY <1>1, <1>2, ResumeFromQueue
<1>4. Ready(m)
    BY <1>2 DEF Ready, Tidy
<1>5. n = StartNext(m, cfg, ep) => HandsOn(m, n, cfg)
    BY <1>2, <1>4, StartNextHandsOn
<1> QED
    BY <1>2, <1>3, <1>5 DEF FromQueue, HandsOn

-----------------------------------------------------------------------------
(* Steps of the requests                                                   *)

(* A step starts only what was asked for. *)
StartsAsked == \A j \in RunningJobs' \ RunningJobs : j.source \in history'.asked

(* The only thread a step of the lifecycle can start is that of its new    *)
(* generation.                                                             *)
LEMMA AdvanceStarts ==
    ASSUME NEW new, Advance(new),
           new.generation # lc.generation /\ new.status = "RUNNING"
               => new.current \in history'.asked
    PROVE  StartsAsked
<1> SUFFICES ASSUME NEW v \in workers', v.job \notin RunningJobs
             PROVE  v.job.source \in history'.asked
    BY DEF StartsAsked, RunningJobs
<1>1. CASE v \in Signalled(new)
    <2>1. PICK w \in workers :
              v = [w EXCEPT !.cancelled = w.cancelled \/ w.job.gen \in new.rejected]
        BY <1>1 DEF Signalled
    <2>2. v.job = w.job
        BY <2>1
    <2> QED
        BY <2>2 DEF RunningJobs
<1>2. CASE v \in Submitted(new)
    <2>1. /\ new.generation # lc.generation /\ new.status = "RUNNING"
          /\ v.job.source = new.current
        BY <1>2 DEF Submitted
    <2> QED
        BY <2>1
<1> QED
    BY <1>1, <1>2 DEF Advance

(* What a step of the lifecycle to "new" remembers of the requests.        *)
LEMMA RememberedQueue ==
    ASSUME NEW asked, NEW lost, NEW new, NEW commits,
           Remember(asked, lost, new, commits), lc' = new, Tidy(new),
           Range(new.queue) \subseteq asked
    PROVE  /\ QueueInv'
           /\ \A s \in asked : Runnable(config'[s]) => s \in history'.asked
<1>1. history'.asked = {s \in asked : Runnable(config'[s]) \/ s \in Range(new.queue)}
    BY DEF Remember
<1> QED
    BY <1>1 DEF QueueInv, Tidy, KeepsFirstFailure

LEMMA Remembered ==
    ASSUME NEW asked \in SUBSET Sources, NEW lost \in SUBSET Sources, NEW new, NEW commits,
           Remember(asked, lost, new, commits), lc' = new,
           \A s \in asked \ lost : Runnable(config'[s]) => InHand(new, s)
    PROVE  Standing'
<1>1. /\ history'.asked = {s \in asked : Runnable(config'[s]) \/ s \in Range(new.queue)}
      /\ history'.lost = {s \in lost : Runnable(config'[s]) \/ s \in Range(new.queue)}
    BY DEF Remember
<1>2. ASSUME NEW s \in history'.asked \ history'.lost PROVE InHand(new, s)
    <2>1. s \in asked \ lost /\ (Runnable(config'[s]) \/ s \in Range(new.queue))
        BY <1>1, <1>2
    <2> QED
        BY <2>1 DEF InHand
<1> QED
    BY <1>2 DEF Standing, InHand, IsScanning

LEMMA AskQueues ==
    ASSUME QueueInv, NEW S \in SUBSET Sources, NEW new,
           Advance(new), TakesFrom(lc, new, S, config'), Ask(S, new)
    PROVE  QueueInv' /\ StartsAsked
<1> DEFINE asked == history.asked \cup S
<1>1. PICK lost : Remember(asked, lost, new, {})
    BY DEF Ask
<1>2. Range(new.queue) \subseteq asked /\ lc' = new /\ Tidy(new)
    BY DEF TakesFrom, QueueInv, Advance
<1>3. new.generation # lc.generation /\ new.status = "RUNNING" =>
          new.current \in asked /\ Runnable(config'[new.current])
    BY DEF TakesFrom, QueueInv
<1> HIDE DEF asked
<1>4. QueueInv' /\ \A s \in asked : Runnable(config'[s]) => s \in history'.asked
    BY <1>1, <1>2, RememberedQueue
<1> QED
    BY <1>3, <1>4, AdvanceStarts

LEMMA AskStands ==
    ASSUME history \in History, Sound(lc), Standing, NEW S \in SUBSET Sources, NEW new,
           lc' = new, Serves(lc, new, S, config'), Ask(S, new)
    PROVE  Sound(lc)' /\ Standing'
<1> DEFINE drops == {s \in S : Unwinding(s) /\ s \notin Range(lc.queue)}
           asked == history.asked \cup S
           lost  == (history.lost \ S) \cup drops
<1>1. asked \in SUBSET Sources /\ lost \in SUBSET Sources
    BY DEF History
<1>2. Remember(asked, lost, new, {})
    BY DEF Ask
<1>3. ASSUME NEW s \in asked \ lost, Runnable(config'[s]) PROVE InHand(new, s)
    <2>1. s \in Sources
        BY <1>1, <1>3
    <2>2. CASE s \in S
        <3>1. InHand(new, s) \/ IsScanning(lc, s)
            BY <1>3, <2>2 DEF Serves
        <3>2. ~Unwinding(s) \/ s \in Range(lc.queue)
            BY <1>3, <2>2
        <3>3. CASE IsScanning(lc, s)
            <4>1. InHand(lc, s)
                BY <3>2, <3>3 DEF InHand, Unwinding
            <4> QED
                BY <1>3, <2>1, <4>1 DEF Serves
        <3> QED
            BY <3>1, <3>3
    <2>3. CASE s \notin S
        <3>1. InHand(lc, s)
            BY <1>3, <2>3 DEF Standing
        <3> QED
            BY <1>3, <2>1, <3>1 DEF Serves
    <2> QED
        BY <2>2, <2>3
<1> HIDE DEF asked, lost
<1>4. Standing'
    BY <1>1, <1>2, <1>3, Remembered
<1>5. Sound(lc)'
    BY DEF Serves, Sound, KeepsFirstFailure
<1> QED
    BY <1>4, <1>5

LEMMA WithdrawQueues ==
    ASSUME QueueInv, NEW S, NEW new, lc' = new, TakesOff(lc, new, S), Withdraw(S, new)
    PROVE  QueueInv'
<1> DEFINE asked == history.asked \ S
<1>1. PICK lost : Remember(asked, lost, new, {})
    BY DEF Withdraw
<1>2. Range(new.queue) \subseteq asked /\ Tidy(new)
    BY DEF TakesOff, QueueInv
<1> HIDE DEF asked
<1> QED
    BY <1>1, <1>2, RememberedQueue

LEMMA WithdrawStands ==
    ASSUME history \in History, Standing, NEW S, NEW new,
           lc' = new, Drops(lc, new, S), Withdraw(S, new)
    PROVE  Sound(lc)' /\ Standing'
<1>1. history.asked \ S \in SUBSET Sources /\ history.lost \ S \in SUBSET Sources
    BY DEF History
<1>2. Remember(history.asked \ S, history.lost \ S, new, {})
    BY DEF Withdraw
<1>3. \A s \in (history.asked \ S) \ (history.lost \ S) : InHand(new, s)
    BY DEF Drops, Standing
<1>4. Standing'
    BY <1>1, <1>2, <1>3, Remembered
<1>5. Sound(lc)'
    BY DEF Drops, Sound, KeepsFirstFailure
<1> QED
    BY <1>4, <1>5

(* The scan of c is over: its request, if it stood, is met or withdrawn,   *)
(* and the others are queued.                                              *)
LEMMA FinishQueues ==
    ASSUME QueueInv, NEW S, NEW l, NEW new, NEW commits,
           l.queue = lc.queue, l.generation = lc.generation, S \cap Range(lc.queue) = {},
           Advance(new), FromQueue(l, new, config'),
           Remember(history.asked \ S, history.lost \ S, new, commits)
    PROVE  QueueInv' /\ StartsAsked
<1> DEFINE asked == history.asked \ S
           lost == history.lost \ S
<1>1. Remember(asked, lost, new, commits) /\ lc' = new /\ Tidy(new)
    BY DEF FromQueue, Advance
<1>2. /\ Range(new.queue) \subseteq asked
      /\ new.generation # lc.generation /\ new.status = "RUNNING" =>
             new.current \in asked /\ Runnable(config'[new.current])
    BY DEF FromQueue, QueueInv
<1> HIDE DEF asked, lost
<1>3. QueueInv' /\ \A s \in asked : Runnable(config'[s]) => s \in history'.asked
    BY <1>1, <1>2, RememberedQueue
<1> QED
    BY <1>2, <1>3, AdvanceStarts

LEMMA FinishStands ==
    ASSUME history \in History, NEW S, NEW l, NEW new, NEW commits,
           l.queue = lc.queue,
           lc' = new, HandsOn(l, new, config'),
           Remember(history.asked \ S, history.lost \ S, new, commits),
           \A s \in history.asked \ history.lost : s \in S \/ s \in Range(lc.queue)
    PROVE  Sound(lc)' /\ Standing'
<1>1. history.asked \ S \in SUBSET Sources /\ history.lost \ S \in SUBSET Sources
    BY DEF History
<1>2. \A s \in (history.asked \ S) \ (history.lost \ S) :
          Runnable(config'[s]) => InHand(new, s)
    BY DEF HandsOn
<1>3. Standing'
    BY <1>1, <1>2, Remembered
<1>4. Sound(lc)'
    BY DEF HandsOn, Sound, KeepsFirstFailure
<1> QED
    BY <1>3, <1>4

-----------------------------------------------------------------------------
(* Signals                                                                 *)

(* The owner-thread methods outside the done handlers.  *)
LEMMA MoveKeepsSignals ==
    ASSUME Inv, SignalsInv, NEW new, NEW cfg, NEW ep, Moves(lc, new, cfg, ep),
           Advance(new), relay' = relay
    PROVE  SignalsInv'
<1>1. /\ lc \in Lifecycle /\ relay \in Seq(Message) /\ SingleFlight /\ workers \subseteq Worker
      /\ lc' = new
    BY DEF Inv, LifecyclePart, EnvironmentPart, Advance
<1>2. \A i \in DOMAIN relay : relay[i].job.gen \in Nat
    <2>1. \A i \in DOMAIN relay : relay[i] \in Message
        BY <1>1, LenProperties, ElementOfSeq
    <2> QED
        BY <2>1 DEF Message, Job
<1>3. CASE Keeps(lc, new)
    <2>1. workers' = Signalled(new)
        BY <1>3 DEF Advance, Submitted, Keeps
    <2>2. lc.rejected \subseteq new.rejected
        BY DEF Moves
    <2>3. \A w \in workers : w.job.gen = lc.generation
        BY <1>1 DEF SingleFlight, Unresolved, RunningJobs
    <2>4. ASSUME NEW v \in workers', v.cancelled PROVE lc.generation \in new.rejected
        <3>1. PICK w \in workers :
                  v = [w EXCEPT !.cancelled = w.cancelled \/ w.job.gen \in new.rejected]
            BY <2>1 DEF Signalled
        <3>2. w.cancelled \/ w.job.gen \in new.rejected
            BY <1>1, <2>4, <3>1 DEF Worker
        <3> QED
            BY <2>2, <2>3, <3>2 DEF SignalsInv
    <2>5. /\ relay' = relay /\ new.generation = lc.generation /\ new.active = lc.active
          /\ lc' = new
        BY <1>1, <1>3 DEF Keeps
    <2> QED
        BY <2>2, <2>4, <2>5 DEF SignalsInv
<1>4. CASE ~lc.active /\ (Starts(lc, new, cfg, ep) \/ Sticks(lc, new))
    <2>1. workers = {} /\ \A i \in DOMAIN relay : relay[i].kind \notin Dones
        BY <1>1, <1>4 DEF SingleFlight, Unresolved, RunningJobs, DoneAt
    <2>2. \A w \in workers' : ~w.cancelled
        BY <2>1 DEF Advance, Signalled, Submitted
    <2>3. lc.generation \in Nat /\ new.generation = lc.generation + 1
        BY <1>1, <1>4 DEF Lifecycle, Starts, Sticks
    <2>4. \A i \in DOMAIN relay : relay[i].job.gen < new.generation
        BY <1>2, <2>3 DEF SignalsInv
    <2>5. \A i \in DOMAIN relay : /\ relay[i].job.gen <= new.generation
                                  /\ relay[i].job.gen # new.generation
        BY <1>2, <2>3, <2>4
    <2> QED
        BY <1>1, <2>1, <2>2, <2>5 DEF SignalsInv, Dones
<1> QED
    BY <1>3, <1>4 DEF Moves

(* A worker emits while its generation is in flight: its done signal is    *)
(* the last of them.                                                       *)
LEMMA EmitKeepsSignals ==
    ASSUME Inv, SignalsInv, NEW w \in workers, NEW kind \in {"progress"} \cup Dones,
           Emit(kind, w.job), kind = "cancelled" => w.cancelled,
           lc' = lc, \A v \in workers' : v.cancelled => w.cancelled
    PROVE  SignalsInv'
<1>1. /\ lc \in Lifecycle /\ relay \in Seq(Message) /\ SingleFlight /\ workers \subseteq Worker
      /\ closed \in BOOLEAN
    BY DEF Inv, LifecyclePart, EnvironmentPart
<1>2. /\ w.job.gen = lc.generation /\ lc.active /\ w.job \in Job
      /\ \A i \in DOMAIN relay : relay[i].kind \notin Dones
    BY <1>1 DEF SingleFlight, Unresolved, RunningJobs, DoneAt, Worker
<1>3. \A v \in workers' : v.cancelled => lc.generation \in lc.rejected
    BY DEF SignalsInv
<1>4. CASE closed
    BY <1>3, <1>4 DEF Emit, SignalsInv
<1>5. CASE ~closed
    <2> DEFINE m == [kind |-> kind, job |-> w.job]
    <2>1. m \in Message /\ m.kind = kind /\ m.job = w.job
        BY <1>2 DEF Message, Dones
    <2>2. relay' = Append(relay, m)
        BY <1>5 DEF Emit
    <2> HIDE DEF m
    <2>3. /\ relay' \in Seq(Message)
          /\ Len(relay') = Len(relay) + 1
          /\ \A i \in 1 .. Len(relay) : relay'[i] = relay[i]
          /\ relay'[Len(relay) + 1] = m
        BY <1>1, <2>1, <2>2, AppendProperties
    <2>4. DOMAIN relay = 1 .. Len(relay) /\ DOMAIN relay' = 1 .. Len(relay) + 1
          /\ Len(relay) \in Nat
        BY <1>1, <2>3, LenProperties
    <2>5. ASSUME NEW i \in DOMAIN relay'
          PROVE  /\ relay'[i].job.gen <= lc.generation
                 /\ relay'[i].job.gen = lc.generation => lc.active
                 /\ relay'[i].kind \in Dones => i = Len(relay')
                 /\ relay'[i].kind = "cancelled" => lc.generation \in lc.rejected
        <3>1. CASE i = Len(relay) + 1
            <4>1. relay'[i].job.gen = lc.generation /\ relay'[i].kind = kind
                  /\ lc.generation <= lc.generation
                BY <1>1, <1>2, <2>1, <2>3, <3>1 DEF Lifecycle
            <4>2. kind = "cancelled" => lc.generation \in lc.rejected
                BY DEF SignalsInv
            <4> QED
                BY <1>2, <2>3, <3>1, <4>1, <4>2
        <3>2. CASE i # Len(relay) + 1
            <4>1. i \in DOMAIN relay /\ relay'[i] = relay[i]
                BY <2>3, <2>4, <3>2
            <4> QED
                BY <1>2, <4>1 DEF SignalsInv
        <3> QED
            BY <3>1, <3>2
    <2> QED
        BY <1>3, <2>5 DEF SignalsInv
<1> QED
    BY <1>1, <1>4, <1>5

LEMMA TailPositions ==
    ASSUME relay \in Seq(Message), relay # <<>>, relay' = Tail(relay)
    PROVE  /\ Len(relay) \in Nat \ {0} /\ Len(relay') = Len(relay) - 1
           /\ DOMAIN relay' = 1 .. Len(relay')
           /\ 1 \in DOMAIN relay /\ relay[1] = Head(relay)
           /\ \A i \in DOMAIN relay' : i + 1 \in DOMAIN relay /\ relay'[i] = relay[i + 1]
<1>1. /\ relay' \in Seq(Message)
      /\ Len(relay') = Len(relay) - 1
      /\ \A i \in 1 .. Len(relay') : relay'[i] = relay[i + 1]
      /\ Head(relay) = relay[1]
    BY HeadTailProperties
<1>2. Len(relay) \in Nat \ {0} /\ DOMAIN relay = 1 .. Len(relay)
      /\ DOMAIN relay' = 1 .. Len(relay')
    BY <1>1, EmptySeq, LenProperties
<1> QED
    BY <1>1, <1>2

LEMMA ReceiveKeepsSignals ==
    ASSUME Inv, SignalsInv, NEW kinds, Receive(kinds), UNCHANGED workers,
           Keeps(lc, lc'), lc'.rejected = lc.rejected
    PROVE  SignalsInv'
<1>1. relay \in Seq(Message) /\ relay # <<>> /\ relay' = Tail(relay)
    BY DEF Inv, EnvironmentPart, Receive
<1>2. /\ Len(relay) \in Nat \ {0} /\ Len(relay') = Len(relay) - 1
      /\ DOMAIN relay' = 1 .. Len(relay')
      /\ \A i \in DOMAIN relay' : i + 1 \in DOMAIN relay /\ relay'[i] = relay[i + 1]
    BY <1>1, TailPositions
<1>3. ASSUME NEW i \in DOMAIN relay'
      PROVE  /\ relay'[i].job.gen <= lc.generation
             /\ relay'[i].job.gen = lc.generation => lc.active
             /\ relay'[i].kind \in Dones => i = Len(relay')
             /\ relay'[i].kind = "cancelled" => lc.generation \in lc.rejected
    <2>1. i + 1 \in DOMAIN relay /\ relay'[i] = relay[i + 1]
        BY <1>2
    <2>2. i + 1 = Len(relay) => i = Len(relay')
        BY <1>2
    <2> QED
        BY <2>1, <2>2 DEF SignalsInv
<1> QED
    BY <1>3 DEF SignalsInv, Keeps

(* After the done signal of the scan nothing is queued. *)
LEMMA DoneIsLast ==
    ASSUME Inv, SignalsInv, Receive(Dones)
    PROVE  workers = {} /\ DOMAIN relay' = {}
<1>1. /\ relay \in Seq(Message) /\ relay # <<>> /\ relay' = Tail(relay)
      /\ Head(relay).kind \in Dones /\ LifecyclePart /\ EnvironmentPart
    BY DEF Inv, EnvironmentPart, Receive
<1>2. workers = {}
    BY <1>1, DoneLemma
<1>3. /\ Len(relay') = Len(relay) - 1 /\ DOMAIN relay' = 1 .. Len(relay')
      /\ 1 \in DOMAIN relay /\ relay[1] = Head(relay)
    BY <1>1, TailPositions
<1>4. Len(relay) = 1
    BY <1>1, <1>3 DEF SignalsInv
<1> QED
    BY <1>2, <1>3, <1>4

LEMMA DoneKeepsSignals ==
    ASSUME Inv, SignalsInv, Receive(Dones), NEW new, Advance(new)
    PROVE  SignalsInv'
<1>1. workers = {} /\ DOMAIN relay' = {}
    BY DoneIsLast
<1>2. \A w \in workers' : ~w.cancelled
    BY <1>1 DEF Advance, Signalled, Submitted
<1> QED
    BY <1>1, <1>2 DEF SignalsInv

-----------------------------------------------------------------------------
(* Every step keeps the requests                                           *)

(* The intents that end in one lifecycle operation with result "new":      *)
(* those that ask, and those that withdraw.                                *)
LEMMA AskIntentStands ==
    ASSUME Inv, RequestInv, relay' = relay, NEW new,
           Moves(lc, new, config', epoch'), Advance(new),
           NEW S \in SUBSET Sources, Ask(S, new),
           TakesFrom(lc, new, S, config'),
           Sound(lc) /\ ~new.raised => Serves(lc, new, S, config')
    PROVE  RequestInv' /\ StartsAsked
<1>1. QueueInv /\ ServiceInv /\ history \in History /\ lc' = new
    BY DEF RequestInv, Inv, EnvironmentPart, Advance
<1>2. QueueInv' /\ StartsAsked
    BY <1>1, AskQueues
<1>3. ASSUME ~new.raised PROVE Sound(lc)' /\ SignalsInv' /\ Standing'
    <2>1. Sound(lc) /\ SignalsInv /\ Standing
        BY <1>1, <1>3 DEF ServiceInv, TakesFrom
    <2>2. Serves(lc, new, S, config')
        BY <1>3, <2>1
    <2> QED
        BY <1>1, <2>1, <2>2, AskStands, MoveKeepsSignals
<1> QED
    BY <1>1, <1>2, <1>3 DEF RequestInv, ServiceInv

LEMMA WithdrawIntentStands ==
    ASSUME Inv, RequestInv, relay' = relay, NEW new,
           Moves(lc, new, config', epoch'), Advance(new),
           NEW S \in SUBSET Sources, Withdraw(S, new),
           TakesOff(lc, new, S), Sound(lc) => Drops(lc, new, S)
    PROVE  RequestInv' /\ StartsAsked
<1>1. QueueInv /\ ServiceInv /\ history \in History /\ lc' = new
    BY DEF RequestInv, Inv, EnvironmentPart, Advance
<1>2. QueueInv'
    BY <1>1, WithdrawQueues
<1>3. StartsAsked
    BY AdvanceStarts DEF TakesOff
<1>4. ASSUME ~new.raised PROVE Sound(lc)' /\ SignalsInv' /\ Standing'
    <2>1. Sound(lc) /\ SignalsInv /\ Standing
        BY <1>1, <1>4 DEF ServiceInv, TakesOff
    <2> QED
        BY <1>1, <2>1, WithdrawStands, MoveKeepsSignals
<1> QED
    BY <1>1, <1>2, <1>3, <1>4 DEF RequestInv, ServiceInv

LEMMA PrimedTypes ==
    ASSUME Inv, RequestInv, Inv'
    PROVE  /\ lc \in Lifecycle /\ config' \in Configs /\ epoch' \in Epochs
           /\ Tidy(lc) /\ RunIsActive(lc)
BY DEF Inv, LifecyclePart, AuthorityPart, RequestInv, QueueInv, RejectionInv

(* Every order of a finite set lists each of its elements once. *)
LEMMA OrderOfSet ==
    ASSUME NEW S \in SUBSET Sources, NEW ids \in SetToSeqs(S)
    PROVE  ids \in Seq(Sources) /\ IsInjective(ids) /\ Range(ids) = S
<1> DEFINE n == Cardinality(S)
           D == 1 .. n
<1>1. IsFiniteSet(S) /\ n \in Nat
    BY SourcesAssumption, FS_Subset, FS_CardinalityType
<1>2. ids \in [D -> S] /\ \A i, j \in D : i # j => ids[i] # ids[j]
    BY DEF SetToSeqs
<1> HIDE DEF n
<1>3. IsFiniteSet(D) /\ Cardinality(D) = n
    BY <1>1, FS_Interval
<1>4. ids \in Injection(D, S)
    BY <1>2 DEF Injection, IsInjective
<1>5. ids \in Surjection(D, S)
    <2>1. Cardinality(D) = Cardinality(S)
        BY <1>3 DEF n
    <2> HIDE DEF D
    <2> QED
        BY <1>1, <1>4, <2>1, FS_Injection
<1>6. Range(ids) = S
    BY <1>2, <1>5 DEF Surjection, Range
<1>7. ids \in [D -> Sources]
    BY <1>2
<1>8. ids \in Seq(Sources)
    BY <1>1, <1>7, SeqDef
<1> QED
    BY <1>2, <1>6, <1>8 DEF IsInjective

LEMMA RequestScanAllStands ==
    ASSUME Inv, RequestInv, Inv', RequestScanAll
    PROVE  RequestInv' /\ StartsAsked
<1> DEFINE all == {s \in Sources : Runnable(config[s])}
           l == ResetTerminal(lc)
<1>1. PICK ids \in SetToSeqs(Missing(l, all)) :
          \E new \in Enqueue(l, ids, config, epoch) : Advance(new) /\ Ask(all, new)
    BY DEF RequestScanAll
<1>2. PICK new \in Enqueue(l, ids, config, epoch) : Advance(new) /\ Ask(all, new)
    BY <1>1
<1>3. /\ config' = config /\ epoch' = epoch /\ relay' = relay
      /\ lc \in Lifecycle /\ config \in Configs /\ epoch \in Epochs
      /\ Tidy(lc) /\ RunIsActive(lc)
    BY PrimedTypes DEF RequestScanAll, authority, Intent
<1>4. /\ l \in Lifecycle /\ Tidy(l) /\ RunIsActive(l)
      /\ l.queue = lc.queue /\ l.current = lc.current
      /\ l.generation = lc.generation /\ l.active = lc.active /\ l.rejected = lc.rejected
      /\ l.lastTerminal = "NONE" /\ l.raised = lc.raised /\ (Sound(lc) => Sound(l))
      /\ Keeps(lc, l)
    BY <1>3, ResetIsSound, ResetLemma
<1>5. Missing(l, all) \in SUBSET Sources /\ all \in SUBSET Sources
    BY DEF Missing
<1>6. ids \in Seq(Sources) /\ IsInjective(ids) /\ Range(ids) = Missing(l, all)
    BY <1>5, OrderOfSet
<1> HIDE DEF l, all
<1>7. /\ TakesFrom(l, new, all, config) /\ Moves(l, new, config, epoch)
      /\ Sound(l) /\ ~new.raised => Serves(l, new, all, config)
    BY <1>3, <1>4, <1>5, <1>6, EnqueueServes, EnqueueLemma
<1>8. Moves(lc, new, config', epoch')
    BY <1>3, <1>4, <1>7 DEF Moves, Keeps, Starts, Sticks
<1>9. TakesFrom(lc, new, all, config')
    BY <1>3, <1>4, <1>7 DEF TakesFrom
<1>10. Sound(lc) /\ ~new.raised => Serves(lc, new, all, config')
    BY <1>3, <1>4, <1>7 DEF Serves, InHand, IsScanning
<1> QED
    BY <1>2, <1>3, <1>5, <1>8, <1>9, <1>10, AskIntentStands

(* request_scan_source, whoever calls it. *)
LEMMA ScanRequestStands ==
    ASSUME Inv, RequestInv, Inv', relay' = relay, NEW s \in Sources,
           NEW new \in RequestScan(s, config', epoch'), Advance(new), Ask({s}, new)
    PROVE  RequestInv' /\ StartsAsked
<1>1. /\ lc \in Lifecycle /\ config' \in Configs /\ epoch' \in Epochs
      /\ Tidy(lc) /\ RunIsActive(lc)
    BY PrimedTypes
<1>2. /\ TakesFrom(lc, new, {s}, config')
      /\ Sound(lc) /\ ~new.raised => Serves(lc, new, {s}, config')
    BY <1>1, RequestScanServes
<1>3. Moves(lc, new, config', epoch')
    BY <1>1, RequestScanLemma
<1> QED
    BY <1>2, <1>3, AskIntentStands

LEMMA ScanRequestsStand ==
    ASSUME Inv, RequestInv, Inv', NEW s \in Sources,
           \/ RequestScanSource(s)
           \/ RestoreSource(s)
           \/ \E r \in Roots : RequestAddSource(s, r)
    PROVE  RequestInv' /\ StartsAsked
<1>1. relay' = relay
    BY DEF RequestScanSource, RestoreSource, RequestAddSource, Intent
<1>2. \E new \in RequestScan(s, config', epoch') : Advance(new) /\ Ask({s}, new)
    <2>1. CASE RequestScanSource(s)
        <3>1. config' = config /\ epoch' = epoch
            BY <2>1 DEF RequestScanSource, authority
        <3> QED
            BY <2>1, <3>1 DEF RequestScanSource
    <2>2. CASE RestoreSource(s) \/ \E r \in Roots : RequestAddSource(s, r)
        BY <2>2 DEF RestoreSource, RequestAddSource
    <2> QED
        BY <2>1, <2>2
<1> QED
    BY <1>1, <1>2, ScanRequestStands

LEMMA RelocateStands ==
    ASSUME Inv, RequestInv, Inv', NEW s \in Sources, NEW r \in Roots, RequestRelocate(s, r)
    PROVE  RequestInv' /\ StartsAsked
<1> DEFINE l == IF lc.active THEN lc ELSE ResetTerminal(lc)
<1>1. /\ lc \in Lifecycle /\ config' \in Configs /\ epoch' \in Epochs /\ relay' = relay
      /\ Tidy(lc) /\ RunIsActive(lc)
    BY PrimedTypes DEF RequestRelocate, Intent
<1>2. PICK new \in RescheduleSource(l, s, config', epoch') : Advance(new) /\ Ask({s}, new)
    BY DEF RequestRelocate
<1>3. /\ l \in Lifecycle /\ Tidy(l) /\ RunIsActive(l)
      /\ l.queue = lc.queue /\ l.current = lc.current
      /\ l.generation = lc.generation /\ l.active = lc.active /\ l.rejected = lc.rejected
      /\ l.active \/ l.lastTerminal = "NONE"
      /\ l.raised = lc.raised /\ (Sound(lc) => Sound(l)) /\ Keeps(lc, l)
    BY <1>1, ResetIsSound, ResetLemma DEF Keeps
<1> HIDE DEF l
<1>4. /\ TakesFrom(l, new, {s}, config')
      /\ Sound(l) /\ ~new.raised => Serves(l, new, {s}, config')
    BY <1>1, <1>2, <1>3, RescheduleServes
<1>5. Moves(l, new, config', epoch')
    BY <1>1, <1>2, <1>3, RescheduleLemma
<1>6. Moves(lc, new, config', epoch')
    BY <1>3, <1>5 DEF Moves, Keeps, Starts, Sticks
<1>7. TakesFrom(lc, new, {s}, config')
    BY <1>3, <1>4 DEF TakesFrom
<1>8. Sound(lc) /\ ~new.raised => Serves(lc, new, {s}, config')
    BY <1>3, <1>4 DEF Serves, InHand, IsScanning
<1> QED
    BY <1>1, <1>2, <1>6, <1>7, <1>8, AskIntentStands

LEMMA InvalidationsStand ==
    ASSUME Inv, RequestInv, Inv', NEW s \in Sources,
           \/ RetireSource(s)
           \/ \E enabled \in BOOLEAN : SetSourceEnabled(s, enabled)
    PROVE  RequestInv' /\ StartsAsked
<1>1. lc \in Lifecycle /\ Tidy(lc) /\ relay' = relay
    BY PrimedTypes DEF RetireSource, SetSourceEnabled, Intent
<1>2. PICK new : new = InvalidateSource(lc, s)
    OBVIOUS
<1>3. Advance(new) /\ Withdraw({s}, new)
    BY <1>2 DEF RetireSource, SetSourceEnabled
<1>4. /\ TakesOff(lc, new, {s}) /\ (Sound(lc) => Drops(lc, new, {s}))
      /\ Moves(lc, new, config', epoch')
    BY <1>1, <1>2, InvalidateDrops, InvalidateLemma
<1> QED
    BY <1>1, <1>3, <1>4, WithdrawIntentStands

LEMMA CancelScanStands ==
    ASSUME Inv, RequestInv, Inv', CancelScan
    PROVE  RequestInv' /\ StartsAsked
<1>1. lc \in Lifecycle /\ Tidy(lc) /\ relay' = relay
    BY PrimedTypes DEF CancelScan, Intent
<1>2. PICK new : new = Cancel(lc)
    OBVIOUS
<1>3. Advance(new) /\ Withdraw(Sources, new)
    BY <1>2 DEF CancelScan
<1>4. /\ Tidy(new) /\ new.queue = <<>> /\ new.generation = lc.generation
      /\ new.raised = lc.raised
      /\ Moves(lc, new, config', epoch') /\ (Sound(lc) => Sound(new))
    BY <1>1, <1>2, CancelDrops, CancelLemma
<1>5. ASSUME NEW s, s \notin Sources, InHand(lc, s) PROVE FALSE
    <2>1. lc.queue \in Seq(Sources)
        BY <1>1 DEF Lifecycle
    <2>2. Range(lc.queue) \subseteq Sources
        BY <2>1 DEF Range
    <2>3. lc.current \in Sources
        BY DEF CancelScan, Inv, LifecyclePart, SnapshotInv
    <2> QED
        BY <1>5, <2>2, <2>3 DEF InHand, IsScanning
<1>6. TakesOff(lc, new, Sources) /\ (Sound(lc) => Drops(lc, new, Sources))
    BY <1>4, <1>5, EmptyRange DEF TakesOff, Drops
<1> QED
    BY <1>1, <1>3, <1>4, <1>6, WithdrawIntentStands

LEMMA ShutdownStands ==
    ASSUME Inv, RequestInv, Inv', Shutdown
    PROVE  RequestInv' /\ StartsAsked
<1>1. lc \in Lifecycle /\ Tidy(lc) /\ relay' = relay /\ history \in History
      /\ workers \subseteq Worker /\ ServiceInv
    BY PrimedTypes DEF RequestInv, Shutdown, Inv, EnvironmentPart, LifecyclePart
<1>2. PICK new : new = Cancel(lc)
    OBVIOUS
<1>3. lc' = new /\ Withdraw(Sources, new)
    BY <1>2 DEF Shutdown
<1>4. /\ Tidy(new) /\ new.queue = <<>> /\ Keeps(lc, new) /\ new.raised = lc.raised
      /\ lc.active => lc.generation \in new.rejected
      /\ lc.rejected \subseteq new.rejected
      /\ Sound(lc) => Sound(new)
    BY <1>1, <1>2, CancelDrops, CancelLemma DEF Moves
<1>5. history.asked \ Sources = {} /\ history.lost \ Sources = {}
    BY <1>1 DEF History
<1>6. Remember({}, {}, new, {})
    BY <1>3, <1>5 DEF Withdraw
<1>7. QueueInv'
    BY <1>3, <1>4, <1>6, EmptyRange, RememberedQueue
<1>8. Standing'
    BY <1>3, <1>6, Remembered
<1>9. StartsAsked
    <2>1. ASSUME NEW v \in workers' PROVE \E w \in workers : v.job = w.job
        <3>1. PICK w \in workers : v = [w EXCEPT !.cancelled = TRUE]
            BY <2>1 DEF Shutdown
        <3> QED
            BY <3>1
    <2> QED
        BY <2>1 DEF StartsAsked, RunningJobs
<1>10. workers # {} => lc.active
    BY DEF Inv, LifecyclePart, SingleFlight, Unresolved, RunningJobs
<1>11. workers' # {} => lc.generation \in new.rejected
    BY <1>4, <1>10 DEF Shutdown
<1>12. SignalsInv => SignalsInv'
    BY <1>1, <1>3, <1>4, <1>11 DEF SignalsInv, Keeps
<1>13. Sound(lc) => Sound(lc)'
    BY <1>3, <1>4 DEF Sound, KeepsFirstFailure
<1> QED
    BY <1>1, <1>3, <1>4, <1>7, <1>8, <1>9, <1>12, <1>13 DEF RequestInv, ServiceInv

LEMMA RequestRefusedStands ==
    ASSUME Inv, RequestInv, Inv', RequestRefused
    PROVE  RequestInv' /\ StartsAsked
<1>1. PICK new : new = ResetTerminal(lc)
    OBVIOUS
<1>2. lc \in Lifecycle /\ Tidy(lc) /\ RunIsActive(lc) /\ relay' = relay
      /\ Advance(new) /\ Ask({}, new)
    BY <1>1, PrimedTypes DEF RequestRefused, Intent
<1>3. /\ Tidy(new) /\ new.queue = lc.queue /\ new.current = lc.current
      /\ new.generation = lc.generation /\ new.active = lc.active
      /\ new.rejected = lc.rejected /\ new \in Lifecycle /\ Keeps(lc, new)
      /\ new.raised = lc.raised /\ (Sound(lc) => Sound(new))
    BY <1>1, <1>2, ResetIsSound, ResetLemma
<1>4. Moves(lc, new, config', epoch')
    BY <1>3 DEF Moves
<1>5. TakesFrom(lc, new, {}, config') /\ (Sound(lc) => Serves(lc, new, {}, config'))
    BY <1>3 DEF TakesFrom, Serves, InHand, IsScanning
<1> QED
    BY <1>2, <1>4, <1>5, AskIntentStands

(* What a step has to show when it leaves the record and the history.      *)
LEMMA RequestsUntouched ==
    ASSUME RequestInv, UNCHANGED <<lc, history>>,
           \A w \in workers' : w.job \in RunningJobs,
           SignalsInv => SignalsInv'
    PROVE  RequestInv' /\ StartsAsked
<1>1. Tidy(lc)' = Tidy(lc) /\ Sound(lc)' = Sound(lc)
    BY DEF Tidy, Sound, KeepsFirstFailure
<1>2. Standing' = Standing
    BY DEF Standing, InHand, IsScanning
<1>3. StartsAsked
    BY DEF StartsAsked, RunningJobs
<1> QED
    BY <1>1, <1>2, <1>3 DEF RequestInv, QueueInv, ServiceInv

LEMMA WorkersStand ==
    ASSUME Inv, RequestInv, NEW w \in workers,
           ReportProgress(w) \/ \E kind \in Dones : FinishWork(w, kind)
    PROVE  RequestInv' /\ StartsAsked
<1>1. workers \subseteq Worker /\ lc' = lc /\ history' = history
    BY DEF Inv, LifecyclePart, ReportProgress, FinishWork
<1>2. workers = {w}
    BY DEF Inv, LifecyclePart, SingleFlight
<1>3. CASE ReportProgress(w)
    <2>1. \A v \in workers' : (v.cancelled => w.cancelled) /\ v.job = w.job
        BY <1>1, <1>2, <1>3 DEF ReportProgress, Worker
    <2>2. Emit("progress", w.job)
        BY <1>3 DEF ReportProgress
    <2>3. SignalsInv => SignalsInv'
        BY <1>1, <2>1, <2>2, EmitKeepsSignals
    <2>4. \A v \in workers' : v.job \in RunningJobs
        BY <2>1 DEF RunningJobs
    <2> QED
        BY <1>1, <2>3, <2>4, RequestsUntouched
<1>4. ASSUME NEW kind \in Dones, FinishWork(w, kind) PROVE RequestInv' /\ StartsAsked
    <2>1. workers' = {}
        BY <1>2, <1>4 DEF FinishWork
    <2>2. Emit(kind, w.job) /\ (kind = "cancelled" => w.cancelled)
        BY <1>4 DEF FinishWork
    <2>3. SignalsInv => SignalsInv'
        BY <1>1, <1>4, <2>1, <2>2, EmitKeepsSignals
    <2> QED
        BY <1>1, <2>1, <2>3, RequestsUntouched
<1> QED
    BY <1>3, <1>4

(* A late progress report never reaches an idle lifecycle: the generation  *)
(* that emitted it is still in flight. *)
LEMMA HandleProgressStands ==
    ASSUME Inv, RequestInv, HandleProgress
    PROVE  RequestInv' /\ StartsAsked
<1>1. /\ Receive({"progress"}) /\ UNCHANGED <<workers, history>> /\ lc \in Lifecycle
      /\ relay \in Seq(Message) /\ relay # <<>> /\ QueueInv /\ ServiceInv
    BY DEF HandleProgress, Inv, LifecyclePart, EnvironmentPart, Receive, RequestInv
<1>2. CASE lc' = lc
    <2>1. SignalsInv => SignalsInv'
        BY <1>1, <1>2, ReceiveKeepsSignals DEF Keeps
    <2> QED
        BY <1>1, <1>2, <2>1, RequestsUntouched DEF RunningJobs
<1>3. CASE lc' # lc
    <2>1. Head(relay).job.gen = lc.generation /\ lc' = [lc EXCEPT !.phase = "WORKING"]
        BY <1>3 DEF HandleProgress
    <2>2. Head(relay) = relay[1] /\ 1 \in DOMAIN relay
        BY <1>1, EmptySeq, LenProperties
    <2>3. SignalsInv => lc.active
        BY <2>1, <2>2 DEF SignalsInv
    <2>4. /\ lc'.queue = lc.queue /\ lc'.active = lc.active
          /\ lc'.generation = lc.generation /\ lc'.status = lc.status
          /\ lc'.rejected = lc.rejected /\ lc'.current = lc.current
          /\ lc'.snapshot = lc.snapshot /\ lc'.snapshotEpoch = lc.snapshotEpoch
          /\ lc'.failed = lc.failed /\ lc'.lastSource = lc.lastSource
          /\ lc'.lastTerminal = lc.lastTerminal /\ lc'.raised = lc.raised
        BY <1>1, <2>1 DEF Lifecycle
    <2>5. SignalsInv => SignalsInv'
        BY <1>1, <2>4, ReceiveKeepsSignals DEF Keeps
    <2>6. Sound(lc) /\ lc.active => Sound(lc)'
        BY <2>4 DEF Sound, KeepsFirstFailure
    <2>7. Standing => Standing'
        BY <1>1, <2>4 DEF Standing, InHand, IsScanning
    <2>8. ServiceInv'
        BY <1>1, <2>3, <2>4, <2>5, <2>6, <2>7 DEF ServiceInv
    <2>9. QueueInv' /\ StartsAsked
        BY <1>1, <2>4 DEF QueueInv, Tidy, KeepsFirstFailure, StartsAsked, RunningJobs
    <2> QED
        BY <2>8, <2>9 DEF RequestInv
<1> QED
    BY <1>2, <1>3

(* From the moment a gate raises, only the queue is kept. *)
LEMMA GateRaisesStands ==
    ASSUME Inv, RequestInv, GateRaises
    PROVE  RequestInv' /\ StartsAsked
<1>1. /\ UNCHANGED <<workers, history>> /\ lc \in Lifecycle /\ QueueInv
      /\ lc' = [lc EXCEPT !.raised = TRUE]
    BY DEF GateRaises, Inv, LifecyclePart, RequestInv
<1>2. /\ lc'.queue = lc.queue /\ lc'.raised /\ lc'.status = lc.status
      /\ lc'.generation = lc.generation /\ lc'.rejected = lc.rejected
      /\ lc'.current = lc.current /\ lc'.failed = lc.failed /\ lc'.lastSource = lc.lastSource
      /\ lc'.lastTerminal = lc.lastTerminal
    BY <1>1 DEF Lifecycle
<1> QED
    BY <1>1, <1>2 DEF RequestInv, ServiceInv, QueueInv, Tidy, KeepsFirstFailure,
                      StartsAsked, RunningJobs

LEMMA LoseMessageStands ==
    ASSUME Inv, RequestInv, LoseMessage
    PROVE  RequestInv' /\ StartsAsked
<1>1. /\ Receive({"progress"} \cup Dones) /\ UNCHANGED <<lc, workers, history>>
    BY DEF LoseMessage
<1>2. SignalsInv => SignalsInv'
    BY <1>1, ReceiveKeepsSignals DEF Keeps
<1> QED
    BY <1>1, <1>2, RequestsUntouched DEF RunningJobs

(* What the done handlers share: the record handed to _finish. *)
LEMMA DoneStands ==
    ASSUME Inv, RequestInv, NEW kinds, kinds \subseteq Dones, Receive(kinds),
           UNCHANGED <<config, epoch>>,
           NEW l \in Lifecycle, l.rejected = {}, l.queue = lc.queue,
           l.generation = lc.generation, l.lastTerminal = lc.lastTerminal,
           l.current = lc.current, l.failed = lc.failed, l.lastSource = lc.lastSource,
           l.raised = lc.raised,
           NEW how \in Endings, NEW new \in Finish(l, how, config, epoch),
           Advance(new), NEW S, NEW commits,
           S \cap Range(lc.queue) = {},
           Remember(history.asked \ S, history.lost \ S, new, commits),
           ~lc.raised => \A s \in history.asked \ history.lost :
                             s \in S \/ s \in Range(lc.queue)
    PROVE  RequestInv' /\ StartsAsked
<1>1. Receive(Dones) /\ relay # <<>> /\ Head(relay).kind \in Dones
    BY DEF Receive
<1>2. LifecyclePart /\ EnvironmentPart /\ history \in History /\ SnapshotInv
      /\ QueueInv /\ ServiceInv
    BY DEF Inv, EnvironmentPart, LifecyclePart, RequestInv
<1>3. lc.status = "RUNNING" /\ lc.current \in Sources
    BY <1>1, <1>2, DoneLemma DEF SnapshotInv
<1>4. l.lastTerminal = "NONE" /\ IsInjective(l.queue) /\ KeepsFirstFailure(l)
    BY <1>2, <1>3 DEF QueueInv, Tidy, KeepsFirstFailure
<1>5. FromQueue(l, new, config') /\ (new.raised \/ HandsOn(l, new, config'))
    BY <1>3, <1>4, FinishHandsOn
<1>6. lc' = new
    BY DEF Advance
<1>7. QueueInv' /\ StartsAsked
    BY <1>2, <1>5, FinishQueues
<1>8. ASSUME ~new.raised PROVE Sound(lc)' /\ SignalsInv' /\ Standing'
    <2>1. ~lc.raised /\ SignalsInv
        BY <1>2, <1>5, <1>8 DEF FromQueue, ServiceInv
    <2>2. SignalsInv'
        BY <1>1, <2>1, DoneKeepsSignals
    <2>3. Sound(lc)' /\ Standing'
        BY <1>2, <1>5, <1>6, <1>8, <2>1, FinishStands
    <2> QED
        BY <2>2, <2>3
<1> QED
    BY <1>6, <1>7, <1>8 DEF RequestInv, ServiceInv

(* A result that is dropped belongs to a rejected generation.  One that    *)
(* was not rejected is of the current configuration, and its walk was not  *)
(* cancelled. *)
LEMMA DroppedIsRejected ==
    ASSUME Inv, SignalsInv, Receive(Dones), ~IsAccepted(Head(relay))
    PROVE  lc.generation \in lc.rejected
<1> DEFINE m == Head(relay)
<1>1. /\ relay # <<>> /\ m.kind \in Dones /\ LifecyclePart /\ EnvironmentPart
      /\ SnapshotInv /\ config \in Configs /\ relay \in Seq(Message)
    BY DEF Receive, Inv, LifecyclePart, AuthorityPart, EnvironmentPart
<1>2. /\ lc.status = "RUNNING"
      /\ m.job = [gen |-> lc.generation, source |-> lc.current,
                  config |-> lc.snapshot, epoch |-> lc.snapshotEpoch]
    BY <1>1, DoneLemma
<1>3. m = relay[1] /\ 1 \in DOMAIN relay
    BY <1>1, EmptySeq, LenProperties
<1>4. m.kind = "cancelled" => lc.generation \in lc.rejected
    BY <1>3 DEF SignalsInv
<1> HIDE DEF m
<1>5. SUFFICES ASSUME lc.generation \notin lc.rejected PROVE FALSE
    OBVIOUS
<1>6. /\ lc.current \in Sources /\ Runnable(lc.snapshot)
      /\ lc.snapshot = config[lc.current] /\ lc.snapshotEpoch = epoch[lc.current]
    BY <1>1, <1>2, <1>5 DEF SnapshotInv
<1>7. lc.snapshot # Unconfigured
    BY <1>6 DEF Runnable, Unconfigured
<1>8. ConfigurationIsCurrent(lc.current, lc.snapshot, lc.snapshotEpoch)
    BY <1>6 DEF ConfigurationIsCurrent, Runnable, Configured
<1>9. IsCurrent(m) /\ m.job.gen \notin lc.rejected /\ m.job.source = lc.current
      /\ m.job.config = lc.snapshot /\ m.job.epoch = lc.snapshotEpoch
    BY <1>2, <1>5 DEF IsCurrent
<1>10. ~IsStale(m)
    BY <1>7, <1>8, <1>9 DEF IsStale
<1> QED
    BY <1>4, <1>5, <1>9, <1>10 DEF IsAccepted, m

LEMMA DropResultStands ==
    ASSUME Inv, RequestInv, DropResult
    PROVE  RequestInv' /\ StartsAsked
<1> DEFINE m == Head(relay)
           l == [lc EXCEPT !.rejected = @ \ {m.job.gen}]
           how == IF IsStale(m) THEN "stale" ELSE "cancelled"
<1>1. Receive(Dones) /\ UNCHANGED authority /\ ~IsAccepted(m)
    BY DEF DropResult
<1>2. LifecyclePart /\ EnvironmentPart /\ lc \in Lifecycle /\ ServiceInv
    BY DEF Inv, LifecyclePart, RequestInv
<1>3. m.job.gen = lc.generation
    BY <1>1, <1>2, DoneLemma DEF Receive
<1>4. PICK new \in Finish(l, how, config, epoch) : Advance(new) /\ Ask({}, new)
    BY <1>3 DEF DropResult, IsCurrent
<1>5. /\ l \in Lifecycle /\ l.rejected = {} /\ l.queue = lc.queue
      /\ l.generation = lc.generation /\ l.lastTerminal = lc.lastTerminal
      /\ l.current = lc.current /\ l.failed = lc.failed /\ l.lastSource = lc.lastSource
      /\ l.raised = lc.raised
    BY <1>2, <1>3, PoppedLemma DEF Lifecycle
<1>6. ~lc.raised => \A s \in history.asked \ history.lost : s \in Range(lc.queue)
    <2>1. ~lc.raised => lc.generation \in lc.rejected
        BY <1>1, <1>2, DroppedIsRejected DEF ServiceInv
    <2> QED
        BY <1>2, <2>1 DEF ServiceInv, Standing, InHand
<1>7. /\ history.asked \cup {} = history.asked \ {}
      /\ (history.lost \ {}) \cup {s \in {} : Unwinding(s) /\ s \notin Range(lc.queue)}
            = history.lost \ {}
    OBVIOUS
<1>8. Remember(history.asked \ {}, history.lost \ {}, new, {})
    BY <1>4, <1>7 DEF Ask
<1>9. UNCHANGED <<config, epoch>> /\ how \in Endings
    BY <1>1 DEF authority, Endings
<1>10. Dones \subseteq Dones /\ {} \cap Range(lc.queue) = {}
    OBVIOUS
<1> HIDE DEF m, l, how
<1> QED
    BY <1>1, <1>4, <1>5, <1>6, <1>8, <1>9, <1>10, DoneStands

(* An accepted result ends the scan of lc.current, which is not queued.    *)
LEMMA AcceptedStands ==
    ASSUME Inv, RequestInv, NEW kinds, kinds \subseteq Dones, Receive(kinds),
           IsAccepted(Head(relay)), UNCHANGED <<config, epoch>>,
           NEW how \in Endings, NEW new \in Finish(lc, how, config, epoch),
           Advance(new), NEW commits,
           Remember(history.asked \ {lc.current}, history.lost \ {lc.current}, new, commits)
    PROVE  RequestInv' /\ StartsAsked
<1>1. lc \in Lifecycle /\ lc.rejected = {} /\ lc.status = "RUNNING"
    BY AcceptedLemma
<1>2. PICK c : c = lc.current
    OBVIOUS
<1>3. {c} \cap Range(lc.queue) = {}
    BY <1>1, <1>2 DEF RequestInv, QueueInv, Tidy
<1>4. ~lc.raised => \A s \in history.asked \ history.lost : s \in {c} \/ s \in Range(lc.queue)
    BY <1>2 DEF RequestInv, ServiceInv, Standing, InHand, IsScanning
<1>5. PICK l : l = lc
    OBVIOUS
<1> QED
    BY <1>1, <1>2, <1>3, <1>4, <1>5, DoneStands

LEMMA ResultsStand ==
    ASSUME Inv, RequestInv, RecordError \/ CommitFails \/ CommitPlan
    PROVE  RequestInv' /\ StartsAsked
<1>0. {"plan"} \subseteq Dones /\ {"error"} \subseteq Dones
      /\ "failed" \in Endings /\ "done" \in Endings
    BY DEF Dones, Endings
<1>1. CASE RecordError
    <2>1. Receive({"error"}) /\ IsAccepted(Head(relay)) /\ UNCHANGED <<config, epoch>>
        BY <1>1 DEF RecordError
    <2>2. PICK new \in Finish(lc, "failed", config, epoch) :
              /\ Advance(new)
              /\ Remember(history.asked \ {lc.current}, history.lost \ {lc.current}, new, {})
        BY <1>1 DEF RecordError, Withdraw
    <2> QED
        BY <1>0, <2>1, <2>2, AcceptedStands
<1>2. CASE CommitFails
    <2>1. Receive({"plan"}) /\ IsAccepted(Head(relay)) /\ UNCHANGED <<config, epoch>>
        BY <1>2 DEF CommitFails, authority
    <2>2. PICK new \in Finish(lc, "failed", config, epoch) :
              /\ Advance(new)
              /\ Remember(history.asked \ {lc.current}, history.lost \ {lc.current}, new, {})
        BY <1>2 DEF CommitFails, Withdraw
    <2> QED
        BY <1>0, <2>1, <2>2, AcceptedStands
<1>3. CASE CommitPlan
    <2>1. Receive({"plan"}) /\ IsAccepted(Head(relay)) /\ UNCHANGED <<config, epoch>>
        BY <1>3 DEF CommitPlan
    <2>2. Head(relay).job.source = lc.current
        BY <1>0, <2>1, AcceptedLemma
    <2>3. PICK commits : commits = {Head(relay).job.gen}
        OBVIOUS
    <2>4. PICK new \in Finish(lc, "done", config, epoch) :
              /\ Advance(new)
              /\ Remember(history.asked \ {lc.current}, history.lost \ {lc.current},
                          new, commits)
        BY <1>3, <2>2, <2>3 DEF CommitPlan
    <2> QED
        BY <1>0, <2>1, <2>4, AcceptedStands
<1> QED
    BY <1>1, <1>2, <1>3

LEMMA NextStands == Inv /\ RequestInv /\ [Next]_vars => RequestInv' /\ StartsAsked
<1> SUFFICES ASSUME Inv, RequestInv, [Next]_vars PROVE RequestInv' /\ StartsAsked
    OBVIOUS
<1>0. Inv'
    BY NextInv
<1>1. CASE RequestScanAll \/ RequestRefused \/ CancelScan \/ Shutdown
    BY <1>0, <1>1, RequestScanAllStands, RequestRefusedStands, CancelScanStands, ShutdownStands
<1>2. ASSUME NEW s \in Sources, RequestScanSource(s) \/ RetireSource(s) \/ RestoreSource(s)
      PROVE  RequestInv' /\ StartsAsked
    BY <1>0, <1>2, ScanRequestsStand, InvalidationsStand
<1>3. ASSUME NEW s \in Sources, NEW e \in BOOLEAN, SetSourceEnabled(s, e)
      PROVE  RequestInv' /\ StartsAsked
    BY <1>0, <1>3, InvalidationsStand
<1>4. ASSUME NEW s \in Sources, NEW r \in Roots,
             RequestAddSource(s, r) \/ AddMusicSource(s, r) \/ RequestRelocate(s, r)
      PROVE  RequestInv' /\ StartsAsked
    <2>1. CASE RequestAddSource(s, r)
        BY <1>0, <2>1, ScanRequestsStand
    <2>2. CASE AddMusicSource(s, r)
        BY <2>2, RequestsUntouched DEF AddMusicSource, Intent, RunningJobs, SignalsInv
    <2>3. CASE RequestRelocate(s, r)
        BY <1>0, <2>3, RelocateStands
    <2> QED
        BY <1>4, <2>1, <2>2, <2>3
<1>5. CASE WorkerNext
    BY <1>5, WorkersStand DEF WorkerNext
<1>6. CASE OwnerNext
    BY <1>6, HandleProgressStands, GateRaisesStands, LoseMessageStands, DropResultStands,
       ResultsStand DEF OwnerNext
<1>7. CASE UNCHANGED vars
    BY <1>7, RequestsUntouched DEF vars, RunningJobs, SignalsInv
<1> QED
    BY <1>1, <1>2, <1>3, <1>4, <1>5, <1>6, <1>7 DEF Next, UserNext

LEMMA InitStands == Init => RequestInv
<1> SUFFICES ASSUME Init PROVE RequestInv
    OBVIOUS
<1>1. /\ lc = InitialLifecycle /\ workers = {} /\ relay = <<>>
      /\ history.asked = {} /\ history.lost = {}
    BY DEF Init
<1>2. DOMAIN relay = {}
    BY <1>1, EmptySeq
<1> QED
    BY <1>1, <1>2, EmptyRange DEF InitialLifecycle, RequestInv, QueueInv, ServiceInv, Tidy,
                                  Sound, KeepsFirstFailure, SignalsInv, Standing

(* In every behaviour only what was asked for is queued; and until a read  *)
(* of the catalog raises, the record of the lifecycle is sound, the        *)
(* signals of a scan precede its end, and what was asked for is in hand.   *)
THEOREM RequestsInvariant == Spec => []RequestInv
BY InitStands, NextStands, InvariantHolds, PTL DEF Spec

(* Whatever the user does while scans run, are cancelled or fail: the      *)
(* diagnostic the user sees is that of the first failure, and until a read *)
(* of the catalog raises, every standing request is queued or being        *)
(* scanned by a generation that can still commit, and nothing is queued    *)
(* twice.                                                                  *)
THEOREM NothingGetsForgotten == Spec => []NothingIsForgotten
<1>1. RequestInv => NothingIsForgotten
    BY DEF RequestInv, QueueInv, ServiceInv, Tidy, Sound, Standing, InHand,
           KeepsFirstFailure, NothingIsForgotten, RequestsStand, WillBeScanned,
           FirstFailureIsKept
<1> QED
    BY <1>1, RequestsInvariant, PTL

(* Nothing the user withdrew by Cancel, retire or disable ever starts,     *)
(* whether or not a read of the catalog raised.                            *)
THEOREM OnlyRequestsStart == Spec => StartsOnlyWhatWasAsked
<1>1. Inv /\ RequestInv /\ [Next]_vars
          => [\A j \in RunningJobs' \ RunningJobs : j.source \in history'.asked]_vars
    BY NextStands DEF StartsAsked
<1> QED
    BY <1>1, RequestsInvariant, InvariantHolds, PTL DEF Spec, StartsOnlyWhatWasAsked

=============================================================================
