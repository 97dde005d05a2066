---------------------------- MODULE OutputSession ----------------------------
(***************************************************************************)
(* OutputSessionService: who owns the one DAC.  Playback asks for an       *)
(* output per track; a worker characterizes the track and, when nothing is *)
(* prepared, acquires the device at once; otherwise the owner hands the    *)
(* device over: a worker releases what was prepared, the owner reconciles, *)
(* and a worker acquires.  Workers run in a pool, and their completions    *)
(* reach the owner in any order.  The host process holds one execution.    *)
(*                                                                         *)
(* A request stands for the execution it prepares, for its plan and its    *)
(* token.  Each begin_*_session aborts what any other family has prepared, *)
(* so the slots of the families are one here.  Left out: direct PCM and    *)
(* DSD converted to PCM (handed over like DoP is), PAUSED (taken for       *)
(* RUNNING), the synchronous prepare_for_media, processing, telemetry, and *)
(* a second device.                                                        *)
(***************************************************************************)
EXTENDS Naturals, FiniteSets

CONSTANTS None,
          Families,      \* of the executions, a subset of ExclusiveFamilies
          MaxRequests,   \* bound: tracks asked for
          MaxEvents,     \* bound: stops, reselections, losses, rejected media
          MaxFaults      \* bound: commands to the host that raise

ExclusiveFamilies == {"managed", "native_dsd", "dop"}
Requests == 1 .. MaxRequests

ASSUME OutputAssumption ==
    /\ Families \subseteq ExclusiveFamilies
    /\ MaxRequests \in Nat \ {0} /\ MaxEvents \in Nat /\ MaxFaults \in Nat
    /\ None \notin Requests /\ None \notin ExclusiveFamilies

VARIABLES session,   \* what the owner holds to be true of the output; history:
                     \* forgotten, a cleanup was not remembered, since one was
          prep,      \* the clock and the handover of the preparations; history:
                     \* repeated, the clock advanced to a number that was taken
          request,   \* each preparation
          host,      \* the execution the host holds, and its DoP receipt
          epoch,     \* the request Playback waits for
          world      \* the device, and what the bounds count

vars == <<session, prep, request, host, epoch, world>>

States == {"IDLE", "READY", "RUNNING", "LOST", "RELEASING"}
Live   == {"READY", "RUNNING"}
Phases == {"unasked", "working", "planned", "acquiring", "acquired", "releasing",
           "released", "preparing", "prepared", "answered", "superseded"}

Unasked == [phase |-> "unasked", kind |-> None, gen |-> 0, pred |-> None,
            outdated |-> FALSE, ok |-> FALSE, result |-> None]

Family(e) == IF e = None THEN None ELSE request[e].kind
Cleanups  == {"confirmed", "already", "stale", "error"}

TypeOK ==
    /\ session \in [state : States, mode : Families \cup {"shared", "lost"},
                    prepared : Requests \cup {None}, token : Requests \cup {None},
                    cleanup : Requests \cup {None}, lost : BOOLEAN, forgotten : BOOLEAN]
    /\ prep \in [generation : Nat, attempt : Requests \cup {None},
                 reservation : Requests \cup {None}, pending : BOOLEAN,
                 repeated : BOOLEAN]
    /\ request \in [Requests -> [phase : Phases, kind : Families \cup {"shared", None},
                                 gen : Nat, pred : Requests \cup {None},
                                 outdated : BOOLEAN, ok : BOOLEAN,
                                 result : Cleanups \cup {None}]]
    /\ host \in [holds : Requests \cup {None}, receipt : Requests \cup {None}]
    /\ epoch \in Requests \cup {None}
    /\ world \in [present : BOOLEAN, events : 0 .. MaxEvents, faults : 0 .. MaxFaults]

Init ==
    /\ session = [state |-> "IDLE", mode |-> "shared", prepared |-> None, token |-> None,
                  cleanup |-> None, lost |-> FALSE, forgotten |-> FALSE]
    /\ prep = [generation |-> 0, attempt |-> None, reservation |-> None, pending |-> FALSE,
               repeated |-> FALSE]
    /\ request = [r \in Requests |-> Unasked]
    /\ host = [holds |-> None, receipt |-> None]
    /\ epoch = None
    /\ world = [present |-> TRUE, events |-> 0, faults |-> 0]

-----------------------------------------------------------------------------
(* The host.  A command is carried out and answered ("truth"), or it       *)
(* raises: before it had an effect ("silent") or after ("unheard").        *)

Answers(e) == IF e = None \/ world.faults = MaxFaults
              THEN {"truth"} ELSE {"truth", "silent", "unheard"}

Heard(a)     == [world EXCEPT !.faults = IF a = "truth" THEN @ ELSE @ + 1]
Happens(a)   == [Heard(a) EXCEPT !.events = @ + 1]
MoreEvents   == world.events < MaxEvents

Freed(h) == [holds |-> None,
             receipt |-> IF Family(h.holds) = "dop" THEN h.holds ELSE h.receipt]

Released(h, e, a) == IF h.holds = e /\ a # "silent" THEN Freed(h) ELSE h

(* What a command to release e says.  The executor of native DSD calls     *)
(* every failure stale; a DoP released before is known by its receipt.     *)
Result(h, e, a) ==
    IF a # "truth" THEN IF Family(e) = "native_dsd" THEN "stale" ELSE "error"
    ELSE IF h.holds = e THEN "confirmed"
    ELSE CASE Family(e) = "dop" ->
                IF Family(h.holds) # "dop" /\ h.receipt = e THEN "confirmed" ELSE "error"
           [] Family(e) = "native_dsd" ->
                IF Family(h.holds) # "native_dsd" THEN "already" ELSE "stale"
           [] OTHER -> "stale"

(* Whether the host takes e, and what it holds after it did (ok) or        *)
(* refused.  A managed load that fails stops whatever the host holds.      *)
Takes(h, e) == \/ h.holds = None
               \/ Family(e) # "dop" /\ Family(h.holds) = Family(e)

Loaded(h, e, ok) ==
    CASE ok -> [holds |-> e, receipt |-> IF Family(e) = "dop" THEN None ELSE h.receipt]
      [] ~ok /\ Family(e) = "managed" -> Freed(h)
      [] ~ok /\ Family(e) = "native_dsd" /\ Takes(h, e) -> [h EXCEPT !.holds = None]
      [] OTHER -> h

-----------------------------------------------------------------------------
(* Cleaning up.  w is a record of the session and the host.                *)

Now == [s |-> session, h |-> host]

Becomes(w) == session' = w.s /\ host' = w.h

Enough(e) == IF Family(e) = "dop" THEN {"confirmed"} ELSE {"confirmed", "already", "stale"}

Taken(s, e)    == s.forgotten \/ s.cleanup \notin {None, e}
Retained(s, e) == [s EXCEPT !.cleanup = IF @ = None THEN e ELSE @, !.forgotten = Taken(s, e)]
Settled(s, e)  == [s EXCEPT !.cleanup = IF @ = e THEN None ELSE @]

(* Mutant: only a DoP that was not released is remembered.                 *)
UncertainOfDop(s, e) == IF Family(e) = "dop" THEN Retained(s, e) ELSE s

(* An abort that did not do: DoP keeps the first such execution, the       *)
(* others overwrite it.                                                    *)
Uncertain(s, e) == IF Family(e) = "dop" THEN Retained(s, e)
                   ELSE [s EXCEPT !.cleanup = e, !.forgotten = Taken(s, e)]

Aborted(w, e, a) ==
    IF e = None THEN w
    ELSE [s |-> IF Result(w.h, e, a) \in Enough(e) THEN Settled(w.s, e) ELSE Uncertain(w.s, e),
          h |-> Released(w.h, e, a)]

Cleared(s) == [s EXCEPT !.mode = "shared", !.prepared = None, !.token = None, !.lost = FALSE]
Idle(s)    == [s EXCEPT !.state = "IDLE"]
Dropped(s) == [s EXCEPT !.prepared = None]

(* abort_media: of the live token, else it does nothing                    *)
AbortMedia(w, r, a) ==
    LET e == w.s.prepared
    IN  CASE w.s.token # r -> w
          [] w.s.token = r /\ w.s.mode = "shared" -> [w EXCEPT !.s = Cleared(@)]
          [] w.s.token = r /\ w.s.mode = "dop" ->
               LET aborted == Aborted(w, e, a)
               IN  IF Result(w.h, e, a) \in Enough(e)
                   THEN [aborted EXCEPT !.s = Idle(Cleared(@))] ELSE aborted
          [] OTHER -> [Aborted(w, e, a) EXCEPT !.s = Idle(Cleared(@))]

Releasing(s) == [s EXCEPT !.state = IF @ = "IDLE" THEN @ ELSE "RELEASING"]

(* release_active: DoP that does not confirm keeps the device, native DSD  *)
(* whose stop raises stays as it is, managed is given up in any case.      *)
ReleaseActive(w, a) ==
    LET e       == w.s.prepared
        aborted == Aborted(w, e, a)
        over    == [aborted EXCEPT !.s = Idle(Cleared(@))]
    IN  CASE w.s.mode = "shared" -> [w EXCEPT !.s = Cleared(@)]
          [] w.s.mode = "lost" ->
               IF w.s.state = "IDLE" THEN w ELSE [w EXCEPT !.s = Idle(Cleared(@))]
          [] w.s.mode = "managed" -> over
          [] w.s.mode = "native_dsd" ->
               IF e # None /\ a # "truth"
               THEN [w EXCEPT !.s = Releasing(@), !.h = Released(@, e, a)]
               ELSE [s |-> Idle(Cleared(w.s)), h |-> Released(w.h, e, "truth")]
          [] OTHER ->
               IF e # None /\ Result(w.h, e, a) \notin Enough(e)
               THEN [aborted EXCEPT !.s = Releasing(@)] ELSE over

-----------------------------------------------------------------------------
(* Committing an execution: what another holds is aborted strictly first,  *)
(* and the session must be in a state that prepares.                       *)

Yielded(w, e, a) ==
    LET aborted == Aborted(w, e, a)
    IN  IF e # None /\ Result(w.h, e, a) \in Enough(e)
        THEN [aborted EXCEPT !.s = Dropped(@)] ELSE aborted

Begins(w, r, a) ==
    LET yielded == Yielded(w, w.s.prepared, a)
    IN  /\ yielded.s.prepared = None
        /\ yielded.s.state \in Live \cup {"IDLE"}

Begun(w, r, a) ==
    LET yielded == Yielded(w, w.s.prepared, a)
    IN  IF Begins(w, r, a)
        THEN [yielded EXCEPT !.s = [@ EXCEPT !.state = "READY", !.mode = Family(r),
                                            !.prepared = r, !.token = r]]
        ELSE yielded

(* _prepare_shared releases a managed execution only: what another family  *)
(* has prepared stays prepared.                                            *)
SharedBegins(s) == s.cleanup = None /\ s.state \in Live \cup {"IDLE"}

SharedBegun(w, r, a) ==
    LET released == IF w.s.mode = "managed" /\ w.s.prepared # None
                    THEN [Aborted(w, w.s.prepared, a) EXCEPT !.s = Dropped(@)] ELSE w
    IN  [released EXCEPT !.s = [@ EXCEPT !.mode = "shared", !.token = r, !.state = "IDLE"]]

(* Playback aborts the token of a request it no longer waits for           *)
Delivered(w, r) == IF epoch = r THEN w ELSE AbortMedia(w, r, "truth")

BindingStale(r) == ~world.present /\ Family(r) # "shared"

Answered(r) == [request EXCEPT ![r] = [Unasked EXCEPT !.phase = "answered", !.kind = Family(r)]]
Superseded(r) ==
    [request EXCEPT ![r] = [Unasked EXCEPT !.phase = "superseded", !.kind = Family(r)]]

-----------------------------------------------------------------------------
(* prepare_for_media_async, and its worker                                 *)

UnderWay(r) == request[r].phase \notin {"unasked", "answered", "superseded"}
Repeats     == \E r \in Requests : UnderWay(r) /\ request[r].gen > prep.generation
Advanced    == [prep EXCEPT !.generation = @ + 1, !.repeated = @ \/ Repeats]

Ask(r) ==
    /\ request[r].phase = "unasked"
    /\ \A q \in Requests : q < r => request[q].phase # "unasked"
    /\ epoch' = r
    /\ prep' = [Advanced EXCEPT !.attempt = None, !.pending = @ \/ session.cleanup = None]
    /\ request' = IF session.cleanup # None THEN Answered(r)
                  ELSE [request EXCEPT ![r] = [@ EXCEPT !.phase = "working",
                                                        !.gen   = prep.generation + 1,
                                                        !.pred  = session.prepared]]
    /\ UNCHANGED <<session, host, world>>

(* The worker plans the output, or fails to                                *)
Characterize(r, kind) ==
    /\ request[r].phase = "working"
    /\ kind \in Families => world.present
    /\ request' = [request EXCEPT ![r] =
          [@ EXCEPT !.kind = kind,
                    !.phase = IF kind = "shared" \/ request[r].pred # None THEN "planned" ELSE "acquiring"]]
    /\ UNCHANGED <<session, prep, host, epoch, world>>

CannotPlan(r) ==
    /\ request[r].phase = "working"
    /\ request' = [request EXCEPT ![r].phase = "acquired"]
    /\ UNCHANGED <<session, prep, host, epoch, world>>

(* The physical preparation, on the fast path or after a handover          *)
Acquire(r, ok) ==
    /\ request[r].phase \in {"acquiring", "preparing"}
    /\ ok => Takes(host, r) /\ world.present
    /\ host' = Loaded(host, r, ok)
    /\ request' = [request EXCEPT ![r].ok = ok,
                                  ![r].phase = IF @ = "acquiring" THEN "acquired" ELSE "prepared"]
    /\ UNCHANGED <<session, prep, epoch, world>>

(* release_work *)
Release(r, a) ==
    /\ request[r].phase = "releasing"
    /\ LET e == request[r].pred
       IN  /\ a \in Answers(e)
           /\ host' = Released(host, e, a)
           /\ request' = [request EXCEPT ![r].phase = "released", ![r].result = Result(host, e, a)]
    /\ world' = Heard(a)
    /\ UNCHANGED <<session, prep, epoch>>

-----------------------------------------------------------------------------
(* completed: the worker's result reaches the owner                        *)

Candidate(r) == IF request[r].ok THEN r ELSE None
Current(r)   == request[r].gen = prep.generation
Returned(r)  == request[r].phase \in {"planned", "acquired"}

(* A preparation that another superseded, or that was planned for another  *)
(* selection, is over: its candidate is aborted.                           *)
CompleteSuperseded(r, a) ==
    /\ Returned(r)
    /\ \/ ~Current(r)
       \/ request[r].outdated /\ (request[r].ok \/ request[r].phase = "planned")
    /\ a \in Answers(Candidate(r))
    /\ Becomes(Aborted(Now, Candidate(r), a))
    /\ prep' = [prep EXCEPT !.pending = @ /\ ~Current(r)]
    /\ request' = Superseded(r)
    /\ world' = Heard(a)
    /\ UNCHANGED epoch

CompleteFailed(r) ==
    /\ request[r].phase = "acquired" /\ ~request[r].ok /\ Current(r)
    /\ prep' = [prep EXCEPT !.pending = FALSE]
    /\ request' = Answered(r)
    /\ UNCHANGED <<session, host, epoch, world>>

CompleteShared(r, a) ==
    /\ request[r].phase = "planned" /\ Family(r) = "shared"
    /\ Current(r) /\ ~request[r].outdated
    /\ a \in Answers(IF session.mode = "managed" THEN session.prepared ELSE None)
    /\ IF SharedBegins(session)
       THEN Becomes(Delivered(SharedBegun(Now, r, a), r)) /\ world' = Heard(a)
       ELSE UNCHANGED <<session, host, world>>
    /\ prep' = [prep EXCEPT !.pending = FALSE]
    /\ request' = Answered(r)
    /\ UNCHANGED epoch

(* The fast path.  A candidate that cannot be committed is left as it is,  *)
(* but for a binding found stale.                                          *)
CompleteFast(r, a) ==
    /\ request[r].phase = "acquired" /\ request[r].ok /\ Current(r) /\ ~request[r].outdated
    /\ LET stale == BindingStale(r) /\ Family(r) # "native_dsd"
       IN  /\ a \in Answers(IF stale THEN r ELSE session.prepared)
           /\ IF stale THEN Becomes(Aborted(Now, r, a))
              ELSE Becomes(Delivered(Begun(Now, r, a), r))
    /\ prep' = [prep EXCEPT !.pending = FALSE]
    /\ request' = Answered(r)
    /\ world' = Heard(a)
    /\ UNCHANGED epoch

(* _begin_handover: at most one handover releases an execution.  One that  *)
(* would release it again is refused, and the clock goes back to the one   *)
(* under way.                                                              *)
InFlight(r) == prep.reservation # None /\ request[prep.reservation].pred = request[r].pred

RefuseHandover(r) ==
    /\ request' = Answered(r)
    /\ prep' = [prep EXCEPT !.generation = request[prep.reservation].gen,
                            !.attempt = prep.reservation, !.pending = FALSE]

PreflightFails(r) ==
    \/ session.cleanup # None
    \/ (BindingStale(r) /\ Family(r) # "managed")

(* Mutant: the execution a handover under way releases is not reserved.    *)
BeginHandoverUnreserved(r) ==
    /\ request[r].phase = "planned" /\ Family(r) # "shared"
    /\ Current(r) /\ ~request[r].outdated
    /\ IF PreflightFails(r)
       THEN /\ request' = Answered(r)
            /\ prep' = [prep EXCEPT !.attempt = r, !.pending = FALSE]
       ELSE /\ request' = [request EXCEPT ![r].phase = "releasing"]
            /\ prep' = [prep EXCEPT !.attempt = r, !.reservation = r, !.pending = FALSE]
    /\ UNCHANGED <<session, host, epoch, world>>

BeginHandover(r) ==
    /\ request[r].phase = "planned" /\ Family(r) # "shared"
    /\ Current(r) /\ ~request[r].outdated
    /\ CASE InFlight(r) -> RefuseHandover(r)
         [] ~InFlight(r) /\ PreflightFails(r) ->
              /\ request' = Answered(r)
              /\ prep' = [prep EXCEPT !.attempt = r, !.pending = FALSE]
         [] OTHER ->
              /\ request' = [request EXCEPT ![r].phase = "releasing"]
              /\ prep' = [prep EXCEPT !.attempt = r, !.reservation = r, !.pending = FALSE]
    /\ UNCHANGED <<session, host, epoch, world>>

-----------------------------------------------------------------------------
(* The handover: what the release says, and what the preparation says      *)

StaleAttempt(r) == prep.attempt # r \/ ~Current(r)

(* A release that was not confirmed, but did not raise, still counts when  *)
(* the session has given the execution up.  Of DoP there is none: the port *)
(* raises for a DoP whose release it cannot prove.                         *)
Confirms(r) ==
    \/ request[r].result = "confirmed"
    \/ (request[r].result \in {"already", "stale"} /\ session.prepared # request[r].pred)

(* _reconcile_handover_release retires the execution e.  DoP's own way of  *)
(* it asks only whether another DoP is prepared.                           *)
Reconciled(s, e) ==
    LET left == [s EXCEPT !.prepared = IF @ = e THEN None ELSE @, !.token = None,
                          !.state = IF @ \in Live THEN "IDLE" ELSE @]
    IN  CASE Family(e) # "dop" -> IF s.prepared = e THEN left ELSE s
          [] Family(e) = "dop" /\ s.prepared # e /\ Family(s.prepared) = "dop" -> s
          [] OTHER -> IF s.lost THEN [left EXCEPT !.mode = "lost", !.state = s.state]
                      ELSE [left EXCEPT !.mode = "shared"]

CompleteRelease(r) ==
    /\ request[r].phase = "released"
    /\ LET e == request[r].pred
           s == IF Confirms(r) THEN Reconciled(session, e) ELSE session
       IN  CASE StaleAttempt(r) -> session' = s /\ request' = Superseded(r)
             [] ~StaleAttempt(r) /\ ~Confirms(r) ->
                  session' = Retained(s, e) /\ request' = Answered(r)
             [] OTHER ->
                  session' = s /\ request' = [request EXCEPT ![r].phase = "preparing"]
    /\ prep' = [prep EXCEPT !.reservation = IF @ = r THEN None ELSE @]
    /\ UNCHANGED <<host, epoch, world>>

(* A candidate that is not committed is aborted, a managed one whose       *)
(* binding is stale by _begin_managed_session and then once more.          *)
CompletePrepare(r, a) ==
    /\ request[r].phase = "prepared"
    /\ LET over    == StaleAttempt(r) \/ (request[r].ok /\ request[r].outdated)
           unbound == BindingStale(r) /\ Family(r) # "native_dsd"
           commits == request[r].ok /\ ~over /\ ~unbound /\ Begins(Now, r, "truth")
           aborted == Aborted(Now, Candidate(r), a)
       IN  /\ a \in IF commits THEN {"truth"} ELSE Answers(Candidate(r))
           /\ request' = IF over THEN Superseded(r) ELSE Answered(r)
           /\ CASE commits -> Becomes(Delivered(Begun(Now, r, a), r))
                [] ~over /\ unbound /\ Family(r) = "managed" ->
                     Becomes(Aborted(aborted, Candidate(r), "truth"))
                [] OTHER -> Becomes(aborted)
    /\ world' = Heard(a)
    /\ UNCHANGED <<prep, epoch>>

-----------------------------------------------------------------------------
(* Playback: the prepared output is loaded and committed, or it is not.    *)
(* The commit of DoP and of native DSD asks the host for the execution.    *)

Awaited == session.token # None /\ session.token = epoch

HostCommits == session.mode \in {"shared", "managed"} \/ host.holds = session.token

Commit ==
    /\ Awaited /\ HostCommits
    /\ session' = [session EXCEPT !.state = IF session.mode = "shared" THEN @ ELSE "RUNNING"]
    /\ epoch' = None
    /\ UNCHANGED <<prep, request, host, world>>

(* abort_media and audio.stop *)
CommitFails(a) ==
    /\ Awaited /\ ~HostCommits
    /\ a \in Answers(session.prepared)
    /\ LET aborted == AbortMedia(Now, epoch, a)
       IN  Becomes([aborted EXCEPT !.h = Freed(@)])
    /\ epoch' = None
    /\ world' = Heard(a)
    /\ UNCHANGED <<prep, request>>

(* The engine cannot load the media *)
LoadFails(a) ==
    /\ Awaited /\ MoreEvents
    /\ a \in Answers(IF session.mode = "shared" THEN None ELSE session.prepared)
    /\ Becomes(AbortMedia(Now, epoch, a))
    /\ epoch' = None
    /\ world' = Happens(a)
    /\ UNCHANGED <<prep, request>>

Cancelled == [Advanced EXCEPT !.pending = FALSE]

Given(s) == IF s.mode = "shared" THEN None ELSE s.prepared

(* stop: a transport stop that raises changes nothing here                 *)
Stop(a) ==
    /\ MoreEvents /\ a \in Answers(Given(session))
    /\ Becomes(ReleaseActive([Now EXCEPT !.h = Freed(@)], a))
    /\ prep' = Cancelled /\ epoch' = None /\ world' = Happens(a)
    /\ UNCHANGED request

(* converge_after_engine_loss: the host process is gone, and its receipts  *)
EngineLost ==
    /\ MoreEvents
    /\ Becomes(ReleaseActive([Now EXCEPT !.h = [holds |-> None, receipt |-> None]], "truth"))
    /\ prep' = Cancelled /\ epoch' = None /\ world' = Happens("truth")
    /\ UNCHANGED request

(* The user selects another path: no preparation of before may commit      *)
Reselect ==
    /\ MoreEvents
    /\ prep' = Cancelled
    /\ request' = [r \in Requests |-> [request[r] EXCEPT !.outdated =
                      request[r].phase \notin {"unasked", "answered", "superseded"}]]
    /\ world' = Happens("truth")
    /\ UNCHANGED <<session, host, epoch>>

-----------------------------------------------------------------------------
(* The device goes, and comes back                                         *)

LossApplies == prep.pending \/ (session.mode \in Families /\ session.state \in Live)

DeviceGoes ==
    /\ MoreEvents /\ world.present /\ ~LossApplies
    /\ world' = [Happens("truth") EXCEPT !.present = FALSE]
    /\ UNCHANGED <<session, prep, request, host, epoch>>

(* Mutant: the lease is given up only when the abort did.                  *)
LostIfReleased(w, a) ==
    LET e       == w.s.prepared
        aborted == Aborted(w, e, a)
        lost    == [aborted.s EXCEPT !.state = "LOST", !.mode = "lost", !.lost = TRUE]
    IN  IF \/ w.s.state = "LOST"
           \/ /\ w.s.state = "IDLE"
              /\ w.s.mode \notin {"dop", "native_dsd"} /\ Family(e) # "managed"
        THEN w
        ELSE [aborted EXCEPT !.s = IF a = "truth" THEN [Dropped(lost) EXCEPT !.token = None]
                                   ELSE lost]

(* device_lost: every lease is given up before the fallible abort          *)
Lost(w, a) ==
    LET e       == w.s.prepared
        aborted == Aborted(w, e, a)
    IN  IF \/ w.s.state = "LOST"
           \/ /\ w.s.state = "IDLE"
              /\ w.s.mode \notin {"dop", "native_dsd"} /\ Family(e) # "managed"
        THEN w
        ELSE [aborted EXCEPT !.s = [@ EXCEPT !.state = "LOST", !.mode = "lost", !.prepared = None,
                                             !.token = None, !.lost = TRUE]]

DeviceLost(a) ==
    /\ MoreEvents /\ world.present /\ LossApplies
    /\ a \in Answers(Given(session))
    /\ Becomes(Lost([Now EXCEPT !.h = Freed(@)], a))
    /\ prep' = Cancelled /\ epoch' = None
    /\ world' = [Happens(a) EXCEPT !.present = FALSE]
    /\ UNCHANGED request

(* rebind_after_topology_change *)
DeviceReturns ==
    /\ ~world.present
    /\ world' = [world EXCEPT !.present = TRUE]
    /\ session' = IF session.state = "LOST" /\ session.cleanup = None /\ session.lost
                  THEN [session EXCEPT !.state = "IDLE", !.mode = "shared", !.lost = FALSE]
                  ELSE session
    /\ UNCHANGED <<prep, request, host, epoch>>

-----------------------------------------------------------------------------
Steps(r) ==
    \/ \E kind \in Families \cup {"shared"} : Characterize(r, kind)
    \/ CannotPlan(r)
    \/ \E ok \in BOOLEAN : Acquire(r, ok)
    \/ CompleteFailed(r)
    \/ BeginHandover(r)
    \/ CompleteRelease(r)
    \/ \E a \in {"truth", "silent", "unheard"} :
          \/ Release(r, a)
          \/ CompleteSuperseded(r, a)
          \/ CompleteShared(r, a)
          \/ CompleteFast(r, a)
          \/ CompletePrepare(r, a)

Next ==
    \/ \E r \in Requests : Ask(r) \/ Steps(r)
    \/ Commit \/ EngineLost \/ Reselect \/ DeviceGoes \/ DeviceReturns
    \/ \E a \in {"truth", "silent", "unheard"} :
          CommitFails(a) \/ LoadFails(a) \/ Stop(a) \/ DeviceLost(a)

Spec == Init /\ [][Next]_vars

-----------------------------------------------------------------------------
(* Properties                                                              *)

(* The session says what it holds: it is READY or RUNNING for the one      *)
(* execution it has prepared, in that family's mode; a token stands for    *)
(* that execution, except after a release that failed; and a session that  *)
(* is LOST holds nothing.                                                  *)
Consistent ==
    /\ TypeOK
    /\ session.state \in Live =>
          session.prepared # None /\ session.mode = Family(session.prepared)
    /\ session.token # None /\ session.mode # "shared" /\ session.state # "RELEASING" =>
          session.token = session.prepared
    /\ session.state = "LOST" => session.prepared = None /\ session.token = None

(* A handover acquires only when what it takes the place of is released,   *)
(* and no two handovers release the same execution; unless the clock that  *)
(* tells which preparation is current came to a number that was taken.     *)
HandoverIsExclusive ==
    prep.repeated \/
    \A r \in Requests :
        /\ request[r].phase \in {"preparing", "prepared"} => host.holds # request[r].pred
        /\ \A q \in Requests \ {r} :
              ~(/\ request[r].phase = "releasing" /\ request[q].phase = "releasing"
                /\ request[r].pred = request[q].pred)

(* "A worker-phase execution that can no longer commit MUST be stopped":   *)
(* the host does not hold the execution of a preparation that was          *)
(* superseded, unless the session says that a cleanup is not confirmed.    *)
(* Two cleanups that are not confirmed have one slot: after two failures,  *)
(* or when the clock has repeated a number, one may have been forgotten.   *)
(* Native DSD is left out: its abort calls a failure stale, which the      *)
(* session takes for released.                                             *)
SupersededHoldsNothing ==
    \A r \in Requests :
        request[r].phase = "superseded" /\ host.holds = r /\ Family(r) # "native_dsd"
        => \/ session.cleanup # None
           \/ session.forgotten /\ (world.faults > 1 \/ prep.repeated)

(* "A stale completion can never commit": the clock that tells which       *)
(* preparation is current advances to what none under way has.  Refusing a *)
(* handover puts it back, and it may then reach them one by one.           *)
ClockIsFresh == ~prep.repeated

(* "Retire exactly the released identity; never touch a newer one": while  *)
(* the session has a managed execution prepared, managed is its mode.      *)
NewerIsUntouched ==
    session.prepared # None /\ Family(session.prepared) = "managed" => session.mode = "managed"

(* "an obsolete attempt can only ever release the execution it observed,   *)
(* never a newer one": what is RUNNING is what the host holds.             *)
NewerSurvives == session.state = "RUNNING" => host.holds = session.prepared

=============================================================================
