---------------------------- MODULE GStreamerPort ----------------------------
(***************************************************************************)
(* GStreamerAudioPort: one playbin3 pipeline at a time behind the AudioPort *)
(* contract.  The owner thread runs the commands (load, play, pause, stop, *)
(* close) and is alone to decide; the pump thread translates the messages  *)
(* of the pipeline's bus into events of the generation its watch captured  *)
(* and queues them.  A callback the owner publishes may come back with     *)
(* another command before the handler that published it goes on, so what   *)
(* is left of a handler waits on a stack.                                  *)
(*                                                                         *)
(* The pipeline is external: it moves towards the state asked of it, posts *)
(* what it passes, may refuse, fail and end.  Left out: positions,         *)
(* durations, volume, the position timer, the sinks and their recipes, and *)
(* the clock of the resync hold, of which only "due" matters.              *)
(***************************************************************************)
EXTENDS Naturals, Sequences, FiniteSets

CONSTANTS
    Faults,      \* what may go wrong: see Faulty
    Reused,      \* whether a port whose close failed is used again
    MaxLoads,    \* bound on the loads
    MaxFaults,   \* bound on the faults
    MaxQueue,    \* bound on the events that wait for the owner
    MaxDepth     \* bound on the handlers a callback comes back into

ASSUME BoundsAssumption == {MaxLoads, MaxFaults, MaxQueue, MaxDepth} \subseteq Nat
ASSUME ReusedAssumption == Reused \in BOOLEAN

VARIABLES
    port,      \* the fields of the port
    late,      \* the context command that outlived its caller, on the pump
    pumping,   \* the pump thread
    gst,       \* the pipeline of each load: where it is, where it was asked to go
    natively,  \* the watches that are installed on the bus of their pipeline
    residual,  \* _residual_bus_watches: the watches whose compensation failed
    queue,     \* the events between the pump and the owner
    stack,     \* what is left of the owner's handlers, innermost first
    answer,    \* history: the last public word about each load
    loads, faults

vars == <<port, late, pumping, gst, natively, residual, queue, stack, answer, loads, faults>>
native == <<late, pumping, gst, natively, residual>>

(* A load stands for its path, its pipeline, the watch on it and the       *)
(* generation that belongs to it; no load is a generation without one.     *)
Loads == 1..MaxLoads
None == 0
LoadOrNone == Loads \cup {None}

Event == [gen : LoadOrNone, kind : {"ASYNC_DONE", "PLAYING", "PAUSED", "STOPPED", "EOS", "ERROR", "DIED"}]
Frame == [rest : {"arm", "accepted", "played", "ended"}, load : Loads, held : BOOLEAN,
          live : BOOLEAN, calls : BOOLEAN]
Words == {"accepted", "rejected", "ended"}
Idle == [does |-> "nothing", watch |-> None]

(* hold: of a Direct load that starts late.  wanted: not yet prerolled;    *)
(* armed: its timer runs; due: past the deadline; over: it was started.    *)
TypeOK ==
    /\ port \in [gen : LoadOrNone, pending : LoadOrNone, current : LoadOrNone, pipe : LoadOrNone,
                 watch : LoadOrNone, play : BOOLEAN, eos : BOOLEAN, replay : BOOLEAN,
                 direct : BOOLEAN, closing : BOOLEAN, closed : BOOLEAN,
                 deferred : SUBSET {"PLAYING", "EOS"}, state : {"PLAYING", "PAUSED", "STOPPED"},
                 hold : {"none", "wanted", "armed", "due", "over"}]
    /\ late = Idle \/ late \in [does : {"attach", "detach"}, watch : Loads]
    /\ pumping \in {"none", "alive", "dead"}
    /\ gst \in [Loads -> [at : {"NULL", "READY", "PAUSED", "PLAYING", "ENDED"},
                          to : {"NULL", "PAUSED", "PLAYING"}]]
    /\ natively \subseteq Loads /\ residual \subseteq Loads
    /\ queue \in Seq(Event)
    /\ stack \in Seq(Frame)
    /\ answer \in [Loads -> Words \cup {"none", "astray"}]
    /\ loads \in 0..MaxLoads /\ faults \in 0..MaxFaults

Init ==
    /\ port = [gen |-> None, pending |-> None, current |-> None, pipe |-> None, watch |-> None,
               play |-> FALSE, eos |-> FALSE, replay |-> FALSE, direct |-> FALSE,
               closing |-> FALSE, closed |-> FALSE, deferred |-> {}, state |-> "STOPPED",
               hold |-> "none"]
    /\ late = Idle /\ pumping = "none"
    /\ gst = [n \in Loads |-> [at |-> "NULL", to |-> "NULL"]]
    /\ natively = {} /\ residual = {}
    /\ queue = <<>> /\ stack = <<>>
    /\ answer = [n \in Loads |-> "none"]
    /\ loads = 0 /\ faults = 0

Faulty(f) == f \in Faults /\ faults < MaxFaults /\ faults' = faults + 1
FaultyTwice(f, g) == {f, g} \subseteq Faults /\ faults + 2 <= MaxFaults /\ faults' = faults + 2

-----------------------------------------------------------------------------
(* Helpers                                                                 *)

(* _retire_resync_execution, which stop keeps the delay of                 *)
Retired(p) == [p EXCEPT !.hold = IF @ = "none" THEN "none" ELSE "wanted", !.replay = FALSE,
                        !.play = IF p.hold = "none" THEN @ ELSE FALSE]

(* A bug: the next generation inherits the preroll of the one before.      *)
InvalidatedButReplay(p) == [p EXCEPT !.gen = None, !.hold = "none", !.deferred = {}]

(* _invalidate_generation                                                  *)
Invalidated(p) == [p EXCEPT !.gen = None, !.hold = "none", !.replay = FALSE, !.deferred = {}]

(* A transaction that ends for good leaves no media behind.                *)
Cleared(p) == [Invalidated(p) EXCEPT !.pending = None, !.current = None, !.play = FALSE,
                                     !.eos = FALSE, !.direct = FALSE]

Released(p) == [p EXCEPT !.pipe = None, !.watch = IF p.pipe = None THEN @ ELSE None]
IsCandidate == port.pending # None /\ port.current = None

(* A context command runs only on a pump that is there and not blocked; a  *)
(* caller that waited in vain abandons it.                                 *)
PumpAnswers == pumping = "alive" /\ late = Idle
PumpServes == pumping' = "alive" /\ late = Idle
WatchFreed == port.watch # None => PumpAnswers

Asked(to) == [gst EXCEPT ![port.pipe] = [at |-> IF to = "NULL" THEN "NULL" ELSE @.at, to |-> to]]
Accepts(to) == gst' = Asked(to) /\ UNCHANGED faults
Refuses == Faulty("refuse") /\ UNCHANGED gst

(* _try_stop_pipeline: NULL first, then the watch is detached.             *)
Stops ==
    /\ IF port.pipe = None THEN UNCHANGED <<gst, natively>>
       ELSE WatchFreed /\ gst' = Asked("NULL") /\ natively' = natively \ {port.watch}
    /\ UNCHANGED <<late, faults>>

(* The pipeline does not go to NULL, and stays as it is.                   *)
DoesNotStop ==
    /\ port.pipe # None
    /\ Refuses
    /\ UNCHANGED <<late, natively>>

(* It is at NULL but keeps its watch: the pump is gone or blocked, or says *)
(* that it failed, or is still at it when the caller gives up.             *)
StaysWatched ==
    /\ port.pipe # None /\ port.watch # None
    /\ gst' = Asked("NULL")
    /\ UNCHANGED natively
    /\ \/ ~PumpAnswers /\ UNCHANGED <<late, faults>>
       \/ PumpAnswers /\ Faulty("detach") /\ UNCHANGED late
       \/ PumpAnswers /\ Faulty("slow") /\ late' = [does |-> "detach", watch |-> port.watch]

(* The pump keeps the watch, or is still at it when the caller gives up.   *)
KeepsWatch(f, w) ==
    \/ FaultyTwice(f, "detach") /\ UNCHANGED late
    \/ FaultyTwice(f, "slow") /\ late' = [does |-> "detach", watch |-> w]

(* What f has spoilt is left at NULL, with the port as in p; the pipeline  *)
(* is given up when its watch is detached, and what raises is suppressed.  *)
GivenUp(f, p) ==
    /\ gst' = Asked("NULL")
    /\ \/ /\ Faulty(f)
          /\ IF WatchFreed
             THEN port' = Released(p) /\ natively' = natively \ {port.watch}
             ELSE port' = p /\ UNCHANGED natively
          /\ UNCHANGED late
       \/ /\ port.watch # None /\ PumpAnswers
          /\ KeepsWatch(f, port.watch)
          /\ port' = p
          /\ UNCHANGED natively

(* A command comes from the event loop, or from a callback of the handler  *)
(* on top of the stack.  load, stop and close move the load epoch: what a  *)
(* load further down the stack was about to arm is superseded.             *)
MayCall ==
    /\ ~port.closed
    /\ IF stack = <<>> THEN TRUE ELSE Head(stack).calls /\ Len(stack) <= MaxDepth
Commandable == MayCall /\ (port.closing => Reused)
Overtaken == [i \in 1..Len(stack) |-> [stack[i] EXCEPT !.live = FALSE]]

(* The public words about a load, as its listeners hear them: accepted     *)
(* once, ended once for each time it was started, rejected for good.       *)
Says(n, word) ==
    answer' = [answer EXCEPT ![n] =
                 IF \/ word = "accepted" /\ @ = "none"
                    \/ word = "ended" /\ @ = "accepted" /\ n = port.pipe
                    \/ word = "rejected" /\ @ \in {"none", "accepted", "ended"}
                 THEN word ELSE "astray"]
StartsOver == answer' = [n \in Loads |-> IF n = port.pipe /\ port.eos /\ ~port'.eos /\ answer[n] = "ended"
                                        THEN "accepted" ELSE answer[n]]

-----------------------------------------------------------------------------
(* Commands of the owner                                                   *)

(* load, first half: the old pipeline is torn down and STOPPED published.  *)
Load(held) ==
    /\ Commandable /\ loads < MaxLoads
    /\ loads' = loads + 1
    /\ \/ /\ Stops
          /\ port' = [Released(port) EXCEPT !.direct = held, !.current = None, !.eos = FALSE,
                                            !.play = FALSE, !.state = "STOPPED"]
          /\ stack' = <<[rest |-> "arm", load |-> loads + 1, held |-> held, live |-> TRUE,
                         calls |-> port.state # "STOPPED"]>> \o Overtaken
       \/ /\ StaysWatched
          /\ port' = [Cleared(port) EXCEPT !.state = "STOPPED"]
          /\ stack' = Overtaken
       \/ /\ DoesNotStop
          /\ port' = IF port.current = None THEN Cleared(port) ELSE port
          /\ stack' = Overtaken
    /\ UNCHANGED <<pumping, residual, queue, answer>>

(* load, second half, unless a callback has started something else: the    *)
(* new pipeline is armed and asked to preroll.                             *)
Candidate(f) ==
    [Invalidated(port) EXCEPT !.gen = f.load, !.pending = f.load, !.current = None, !.eos = FALSE,
                              !.play = FALSE, !.hold = IF f.held THEN "wanted" ELSE "none"]

Arms(f) ==
    /\ PumpServes /\ UNCHANGED <<late, residual, faults, answer>>
    /\ port' = [Candidate(f) EXCEPT !.pipe = f.load, !.watch = f.load]
    /\ natively' = natively \cup {f.load}
    /\ gst' = [gst EXCEPT ![f.load].to = "PAUSED"]

(* _rollback_failed_arm: the watch was not attached, or not in time; or    *)
(* what raised came later and the watch cannot be detached: then the       *)
(* pipeline stays with it.                                                 *)
RolledBack(f, detached) ==
    [Cleared(Candidate(f)) EXCEPT !.watch = IF detached THEN None ELSE @,
                                  !.pipe = IF port.watch = None \/ detached THEN None ELSE f.load]

RollsBack(f) ==
    /\ UNCHANGED <<gst, residual, answer>>
    /\ \/ /\ IF PumpServes THEN Faulty("attach") ELSE UNCHANGED faults
          /\ port' = RolledBack(f, PumpServes)
          /\ UNCHANGED <<late, natively>>
       \/ /\ PumpServes /\ Faulty("slow")
          /\ late' = [does |-> "attach", watch |-> f.load]
          /\ port' = RolledBack(f, FALSE)
          /\ natively' = natively \cup {f.load}
       \/ /\ PumpServes /\ Faulty("detach")
          /\ port' = [Cleared(Candidate(f)) EXCEPT !.pipe = f.load, !.watch = f.load]
          /\ natively' = natively \cup {f.load}
          /\ UNCHANGED late

(* PAUSED was refused: the candidate goes before it is reported; its       *)
(* pipeline stays if it refuses NULL as well, or keeps its watch.          *)
RefusesPreroll(f) ==
    /\ PumpServes
    /\ LET Refused(pipe, watch) ==
             port' = [Candidate(f) EXCEPT !.pending = None, !.direct = FALSE, !.pipe = pipe,
                                          !.watch = watch]
       IN \/ /\ Faulty("refuse")
             /\ \E kept \in {None, f.load} : Refused(kept, None)
             /\ UNCHANGED <<late, natively>>
          \/ /\ KeepsWatch("refuse", f.load)
             /\ Refused(f.load, f.load)
             /\ natively' = natively \cup {f.load}
    /\ Says(f.load, "rejected")
    /\ UNCHANGED <<gst, residual>>

Attempts(f) ==
    /\ pumping' = IF pumping = "none" THEN "alive" ELSE pumping
    /\ Arms(f) \/ RollsBack(f) \/ RefusesPreroll(f)

(* A bug: what a callback did meanwhile is not looked at.                  *)
ArmAnyway(f) ==
    /\ f.rest = "arm"
    /\ stack' = Tail(stack)
    /\ UNCHANGED <<queue, loads>>
    /\ Attempts(f)

Arm(f) ==
    /\ f.rest = "arm"
    /\ stack' = Tail(stack)
    /\ UNCHANGED <<queue, loads>>
    /\ \/ ~f.live /\ UNCHANGED <<port, native, answer, faults>>
       \/ f.live /\ Attempts(f)

(* play while the hold of a Direct start is not over: the intention waits, *)
(* after a fresh preroll when the source is one that was stopped or ended; *)
(* but a preroll that is believed under way is not asked for again.        *)
PlayHeld ==
    \/ /\ port.eos /\ port.hold # "none"
       /\ LET p == [port EXCEPT !.eos = FALSE, !.hold = "wanted"]
          IN \/ Refuses /\ UNCHANGED port
             \/ /\ ~port.replay
                /\ gst' = [Asked("NULL") EXCEPT ![port.pipe].to = "PAUSED"]
                /\ port' = [p EXCEPT !.replay = TRUE, !.play = TRUE]
                /\ UNCHANGED faults
             \/ /\ ~port.replay
                /\ Faulty("refuse") /\ gst' = Asked("NULL")
                /\ port' = [p EXCEPT !.play = FALSE]
             \/ /\ port.replay
                /\ gst' = Asked("NULL") /\ UNCHANGED faults
                /\ port' = [p EXCEPT !.play = TRUE]
    \/ /\ ~port.eos /\ port.hold = "wanted" /\ port.current # None /\ ~port.replay
       /\ \/ Accepts("PAUSED") /\ port' = [port EXCEPT !.replay = TRUE, !.play = TRUE]
          \/ Refuses /\ UNCHANGED port
    \/ /\ ~port.eos /\ port.hold \in {"wanted", "armed"}
       /\ port.hold = "wanted" => port.current = None \/ port.replay
       /\ port' = [port EXCEPT !.play = TRUE]
       /\ UNCHANGED <<gst, faults>>

(* A pipeline that ended starts again only from NULL.                      *)
PlayAgain ==
    /\ port.eos /\ port.hold = "none"
    /\ \/ /\ gst' = [Asked("NULL") EXCEPT ![port.pipe].to = "PLAYING"]
          /\ port' = [port EXCEPT !.play = TRUE, !.eos = FALSE]
          /\ UNCHANGED faults
       \/ Refuses /\ UNCHANGED port
       \/ Faulty("refuse") /\ gst' = Asked("NULL") /\ UNCHANGED port

MayStart == ~port.eos /\ port.hold \notin {"wanted", "armed"}
HoldOver(p) == [p EXCEPT !.hold = IF @ = "due" THEN "over" ELSE @]

(* _cancel_pending_candidate_after_failure: a candidate that will not play *)
(* is no candidate any more, whatever becomes of its pipeline.             *)
PlayCandidate ==
    /\ MayStart /\ IsCandidate
    /\ \/ /\ Accepts("PLAYING")
          /\ port' = [port EXCEPT !.play = TRUE]
          /\ UNCHANGED <<late, natively>>
       \/ /\ Refuses
          /\ port' = Cleared(port)
          /\ UNCHANGED <<late, natively>>
       \/ GivenUp("refuse", Cleared(port))

PlayAccepted ==
    /\ MayStart /\ ~IsCandidate
    /\ \/ Accepts("PLAYING") /\ port' = [HoldOver(port) EXCEPT !.play = TRUE]
       \/ Refuses /\ port' = HoldOver(port)

Starts ==
    \/ (PlayHeld \/ PlayAgain \/ PlayAccepted) /\ UNCHANGED <<late, natively>>
    \/ PlayCandidate

(* play and resume                                                         *)
Play ==
    /\ Commandable /\ port.pipe # None
    /\ Starts
    /\ StartsOver
    /\ UNCHANGED <<pumping, residual, queue, stack, loads>>

Pause ==
    /\ Commandable /\ port.pipe # None
    /\ \/ Accepts("PAUSED") /\ port' = [port EXCEPT !.play = FALSE]
       \/ Refuses /\ UNCHANGED port
    /\ UNCHANGED <<late, pumping, natively, residual, queue, stack, answer, loads>>

(* stop cancels a candidate; an accepted source stays, and may be resumed. *)
StopCandidate ==
    /\ port.pipe # None /\ IsCandidate
    /\ \/ /\ Stops
          /\ port' = [Released(Invalidated(port)) EXCEPT !.pending = None, !.play = FALSE,
                        !.eos = FALSE, !.direct = FALSE, !.state = "STOPPED"]
       \/ (DoesNotStop \/ StaysWatched) /\ port' = Retired(port)

StopSource ==
    /\ port.pipe # None /\ ~IsCandidate
    /\ UNCHANGED <<late, natively>>
    /\ \/ /\ Accepts("NULL")
          /\ port' = [Retired(port) EXCEPT !.play = FALSE, !.eos = FALSE, !.state = "STOPPED"]
       \/ Refuses /\ port' = Retired(port)

Stop ==
    /\ Commandable
    /\ \/ StopCandidate \/ StopSource
       \/ /\ port.pipe = None
          /\ port' = Retired(port)
          /\ UNCHANGED <<late, gst, natively, faults>>
    /\ stack' = Overtaken
    /\ StartsOver
    /\ UNCHANGED <<pumping, residual, queue, loads>>

(* close: every cleanup is attempted; the pump is kept while a watch needs *)
(* it; a port is closed when nothing raised and nothing is left, and may   *)
(* be closed again until it is.                                            *)
Closing(nulled, detached, joined, compensated) ==
    LET pipe == IF nulled THEN None ELSE port.pipe
        watch == IF detached THEN None ELSE port.watch
        mayJoin == watch = None /\ late = Idle
    IN /\ port.pipe = None => nulled
       /\ detached <=> port.watch = None \/ (PumpAnswers /\ detached)
       /\ joined => mayJoin \/ pumping = "none"
       /\ pumping = "none" \/ (pumping = "dead" /\ watch = None) => joined
       /\ residual = {} => compensated
       /\ IF nulled /\ (detached \/ ~PumpAnswers) /\ (joined \/ ~mayJoin) /\ compensated
          THEN UNCHANGED faults ELSE Faulty("close")
       /\ gst' = IF port.pipe # None /\ nulled THEN Asked("NULL") ELSE gst
       /\ residual' = IF compensated THEN {} ELSE residual
       /\ natively' = (natively \ (IF detached THEN {port.watch} ELSE {})) \ (residual \ residual')
       /\ pumping' = IF joined THEN "none" ELSE pumping
       /\ LET done == /\ pipe = None /\ watch = None /\ residual' = {} /\ pumping' = "none"
                      /\ faults' = faults
          IN port' = [Invalidated(port) EXCEPT !.pipe = pipe, !.watch = watch, !.pending = None,
                        !.current = None, !.direct = FALSE, !.closing = ~done, !.closed = done]

Close ==
    /\ MayCall
    /\ \E nulled, detached, joined, compensated \in BOOLEAN :
         Closing(nulled, detached, joined, compensated)
    /\ stack' = Overtaken
    /\ UNCHANGED <<late, queue, answer, loads>>

-----------------------------------------------------------------------------
(* The pump                                                                *)

(* _process_message: a message of the current generation becomes an event. *)
Posts(w, kinds) ==
    /\ Len(queue) + Len(kinds) <= MaxQueue
    /\ queue' = queue \o [i \in 1..Len(kinds) |-> [gen |-> w, kind |-> kinds[i]]]

Moves(w, at) == gst' = [gst EXCEPT ![w].at = at]

(* The pipeline goes where it was asked to go, posts what it passes, and   *)
(* ends or fails.  The order of the last messages of a start is not        *)
(* promised, and a short media may even have ended by then.                *)
Message(w) ==
    LET s == gst[w]
    IN \/ s.at = "NULL" /\ s.to # "NULL" /\ Moves(w, "READY") /\ Posts(w, <<"STOPPED">>)
       \/ s.at = "READY" /\ Moves(w, "PAUSED") /\ Posts(w, <<"PAUSED", "ASYNC_DONE">>)
       \/ /\ s.at = "READY" /\ s.to = "PLAYING"
          /\ Moves(w, "PLAYING") /\ Posts(w, <<"PLAYING", "ASYNC_DONE">>)
       \/ /\ s.at = "READY" /\ s.to = "PLAYING"
          /\ Moves(w, "ENDED") /\ Posts(w, <<"PLAYING", "EOS", "ASYNC_DONE">>)
       \/ s.at = "PAUSED" /\ s.to = "PLAYING" /\ Moves(w, "PLAYING") /\ Posts(w, <<"PLAYING">>)
       \/ /\ s.at \in {"PLAYING", "ENDED"} /\ s.to = "PAUSED"
          /\ Moves(w, "PAUSED") /\ Posts(w, <<"PAUSED">>)

Ends(w) == /\ gst[w] = [at |-> "PLAYING", to |-> "PLAYING"]
           /\ Moves(w, "ENDED") /\ Posts(w, <<"EOS">>)

Errs(w) == /\ gst[w].at # "NULL"
           /\ Faulty("error") /\ Posts(w, <<"ERROR">>) /\ UNCHANGED gst

Emit(w) ==
    /\ PumpAnswers /\ ~port.closed /\ w = port.gen
    /\ ((Message(w) \/ Ends(w)) /\ UNCHANGED faults) \/ Errs(w)
    /\ UNCHANGED <<port, late, pumping, natively, residual, stack, answer, loads>>

(* The pump finishes a command whose caller is gone.  An attach lost its   *)
(* authority and undoes what it did natively, if it can; a detach removes  *)
(* what it was asked to, and the field if it still names it.               *)
LateAttach ==
    /\ late.does = "attach"
    /\ \/ natively' = natively \ {late.watch} /\ UNCHANGED <<residual, faults>>
       \/ /\ Faulty("detach")
          /\ residual' = residual \cup {late.watch}
          /\ UNCHANGED natively
    /\ UNCHANGED port

LateDetach ==
    /\ late.does = "detach"
    /\ natively' = natively \ {late.watch}
    /\ port' = [port EXCEPT !.watch = IF @ = late.watch THEN None ELSE @]
    /\ UNCHANGED <<residual, faults>>

LateCommand ==
    /\ LateAttach \/ LateDetach
    /\ late' = Idle
    /\ UNCHANGED <<pumping, gst, queue, stack, answer, loads>>

(* The pump thread ends by itself: it detaches what only it may detach, or *)
(* logs that it could not.                                                 *)
PumpDies ==
    /\ PumpAnswers /\ ~port.closing
    /\ Len(queue) < MaxQueue
    /\ pumping' = "dead"
    /\ \/ /\ Faulty("death")
          /\ natively' = natively \ {port.watch}
          /\ port' = [port EXCEPT !.watch = None]
       \/ /\ port.watch # None /\ FaultyTwice("death", "detach")
          /\ UNCHANGED <<port, natively>>
    /\ queue' = Append(queue, [gen |-> port.gen, kind |-> "DIED"])
    /\ UNCHANGED <<late, gst, residual, stack, answer, loads>>

-----------------------------------------------------------------------------
(* Events, at the owner                                                    *)

(* A bug: the timer of the hold runs for the first acceptance only.        *)
HoldArmedOnce(p) ==
    [p EXCEPT !.hold = IF @ = "wanted" /\ p.direct /\ ~p.replay THEN "armed" ELSE @]

(* _commit_acceptance: the candidate is verified if it is Direct, the hold *)
(* starts, and the acceptance is published, but not for a replay.          *)
HoldArmed(p) == [p EXCEPT !.hold = IF @ = "wanted" /\ p.direct THEN "armed" ELSE @]

(* A listener hears of an acceptance, or of a state that changed.          *)
Callback(rest, calls) ==
    stack' = <<[rest |-> rest, load |-> port.gen, held |-> FALSE, live |-> TRUE,
                calls |-> calls]>> \o stack

Accept ==
    IF port.pending = None /\ ~port.replay
    THEN UNCHANGED <<port, native, stack, answer, faults>>
    ELSE \/ /\ UNCHANGED <<native, faults>>
            /\ IF port.replay
               THEN /\ port' = [HoldArmed(port) EXCEPT !.replay = FALSE]
                    /\ UNCHANGED <<stack, answer>>
               ELSE /\ port' = [HoldArmed(port) EXCEPT !.current = port.pending, !.pending = None]
                    /\ Says(port.pending, "accepted")
                    /\ Callback("accepted", TRUE)
         \/ /\ port.direct
            /\ LET p == [Invalidated(port) EXCEPT !.pending = None, !.current = None, !.direct = FALSE]
               IN \/ GivenUp("verify", p)
                  \/ /\ FaultyTwice("verify", "refuse")
                     /\ port' = p
                     /\ UNCHANGED <<late, gst, natively>>
            /\ Says(port.gen, "rejected")
            /\ UNCHANGED <<pumping, residual, stack>>

Defers(kind) == port' = [port EXCEPT !.deferred = @ \cup {kind}]
Shows(status) == port' = [port EXCEPT !.state = status]

CommitState(status) ==
    CASE status = "PLAYING" -> IF IsCandidate THEN Defers("PLAYING") ELSE Shows("PLAYING")
      [] status = "PAUSED" -> IF ~port.play /\ port.pending = None /\ port.state # "STOPPED"
                              THEN Shows("PAUSED") ELSE UNCHANGED port
      [] status = "STOPPED" -> IF ~port.play THEN Shows("STOPPED") ELSE UNCHANGED port

Ended == [port EXCEPT !.eos = TRUE, !.play = FALSE, !.state = "STOPPED"]

CommitEos ==
    IF IsCandidate
    THEN Defers("EOS") /\ UNCHANGED stack
    ELSE IF port.current # None /\ port.play /\ ~port.eos
    THEN port' = Ended /\ Callback("ended", port.state # "STOPPED")
    ELSE UNCHANGED <<port, stack>>

(* _commit_error: the candidate, or what is playing, is rejected; its      *)
(* pipeline stays as it is.                                                *)
Failed == [port EXCEPT !.hold = "none", !.replay = FALSE, !.play = FALSE, !.pending = None,
                       !.current = None, !.direct = FALSE]

CommitError ==
    /\ port' = Failed
    /\ IF port.pending = None /\ port.current = None THEN UNCHANGED answer
       ELSE Says(port.gen, "rejected")

(* _on_pump_died tells the engine's owner; the port waits to be closed.    *)
CommitDeath == port' = [port EXCEPT !.hold = "none", !.replay = FALSE, !.play = FALSE]

Commit(kind) ==
    \/ kind = "ASYNC_DONE" /\ Accept
    \/ /\ kind \in {"PLAYING", "PAUSED", "STOPPED"}
       /\ CommitState(kind)
       /\ UNCHANGED <<native, stack, answer, faults>>
    \/ kind = "EOS" /\ CommitEos /\ UNCHANGED <<native, answer, faults>>
    \/ kind = "ERROR" /\ CommitError /\ UNCHANGED <<native, stack, faults>>
    \/ kind = "DIED" /\ CommitDeath /\ UNCHANGED <<native, stack, answer, faults>>

IsStale(e) == e.gen # port.gen

(* _on_backend_event                                                       *)
Dispatch ==
    /\ stack = <<>> /\ queue # <<>> /\ ~port.closed
    /\ queue' = Tail(queue)
    /\ UNCHANGED loads
    /\ LET e == Head(queue)
       IN \/ IsStale(e) /\ UNCHANGED <<port, native, stack, answer, faults>>
          \/ ~IsStale(e) /\ Commit(e.kind)

(* What is left of a handler after its callback, if the callback changed   *)
(* nothing under it: the deferred PLAYING, the deferred end, the           *)
(* end of the media, each published in turn.                               *)
StillIts(f) == ~port.closed /\ port.gen = f.load /\ port.current # None

Continue(rest, calls) ==
    stack' = <<[Head(stack) EXCEPT !.rest = rest, !.calls = calls]>> \o Tail(stack)
Return == stack' = Tail(stack)

Accepted(f) ==
    /\ f.rest = "accepted"
    /\ UNCHANGED answer
    /\ IF StillIts(f)
       THEN /\ port' = IF port.play /\ "PLAYING" \in port.deferred
                       THEN [port EXCEPT !.deferred = @ \ {"PLAYING"}, !.state = "PLAYING"]
                       ELSE port
            /\ Continue("played", port'.state # port.state)
       ELSE Return /\ UNCHANGED port

Played(f) ==
    /\ f.rest = "played"
    /\ UNCHANGED answer
    /\ IF StillIts(f) /\ "EOS" \in port.deferred
       THEN port' = [Ended EXCEPT !.deferred = @ \ {"EOS"}] /\ Continue("ended", port.state # "STOPPED")
       ELSE Return /\ UNCHANGED port

(* A bug: the end is told although the first listener moved on.            *)
EndOfMediaAnyway(f) ==
    /\ f.rest = "ended"
    /\ Return /\ UNCHANGED port
    /\ Says(f.load, "ended")

EndOfMedia(f) ==
    /\ f.rest = "ended"
    /\ Return /\ UNCHANGED port
    /\ IF StillIts(f) /\ port.eos THEN Says(f.load, "ended")
       ELSE UNCHANGED answer

Resume ==
    /\ stack # <<>>
    /\ LET f == Head(stack)
       IN \/ Arm(f)
          \/ /\ Accepted(f) \/ Played(f) \/ EndOfMedia(f)
             /\ UNCHANGED <<native, queue, loads, faults>>

(* The hold is over; the start may fail, which is an error of the media.   *)
Deadline ==
    /\ stack = <<>> /\ ~port.closed /\ port.hold = "armed"
    /\ \/ /\ ~port.play \/ ~port.direct
          /\ port' = [port EXCEPT !.hold = "due"]
          /\ UNCHANGED <<gst, answer, faults>>
       \/ /\ port.play /\ port.direct
          /\ Accepts("PLAYING")
          /\ port' = [port EXCEPT !.hold = "over"]
          /\ UNCHANGED answer
       \/ /\ port.play /\ port.direct
          /\ Refuses
          /\ CommitError
    /\ UNCHANGED <<late, pumping, natively, residual, queue, stack, loads>>

-----------------------------------------------------------------------------
Owner == \/ \E held \in BOOLEAN : Load(held)
         \/ Play \/ Pause \/ Stop \/ Close
Pump == (\E w \in natively : Emit(w)) \/ LateCommand \/ PumpDies

Next == Owner \/ Pump \/ Dispatch \/ Resume \/ Deadline

Spec == Init /\ [][Next]_vars

(* Every handler goes on, the event loop turns, the hold ends, and the     *)
(* pipeline gets where it was asked to go; nothing else is owed.           *)
FairSpec ==
    /\ Spec
    /\ WF_vars(Resume) /\ WF_vars(Dispatch) /\ WF_vars(Deadline) /\ WF_vars(LateCommand)
    /\ WF_vars(\E w \in natively : Emit(w))

-----------------------------------------------------------------------------
(* Whatever can make a sound is the pipeline the port owns.                *)
OneTransport == \A n \in Loads : gst[n].to # "NULL" => n = port.pipe

(* No watch is lost: each that is installed is the port's, one a command   *)
(* is about to undo, or one that is remembered as left over; and what the  *)
(* port calls its watch is installed, on its pipeline.                     *)
NoWatchIsLost ==
    /\ natively \subseteq {port.watch, late.watch} \cup residual
    /\ port.watch # None =>
         /\ port.watch \in natively
         /\ port.pipe = port.watch \/ port.closing

(* A port is closed when nothing is left of it.                            *)
ClosedIsEmpty == port.closed => natively = {} /\ pumping = "none"

(* Between handlers, a hold belongs to the source of a Direct load.        *)
HoldIsOwned ==
    stack = <<>> /\ port.hold \in {"armed", "due", "over"} => port.direct /\ port.current # None

Consistent == TypeOK /\ OneTransport /\ NoWatchIsLost /\ ClosedIsEmpty /\ HoldIsOwned

(* What _commit_state promises: PLAYING is shown of an accepted source.  It *)
(* fails: a load that is overtaken by a stop has not retired the generation*)
(* before it, whose events still count when nothing is loaded.             *)
PlayingWasAccepted ==
    port.state = "PLAYING" /\ ~port.closing /\ ~port.closed =>
      port.pipe # None /\ answer[port.pipe] \in {"accepted", "ended"}

(* No listener hears anything out of order, whatever its callbacks do: an  *)
(* end of what is not loaded any more or was not accepted, a second one, a *)
(* word about what was rejected, or PLAYING of what is loaded before the   *)
(* answer to its load.                                                     *)
WordsAreInOrder ==
    /\ \A n \in Loads : answer[n] # "astray"
    /\ port.state = "PLAYING" /\ port.pipe # None => answer[port.pipe] # "none"

(* A candidate is answered while there is a pump and a watch to hear of it,*)
(* unless its pipeline was told to stop; and what is held is started or    *)
(* given up.                                                               *)
Owed == /\ port.pending # None /\ port.pipe # None /\ port.watch = port.pipe
        /\ pumping = "alive" /\ gst[port.pipe].to # "NULL"
CandidatesAreAnswered == Owed ~> ~Owed
Waits == port.play /\ port.current # None /\ port.hold \in {"wanted", "armed", "due"}
Prerolls == port.replay /\ port.watch = port.pipe /\ gst[port.pipe].at \in {"NULL", "READY"}
            /\ gst[port.pipe].to = "PAUSED"
HeldStartsHappen ==
    Waits /\ (port.hold = "armed" \/ Prerolls) ~> ~Waits \/ pumping = "dead" \/ port.watch = None

(* What _commit_eos promises: an end that is told is one of what plays.  It*)
(* fails: the intention to play does not tell the end of a source that was *)
(* stopped from that of the same source started again.                     *)
EndsAreReal ==
    [][\A n \in Loads : answer[n] # "ended" /\ answer'[n] = "ended" => gst[n].at = "ENDED"]_vars
=============================================================================
