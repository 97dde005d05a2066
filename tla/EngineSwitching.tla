--------------------------- MODULE EngineSwitching ---------------------------
(***************************************************************************)
(* Which audio engine plays: AudioEngineSelectionCoordinator switches to   *)
(* the one the user selects, AudioEngineConvergenceCoordinator starts the  *)
(* selected one and falls back to Qt when it fails or is lost.  They act   *)
(* through AudioEngineService (what is presented), AudioTransportRouter    *)
(* (whom playback talks to), the providers (who hold an engine open), the  *)
(* settings and the lease of PlaybackService (SwitchedPlayback).           *)
(*                                                                         *)
(* A transaction is synchronous on the owner thread; it is split into the  *)
(* steps between which an engine may die.  An engine's failure is reported *)
(* from elsewhere, queued for the owner, and dropped there when it is not  *)
(* about the runtime that is active.  The router's unbind does not raise,  *)
(* so what the coordinators do when it does is left out.                   *)
(***************************************************************************)
EXTENDS SwitchedPlayback, Naturals, FiniteSets

CONSTANTS
    Engines,
    Qt,        \* AudioEngineId.QT_MULTIMEDIA, the only fallback
    MaxAsks,   \* bound on what the user asks for
    MaxDeaths, \* bound on how many runtimes die
    Faults     \* what may fail besides opening, binding, saving and loading

FaultKinds == {"close",    \* a provider cannot release its engine
               "stop",     \* the transport or the output cannot be stopped for a switch
               "release",  \* the output of a lost engine cannot be released
               "commit"}   \* the output refuses what the engine accepted

ASSUME QtAssumption     == Qt \in Engines
ASSUME FaultsAssumption == Faults \subseteq FaultKinds
ASSUME BoundsAssumption == MaxAsks \in Nat /\ MaxDeaths \in Nat
ASSUME NoneAssumption   == None \notin Engines \cup Purposes \cup Preparation

VARIABLES
    engine,    \* AudioEngineState
    saved,     \* the audio_engine_id of the settings
    bound,     \* the router's bound_engine_id
    open,      \* the providers that hold their engine
    failures,  \* the failures that are queued for the owner
    task,      \* the transaction under way, or None
    playback,  \* PlaybackService
    down,      \* the convergence coordinator is shut down
    history,   \* for the properties only
    asks

vars == <<engine, saved, bound, open, failures, task, playback, down, history, asks>>

Lifecycles == {"UNINITIALIZED", "UNAVAILABLE", "INITIALIZING", "READY", "CLOSING", "FAILED"}

EngineState == [selected : Engines, active : Engines \cup {None}, lifecycle : Lifecycles,
                target : Engines \cup {None}, fallback : Engines \cup {None}]

(* current: the provider's runtime generation is the one it was reported   *)
(* for; opening the engine and releasing it end the generation.            *)
Failure == [engine : Engines, current : BOOLEAN]

(* from: the selection to return to if a switch cannot stop the transport, *)
(* or the engine that is fallen back from.  allowed: by the output policy. *)
Steps == {"stop", "detach", "close", "open", "bind", "undo", "retire"}
Task == [op : {"start", "switch", "loss"}, step : Steps, engine : Engines,
         from : Engines \cup {None}, fallback : BOOLEAN, allowed : BOOLEAN]

ASSUME NoTaskAssumption == None \notin Task

(* dead: engines whose runtime has died and that are still held.           *)
(* unclosed: engines that are held because their release failed.           *)
(* cut: what an exception has left unfinished.                             *)
History == [dead : SUBSET Engines, unclosed : SUBSET Engines, cut : SUBSET {"lease", "loss"},
            deaths : 0..MaxDeaths]

TypeOK ==
    /\ engine \in EngineState
    /\ saved \in Engines
    /\ bound \in Engines \cup {None}
    /\ open \subseteq Engines
    /\ failures \subseteq Failure
    /\ task \in Task \cup {None}
    /\ playback \in Playback
    /\ down \in BOOLEAN
    /\ history \in History
    /\ asks \in 0..MaxAsks

Init ==
    /\ saved \in Engines
    /\ engine = [selected |-> saved, active |-> None, lifecycle |-> "UNINITIALIZED",
                 target |-> None, fallback |-> None]
    /\ bound = None /\ open = {} /\ failures = {} /\ task = None
    /\ playback \in {Silent, [Silent EXCEPT !.track = TRUE]}
    /\ down = FALSE /\ asks = 0
    /\ history = [dead |-> {}, unclosed |-> {}, cut |-> {}, deaths |-> 0]

Idle == task = None

-----------------------------------------------------------------------------
(* AudioEngineService                                                      *)

Initializing(s, e) == [s EXCEPT !.active = None, !.lifecycle = "INITIALIZING",
                                !.target = e, !.fallback = None]
Closing(s)         == [s EXCEPT !.lifecycle = "CLOSING", !.fallback = None]
MarkedReady(s, e, fallbackFrom) ==
    [s EXCEPT !.active = e, !.lifecycle = "READY", !.target = None, !.fallback = fallbackFrom]
Inactive(s, lifecycle) == [s EXCEPT !.active = None, !.lifecycle = lifecycle,
                                    !.target = None, !.fallback = None]
MarkedFailed(s)    == Inactive(s, "FAILED")
Selected(s, e)     == [s EXCEPT !.selected = e, !.target = e, !.fallback = None]
Restored(s, e)     == [s EXCEPT !.selected = e, !.fallback = None]
Aborted(s, e)      == [s EXCEPT !.selected = e, !.target = None]

(* A provider's open and close, and what they do to its queued failures    *)
Stale(e) == {IF f.engine = e THEN [f EXCEPT !.current = FALSE] ELSE f : f \in failures}

Opened(e) ==
    /\ open' = open \cup {e}
    /\ IF e \in open THEN UNCHANGED <<failures, history>>
                     ELSE /\ failures' = Stale(e)
                          /\ history' = [history EXCEPT !.dead = @ \ {e}]
Closes(e) ==
    /\ open' = open \ {e}
    /\ failures' = IF e \in open THEN Stale(e) ELSE failures
    /\ history' = [history EXCEPT !.dead = @ \ {e}, !.unclosed = @ \ {e}]
CannotClose(e) ==
    /\ "close" \in Faults /\ e \in open
    /\ history' = [history EXCEPT !.unclosed = @ \cup {e}]
    /\ UNCHANGED <<open, failures>>

-----------------------------------------------------------------------------
(* The end of a transaction, and the one automatic fallback                *)

(* A switch gives its lease back, whatever came of it.                     *)
Finish(p) == task' = None /\ playback' = IF task.op = "switch" THEN Released(p) ELSE p

(* _try_qt_fallback, for an engine that is proven to be released           *)
FallBack(s, op, failed) ==
    \/ /\ engine' = MarkedFailed(s)              \* Qt is not available
       /\ IF op = "start" THEN task' = None /\ UNCHANGED playback ELSE Finish(playback)
    \/ /\ engine' = Initializing(s, Qt)
       /\ task' = [op |-> op, step |-> "open", engine |-> Qt, from |-> failed,
                   fallback |-> TRUE, allowed |-> TRUE]
       /\ UNCHANGED playback

(* The engine of the task could not be activated, and is not held.         *)
ActivationFailed ==
    IF task.fallback \/ task.engine = Qt
    THEN engine' = MarkedFailed(engine) /\ Finish(playback)
    ELSE FallBack(engine, task.op, task.engine)

-----------------------------------------------------------------------------
(* Startup (converge_startup)                                              *)

Start ==
    /\ Idle /\ ~down /\ engine.lifecycle = "UNINITIALIZED"
    /\ LET e == engine.selected
       IN  \/ /\ engine' = Initializing(engine, e)
              /\ task' = [op |-> "start", step |-> "open", engine |-> e, from |-> None,
                          fallback |-> FALSE, allowed |-> TRUE]
              /\ UNCHANGED playback
           \/ /\ e = Qt                        \* it is not available
              /\ engine' = Inactive(engine, "UNAVAILABLE")
              /\ UNCHANGED <<task, playback>>
           \/ e # Qt /\ FallBack(engine, "start", e)
    /\ UNCHANGED <<saved, bound, open, failures, down, history, asks>>

Running == Idle /\ ~down /\ engine.lifecycle # "UNINITIALIZED"

-----------------------------------------------------------------------------
(* The user selects an engine (switch_to)                                  *)

ActiveReady(e) == engine.active = e /\ engine.lifecycle = "READY"

Asks == Running /\ asks < MaxAsks /\ asks' = asks + 1

(* It is active already, as a fallback: only the preference changes.       *)
PreferActive(e) ==
    /\ Asks /\ ActiveReady(e) /\ e # engine.selected
    /\ saved' = e
    /\ engine' = Restored(engine, e)
    /\ UNCHANGED <<bound, open, failures, task, playback, down, history>>

(* The lease, then the settings, then what is presented                    *)
BeginSwitch(e) ==
    /\ Asks /\ ~ActiveReady(e) /\ Ready(playback)
    /\ \/ /\ saved' = e
          /\ engine' = Selected(engine, e)
          /\ playback' = Leased(playback)
          /\ task' = [op |-> "switch", step |-> "stop", engine |-> e, from |-> engine.selected,
                      fallback |-> FALSE, allowed |-> TRUE]
       \/ /\ saved # e                         \* the settings cannot be saved
          /\ playback' = Released(Leased(playback))
          /\ UNCHANGED <<saved, engine, task>>
    /\ UNCHANGED <<bound, open, failures, down, history>>

At(step) == ~Idle /\ task.step = step

Then(step) == task' = [task EXCEPT !.step = step]

(* lease.controlled_stop; if it fails, the selection goes back to what it  *)
(* was, unless that cannot be saved.                                       *)
StopTransport ==
    /\ At("stop")
    /\ \/ /\ playback' = ControlledStopped(playback)
          /\ IF engine.active = None
             THEN engine' = Initializing(engine, task.engine) /\ Then("open")
             ELSE UNCHANGED engine /\ Then("detach")
          /\ UNCHANGED saved
       \/ /\ "stop" \in Faults
          /\ saved' \in {saved, task.from}
          /\ engine' = Aborted(engine, saved')
          /\ Finish(playback)
    /\ UNCHANGED <<bound, open, failures, down, history, asks>>

DetachSource ==
    /\ At("detach")
    /\ engine' = Closing(engine) /\ bound' = None /\ Then("close")
    /\ UNCHANGED <<saved, open, failures, playback, down, history, asks>>

CloseSource ==
    /\ At("close")
    /\ \/ /\ Closes(engine.active)
          /\ engine' = Initializing(engine, task.engine)
          /\ playback' = Cleared(playback)
          /\ Then("open")
       \/ /\ CannotClose(engine.active)
          /\ engine' = MarkedFailed(engine)
          /\ Finish(Cleared(playback))
    /\ UNCHANGED <<saved, bound, down, asks>>

-----------------------------------------------------------------------------
(* An engine is activated: for a switch, at startup, or as the fallback    *)

OpenEngine ==
    /\ At("open")
    /\ \/ (Opened(task.engine) /\ Then("bind") /\ UNCHANGED <<engine, playback>>)
       \/ (task.engine \notin open /\ ActivationFailed /\ UNCHANGED <<open, failures, history>>)
    /\ UNCHANGED <<saved, bound, down, asks>>

(* bind, and the volume.  Media that was stopped for a switch is prepared  *)
(* for the engine the user selected, not for a fallback.                   *)
BindEngine ==
    /\ At("bind")
    /\ \/ /\ bound' = task.engine
          /\ engine' = MarkedReady(engine, task.engine, IF task.fallback THEN task.from ELSE None)
          /\ IF task.op = "switch" /\ ~task.fallback
             THEN task' = None /\ playback' = Rehydrated(playback)
             ELSE Finish(playback)
       \/ /\ bound' = None
          /\ Then("undo")
          /\ UNCHANGED <<engine, playback>>
    /\ UNCHANGED <<saved, open, failures, down, history, asks>>

(* Mutant: what was opened is not closed when it cannot be bound.          *)
UndoBindOnly ==
    /\ At("undo") /\ ActivationFailed
    /\ UNCHANGED <<saved, bound, open, failures, down, history, asks>>

UndoOpen ==
    /\ At("undo")
    /\ \/ (Closes(task.engine) /\ ActivationFailed)
       \/ (CannotClose(task.engine) /\ engine' = MarkedFailed(engine) /\ Finish(playback))
    /\ UNCHANGED <<saved, bound, down, asks>>

-----------------------------------------------------------------------------
(* A runtime dies.  Only the hosted engines report it, Qt does not.        *)

Dies(e) ==
    /\ e # Qt /\ e \in open \ history.dead /\ history.deaths < MaxDeaths
    /\ history' = [history EXCEPT !.dead = @ \cup {e}, !.deaths = @ + 1]
    /\ failures' = IF down THEN failures ELSE failures \cup {[engine |-> e, current |-> TRUE]}
    /\ UNCHANGED <<engine, saved, bound, open, task, playback, down, asks>>

(* Mutants: the failure is handled where it is reported, not when the      *)
(* owner is idle; its generation is not compared; the shutdown is ignored. *)
HandleFailureAtOnce(f) ==
    /\ f \in failures
    /\ failures' = failures \ {f}
    /\ IF ~Idle \/ down \/ f.engine # engine.active \/ ~f.current
       THEN UNCHANGED <<bound, task, playback, history>>
       ELSE \/ /\ playback' = Lost(playback)
               /\ bound' = None
               /\ \E allowed \in BOOLEAN :
                     task' = [op |-> "loss", step |-> "retire", engine |-> f.engine,
                              from |-> None, fallback |-> FALSE, allowed |-> allowed]
               /\ UNCHANGED history
            \/ /\ "release" \in Faults /\ (playback.loaded \/ playback.accepted)
               /\ playback' = LossRaises(playback)
               /\ history' = [history EXCEPT !.cut =
                     @ \cup {"loss"} \cup (IF Rehydrating(playback) THEN {"lease"} ELSE {})]
               /\ UNCHANGED <<bound, task>>
    /\ UNCHANGED <<engine, saved, open, down, asks>>

HandleFailureOfAny(f) ==
    /\ Idle /\ f \in failures
    /\ failures' = failures \ {f}
    /\ IF down \/ f.engine # engine.active
       THEN UNCHANGED <<bound, task, playback, history>>
       ELSE \/ /\ playback' = Lost(playback)
               /\ bound' = None
               /\ \E allowed \in BOOLEAN :
                     task' = [op |-> "loss", step |-> "retire", engine |-> f.engine,
                              from |-> None, fallback |-> FALSE, allowed |-> allowed]
               /\ UNCHANGED history
            \/ /\ "release" \in Faults /\ (playback.loaded \/ playback.accepted)
               /\ playback' = LossRaises(playback)
               /\ history' = [history EXCEPT !.cut =
                     @ \cup {"loss"} \cup (IF Rehydrating(playback) THEN {"lease"} ELSE {})]
               /\ UNCHANGED <<bound, task>>
    /\ UNCHANGED <<engine, saved, open, down, asks>>

(* handle_runtime_failure, _converge_runtime_loss: playback first, then    *)
(* the router.                                                             *)
HandleFailure(f) ==
    /\ Idle /\ f \in failures
    /\ failures' = failures \ {f}
    /\ IF down \/ f.engine # engine.active \/ ~f.current
       THEN UNCHANGED <<bound, task, playback, history>>
       ELSE \/ /\ playback' = Lost(playback)
               /\ bound' = None
               /\ \E allowed \in BOOLEAN :
                     task' = [op |-> "loss", step |-> "retire", engine |-> f.engine,
                              from |-> None, fallback |-> FALSE, allowed |-> allowed]
               /\ UNCHANGED history
            \/ /\ "release" \in Faults /\ (playback.loaded \/ playback.accepted)
               /\ playback' = LossRaises(playback)
               /\ history' = [history EXCEPT !.cut =
                     @ \cup {"loss"} \cup (IF Rehydrating(playback) THEN {"lease"} ELSE {})]
               /\ UNCHANGED <<bound, task>>
    /\ UNCHANGED <<engine, saved, open, down, asks>>

Retire ==
    /\ At("retire")
    /\ \/ /\ Closes(task.engine)
          /\ IF task.allowed THEN FallBack(engine, "loss", task.engine)
                             ELSE engine' = MarkedFailed(engine) /\ Finish(playback)
       \/ (CannotClose(task.engine) /\ engine' = MarkedFailed(engine) /\ Finish(playback))
    /\ UNCHANGED <<saved, bound, down, asks>>

(* The container shuts down: no more recovery, and the engine is released. *)
Shutdown ==
    /\ Running
    /\ down' = TRUE
    /\ bound' = None
    /\ LET owner == IF bound # None THEN bound ELSE engine.active
       IN  \/ (owner = None /\ UNCHANGED <<open, failures, history>>)
           \/ (owner # None /\ (Closes(owner) \/ CannotClose(owner)))
    /\ UNCHANGED <<engine, saved, task, playback, asks>>

-----------------------------------------------------------------------------
(* Playback goes on around it                                              *)

Playing(p) == playback' = p /\ UNCHANGED <<engine, saved, bound, open, failures, task, down>>

UserPlays ==
    /\ Asks /\ ~playback.lease
    /\ (Playing(LoadAndPlay(playback)) \/ (bound # None /\ Playing(Play(playback))))
    /\ UNCHANGED history

UserStops ==
    /\ Asks /\ ~playback.lease /\ bound # None
    /\ Playing(Stop(playback)) /\ UNCHANGED history

OutputChanges ==
    /\ Asks /\ ~playback.lease /\ playback.track
    /\ Playing(Handover(playback)) /\ UNCHANGED history

(* Without an engine the load fails.                                       *)
OutputPrepared ==
    /\ Running /\ playback.prepare # None
    /\ \/ bound # None /\ Playing(Continued(playback))
       \/ \E kept \in BOOLEAN : Playing(LoadRaises(playback, kept))
       \/ \E predecessor \in Predecessors : Playing(PrepareFailed(playback, predecessor))
    /\ UNCHANGED <<history, asks>>

EngineAnswers ==
    /\ Running /\ bound # None /\ playback.loaded
    /\ \/ Playing(Rejected(playback)) /\ UNCHANGED history
       \/ /\ Playing(Accepted(playback))
          /\ history' = [history EXCEPT !.cut =
                 @ \cup IF playback.resume /\ playback.lease THEN {"lease"} ELSE {}]
       \/ /\ "commit" \in Faults
          /\ Playing(CommitRefused(playback))
          /\ history' = [history EXCEPT !.cut =
                 @ \cup IF Rehydrating(playback) THEN {"lease"} ELSE {}]
    /\ UNCHANGED asks

(* The timer of a rehydration is armed when its media has been loaded.     *)
RehydrationTimesOut ==
    /\ Running /\ Rehydrating(playback) /\ playback.loaded
    /\ Playing(RehydrationOver(playback)) /\ UNCHANGED <<history, asks>>

(* The engine plays, or it comes to the end.                               *)
EnginePlays ==
    /\ Running /\ bound # None /\ playback.intent /\ playback.accepted
    /\ Playing([playback EXCEPT !.playing = ~@]) /\ UNCHANGED <<history, asks>>

-----------------------------------------------------------------------------

Step == StopTransport \/ DetachSource \/ CloseSource \/ OpenEngine \/ BindEngine
        \/ UndoOpen \/ Retire

Next ==
    \/ Start
    \/ \E e \in Engines : PreferActive(e) \/ BeginSwitch(e) \/ Dies(e)
    \/ Step
    \/ \E f \in failures : HandleFailure(f)
    \/ Shutdown
    \/ UserPlays \/ UserStops \/ OutputChanges
    \/ OutputPrepared \/ EngineAnswers \/ RehydrationTimesOut \/ EnginePlays

(* The steps of a transaction are one call; the owner's queue, the output's*)
(* worker and the timer are served.  Whether the engine answers, the user  *)
(* asks or something dies is not assumed.                                  *)
Fairness ==
    /\ WF_vars(Start) /\ WF_vars(Step)
    /\ WF_vars(\E f \in failures : HandleFailure(f))
    /\ WF_vars(OutputPrepared) /\ WF_vars(RehydrationTimesOut)

Spec == Init /\ [][Next]_vars /\ Fairness

-----------------------------------------------------------------------------
(* Correctness                                                             *)

(* Playback is never connected to an engine that has been released, at any *)
(* step of any transaction (SWITCH ORDER: detach before close).            *)
BoundIsOpen == bound # None => bound \in open

(* At most one engine is held open, apart from those whose own release     *)
(* failed: a switch, a fallback and a start never overlap.                 *)
OneEngine == Cardinality(open \ history.unclosed) <= 1

(* Between transactions the lease is held for a rehydration only, which    *)
(* retains it through its terminal outcome; meanwhile nothing plays and    *)
(* nothing is meant to.                                                    *)
LeaseIsOwned ==
    (Idle /\ playback.lease) => Rehydrating(playback) /\ ~playback.intent /\ ~playback.playing

(* The same, unless an exception left the lease behind.                    *)
LeaseIsBacked == "lease" \notin history.cut => LeaseIsOwned

(* The switch, whatever it is interrupted by, keeps to one engine that is  *)
(* open for as long as playback may call it, and its lease has an owner.   *)
Consistent == TypeOK /\ BoundIsOpen /\ OneEngine /\ LeaseIsBacked

(* An engine that is presented as ready has not died, or its death is      *)
(* still to be handled: a READY engine is genuinely operational.  What its *)
(* provider has failed to release before is left out.                      *)
ReadyIsAlive ==
    (Idle /\ ~down /\ engine.lifecycle = "READY" /\ engine.active \notin history.unclosed) =>
        \/ engine.active \notin history.dead
        \/ [engine |-> engine.active, current |-> TRUE] \in failures

(* Between transactions what is presented is what is the case: the active  *)
(* engine is the one playback is connected to, it is ready, nothing is     *)
(* announced to be under way, the selection is the saved one, and what     *)
(* stands in for another engine is Qt; it is alive, unless an exception    *)
(* cut the handling of its loss short.  After the shutdown, which a late   *)
(* report of a failure does not undo, nothing is open but what could not   *)
(* be released.                                                            *)
RestIsTruthful ==
    /\ (Idle /\ ~down) =>
        /\ engine.active = bound
        /\ (engine.lifecycle = "READY") <=> (bound # None)
        /\ engine.target = None
        /\ engine.selected = saved
        /\ engine.fallback # None => engine.active = Qt /\ engine.fallback # Qt
    /\ "loss" \notin history.cut => ReadyIsAlive
    /\ down => open \subseteq history.unclosed

(* The target is never opened before the source is closed.                 *)
MaxOneOpen == Cardinality(open) <= 1

(* An engine loses its connection outside of a switch, a start or the      *)
(* shutdown only because its own runtime has died, never by a late report  *)
(* about an earlier one.                                                   *)
OnlyTheDeadAreDropped ==
    [][(Idle /\ bound # None /\ bound' = None) => (down' \/ bound \in history.dead)]_vars

(* Every lease ends: a switch is over, and the preparation of its media is *)
(* accepted, rejected, cancelled or times out.                             *)
LeaseEnds == playback.lease ~> (~playback.lease \/ "lease" \in history.cut \/ down)

=============================================================================
