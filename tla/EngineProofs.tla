----------------------------- MODULE EngineProofs -----------------------------
(***************************************************************************)
(* The inductive invariant of the engine switch, for any engines, requests *)
(* and deaths and whatever may fail; from it, that one engine is held and  *)
(* playback is never left with another, that what is presented between     *)
(* transactions is what is the case, that the lease has an owner, and that *)
(* only an engine that died is dropped.                                    *)
(***************************************************************************)
EXTENDS EngineSwitching, FiniteSetTheorems, TLAPS

(* Playback is connected to what was presented when the transaction began. *)
Steady == Idle \/ At("stop") \/ At("detach")

(* The engine in hand at each step.                                        *)
Held == IF Steady THEN bound
        ELSE IF At("close") THEN engine.active
        ELSE IF At("open") THEN None
        ELSE task.engine

(* Nothing else is held but what could not be released.                    *)
Holding ==
    /\ open \ history.unclosed \subseteq {Held}
    /\ Held # None => Held \in open

Presented ==
    /\ Steady /\ ~down => /\ engine.active = bound
                          /\ engine.lifecycle = "READY" <=> bound # None
    /\ ~Steady => bound = None
    /\ At("detach") => bound # None
    /\ At("close") => engine.active # None
    /\ down => Idle /\ bound = None

(* What stands in for another engine is Qt.                                *)
Preferred ==
    /\ engine.selected = saved
    /\ Idle => engine.target = None
    /\ engine.fallback # None => engine.active = Qt /\ engine.fallback # Qt
    /\ ~Idle /\ task.fallback => task.engine = Qt /\ task.from \in Engines \ {Qt}
    /\ At("retire") => task.op = "loss" /\ task.engine # Qt
    /\ At("stop") => task.op = "switch" /\ task.from \in Engines

(* A failure is about a runtime that died and is still held; a death is    *)
(* reported, unless it is being handled or the handling was cut short.     *)
Report(e) == [engine |-> e, current |-> TRUE]

ReportedBut(x) ==
    /\ \A f \in failures : /\ f.engine # Qt
                           /\ f.current => f.engine \in open \cap history.dead
    /\ "loss" \notin history.cut =>
           \A e \in (open \ history.unclosed) \cap history.dead : e = x \/ Report(e) \in failures

Reported == ReportedBut(IF At("retire") THEN task.engine ELSE None)

(* The lease is that of a switch, or of the rehydration it ended in.       *)
ForRehydration(p) ==
    /\ Rehydrating(p) /\ ~p.intent /\ ~p.playing
    /\ p.prepare # None => p.prepare.purpose = "ENGINE_SWITCH_REHYDRATION"

Leases ==
    /\ "lease" \notin history.cut =>
           /\ Idle /\ playback.lease => ForRehydration(playback)
           /\ ~Idle /\ task.op # "switch" => ~playback.lease
    /\ ~Idle /\ task.op = "switch" /\ task.step # "stop" => ~playback.intent /\ ~playback.playing
    /\ engine.lifecycle = "UNINITIALIZED" => ~playback.lease

IInv == TypeOK /\ Holding /\ Presented /\ Preferred /\ Reported /\ Leases

-----------------------------------------------------------------------------
(* Types                                                                   *)

(* What is prepared is for a purpose.                                      *)
LEMMA PreparationIs ==
    ASSUME NEW p \in Playback, NEW purpose \in Purposes
    PROVE  /\ Preparing(p, purpose) \in Preparation /\ Preparing(p, purpose) # None
           /\ Preparing(p, purpose).purpose = purpose
<1>1. Preparing(p, purpose) \in Preparation
    BY DEF Preparing, Preparation, Playback
<1> QED
    BY <1>1, NoneAssumption DEF Preparing

LEMMA PurposesAre == /\ "USER_PLAY" \in Purposes /\ "OUTPUT_HANDOVER" \in Purposes
                     /\ "ENGINE_SWITCH_REHYDRATION" \in Purposes /\ None \notin Purposes
    BY NoneAssumption DEF Purposes

(* What clears the request clears what goes with it.                       *)
LEMMA ClearedIs ==
    ASSUME NEW p \in Playback
    PROVE  /\ Cleared(p) \in Playback /\ Cleared(p).lease = p.lease
           /\ Cleared(p).request = None /\ Cleared(p).prepare = None
           /\ ~Cleared(p).intent /\ Cleared(p).playing = p.playing
<1>1. Cleared(p) \in Playback
    BY DEF Cleared, Playback
<1> QED
    BY <1>1 DEF Cleared, Playback

LEMMA ReleasedIs ==
    ASSUME NEW p \in Playback
    PROVE  /\ Released(p) \in Playback /\ ~Released(p).lease
           /\ ControlledStopped(p) \in Playback /\ ControlledStopped(p).lease = p.lease
           /\ ~ControlledStopped(p).intent /\ ~ControlledStopped(p).playing
    BY DEF Released, ControlledStopped, Playback

LEMMA LostIs ==
    ASSUME NEW p \in Playback
    PROVE  /\ RehydrationOver(p) \in Playback /\ ~RehydrationOver(p).lease
           /\ LossRaises(p) \in Playback /\ LossRaises(p).lease = p.lease
           /\ Lost(p) \in Playback /\ (Rehydrating(p) \/ ~p.lease => ~Lost(p).lease)
           /\ (~Rehydrating(p) => Lost(p).lease = p.lease)
<1>1. Cleared(p) \in Playback /\ Cleared(p).lease = p.lease
    BY ClearedIs
<1> DEFINE c == Cleared(p)
<1>2. c \in Playback /\ c.lease = p.lease
    BY <1>1
<1>3. RehydrationOver(p) = [c EXCEPT !.playing = FALSE, !.lease = FALSE]
      /\ LossRaises(p) = [c EXCEPT !.playing = FALSE]
    BY DEF RehydrationOver, LossRaises
<1>4. p.lease \in BOOLEAN
    BY DEF Playback
<1> HIDE DEF c
<1>5. RehydrationOver(p) \in Playback /\ ~RehydrationOver(p).lease
    BY <1>2, <1>3 DEF Playback
<1>6. LossRaises(p) \in Playback /\ LossRaises(p).lease = p.lease
    BY <1>2, <1>3 DEF Playback
<1>7. PICK m \in Playback : m = LossRaises(p)
    BY <1>6
<1>8. PICK b \in BOOLEAN : b = (~Rehydrating(p) /\ m.lease)
    OBVIOUS
<1>9. Lost(p) = [m EXCEPT !.lease = b]
    BY <1>7, <1>8 DEF Lost
<1>10. Lost(p) \in Playback /\ Lost(p).lease = b
    BY <1>9 DEF Playback
<1> QED
    BY <1>4, <1>5, <1>6, <1>7, <1>8, <1>10

LEMMA LeasedIs ==
    ASSUME NEW p \in Playback
    PROVE  Leased(p) \in Playback
<1>1. RehydrationOver(p) \in Playback
    BY LostIs
<1>2. PICK q \in Playback : Leased(p) = [q EXCEPT !.lease = TRUE]
    BY <1>1 DEF Leased
<1> QED
    BY <1>2 DEF Playback

(* The lease of a switch ends, or goes over to the rehydration.            *)
LEMMA RehydratedIs ==
    ASSUME NEW p \in Playback
    PROVE  /\ Rehydrated(p) \in Playback
           /\ ~p.intent /\ ~p.playing /\ Rehydrated(p).lease => ForRehydration(Rehydrated(p))
<1> DEFINE r == "ENGINE_SWITCH_REHYDRATION"
           q == Preparing(p, r)
           n == [p EXCEPT !.request = r, !.prepare = q]
<1>1. CASE p.track
    <2>1. Rehydrated(p) = n
        BY <1>1 DEF Rehydrated
    <2>2. r \in Purposes /\ q \in Preparation /\ q.purpose = r
        BY PreparationIs, PurposesAre
    <2> HIDE DEF q
    <2>3. n \in Playback /\ n.request = r /\ n.prepare = q /\ n.intent = p.intent
          /\ n.playing = p.playing
        BY <2>2 DEF Playback
    <2> QED
        BY <2>1, <2>2, <2>3 DEF ForRehydration, Rehydrating
<1>2. CASE ~p.track
    BY <1>2, ReleasedIs DEF Rehydrated
<1> QED
    BY <1>1, <1>2

(* What the user asks for keeps the lease, and takes nobody else's.        *)
LEMMA AskedIs ==
    ASSUME NEW p \in Playback
    PROVE  /\ LoadAndPlay(p) \in Playback /\ LoadAndPlay(p).lease = p.lease
           /\ Handover(p) \in Playback /\ Handover(p).lease = p.lease
           /\ Play(p) \in Playback /\ Play(p).lease = p.lease
           /\ Stop(p) \in Playback /\ Stop(p).lease = p.lease
<1>1. LoadAndPlay(p) \in Playback /\ LoadAndPlay(p).lease = p.lease
    <2> DEFINE q == Preparing(p, "USER_PLAY")
    <2>1. q \in Preparation /\ "USER_PLAY" \in Purposes
        BY PreparationIs, PurposesAre
    <2>2. LoadAndPlay(p) = [p EXCEPT !.request = "USER_PLAY", !.prepare = q,
                                     !.loaded = FALSE, !.intent = TRUE]
        BY DEF LoadAndPlay
    <2> HIDE DEF q
    <2> QED
        BY <2>1, <2>2 DEF Playback
<1>2. Handover(p) \in Playback /\ Handover(p).lease = p.lease
    <2> DEFINE q == Preparing(p, "OUTPUT_HANDOVER")
    <2>1. q \in Preparation
        BY PreparationIs, PurposesAre
    <2>2. Handover(p) = [p EXCEPT !.prepare = q]
        BY DEF Handover
    <2> HIDE DEF q
    <2> QED
        BY <2>1, <2>2 DEF Playback
<1>3. [p EXCEPT !.intent = TRUE] \in Playback /\ [p EXCEPT !.intent = TRUE].lease = p.lease
    BY DEF Playback
<1>4. Stop(p) \in Playback /\ Stop(p).lease = p.lease
    <2> DEFINE c == Cleared(p)
    <2>1. c \in Playback /\ c.lease = p.lease /\ p.accepted \in BOOLEAN
        BY ClearedIs DEF Playback
    <2>2. Stop(p) = [c EXCEPT !.playing = FALSE, !.accepted = p.accepted]
        BY DEF Stop
    <2> HIDE DEF c
    <2> QED
        BY <2>1, <2>2 DEF Playback
<1> QED
    BY <1>1, <1>2, <1>3, <1>4 DEF Play

(* The prepared output is loaded, for the purpose it was prepared for.     *)
LEMMA ContinuedIs ==
    ASSUME NEW p \in Playback, p.prepare # None
    PROVE  /\ Continued(p) \in Playback /\ Continued(p).lease = p.lease
           /\ Continued(p).request = p.prepare.purpose /\ Continued(p).prepare = None
           /\ p.prepare.purpose # "USER_PLAY" => Continued(p).intent = p.intent
           /\ ~Continued(p).playing
<1> DEFINE q == p.prepare
           i == (q.purpose = "USER_PLAY" \/ p.intent)
           r == CASE q.purpose = "USER_PLAY"       -> FALSE
                  [] q.purpose = "OUTPUT_HANDOVER" -> q.playing
                  [] OTHER                         -> p.resume
           n == [p EXCEPT !.request = q.purpose, !.prepare = None, !.loaded = TRUE,
                          !.accepted = FALSE, !.playing = FALSE, !.intent = i, !.resume = r]
<1>1. q \in Preparation
    BY DEF Playback
<1>2. q.purpose \in Purposes /\ q.playing \in BOOLEAN /\ p.resume \in BOOLEAN /\ p.intent \in BOOLEAN
    BY <1>1 DEF Playback, Preparation
<1>3. r \in BOOLEAN
    BY <1>2
<1>4. i \in BOOLEAN
    OBVIOUS
<1>5. Continued(p) = n
    BY DEF Continued
<1>6. p.prepare.purpose # "USER_PLAY" => i = p.intent
    BY <1>2
<1> HIDE DEF r, i
<1>7. n \in Playback
    BY <1>2, <1>3, <1>4 DEF Playback
<1>8. /\ n.lease = p.lease /\ n.request = q.purpose /\ n.prepare = None /\ n.intent = i
      /\ ~n.playing
    BY DEF Playback
<1> QED
    BY <1>5, <1>6, <1>7, <1>8

LEMMA LoadRaisesIs ==
    ASSUME NEW p \in Playback, p.prepare # None, NEW kept \in BOOLEAN
    PROVE  /\ LoadRaises(p, kept) \in Playback
           /\ LoadRaises(p, kept).lease => p.lease /\ ~Rehydrating(p)
<1> DEFINE q == p.prepare
           a == (kept /\ q.accepted)
           b == IF q.purpose = "USER_PLAY" THEN kept /\ q.intent ELSE Continued(p).intent
           c == (kept /\ q.purpose # "ENGINE_SWITCH_REHYDRATION" /\ p.playing)
           d == (~Rehydrating(p) /\ Continued(p).lease)
<1>1. PICK m \in Playback : m = Continued(p) /\ m.lease = p.lease
    BY ContinuedIs
<1>2. q \in Preparation
    BY DEF Playback
<1>3. a \in BOOLEAN /\ c \in BOOLEAN /\ d \in BOOLEAN
    OBVIOUS
<1>4. b \in BOOLEAN
    BY <1>1, <1>2 DEF Playback, Preparation
<1>5. LoadRaises(p, kept) = [m EXCEPT !.request = None, !.loaded = FALSE, !.accepted = a,
                                      !.intent = b, !.playing = c, !.lease = d]
    BY <1>1 DEF LoadRaises
<1>6. d => p.lease /\ ~Rehydrating(p)
    BY <1>1
<1> HIDE DEF a, b, c, d
<1> QED
    BY <1>3, <1>4, <1>5, <1>6 DEF Playback

LEMMA PrepareFailedIs ==
    ASSUME NEW p \in Playback, p.prepare # None, NEW predecessor
    PROVE  /\ PrepareFailed(p, predecessor) \in Playback
           /\ PrepareFailed(p, predecessor).lease => p.lease
           /\ p.prepare.purpose = "ENGINE_SWITCH_REHYDRATION"
                 => ~PrepareFailed(p, predecessor).lease
<1> DEFINE q == p.prepare
           over == [p EXCEPT !.request = None, !.prepare = None]
<1>1. q \in Preparation
    BY DEF Playback
<1>2. q.purpose \in Purposes /\ q.intent \in BOOLEAN /\ q.accepted \in BOOLEAN /\ q.playing \in BOOLEAN
    BY <1>1 DEF Preparation
<1>3. over \in Playback /\ over.lease = p.lease
    BY DEF Playback
<1>4. CASE q.purpose = "OUTPUT_HANDOVER"
    <2>1. PrepareFailed(p, predecessor) =
             [p EXCEPT !.prepare = None, !.resume = FALSE, !.intent = q.intent,
                       !.accepted = q.accepted, !.playing = q.playing]
        BY <1>4 DEF PrepareFailed
    <2> QED
        BY <1>2, <1>4, <2>1 DEF Playback
<1>5. CASE q.purpose = "ENGINE_SWITCH_REHYDRATION"
    <2>1. PrepareFailed(p, predecessor) = [over EXCEPT !.playing = FALSE, !.lease = FALSE]
        BY <1>5 DEF PrepareFailed
    <2> HIDE DEF over
    <2> QED
        BY <1>3, <2>1 DEF Playback
<1>6. CASE q.purpose = "USER_PLAY"
    <2>1. \/ PrepareFailed(p, predecessor) = over
          \/ PrepareFailed(p, predecessor) =
                [over EXCEPT !.intent = q.intent, !.accepted = q.accepted]
          \/ PrepareFailed(p, predecessor) =
                [over EXCEPT !.intent = FALSE, !.accepted = FALSE, !.playing = FALSE]
        <3>1. CASE predecessor = "kept"
            BY <1>6, <3>1 DEF PrepareFailed
        <3>2. CASE predecessor = "released"
            BY <1>6, <3>2 DEF PrepareFailed
        <3>3. CASE predecessor # "kept" /\ predecessor # "released"
            BY <1>6, <3>3 DEF PrepareFailed
        <3> QED
            BY <3>1, <3>2, <3>3
    <2> HIDE DEF over
    <2> QED
        BY <1>2, <1>3, <1>6, <2>1 DEF Playback
<1> QED
    BY <1>2, <1>4, <1>5, <1>6 DEF Purposes

(* The verdict about a rehydration gives the lease back, unless an         *)
(* exception cuts it short.                                                *)
LEMMA AcceptedIs ==
    ASSUME NEW p \in Playback
    PROVE  /\ Accepted(p) \in Playback
           /\ Accepted(p).lease => p.lease /\ (p.resume \/ ~Rehydrating(p))
<1> DEFINE over == [p EXCEPT !.request = None, !.loaded = FALSE, !.track = TRUE,
                             !.accepted = TRUE, !.resume = FALSE]
<1>1. over \in Playback /\ over.lease = p.lease
    BY DEF Playback
<1>2. PICK o \in Playback : o = over
    BY <1>1
<1>3. CASE p.resume /\ p.lease
    BY <1>1, <1>3 DEF Accepted
<1>4. CASE p.resume /\ ~p.lease
    <2>1. Accepted(p) = Play(o)
        BY <1>2, <1>4 DEF Accepted
    <2>2. Play(o) \in Playback /\ Play(o).lease = o.lease
        BY AskedIs
    <2> QED
        BY <1>1, <1>2, <1>4, <2>1, <2>2
<1>5. CASE ~p.resume
    <2>1. PICK b \in BOOLEAN : b = (~Rehydrating(p) /\ o.lease)
        OBVIOUS
    <2>2. Accepted(p) = [o EXCEPT !.lease = b]
        BY <1>2, <1>5, <2>1 DEF Accepted
    <2>3. Accepted(p) \in Playback /\ Accepted(p).lease = b
        BY <2>2 DEF Playback
    <2> QED
        BY <1>1, <1>2, <2>1, <2>3
<1> QED
    BY <1>3, <1>4, <1>5

LEMMA RefusedIs ==
    ASSUME NEW p \in Playback
    PROVE  /\ CommitRefused(p) \in Playback /\ CommitRefused(p).lease = p.lease
           /\ Rejected(p) \in Playback
           /\ Rejected(p).lease => p.lease /\ ~Rehydrating(p)
<1>1. PICK c \in Playback : c = Cleared(p) /\ c.lease = p.lease
    BY ClearedIs
<1>2. CommitRefused(p) = [c EXCEPT !.prepare = p.prepare, !.playing = FALSE]
    BY <1>1 DEF CommitRefused
<1>3. p.prepare \in Preparation \cup {None}
    BY DEF Playback
<1>4. CommitRefused(p) \in Playback /\ CommitRefused(p).lease = p.lease
    BY <1>1, <1>2, <1>3 DEF Playback
<1>5. PICK m \in Playback : m = CommitRefused(p) /\ m.lease = p.lease
    BY <1>4
<1>6. PICK b \in BOOLEAN : b = (~Rehydrating(p) /\ m.lease)
    OBVIOUS
<1>7. Rejected(p) = [m EXCEPT !.lease = b]
    BY <1>5, <1>6 DEF Rejected
<1>8. Rejected(p) \in Playback /\ Rejected(p).lease = b
    BY <1>7 DEF Playback
<1> QED
    BY <1>4, <1>5, <1>6, <1>8

(* What is presented stays well typed.                                     *)
LEMMA EngineTypes ==
    ASSUME NEW s \in EngineState, NEW e \in Engines, NEW f \in Engines \cup {None},
           NEW l \in Lifecycles
    PROVE  /\ Initializing(s, e) \in EngineState /\ Closing(s) \in EngineState
           /\ MarkedReady(s, e, f) \in EngineState /\ Inactive(s, l) \in EngineState
           /\ Selected(s, e) \in EngineState /\ Restored(s, e) \in EngineState
           /\ Aborted(s, e) \in EngineState
<1>1. {"READY", "INITIALIZING", "CLOSING"} \subseteq Lifecycles
    BY DEF Lifecycles
<1>2. Initializing(s, e) \in EngineState
    BY <1>1 DEF Initializing, EngineState
<1>3. Closing(s) \in EngineState
    BY <1>1 DEF Closing, EngineState
<1>4. MarkedReady(s, e, f) \in EngineState
    BY <1>1 DEF MarkedReady, EngineState
<1>5. Inactive(s, l) \in EngineState
    BY <1>1 DEF Inactive, EngineState
<1>6. Selected(s, e) \in EngineState /\ Restored(s, e) \in EngineState /\ Aborted(s, e) \in EngineState
    BY DEF Selected, Restored, Aborted, EngineState
<1> QED
    BY <1>2, <1>3, <1>4, <1>5, <1>6

-----------------------------------------------------------------------------
(* Who holds an engine                                                     *)

(* What opening and closing may do is keep this.                           *)
Hosts(e, x) ==
    /\ open \subseteq Engines /\ failures \subseteq Failure /\ history \in History
    /\ open \ history.unclosed \subseteq {e}
    /\ ReportedBut(x)

LEMMA StaleIs ==
    ASSUME failures \subseteq Failure, NEW e \in Engines
    PROVE  /\ Stale(e) \subseteq Failure
           /\ \A g \in Stale(e) : /\ \E f \in failures : g.engine = f.engine
                                  /\ g.current => g.engine # e /\ g \in failures
           /\ \A f \in failures : f.engine # e => f \in Stale(e)
<1>1. \A f \in failures : /\ [f EXCEPT !.current = FALSE] \in Failure
                          /\ [f EXCEPT !.current = FALSE].engine = f.engine
                          /\ ~[f EXCEPT !.current = FALSE].current
    BY DEF Failure
<1>2. \A g \in Stale(e) : \E f \in failures :
          g = IF f.engine = e THEN [f EXCEPT !.current = FALSE] ELSE f
    BY DEF Stale
<1>3. \A f \in failures : f.engine # e => f \in Stale(e)
    BY DEF Stale
<1> QED
    BY <1>1, <1>2, <1>3

(* An engine that is released is not held, and no failure of it is current.*)
LEMMA ClosesIs ==
    ASSUME NEW e \in Engines, NEW x \in {e, None}, Hosts(e, x), e \in open, Closes(e)
    PROVE  Hosts(None, None)' /\ history'.cut = history.cut
<1>1. /\ open' = open \ {e} /\ failures' = Stale(e)
      /\ history' = [history EXCEPT !.dead = @ \ {e}, !.unclosed = @ \ {e}]
    BY DEF Closes
<1>2. /\ history' \in History /\ history'.dead = history.dead \ {e}
      /\ history'.unclosed = history.unclosed \ {e} /\ history'.cut = history.cut
    BY <1>1 DEF Hosts, History
<1>3. open' \ history'.unclosed \subseteq {}
    BY <1>1, <1>2 DEF Hosts
<1>4. ReportedBut(None)'
    <2>1. ASSUME NEW f \in failures'
          PROVE  f.engine # Qt /\ (f.current => f.engine \in open' \cap history'.dead)
        BY <1>1, <1>2, <2>1, StaleIs DEF Hosts, ReportedBut
    <2> QED
        BY <1>1, <1>2, <1>3, <2>1 DEF ReportedBut
<1> QED
    BY <1>1, <1>2, <1>3, <1>4, StaleIs DEF Hosts

(* One that cannot be released is held, and known for it.                  *)
LEMMA CannotCloseIs ==
    ASSUME NEW e \in Engines, NEW x \in {e, None}, Hosts(e, x), CannotClose(e)
    PROVE  Hosts(None, None)' /\ history'.cut = history.cut
<1>1. /\ open' = open /\ failures' = failures
      /\ history' = [history EXCEPT !.unclosed = @ \cup {e}]
    BY DEF CannotClose
<1>2. /\ history' \in History /\ history'.dead = history.dead
      /\ history'.unclosed = history.unclosed \cup {e} /\ history'.cut = history.cut
    BY <1>1 DEF Hosts, History
<1>3. open' \ history'.unclosed \subseteq {}
    BY <1>1, <1>2 DEF Hosts
<1>4. ReportedBut(None)'
    BY <1>1, <1>2, <1>3 DEF Hosts, ReportedBut
<1> QED
    BY <1>1, <1>2, <1>3, <1>4 DEF Hosts

(* An engine is opened when no other is held.                              *)
LEMMA OpenedIs ==
    ASSUME NEW e \in Engines, Hosts(None, None), Opened(e)
    PROVE  Hosts(e, None)' /\ e \in open' /\ history'.cut = history.cut
<1>0. None \notin Engines
    BY NoneAssumption
<1>1. CASE e \in open
    <2>1. open' = open /\ failures' = failures /\ history' = history
        BY <1>1 DEF Opened
    <2> QED
        BY <1>0, <1>1, <2>1 DEF Hosts, ReportedBut
<1>2. CASE e \notin open
    <2>1. /\ open' = open \cup {e} /\ failures' = Stale(e)
          /\ history' = [history EXCEPT !.dead = @ \ {e}]
        BY <1>2 DEF Opened
    <2>2. /\ history' \in History /\ history'.dead = history.dead \ {e}
          /\ history'.unclosed = history.unclosed /\ history'.cut = history.cut
        BY <2>1 DEF Hosts, History
    <2>3. open' \ history'.unclosed \subseteq {e}
        BY <1>0, <2>1, <2>2 DEF Hosts
    <2>4. ASSUME NEW f \in failures'
          PROVE  f.engine # Qt /\ (f.current => f.engine \in open' \cap history'.dead)
        BY <2>1, <2>2, <2>4, StaleIs DEF Hosts, ReportedBut
    <2>5. ReportedBut(None)'
        BY <2>2, <2>3, <2>4 DEF ReportedBut
    <2> QED
        BY <2>1, <2>2, <2>3, <2>5, StaleIs DEF Hosts
<1> QED
    BY <1>1, <1>2

LEMMA HostsUnchanged ==
    ASSUME NEW e, NEW x, Hosts(e, x), UNCHANGED <<open, failures, history>>
    PROVE  Hosts(e, x)'
    BY DEF Hosts, ReportedBut

(* The invariant, at a step of a transaction with the engine in hand.      *)
LEMMA InHand ==
    ASSUME TypeOK, Holding, Reported
    PROVE  Hosts(Held, IF At("retire") THEN task.engine ELSE None)
    BY DEF TypeOK, Holding, Reported, Hosts

-----------------------------------------------------------------------------
(* The steps of a transaction                                              *)

LEMMA InitIInv == Init => IInv
<1> SUFFICES ASSUME Init PROVE IInv
    OBVIOUS
<1>0. None \notin Engines /\ None \notin Purposes
    BY NoneAssumption
<1>1. engine \in EngineState
    BY DEF Init, EngineState, Lifecycles
<1>2. playback \in Playback /\ ~playback.lease
    <2>1. Silent \in Playback /\ ~Silent.lease
        BY DEF Silent, Playback
    <2> HIDE DEF Silent
    <2>2. [Silent EXCEPT !.track = TRUE] \in Playback /\ ~[Silent EXCEPT !.track = TRUE].lease
        BY <2>1 DEF Playback
    <2> QED
        BY <2>1, <2>2 DEF Init
<1>3. history \in History /\ asks \in 0..MaxAsks /\ history.dead = {} /\ history.unclosed = {}
    BY BoundsAssumption DEF Init, History
<1>4. TypeOK
    BY <1>1, <1>2, <1>3 DEF Init, TypeOK
<1>5. Idle /\ Steady /\ Held = None /\ ~At("detach") /\ ~At("close") /\ ~At("retire") /\ ~At("stop")
    BY DEF Init, Idle, Steady, Held, At
<1>6. Holding /\ Presented /\ Preferred /\ Reported
    BY <1>3, <1>5 DEF Init, Holding, Presented, Preferred, Reported, ReportedBut
<1>7. Leases
    BY <1>2, <1>5 DEF Leases
<1> QED
    BY <1>4, <1>6, <1>7 DEF IInv

(* The transaction is over and no engine is active.                        *)
LEMMA FailedKeeps ==
    ASSUME NEW s \in EngineState, NEW l \in Lifecycles, l # "READY",
           s.selected = saved', engine' = Inactive(s, l),
           task' = None, bound' = None, ~down', down' \in BOOLEAN, saved' \in Engines,
           asks' \in 0..MaxAsks, playback' \in Playback, Hosts(None, None)',
           "lease" \notin history'.cut => ~playback'.lease,
           l = "UNINITIALIZED" => ~playback'.lease
    PROVE  IInv'
<1>1. /\ engine' \in EngineState /\ engine'.selected = saved' /\ engine'.active = None
      /\ engine'.lifecycle = l /\ engine'.target = None /\ engine'.fallback = None
    BY EngineTypes, NoneAssumption DEF Inactive, EngineState
<1>2. TypeOK'
    BY <1>1 DEF TypeOK, Hosts
<1>3. Idle' /\ Steady' /\ Held' = None /\ ~At("detach")' /\ ~At("close")' /\ ~At("retire")' /\ ~At("stop")'
    BY DEF Idle, Steady, Held, At
<1>4. Holding' /\ Presented' /\ Preferred'
    BY <1>1, <1>3 DEF Holding, Presented, Preferred, Hosts
<1>5. Reported'
    BY <1>3 DEF Reported, Hosts
<1>6. Leases'
    BY <1>1, <1>3 DEF Leases
<1> QED
    BY <1>2, <1>4, <1>5, <1>6 DEF IInv

(* The next engine is about to be opened, and none is held.                *)
LEMMA OpensKeeps ==
    ASSUME NEW s \in EngineState, NEW e \in Engines, s.selected = saved',
           engine' = Initializing(s, e),
           task' \in Task, task'.step = "open",
           task'.fallback => task'.engine = Qt /\ task'.from \in Engines \ {Qt},
           bound' = None, ~down', down' \in BOOLEAN, saved' \in Engines,
           asks' \in 0..MaxAsks, playback' \in Playback, Hosts(None, None)',
           "lease" \notin history'.cut /\ task'.op # "switch" => ~playback'.lease,
           task'.op = "switch" => ~playback'.intent /\ ~playback'.playing
    PROVE  IInv'
<1>1. /\ engine' \in EngineState /\ engine'.selected = saved' /\ engine'.active = None
      /\ engine'.lifecycle = "INITIALIZING" /\ engine'.fallback = None
    BY EngineTypes, NoneAssumption DEF Initializing, EngineState
<1>2. TypeOK'
    BY <1>1 DEF TypeOK, Hosts
<1>3. /\ ~Idle' /\ ~Steady' /\ Held' = None /\ ~At("detach")' /\ ~At("close")'
      /\ ~At("retire")' /\ ~At("stop")'
    BY NoTaskAssumption DEF Idle, Steady, Held, At
<1>4. Holding' /\ Presented' /\ Preferred'
    BY <1>1, <1>3 DEF Holding, Presented, Preferred, Hosts
<1>5. Reported'
    BY <1>3 DEF Reported, Hosts
<1>6. Leases'
    BY <1>1, <1>3 DEF Leases
<1> QED
    BY <1>2, <1>4, <1>5, <1>6 DEF IInv

LEMMA FinishIs ==
    ASSUME IInv, ~Idle, NEW p \in Playback, p.lease = playback.lease, Finish(p)
    PROVE  /\ task' = None /\ playback' \in Playback
           /\ "lease" \notin history.cut => ~playback'.lease
    BY ReleasedIs DEF Finish, IInv, Leases

(* No engine is held: Qt is opened instead, or there is none.              *)
LEMMA FallBackKeeps ==
    ASSUME IInv, ~Idle, NEW s \in EngineState, s.selected = saved,
           NEW failed \in Engines \ {Qt}, FallBack(s, task.op, failed),
           UNCHANGED <<saved, bound, down, asks>>, bound = None,
           Hosts(None, None)', history'.cut = history.cut, task.step # "stop"
    PROVE  IInv'
<1>0. /\ ~down /\ saved \in Engines /\ asks \in 0..MaxAsks /\ playback \in Playback
      /\ task \in Task /\ down \in BOOLEAN
    BY DEF IInv, TypeOK, Presented, Idle
<1>1. CASE engine' = MarkedFailed(s)
           /\ (IF task.op = "start" THEN task' = None /\ UNCHANGED playback ELSE Finish(playback))
    <2>1. /\ task' = None /\ playback' \in Playback
          /\ "lease" \notin history.cut => ~playback'.lease
        <3>1. CASE task.op = "start"
            BY <1>0, <1>1, <3>1 DEF IInv, Leases
        <3>2. CASE task.op # "start"
            BY <1>0, <1>1, <3>2, FinishIs
        <3> QED
            BY <3>1, <3>2
    <2>2. "FAILED" \in Lifecycles
        BY DEF Lifecycles
    <2> QED
        BY <1>0, <1>1, <2>1, <2>2, FailedKeeps DEF MarkedFailed
<1>2. CASE /\ engine' = Initializing(s, Qt)
           /\ task' = [op |-> task.op, step |-> "open", engine |-> Qt, from |-> failed,
                       fallback |-> TRUE, allowed |-> TRUE]
           /\ UNCHANGED playback
    <2>1. task' \in Task /\ task'.op = task.op /\ task'.step = "open" /\ task'.engine = Qt
          /\ task'.from = failed
        BY <1>0, <1>2, QtAssumption DEF Task, Steps
    <2>2. "lease" \notin history.cut /\ task.op # "switch" => ~playback.lease
        BY DEF IInv, Leases
    <2>3. task.op = "switch" => ~playback.intent /\ ~playback.playing
        BY DEF IInv, Leases
    <2> QED
        BY <1>0, <1>2, <2>1, <2>2, <2>3, QtAssumption, OpensKeeps
<1> QED
    BY <1>1, <1>2 DEF FallBack

LEMMA ActivationFailedKeeps ==
    ASSUME IInv, ~Idle, ~Steady, ActivationFailed,
           UNCHANGED <<saved, bound, down, asks>>,
           Hosts(None, None)', history'.cut = history.cut
    PROVE  IInv'
<1>0. /\ ~down /\ saved \in Engines /\ asks \in 0..MaxAsks /\ playback \in Playback
      /\ task \in Task /\ down \in BOOLEAN /\ engine \in EngineState
      /\ engine.selected = saved /\ bound = None /\ task.step # "stop"
    BY DEF IInv, TypeOK, Presented, Preferred, Idle, Steady, At
<1>1. CASE task.fallback \/ task.engine = Qt
    <2>1. engine' = Inactive(engine, "FAILED") /\ Finish(playback) /\ "FAILED" \in Lifecycles
        BY <1>1 DEF ActivationFailed, MarkedFailed, Lifecycles
    <2> QED
        BY <1>0, <2>1, FinishIs, FailedKeeps
<1>2. CASE ~(task.fallback \/ task.engine = Qt)
    <2>1. FallBack(engine, task.op, task.engine) /\ task.engine \in Engines \ {Qt}
        BY <1>0, <1>2 DEF ActivationFailed, Task
    <2> QED
        BY <1>0, <2>1, FallBackKeeps
<1> QED
    BY <1>1, <1>2

(* The transaction fails where it is.                                      *)
LEMMA FailsKeeps ==
    ASSUME IInv, ~Idle, engine' = MarkedFailed(engine), Finish(playback), bound = None,
           UNCHANGED <<saved, bound, down, asks>>, Hosts(None, None)', history'.cut = history.cut
    PROVE  IInv'
<1>1. /\ ~down /\ saved \in Engines /\ asks \in 0..MaxAsks /\ playback \in Playback
      /\ down \in BOOLEAN /\ engine \in EngineState /\ engine.selected = saved
    BY DEF IInv, TypeOK, Presented, Preferred
<1>2. engine' = Inactive(engine, "FAILED") /\ "FAILED" \in Lifecycles
    BY DEF MarkedFailed, Lifecycles
<1> QED
    BY <1>1, <1>2, FinishIs, FailedKeeps

-----------------------------------------------------------------------------
(* Playback goes on                                                        *)

(* Between transactions playback does as it does.                          *)
LEMMA PlaybackKeeps ==
    ASSUME IInv, Idle, UNCHANGED <<engine, saved, bound, open, failures, task, down>>,
           asks' \in 0..MaxAsks, playback' \in Playback,
           history' \in History, history'.dead = history.dead,
           history'.unclosed = history.unclosed,
           "loss" \notin history'.cut => "loss" \notin history.cut,
           "lease" \notin history'.cut /\ playback'.lease => ForRehydration(playback'),
           engine.lifecycle = "UNINITIALIZED" => ~playback'.lease
    PROVE  IInv'
<1>1. /\ Idle /\ Idle' /\ Steady /\ Steady' /\ Held' = bound' /\ Held = bound
      /\ ~At("detach")' /\ ~At("close")' /\ ~At("retire")' /\ ~At("retire")
      /\ ~At("stop")'
    BY DEF Idle, Steady, Held, At
<1>2. TypeOK'
    BY DEF IInv, TypeOK
<1>3. Holding' /\ Presented' /\ Preferred'
    BY <1>1 DEF IInv, Holding, Presented, Preferred
<1>4. Reported'
    BY <1>1 DEF IInv, Reported, ReportedBut
<1>5. Leases'
    BY <1>1 DEF Leases
<1> QED
    BY <1>2, <1>3, <1>4, <1>5 DEF IInv

-----------------------------------------------------------------------------
(* The actions                                                             *)

(* What the invariant says of the engine in hand, outside of a loss.       *)
LEMMA InHandOf ==
    ASSUME IInv, ~At("retire")
    PROVE  Hosts(Held, None)
    BY InHand DEF IInv

LEMMA StartKeeps == IInv /\ Start => IInv'
<1> SUFFICES ASSUME IInv, Start PROVE IInv'
    OBVIOUS
<1> DEFINE e == engine.selected
           t == [op |-> "start", step |-> "open", engine |-> e, from |-> None,
                 fallback |-> FALSE, allowed |-> TRUE]
<1>0. /\ Idle /\ ~down /\ engine.lifecycle = "UNINITIALIZED"
      /\ UNCHANGED <<saved, bound, open, failures, down, history, asks>>
    BY DEF Start
<1>1. /\ engine \in EngineState /\ e \in Engines /\ e = saved /\ saved \in Engines /\ bound = None
      /\ playback \in Playback /\ ~playback.lease /\ asks \in 0..MaxAsks /\ down \in BOOLEAN
    BY <1>0 DEF IInv, TypeOK, EngineState, Presented, Preferred, Leases, Steady
<1>2. Hosts(None, None)'
    <2>1. ~At("retire") /\ Held = None
        BY <1>0, <1>1 DEF At, Held, Steady
    <2> QED
        BY <1>0, <2>1, InHandOf, HostsUnchanged
<1>3. CASE engine' = Initializing(engine, e) /\ task' = t /\ UNCHANGED playback
    <2>1. t \in Task /\ t.step = "open" /\ t.op = "start" /\ ~t.fallback
        BY <1>1 DEF Task, Steps
    <2> QED
        BY <1>0, <1>1, <1>2, <1>3, <2>1, OpensKeeps
<1>4. CASE engine' = Inactive(engine, "UNAVAILABLE") /\ UNCHANGED <<task, playback>>
    <2>1. "UNAVAILABLE" \in Lifecycles
        BY DEF Lifecycles
    <2> QED
        BY <1>0, <1>1, <1>2, <1>4, <2>1, FailedKeeps DEF Idle
<1>5. CASE e # Qt /\ FallBack(engine, "start", e)
    <2>1. CASE engine' = MarkedFailed(engine) /\ task' = None /\ UNCHANGED playback
        <3>1. "FAILED" \in Lifecycles
            BY DEF Lifecycles
        <3> QED
            BY <1>0, <1>1, <1>2, <2>1, <3>1, FailedKeeps DEF MarkedFailed
    <2>2. CASE /\ engine' = Initializing(engine, Qt)
               /\ task' = [op |-> "start", step |-> "open", engine |-> Qt, from |-> e,
                           fallback |-> TRUE, allowed |-> TRUE]
               /\ UNCHANGED playback
        <3>1. /\ task' \in Task /\ task'.op = "start" /\ task'.step = "open"
              /\ task'.engine = Qt /\ task'.from = e
            BY <1>1, <2>2, QtAssumption DEF Task, Steps
        <3> QED
            BY <1>0, <1>1, <1>2, <1>5, <2>2, <3>1, QtAssumption, OpensKeeps
    <2> QED
        BY <1>5, <2>1, <2>2 DEF FallBack
<1> QED
    BY <1>3, <1>4, <1>5 DEF Start

(* What is presented and what is held stay, and a task may begin or end.   *)
LEMMA SteadyKeeps ==
    ASSUME IInv, Steady, Steady', UNCHANGED <<bound, open, failures, down, history>>,
           ~down, engine' \in EngineState, engine'.active = engine.active,
           engine'.lifecycle = engine.lifecycle, engine'.fallback = None,
           engine'.selected = saved', saved' \in Engines, asks' \in 0..MaxAsks,
           Idle' => engine'.target = None,
           task' \in Task \cup {None}, task' # None => ~task'.fallback,
           At("detach")' => bound # None,
           At("stop")' => task'.op = "switch" /\ task'.from \in Engines,
           playback' \in Playback, Leases'
    PROVE  IInv'
<1>1. ~At("retire") /\ ~At("retire")' /\ ~At("close")'
    BY DEF Steady, Idle, At
<1>2. Held = bound /\ Held' = bound'
    BY DEF Held
<1>3. Hosts(bound, None)'
    BY <1>1, <1>2, InHandOf, HostsUnchanged
<1>4. TypeOK'
    BY DEF IInv, TypeOK
<1>5. Holding'
    BY <1>2 DEF IInv, Holding
<1>6. Presented' /\ Preferred'
    BY <1>1 DEF IInv, Presented, Preferred, Idle
<1>7. Reported'
    BY <1>1, <1>3 DEF Reported, Hosts
<1> QED
    BY <1>4, <1>5, <1>6, <1>7 DEF IInv

LEMMA PreferActiveKeeps ==
    ASSUME NEW e \in Engines, IInv, PreferActive(e)
    PROVE  IInv'
<1>1. /\ Idle /\ ~down /\ saved' = e /\ engine' = Restored(engine, e) /\ asks' = asks + 1
      /\ asks < MaxAsks /\ UNCHANGED <<bound, open, failures, task, playback, down, history>>
      /\ engine.lifecycle = "READY"
    BY DEF PreferActive, Asks, Running, ActiveReady
<1>2. /\ engine' \in EngineState /\ engine'.active = engine.active /\ engine'.target = engine.target
      /\ engine'.lifecycle = engine.lifecycle /\ engine'.fallback = None
      /\ engine'.selected = e
    BY <1>1, EngineTypes DEF IInv, TypeOK, Restored, EngineState
<1>3. asks' \in 0..MaxAsks /\ engine.target = None /\ playback \in Playback
    BY <1>1, BoundsAssumption DEF IInv, TypeOK, Preferred
<1>4. Idle' /\ Steady /\ Steady' /\ ~At("detach")' /\ ~At("stop")' /\ task' = None
    BY <1>1 DEF Idle, Steady, At
<1>5. Leases'
    BY <1>1, <1>2, <1>4 DEF IInv, Leases, Idle
<1> QED
    BY <1>1, <1>2, <1>3, <1>4, <1>5, SteadyKeeps

LEMMA BeginSwitchKeeps ==
    ASSUME NEW e \in Engines, IInv, BeginSwitch(e)
    PROVE  IInv'
<1> DEFINE t == [op |-> "switch", step |-> "stop", engine |-> e, from |-> engine.selected,
                 fallback |-> FALSE, allowed |-> TRUE]
<1>1. /\ Idle /\ ~down /\ asks' = asks + 1 /\ asks < MaxAsks /\ Ready(playback)
      /\ UNCHANGED <<bound, open, failures, down, history>>
      /\ engine.lifecycle # "UNINITIALIZED"
    BY DEF BeginSwitch, Asks, Running
<1>2. asks' \in 0..MaxAsks /\ engine.target = None /\ playback \in Playback
      /\ engine \in EngineState /\ engine.selected = saved /\ saved \in Engines
      /\ history \in History
    BY <1>1, BoundsAssumption DEF IInv, TypeOK, Preferred
<1>3. Leased(playback) \in Playback /\ Released(Leased(playback)) \in Playback
      /\ ~Released(Leased(playback)).lease
    BY <1>2, LeasedIs, ReleasedIs
<1>4. Steady
    BY <1>1 DEF Steady
<1>5. CASE saved' = e /\ engine' = Selected(engine, e) /\ playback' = Leased(playback) /\ task' = t
    <2>1. /\ engine' \in EngineState /\ engine'.active = engine.active
          /\ engine'.lifecycle = engine.lifecycle /\ engine'.fallback = None
          /\ engine'.selected = e
        <3>1. engine' \in EngineState
            <4>1. "READY" \in Lifecycles
                BY DEF Lifecycles
            <4> QED
                BY <1>2, <1>5, <4>1, EngineTypes
        <3> QED
            BY <1>2, <1>5, <3>1 DEF Selected, EngineState
    <2>2. t \in Task /\ t.op = "switch" /\ t.step = "stop" /\ ~t.fallback
          /\ t.from \in Engines
        BY <1>2 DEF Task, Steps
    <2>3. ~Idle' /\ Steady' /\ ~At("detach")'
        BY <1>5, <2>2, NoTaskAssumption DEF Idle, Steady, At
    <2>4. Leases'
        BY <1>1, <1>5, <2>1, <2>2, <2>3 DEF Leases
    <2> QED
        BY <1>1, <1>2, <1>3, <1>4, <1>5, <2>1, <2>2, <2>3, <2>4, SteadyKeeps
<1>6. CASE playback' = Released(Leased(playback)) /\ UNCHANGED <<saved, engine, task>>
    <2>1. Idle' /\ ~playback'.lease /\ playback' \in Playback
        BY <1>1, <1>3, <1>6 DEF Idle
    <2> QED
        BY <1>1, <1>2, <1>6, <2>1, PlaybackKeeps DEF Idle
<1> QED
    BY <1>5, <1>6 DEF BeginSwitch

-----------------------------------------------------------------------------
(* The steps of a transaction, one by one                                  *)

LEMMA AtIs ==
    ASSUME IInv, NEW step, At(step)
    PROVE  /\ ~Idle /\ task.step = step /\ task \in Task /\ ~down
           /\ task.engine \in Engines /\ task.from \in Engines \cup {None}
           /\ \A other : At(other) <=> other = step
    BY DEF IInv, TypeOK, At, Idle, Presented, Task

LEMMA ThenIs ==
    ASSUME task \in Task, NEW step \in Steps, Then(step)
    PROVE  /\ task' \in Task /\ task'.step = step /\ task'.op = task.op
           /\ task'.engine = task.engine /\ task'.from = task.from
           /\ task'.fallback = task.fallback
           /\ ~Idle' /\ \A other : At(other)' <=> other = step
<1>1. task' \in Task /\ task'.step = step /\ task'.op = task.op
      /\ task'.engine = task.engine /\ task'.from = task.from
      /\ task'.fallback = task.fallback
    BY DEF Then, Task
<1> QED
    BY <1>1, NoTaskAssumption DEF Idle, At

LEMMA StopTransportKeeps == IInv /\ StopTransport => IInv'
<1> SUFFICES ASSUME IInv, StopTransport PROVE IInv'
    OBVIOUS
<1>0. At("stop") /\ UNCHANGED <<bound, open, failures, down, history, asks>>
    BY DEF StopTransport
<1>1. /\ ~Idle /\ task.step = "stop" /\ task \in Task /\ ~down /\ Steady
      /\ task.engine \in Engines
    BY <1>0, AtIs DEF Steady
<1>2. /\ engine \in EngineState /\ engine.selected = saved /\ saved \in Engines
      /\ playback \in Playback /\ asks \in 0..MaxAsks /\ down \in BOOLEAN /\ engine.active = bound
      /\ "lease" \notin history.cut /\ task.op # "switch" => ~playback.lease
      /\ task.fallback => task.engine = Qt /\ task.from \in Engines \ {Qt}
      /\ engine.lifecycle = "UNINITIALIZED" => ~playback.lease
    BY <1>1 DEF IInv, TypeOK, Preferred, Presented, Leases
<1>3. Hosts(bound, None)'
    <2>1. ~At("retire") /\ Held = bound
        BY <1>0, <1>1, AtIs DEF Held
    <2> QED
        BY <1>0, <2>1, InHandOf, HostsUnchanged
<1>4. ControlledStopped(playback) \in Playback
      /\ ControlledStopped(playback).lease = playback.lease
      /\ ~ControlledStopped(playback).intent /\ ~ControlledStopped(playback).playing
    BY <1>2, ReleasedIs
<1>5. CASE /\ playback' = ControlledStopped(playback) /\ saved' = saved
           /\ engine.active = None
           /\ engine' = Initializing(engine, task.engine) /\ Then("open")
    <2>1. /\ task' \in Task /\ task'.step = "open" /\ task'.op = task.op
          /\ task'.engine = task.engine /\ task'.from = task.from
          /\ task'.fallback = task.fallback
        BY <1>1, <1>5, ThenIs DEF Steps
    <2> QED
        BY <1>0, <1>1, <1>2, <1>3, <1>4, <1>5, <2>1, OpensKeeps
<1>6. CASE /\ playback' = ControlledStopped(playback) /\ saved' = saved
           /\ engine.active # None /\ engine' = engine /\ Then("detach")
    <2>1. /\ task' \in Task /\ task'.step = "detach" /\ task'.op = task.op
          /\ task'.engine = task.engine /\ task'.from = task.from
          /\ task'.fallback = task.fallback
          /\ ~Idle' /\ \A other : At(other)' <=> other = "detach"
        BY <1>1, <1>6, ThenIs DEF Steps
    <2>2. Steady' /\ Held' = bound' /\ ~At("retire")' /\ ~At("close")' /\ ~At("stop")'
        BY <2>1 DEF Steady, Held
    <2>3. TypeOK'
        BY <1>0, <1>2, <1>4, <1>6, <2>1 DEF IInv, TypeOK
    <2>4. Holding'
        BY <1>0, <1>1, <2>2 DEF IInv, Holding, Held
    <2>5. Presented'
        BY <1>0, <1>1, <1>2, <1>6, <2>1, <2>2 DEF IInv, Presented
    <2>6. Preferred'
        BY <1>0, <1>1, <1>2, <1>6, <2>1, <2>2 DEF IInv, Preferred
    <2>7. Reported'
        BY <1>3, <2>2 DEF Reported, Hosts
    <2>8. Leases'
        BY <1>0, <1>1, <1>2, <1>4, <1>6, <2>1 DEF Leases
    <2> QED
        BY <2>3, <2>4, <2>5, <2>6, <2>7, <2>8 DEF IInv
<1>7. CASE saved' \in {saved, task.from} /\ engine' = Aborted(engine, saved') /\ Finish(playback)
           /\ task.op = "switch" /\ task.from \in Engines
    <2>1. saved' \in Engines
        BY <1>1, <1>2, <1>7
    <2>2. engine' \in EngineState
        <3>1. "READY" \in Lifecycles
            BY DEF Lifecycles
        <3> QED
            BY <1>2, <1>7, <2>1, <3>1, EngineTypes
    <2>3. /\ engine'.active = engine.active /\ engine'.lifecycle = engine.lifecycle
          /\ engine'.selected = saved' /\ engine'.target = None
          /\ engine'.fallback = engine.fallback
        BY <1>2, <1>7, <2>2 DEF Aborted, EngineState
    <2>4. task' = None /\ playback' \in Playback /\ ~playback'.lease
        BY <1>2, <1>7, ReleasedIs DEF Finish
    <2>5. Idle' /\ Steady' /\ Held' = bound' /\ ~At("detach")' /\ ~At("close")' /\ ~At("retire")'
          /\ ~At("stop")'
        BY <2>4 DEF Idle, Steady, Held, At
    <2>6. TypeOK'
        BY <1>0, <2>1, <2>2, <2>4 DEF IInv, TypeOK
    <2>7. Holding'
        BY <1>0, <1>1, <2>5 DEF IInv, Holding, Held
    <2>8. Presented'
        BY <1>0, <1>1, <1>2, <2>3, <2>5 DEF IInv, Presented
    <2>9. Preferred'
        BY <1>0, <1>1, <1>2, <2>3, <2>5 DEF IInv, Preferred
    <2>10. Reported'
        BY <1>3, <2>5 DEF Reported, Hosts
    <2>11. Leases'
        BY <2>4, <2>5 DEF Leases
    <2> QED
        BY <2>6, <2>7, <2>8, <2>9, <2>10, <2>11 DEF IInv
<1>8. task.op = "switch" /\ task.from \in Engines
    BY <1>0, <1>1 DEF IInv, Preferred
<1> QED
    BY <1>5, <1>6, <1>7, <1>8 DEF StopTransport

LEMMA DetachSourceKeeps == IInv /\ DetachSource => IInv'
<1> SUFFICES ASSUME IInv, DetachSource PROVE IInv'
    OBVIOUS
<1>0. /\ At("detach") /\ engine' = Closing(engine) /\ bound' = None /\ Then("close")
      /\ UNCHANGED <<saved, open, failures, playback, down, history, asks>>
    BY DEF DetachSource
<1>1. /\ ~Idle /\ task.step = "detach" /\ task \in Task /\ ~down /\ Steady
    BY <1>0, AtIs DEF Steady
<1>2. /\ engine \in EngineState /\ engine.selected = saved /\ engine.active = bound /\ bound # None
      /\ bound \in Engines \cup {None} /\ bound \in open
    BY <1>0, <1>1 DEF IInv, TypeOK, Preferred, Presented, Holding, Held
<1>3. PICK b \in Engines : b = bound
    BY <1>2
<1>4. Hosts(b, None)'
    <2>1. ~At("retire") /\ Held = b
        BY <1>0, <1>1, <1>3, AtIs DEF Held
    <2> QED
        BY <1>0, <2>1, InHandOf, HostsUnchanged
<1>5. /\ engine' \in EngineState /\ engine'.selected = saved /\ engine'.active = b
      /\ engine'.fallback = None /\ engine'.lifecycle = "CLOSING"
    <2>1. engine' \in EngineState
        <3>1. "READY" \in Lifecycles
            BY DEF Lifecycles
        <3> QED
            BY <1>0, <1>2, <1>3, <3>1, EngineTypes
    <2> QED
        BY <1>0, <1>2, <1>3, <2>1 DEF Closing, EngineState
<1>6. /\ task' \in Task /\ task'.step = "close" /\ task'.op = task.op
      /\ task'.engine = task.engine /\ task'.from = task.from
      /\ task'.fallback = task.fallback
      /\ ~Idle' /\ \A other : At(other)' <=> other = "close"
    BY <1>0, <1>1, ThenIs DEF Steps
<1>7. ~Steady' /\ Held' = b
    BY <1>5, <1>6 DEF Steady, Held
<1>8. TypeOK'
    BY <1>0, <1>5, <1>6 DEF IInv, TypeOK
<1>9. Holding'
    BY <1>0, <1>2, <1>3, <1>4, <1>7 DEF Holding, Hosts
<1>10. Presented'
    BY <1>0, <1>1, <1>2, <1>3, <1>5, <1>6, <1>7 DEF Presented
<1>11. Preferred'
    BY <1>0, <1>1, <1>5, <1>6 DEF IInv, Preferred
<1>12. Reported'
    BY <1>4, <1>6 DEF Reported, Hosts
<1>13. Leases'
    BY <1>0, <1>1, <1>5, <1>6 DEF IInv, Leases
<1> QED
    BY <1>8, <1>9, <1>10, <1>11, <1>12, <1>13 DEF IInv

LEMMA CloseSourceKeeps == IInv /\ CloseSource => IInv'
<1> SUFFICES ASSUME IInv, CloseSource PROVE IInv'
    OBVIOUS
<1>0. At("close") /\ UNCHANGED <<saved, bound, down, asks>>
    BY DEF CloseSource
<1>1. /\ ~Idle /\ task.step = "close" /\ task \in Task /\ ~down /\ ~Steady
      /\ task.engine \in Engines
    BY <1>0, AtIs DEF Steady
<1>2. /\ engine \in EngineState /\ engine.selected = saved /\ engine.active # None /\ bound = None
      /\ saved \in Engines /\ asks \in 0..MaxAsks /\ down \in BOOLEAN /\ playback \in Playback
      /\ "lease" \notin history.cut /\ task.op # "switch" => ~playback.lease
      /\ task.op = "switch" => ~playback.playing
      /\ task.fallback => task.engine = Qt /\ task.from \in Engines \ {Qt}
    BY <1>0, <1>1 DEF IInv, TypeOK, Preferred, Presented, Leases
<1>3. PICK b \in Engines : b = engine.active
    BY <1>2 DEF EngineState
<1>4. Hosts(b, None) /\ b \in open
    <2>1. ~At("retire") /\ Held = b
        BY <1>0, <1>1, <1>3, AtIs DEF Held
    <2> QED
        BY <1>2, <1>3, <2>1, InHandOf DEF IInv, Holding
<1>5. Cleared(playback) \in Playback /\ Cleared(playback).lease = playback.lease
      /\ ~Cleared(playback).intent /\ Cleared(playback).playing = playback.playing
    BY <1>2, ClearedIs
<1>6. CASE /\ Closes(engine.active) /\ engine' = Initializing(engine, task.engine)
           /\ playback' = Cleared(playback) /\ Then("open")
    <2>1. Hosts(None, None)' /\ history'.cut = history.cut
        BY <1>3, <1>4, <1>6, ClosesIs
    <2>2. /\ task' \in Task /\ task'.step = "open" /\ task'.op = task.op
          /\ task'.engine = task.engine /\ task'.from = task.from
          /\ task'.fallback = task.fallback
        BY <1>1, <1>6, ThenIs DEF Steps
    <2> QED
        BY <1>0, <1>1, <1>2, <1>5, <1>6, <2>1, <2>2, OpensKeeps
<1>7. CASE CannotClose(engine.active) /\ engine' = MarkedFailed(engine) /\ Finish(Cleared(playback))
    <2>1. Hosts(None, None)' /\ history'.cut = history.cut
        BY <1>3, <1>4, <1>7, CannotCloseIs
    <2>2. task' = None /\ playback' \in Playback /\ ("lease" \notin history.cut => ~playback'.lease)
        BY <1>1, <1>5, <1>7, FinishIs
    <2>3. "FAILED" \in Lifecycles /\ engine' = Inactive(engine, "FAILED")
        BY <1>7 DEF Lifecycles, MarkedFailed
    <2> QED
        BY <1>0, <1>1, <1>2, <2>1, <2>2, <2>3, FailedKeeps
<1> QED
    BY <1>6, <1>7 DEF CloseSource

(* An engine is in hand, and is not bound yet.                             *)
LEMMA InHandKeeps ==
    ASSUME IInv, ~Idle, ~Steady, NEW step \in {"bind", "undo"}, Then(step),
           UNCHANGED <<engine, saved, playback, down, asks>>, bound' = None,
           Hosts(task.engine, None)', task.engine \in open', history'.cut = history.cut
    PROVE  IInv'
<1>1. /\ task' \in Task /\ task'.step = step /\ task'.op = task.op
      /\ task'.engine = task.engine /\ task'.from = task.from
      /\ task'.fallback = task.fallback
      /\ ~Idle' /\ \A other : At(other)' <=> other = step
    BY ThenIs DEF Steps, IInv, TypeOK, Idle
<1>2. ~Steady' /\ Held' = task'.engine /\ ~At("close")' /\ ~At("detach")' /\ ~At("retire")'
      /\ ~At("stop")'
    BY <1>1 DEF Steady, Held
<1>3. TypeOK'
    BY <1>1 DEF IInv, TypeOK, Hosts
<1>4. Holding'
    BY <1>1, <1>2 DEF Holding, Hosts
<1>5. Presented'
    BY <1>1, <1>2 DEF IInv, Presented
<1>6. Preferred'
    BY <1>1, <1>2 DEF IInv, Preferred
<1>7. Reported'
    BY <1>2 DEF Reported, Hosts
<1>8. Leases'
    BY <1>1 DEF IInv, Leases, Steady, At
<1> QED
    BY <1>3, <1>4, <1>5, <1>6, <1>7, <1>8 DEF IInv

LEMMA OpenEngineKeeps == IInv /\ OpenEngine => IInv'
<1> SUFFICES ASSUME IInv, OpenEngine PROVE IInv'
    OBVIOUS
<1>0. At("open") /\ UNCHANGED <<saved, bound, down, asks>>
    BY DEF OpenEngine
<1>1. /\ ~Idle /\ task.step = "open" /\ task \in Task /\ ~Steady /\ task.engine \in Engines
      /\ bound = None
    BY <1>0, AtIs DEF Steady, IInv, Presented
<1>2. Hosts(None, None)
    <2>1. ~At("retire") /\ Held = None
        BY <1>0, <1>1, AtIs DEF Held
    <2> QED
        BY <2>1, InHandOf
<1>3. CASE Opened(task.engine) /\ Then("bind") /\ UNCHANGED <<engine, playback>>
    <2>1. PICK e \in Engines : e = task.engine
        BY <1>1
    <2>2. Hosts(e, None)' /\ e \in open' /\ history'.cut = history.cut
        BY <1>2, <1>3, <2>1, OpenedIs
    <2>3. task'.engine = e
        BY <1>1, <1>3, <2>1, ThenIs DEF Steps
    <2>4. Hosts(task.engine, None)'
        BY <2>2, <2>3
    <2> QED
        BY <1>0, <1>1, <1>3, <2>1, <2>2, <2>4, InHandKeeps
<1>4. CASE ActivationFailed /\ UNCHANGED <<open, failures, history>>
    <2>1. Hosts(None, None)'
        BY <1>2, <1>4, HostsUnchanged
    <2> QED
        BY <1>0, <1>1, <1>4, <2>1, ActivationFailedKeeps
<1> QED
    BY <1>3, <1>4 DEF OpenEngine

LEMMA BindEngineKeeps == IInv /\ BindEngine => IInv'
<1> SUFFICES ASSUME IInv, BindEngine PROVE IInv'
    OBVIOUS
<1>0. At("bind") /\ UNCHANGED <<saved, open, failures, down, history, asks>>
    BY DEF BindEngine
<1>1. /\ ~Idle /\ task.step = "bind" /\ task \in Task /\ ~Steady /\ task.engine \in Engines
      /\ bound = None /\ ~down /\ task.from \in Engines \cup {None}
    BY <1>0, AtIs DEF Steady, IInv, Presented
<1>2. PICK e \in Engines : e = task.engine
    BY <1>1
<1>3. Hosts(e, None)' /\ e \in open' /\ e # None
    <2>1. ~At("retire") /\ Held = e
        BY <1>0, <1>1, <1>2, AtIs DEF Held
    <2>2. e # None
        BY NoneAssumption
    <2>3. e \in open'
        BY <1>0, <2>1, <2>2 DEF IInv, Holding
    <2> QED
        BY <1>0, <2>1, <2>2, <2>3, InHandOf, HostsUnchanged
<1>4. CASE bound' = None /\ Then("undo") /\ UNCHANGED <<engine, playback>>
    <2>1. task'.engine = e
        BY <1>1, <1>2, <1>4, ThenIs DEF Steps
    <2>2. Hosts(task.engine, None)'
        BY <1>3, <2>1
    <2> QED
        BY <1>0, <1>1, <1>2, <1>3, <1>4, <2>2, InHandKeeps
<1>5. CASE /\ bound' = e
           /\ engine' = MarkedReady(engine, e, IF task.fallback THEN task.from ELSE None)
           /\ IF task.op = "switch" /\ ~task.fallback
              THEN task' = None /\ playback' = Rehydrated(playback)
              ELSE Finish(playback)
    <2>1. PICK f \in Engines \cup {None} : f = IF task.fallback THEN task.from ELSE None
        BY <1>1
    <2>2. f # None => e = Qt /\ f # Qt
        BY <1>1, <1>2, <2>1 DEF IInv, Preferred
    <2>3. /\ engine \in EngineState /\ engine.selected = saved /\ playback \in Playback
          /\ task.op = "switch" => ~playback.intent /\ ~playback.playing
        BY <1>1 DEF IInv, TypeOK, Preferred, Leases
    <2>4. engine' \in EngineState
        <3>1. "READY" \in Lifecycles
            BY DEF Lifecycles
        <3> QED
            BY <1>5, <2>1, <2>3, <3>1, EngineTypes
    <2>5. /\ engine'.active = e /\ engine'.lifecycle = "READY" /\ engine'.target = None
          /\ engine'.fallback = f /\ engine'.selected = saved
        BY <1>5, <2>1, <2>3, <2>4 DEF MarkedReady, EngineState
    <2>6. task' = None /\ playback' \in Playback
          /\ ("lease" \notin history.cut /\ playback'.lease => ForRehydration(playback'))
        <3>1. CASE task.op = "switch" /\ ~task.fallback
            BY <1>5, <2>3, <3>1, RehydratedIs
        <3>2. CASE ~(task.op = "switch" /\ ~task.fallback)
            BY <1>1, <1>5, <2>3, <3>2, FinishIs
        <3> QED
            BY <3>1, <3>2
    <2>7. /\ Idle' /\ Steady' /\ Held' = bound' /\ ~At("detach")' /\ ~At("close")'
          /\ ~At("retire")' /\ ~At("stop")'
        BY <2>6 DEF Idle, Steady, Held, At
    <2>8. TypeOK'
        BY <1>0, <1>5, <2>4, <2>6 DEF IInv, TypeOK
    <2>9. Holding'
        BY <1>3, <1>5, <2>7 DEF Holding, Hosts
    <2>10. Presented'
        BY <1>0, <1>1, <1>3, <1>5, <2>5, <2>7 DEF Presented
    <2>11. Preferred'
        BY <1>0, <2>2, <2>5, <2>7 DEF Preferred
    <2>12. Reported'
        BY <1>3, <2>7 DEF Reported, Hosts
    <2>13. Leases'
        BY <1>0, <2>5, <2>6, <2>7 DEF Leases
    <2> QED
        BY <2>8, <2>9, <2>10, <2>11, <2>12, <2>13 DEF IInv
<1> QED
    BY <1>2, <1>4, <1>5 DEF BindEngine

LEMMA UndoOpenKeeps == IInv /\ UndoOpen => IInv'
<1> SUFFICES ASSUME IInv, UndoOpen PROVE IInv'
    OBVIOUS
<1>0. At("undo") /\ UNCHANGED <<saved, bound, down, asks>>
    BY DEF UndoOpen
<1>1. /\ ~Idle /\ task.step = "undo" /\ task \in Task /\ ~Steady /\ task.engine \in Engines
      /\ bound = None /\ ~down
    BY <1>0, AtIs DEF Steady, IInv, Presented
<1>2. Hosts(task.engine, None) /\ task.engine \in open
    <2>1. ~At("retire") /\ Held = task.engine /\ task.engine # None
        BY <1>0, <1>1, AtIs, NoneAssumption DEF Held
    <2> QED
        BY <2>1, InHandOf DEF IInv, Holding
<1>3. CASE Closes(task.engine) /\ ActivationFailed
    <2>1. Hosts(None, None)' /\ history'.cut = history.cut
        BY <1>1, <1>2, <1>3, ClosesIs
    <2> QED
        BY <1>0, <1>1, <1>3, <2>1, ActivationFailedKeeps
<1>4. CASE CannotClose(task.engine) /\ engine' = MarkedFailed(engine) /\ Finish(playback)
    <2>1. Hosts(None, None)' /\ history'.cut = history.cut
        BY <1>1, <1>2, <1>4, CannotCloseIs
    <2> QED
        BY <1>0, <1>1, <1>4, <2>1, FailsKeeps
<1> QED
    BY <1>3, <1>4 DEF UndoOpen

LEMMA RetireKeeps == IInv /\ Retire => IInv'
<1> SUFFICES ASSUME IInv, Retire PROVE IInv'
    OBVIOUS
<1>0. At("retire") /\ UNCHANGED <<saved, bound, down, asks>>
    BY DEF Retire
<1>1. /\ ~Idle /\ task.step = "retire" /\ task \in Task /\ ~Steady /\ task.engine \in Engines
      /\ bound = None /\ ~down /\ task.engine # Qt
    BY <1>0, AtIs DEF Steady, IInv, Presented, Preferred
<1>2. Hosts(task.engine, task.engine) /\ task.engine \in open
    <2>1. Held = task.engine /\ task.engine # None
        BY <1>0, <1>1, AtIs, NoneAssumption DEF Held
    <2> QED
        BY <1>0, <2>1, InHand DEF IInv, Holding
<1>3. CASE Closes(task.engine) /\ task.allowed /\ FallBack(engine, "loss", task.engine)
    <2>1. Hosts(None, None)' /\ history'.cut = history.cut
        BY <1>1, <1>2, <1>3, ClosesIs
    <2>2. engine \in EngineState /\ engine.selected = saved /\ task.op = "loss"
        BY <1>0 DEF IInv, TypeOK, Preferred
    <2> QED
        BY <1>0, <1>1, <1>3, <2>1, <2>2, FallBackKeeps
<1>4. CASE Closes(task.engine) /\ engine' = MarkedFailed(engine) /\ Finish(playback)
    <2>1. Hosts(None, None)' /\ history'.cut = history.cut
        BY <1>1, <1>2, <1>4, ClosesIs
    <2> QED
        BY <1>0, <1>1, <1>4, <2>1, FailsKeeps
<1>5. CASE CannotClose(task.engine) /\ engine' = MarkedFailed(engine) /\ Finish(playback)
    <2>1. Hosts(None, None)' /\ history'.cut = history.cut
        BY <1>1, <1>2, <1>5, CannotCloseIs
    <2> QED
        BY <1>0, <1>1, <1>5, <2>1, FailsKeeps
<1> QED
    BY <1>3, <1>4, <1>5 DEF Retire

-----------------------------------------------------------------------------
(* Deaths, failures, the shutdown                                          *)

LEMMA DiesKeeps ==
    ASSUME NEW e \in Engines, IInv, Dies(e)
    PROVE  IInv'
<1>0. /\ e # Qt /\ e \in open \ history.dead /\ history.deaths < MaxDeaths
      /\ history' = [history EXCEPT !.dead = @ \cup {e}, !.deaths = @ + 1]
      /\ failures' = IF down THEN failures ELSE failures \cup {Report(e)}
      /\ UNCHANGED <<engine, saved, bound, open, task, playback, down, asks>>
    BY DEF Dies, Report
<1>1. history \in History /\ history.deaths + 1 \in 0..MaxDeaths
    BY <1>0, BoundsAssumption DEF IInv, TypeOK, History
<1>2. /\ history' \in History /\ history'.dead = history.dead \cup {e}
      /\ history'.unclosed = history.unclosed /\ history'.cut = history.cut
    <2> DEFINE d == history.dead \cup {e}
               n == history.deaths + 1
    <2>1. d \in SUBSET Engines /\ n \in 0..MaxDeaths
        BY <1>1 DEF History
    <2>2. history' = [history EXCEPT !.dead = d, !.deaths = n]
        BY <1>0
    <2> HIDE DEF d, n
    <2>3. /\ history' \in History /\ history'.dead = d
          /\ history'.unclosed = history.unclosed /\ history'.cut = history.cut
        BY <1>1, <2>1, <2>2 DEF History
    <2> QED
        BY <2>3 DEF d
<1>3. Report(e) \in Failure /\ Report(e).engine = e /\ Report(e).current
    BY DEF Report, Failure
<1>4. TypeOK'
    BY <1>0, <1>2, <1>3 DEF IInv, TypeOK
<1>5. /\ Idle' = Idle /\ Steady' = Steady /\ Held' = Held /\ At("retire")' = At("retire")
      /\ At("stop")' = At("stop") /\ At("detach")' = At("detach") /\ At("close")' = At("close")
      /\ At("open")' = At("open")
    BY <1>0 DEF Idle, Steady, Held, At
<1>6. Holding' /\ Presented' /\ Preferred' /\ Leases'
    BY <1>0, <1>2, <1>5 DEF IInv, Holding, Presented, Preferred, Leases
<1>7. \A f \in failures' : f.engine # Qt /\ (f.current => f.engine \in open' \cap history'.dead)
    BY <1>0, <1>2, <1>3 DEF IInv, Reported, ReportedBut
<1>8. down => open' \ history'.unclosed = {}
    BY <1>0, <1>2, NoneAssumption DEF IInv, Holding, Presented, Held, Steady, TypeOK
<1>9. ~down => Report(e) \in failures' /\ failures \subseteq failures'
    BY <1>0
<1>10. Reported'
    BY <1>0, <1>2, <1>5, <1>7, <1>8, <1>9 DEF IInv, Reported, ReportedBut
<1> QED
    BY <1>4, <1>6, <1>10 DEF IInv

(* Between transactions, what a failure that is not handled was about is   *)
(* not in hand.                                                            *)
LEMMA HandleFailureKeeps ==
    ASSUME NEW f \in failures, IInv, HandleFailure(f)
    PROVE  IInv'
<1>0. /\ Idle /\ failures' = failures \ {f} /\ UNCHANGED <<engine, saved, open, down, asks>>
    BY DEF HandleFailure
<1>1. /\ Steady /\ ~At("retire") /\ Held = bound /\ task = None
    BY <1>0 DEF Idle, Steady, Held, At
<1>2. /\ f \in Failure /\ f.engine # Qt /\ f.engine \in Engines
      /\ history \in History /\ playback \in Playback /\ asks \in 0..MaxAsks
      /\ engine \in EngineState /\ engine.selected = saved
      /\ failures \subseteq Failure
      /\ (engine.fallback # None => engine.active = Qt /\ engine.fallback # Qt)
    BY <1>0, <1>1 DEF IInv, TypeOK, Reported, ReportedBut, Failure, Preferred
<1>3. Hosts(bound, None)
    BY <1>1, InHandOf
<1>4. CASE /\ down \/ f.engine # engine.active \/ ~f.current
           /\ UNCHANGED <<bound, task, playback, history>>
    <2>1. \A e \in open \ history.unclosed : Report(e) # f
        <3>1. bound = None \/ (bound = engine.active /\ ~down)
            BY <1>1 DEF IInv, Presented
        <3>0. open \ history.unclosed \subseteq {bound} /\ None \notin open
            BY <1>1, NoneAssumption DEF IInv, Holding, TypeOK
        <3>2. \A e : Report(e).engine = e /\ Report(e).current
            BY DEF Report
        <3> QED
            BY <1>4, <3>0, <3>1, <3>2
    <2>2. ReportedBut(None)'
        BY <1>0, <1>3, <1>4, <2>1 DEF Hosts, ReportedBut, Report
    <2>3. /\ Idle' /\ Steady' /\ Held' = bound' /\ ~At("retire")' /\ ~At("stop")'
          /\ ~At("detach")' /\ ~At("close")'
        BY <1>0, <1>4 DEF Idle, Steady, Held, At
    <2>4. Reported'
        BY <2>2, <2>3 DEF Reported
    <2>5. TypeOK'
        BY <1>0, <1>4 DEF IInv, TypeOK
    <2>6. Holding' /\ Presented' /\ Preferred' /\ Leases'
        BY <1>0, <1>1, <1>4, <2>3 DEF IInv, Holding, Presented, Preferred, Leases
    <2> QED
        BY <2>4, <2>5, <2>6 DEF IInv
<1>5. ASSUME ~down, f.engine = engine.active, f.current, playback' = Lost(playback), bound' = None,
             NEW allowed \in BOOLEAN,
             task' = [op |-> "loss", step |-> "retire", engine |-> f.engine, from |-> None,
                      fallback |-> FALSE, allowed |-> allowed],
             UNCHANGED history
      PROVE  IInv'
    <2>1. bound = f.engine
        BY <1>1, <1>5 DEF IInv, Presented
    <2>2. /\ task' \in Task /\ task'.op = "loss" /\ task'.step = "retire"
          /\ task'.engine = f.engine /\ ~task'.fallback
        BY <1>2, <1>5 DEF Task, Steps
    <2>3. /\ ~Idle' /\ ~Steady' /\ Held' = f.engine /\ At("retire")' /\ ~At("stop")'
          /\ ~At("detach")' /\ ~At("close")'
        BY <2>2, NoTaskAssumption DEF Idle, Steady, Held, At
    <2>4. /\ Lost(playback) \in Playback
          /\ "lease" \notin history.cut => ~Lost(playback).lease
          /\ engine.lifecycle = "UNINITIALIZED" => ~Lost(playback).lease
        BY <1>0, <1>2, LostIs DEF IInv, Leases, ForRehydration
    <2>5. TypeOK'
        BY <1>0, <1>5, <2>2, <2>4 DEF IInv, TypeOK
    <2>6. Holding'
        BY <1>0, <1>1, <1>5, <2>1, <2>3 DEF IInv, Holding
    <2>7. Presented'
        BY <1>0, <1>5, <2>3 DEF Presented
    <2>8. Preferred'
        BY <1>0, <1>2, <2>2, <2>3 DEF Preferred
    <2>9. Reported'
        <3>1. \A g \in failures' : g.engine # Qt /\ (g.current => g.engine \in open' \cap history'.dead)
            BY <1>0, <1>3, <1>5 DEF Hosts, ReportedBut
        <3>2. \A e \in open' \ history'.unclosed : e = f.engine
            BY <1>0, <1>3, <1>5, <2>1 DEF Hosts
        <3> QED
            BY <2>2, <2>3, <3>1, <3>2 DEF Reported, ReportedBut
    <2>10. Leases'
        BY <1>0, <1>5, <2>2, <2>3, <2>4 DEF Leases
    <2> QED
        BY <2>5, <2>6, <2>7, <2>8, <2>9, <2>10 DEF IInv
<1>6. CASE /\ playback' = LossRaises(playback)
           /\ history' = [history EXCEPT !.cut =
                 @ \cup {"loss"} \cup (IF Rehydrating(playback) THEN {"lease"} ELSE {})]
           /\ UNCHANGED <<bound, task>>
    <2>1. /\ history' \in History /\ history'.dead = history.dead
          /\ history'.unclosed = history.unclosed /\ "loss" \in history'.cut
          /\ history.cut \subseteq history'.cut
          /\ Rehydrating(playback) => "lease" \in history'.cut
        <3> DEFINE c == history.cut \cup {"loss"}
                           \cup (IF Rehydrating(playback) THEN {"lease"} ELSE {})
        <3>1. /\ c \subseteq {"lease", "loss"} /\ "loss" \in c /\ history.cut \subseteq c
              /\ Rehydrating(playback) => "lease" \in c
            BY <1>2 DEF History
        <3>2. history' = [history EXCEPT !.cut = c]
            BY <1>6
        <3> HIDE DEF c
        <3> QED
            BY <1>2, <3>1, <3>2 DEF History
    <2>2. LossRaises(playback) \in Playback /\ LossRaises(playback).lease = playback.lease
        BY <1>2, LostIs
    <2>3. "lease" \notin history'.cut => ~playback.lease
        BY <1>0, <2>1 DEF IInv, Leases, ForRehydration
    <2>4. /\ Idle' /\ Steady' /\ Held' = bound' /\ ~At("retire")' /\ ~At("stop")'
          /\ ~At("detach")' /\ ~At("close")'
        BY <1>0, <1>6 DEF Idle, Steady, Held, At
    <2>5. TypeOK'
        BY <1>0, <1>6, <2>1, <2>2 DEF IInv, TypeOK
    <2>6. Holding' /\ Presented' /\ Preferred'
        BY <1>0, <1>1, <1>6, <2>1, <2>4 DEF IInv, Holding, Presented, Preferred
    <2>7. Reported'
        BY <1>0, <1>3, <2>1, <2>4 DEF Reported, ReportedBut, Hosts
    <2>8. Leases'
        BY <1>0, <1>6, <2>2, <2>3, <2>4 DEF IInv, Leases
    <2> QED
        BY <2>5, <2>6, <2>7, <2>8 DEF IInv
<1> QED
    BY <1>4, <1>5, <1>6 DEF HandleFailure

LEMMA ShutdownKeeps == IInv /\ Shutdown => IInv'
<1> SUFFICES ASSUME IInv, Shutdown PROVE IInv'
    OBVIOUS
<1>0. /\ Idle /\ ~down /\ down' = TRUE /\ bound' = None
      /\ UNCHANGED <<engine, saved, task, playback, asks>>
    BY DEF Shutdown, Running
<1>1. Steady /\ ~At("retire") /\ Held = bound /\ engine.active = bound
    BY <1>0 DEF Idle, Steady, Held, At, IInv, Presented
<1>2. Hosts(bound, None) /\ bound \in Engines \cup {None} /\ (bound # None => bound \in open)
    BY <1>1, InHandOf DEF IInv, TypeOK, Holding
<1>3. Hosts(None, None)' /\ history'.cut = history.cut
    <2>1. CASE bound = None /\ UNCHANGED <<open, failures, history>>
        BY <1>2, <2>1, HostsUnchanged
    <2>2. CASE bound # None /\ Closes(bound)
        BY <1>2, <2>2, ClosesIs
    <2>3. CASE bound # None /\ CannotClose(bound)
        BY <1>2, <2>3, CannotCloseIs
    <2> QED
        BY <1>1, <2>1, <2>2, <2>3 DEF Shutdown
<1>4. /\ Idle' /\ Steady' /\ Held' = None /\ ~At("retire")' /\ ~At("stop")'
      /\ ~At("detach")' /\ ~At("close")'
    BY <1>0 DEF Idle, Steady, Held, At
<1>5. TypeOK'
    BY <1>0, <1>3 DEF IInv, TypeOK, Hosts
<1>6. Holding' /\ Presented' /\ Preferred'
    BY <1>0, <1>3, <1>4 DEF IInv, Holding, Presented, Preferred, Hosts
<1>7. Reported'
    BY <1>3, <1>4 DEF Reported, Hosts
<1>8. Leases'
    BY <1>0, <1>3, <1>4 DEF IInv, Leases
<1> QED
    BY <1>5, <1>6, <1>7, <1>8 DEF IInv

-----------------------------------------------------------------------------
(* Playback                                                                *)

(* A request is refused while the lease is held, so it brings none about.  *)
LEMMA UserKeeps == IInv /\ (UserPlays \/ UserStops \/ OutputChanges) => IInv'
<1> SUFFICES ASSUME IInv, UserPlays \/ UserStops \/ OutputChanges PROVE IInv'
    OBVIOUS
<1>1. /\ Idle /\ asks < MaxAsks /\ asks' = asks + 1 /\ ~playback.lease
      /\ UNCHANGED <<engine, saved, bound, open, failures, task, down, history>>
    BY DEF UserPlays, UserStops, OutputChanges, Asks, Running, Playing
<1>2. playback \in Playback /\ history \in History /\ asks' \in 0..MaxAsks
    BY <1>1, BoundsAssumption DEF IInv, TypeOK
<1>3. playback' \in Playback /\ playback'.lease = playback.lease
    BY <1>2, AskedIs DEF UserPlays, UserStops, OutputChanges, Playing
<1> QED
    BY <1>1, <1>2, <1>3, PlaybackKeeps

(* Only a rehydration is prepared or loaded under a lease: its failure,    *)
(* its verdict and its timeout give the lease back.                        *)
LEMMA OutputPreparedKeeps == IInv /\ OutputPrepared => IInv'
<1> SUFFICES ASSUME IInv, OutputPrepared PROVE IInv'
    OBVIOUS
<1>1. /\ Idle /\ playback.prepare # None /\ engine.lifecycle # "UNINITIALIZED"
      /\ UNCHANGED <<engine, saved, bound, open, failures, task, down, history, asks>>
    BY DEF OutputPrepared, Running, Playing
<1>2. playback \in Playback /\ history \in History /\ asks \in 0..MaxAsks
      /\ ("lease" \notin history.cut /\ playback.lease => ForRehydration(playback))
    BY <1>1 DEF IInv, TypeOK, Leases
<1>3. CASE playback' = Continued(playback)
    <2>1. /\ playback' \in Playback /\ playback'.lease = playback.lease
          /\ playback'.request = playback.prepare.purpose /\ playback'.prepare = None
          /\ playback.prepare.purpose # "USER_PLAY" => playback'.intent = playback.intent
          /\ ~playback'.playing
        BY <1>1, <1>2, <1>3, ContinuedIs
    <2>2. "lease" \notin history.cut /\ playback'.lease => ForRehydration(playback')
        BY <1>1, <1>2, <2>1 DEF ForRehydration, Rehydrating
    <2> QED
        BY <1>1, <1>2, <2>1, <2>2, PlaybackKeeps
<1>4. ASSUME NEW kept \in BOOLEAN, playback' = LoadRaises(playback, kept) PROVE IInv'
    <2>1. playback' \in Playback /\ (playback'.lease => playback.lease /\ ~Rehydrating(playback))
        BY <1>1, <1>2, <1>4, LoadRaisesIs
    <2>2. "lease" \notin history.cut => ~playback'.lease
        BY <1>2, <2>1 DEF ForRehydration
    <2> QED
        BY <1>1, <1>2, <2>1, <2>2, PlaybackKeeps
<1>5. ASSUME NEW predecessor \in Predecessors, playback' = PrepareFailed(playback, predecessor)
      PROVE  IInv'
    <2>1. /\ playback' \in Playback /\ (playback'.lease => playback.lease)
          /\ playback.prepare.purpose = "ENGINE_SWITCH_REHYDRATION" => ~playback'.lease
        BY <1>1, <1>2, <1>5, PrepareFailedIs
    <2>2. "lease" \notin history.cut => ~playback'.lease
        BY <1>1, <1>2, <2>1 DEF ForRehydration
    <2> QED
        BY <1>1, <1>2, <2>1, <2>2, PlaybackKeeps
<1> QED
    BY <1>3, <1>4, <1>5 DEF OutputPrepared, Playing

LEMMA EngineAnswersKeeps == IInv /\ EngineAnswers => IInv'
<1> SUFFICES ASSUME IInv, EngineAnswers PROVE IInv'
    OBVIOUS
<1>1. /\ Idle /\ engine.lifecycle # "UNINITIALIZED"
      /\ UNCHANGED <<engine, saved, bound, open, failures, task, down, asks>>
    BY DEF EngineAnswers, Running, Playing
<1>2. playback \in Playback /\ history \in History /\ asks \in 0..MaxAsks
      /\ ("lease" \notin history.cut /\ playback.lease => ForRehydration(playback))
    BY <1>1 DEF IInv, TypeOK, Leases
<1>3. ASSUME NEW C \in SUBSET {"lease"}, history' = [history EXCEPT !.cut = @ \cup C]
      PROVE  /\ history' \in History /\ history'.dead = history.dead
             /\ history'.unclosed = history.unclosed /\ history'.cut = history.cut \cup C
    BY <1>2, <1>3 DEF History
<1>4. CASE playback' = Rejected(playback) /\ UNCHANGED history
    <2>1. playback' \in Playback /\ (playback'.lease => playback.lease /\ ~Rehydrating(playback))
        BY <1>2, <1>4, RefusedIs
    <2> QED
        BY <1>1, <1>2, <1>4, <2>1, PlaybackKeeps DEF ForRehydration
<1>5. CASE /\ playback' = Accepted(playback)
           /\ history' = [history EXCEPT !.cut =
                  @ \cup IF playback.resume /\ playback.lease THEN {"lease"} ELSE {}]
    <2>0. PICK C \in SUBSET {"lease"} : C = IF playback.resume /\ playback.lease THEN {"lease"} ELSE {}
        OBVIOUS
    <2>1. /\ history' \in History /\ history'.dead = history.dead
          /\ history'.unclosed = history.unclosed /\ history'.cut = history.cut \cup C
        BY <1>3, <1>5, <2>0
    <2>2. /\ playback' \in Playback
          /\ playback'.lease => playback.lease /\ (playback.resume \/ ~Rehydrating(playback))
        BY <1>2, <1>5, AcceptedIs
    <2>3. "lease" \notin history'.cut => ~playback'.lease
        BY <1>2, <2>0, <2>1, <2>2 DEF ForRehydration
    <2>4. "loss" \notin history'.cut => "loss" \notin history.cut
        BY <2>1
    <2> QED
        BY <1>1, <1>2, <2>1, <2>2, <2>3, <2>4, PlaybackKeeps
<1>6. CASE /\ playback' = CommitRefused(playback)
           /\ history' = [history EXCEPT !.cut =
                  @ \cup IF Rehydrating(playback) THEN {"lease"} ELSE {}]
    <2>0. PICK C \in SUBSET {"lease"} : C = IF Rehydrating(playback) THEN {"lease"} ELSE {}
        OBVIOUS
    <2>1. /\ history' \in History /\ history'.dead = history.dead
          /\ history'.unclosed = history.unclosed /\ history'.cut = history.cut \cup C
        BY <1>3, <1>6, <2>0
    <2>2. playback' \in Playback /\ playback'.lease = playback.lease
        BY <1>2, <1>6, RefusedIs
    <2>3. "lease" \notin history'.cut => ~playback'.lease
        BY <1>2, <2>0, <2>1, <2>2 DEF ForRehydration
    <2>4. "loss" \notin history'.cut => "loss" \notin history.cut
        BY <2>1
    <2> QED
        BY <1>1, <1>2, <2>1, <2>2, <2>3, <2>4, PlaybackKeeps
<1> QED
    BY <1>4, <1>5, <1>6 DEF EngineAnswers, Playing

LEMMA TimesOutOrPlaysKeeps == IInv /\ (RehydrationTimesOut \/ EnginePlays) => IInv'
<1> SUFFICES ASSUME IInv, RehydrationTimesOut \/ EnginePlays PROVE IInv'
    OBVIOUS
<1>1. /\ Idle /\ engine.lifecycle # "UNINITIALIZED"
      /\ UNCHANGED <<engine, saved, bound, open, failures, task, down, history, asks>>
    BY DEF RehydrationTimesOut, EnginePlays, Running, Playing
<1>2. playback \in Playback /\ history \in History /\ asks \in 0..MaxAsks
      /\ ("lease" \notin history.cut /\ playback.lease => ForRehydration(playback))
    BY <1>1 DEF IInv, TypeOK, Leases
<1>3. CASE playback' = RehydrationOver(playback)
    BY <1>1, <1>2, <1>3, LostIs, PlaybackKeeps
<1>4. CASE playback.intent /\ playback' = [playback EXCEPT !.playing = ~@]
    <2>1. playback' \in Playback /\ playback'.lease = playback.lease
        <3>1. PICK b \in BOOLEAN : b = ~playback.playing
            BY <1>2 DEF Playback
        <3>2. playback' = [playback EXCEPT !.playing = b]
            BY <1>4, <3>1
        <3> QED
            BY <1>2, <3>2 DEF Playback
    <2>2. "lease" \notin history.cut => ~playback'.lease
        BY <1>2, <1>4, <2>1 DEF ForRehydration
    <2> QED
        BY <1>1, <1>2, <2>1, <2>2, PlaybackKeeps
<1> QED
    BY <1>3, <1>4 DEF RehydrationTimesOut, EnginePlays, Playing

-----------------------------------------------------------------------------
(* Theorems                                                                *)

(* Nothing happens.                                                        *)
LEMMA StutterKeeps == IInv /\ UNCHANGED vars => IInv'
<1> SUFFICES ASSUME IInv, UNCHANGED vars PROVE IInv'
    OBVIOUS
<1>1. TypeOK'
    BY DEF vars, IInv, TypeOK
<1>2. Holding' /\ Presented' /\ Preferred'
    BY DEF vars, IInv, Holding, Presented, Preferred, Held, Steady, Idle, At
<1>3. Reported'
    BY DEF vars, IInv, Reported, ReportedBut, At, Idle
<1>4. Leases'
    BY DEF vars, IInv, Leases, Idle
<1> QED
    BY <1>1, <1>2, <1>3, <1>4 DEF IInv

(* Every step of the switch keeps the inductive invariant.                 *)
THEOREM Inductive == IInv /\ [Next]_vars => IInv'
<1> SUFFICES ASSUME IInv, [Next]_vars PROVE IInv'
    OBVIOUS
<1>1. CASE Start
    BY <1>1, StartKeeps
<1>2. ASSUME NEW e \in Engines, PreferActive(e) \/ BeginSwitch(e) \/ Dies(e) PROVE IInv'
    BY <1>2, PreferActiveKeeps, BeginSwitchKeeps, DiesKeeps
<1>3. CASE Step
    BY <1>3, StopTransportKeeps, DetachSourceKeeps, CloseSourceKeeps, OpenEngineKeeps,
       BindEngineKeeps, UndoOpenKeeps, RetireKeeps DEF Step
<1>4. ASSUME NEW f \in failures, HandleFailure(f) PROVE IInv'
    BY <1>4, HandleFailureKeeps
<1>5. CASE Shutdown
    BY <1>5, ShutdownKeeps
<1>6. CASE UserPlays \/ UserStops \/ OutputChanges
    BY <1>6, UserKeeps
<1>7. CASE OutputPrepared \/ EngineAnswers \/ RehydrationTimesOut \/ EnginePlays
    BY <1>7, OutputPreparedKeeps, EngineAnswersKeeps, TimesOutOrPlaysKeeps
<1>8. CASE UNCHANGED vars
    BY <1>8, StutterKeeps
<1> QED
    BY <1>1, <1>2, <1>3, <1>4, <1>5, <1>6, <1>7, <1>8 DEF Next

(* What the properties say follows.                                        *)
LEMMA IInvConsistent == IInv => Consistent /\ RestIsTruthful
<1> SUFFICES ASSUME IInv PROVE Consistent /\ RestIsTruthful
    OBVIOUS
<1>0. open \subseteq Engines /\ None \notin Engines /\ bound \in Engines \cup {None}
    BY NoneAssumption DEF IInv, TypeOK
<1>1. BoundIsOpen
    BY DEF IInv, BoundIsOpen, Presented, Holding, Held
<1>2. OneEngine
    <2>1. open \ history.unclosed \subseteq {Held}
        BY DEF IInv, Holding
    <2>2. open \ history.unclosed = {} \/ open \ history.unclosed = {Held}
        BY <2>1
    <2>3. Cardinality({}) = 0 /\ Cardinality({Held}) = 1
        BY FS_EmptySet, FS_Singleton
    <2> QED
        BY <2>2, <2>3 DEF OneEngine
<1>3. LeaseIsBacked
    BY DEF IInv, Leases, LeaseIsBacked, LeaseIsOwned, ForRehydration
<1>4. Idle => Steady /\ Held = bound /\ ~At("retire")
    BY DEF Steady, Held, At
<1>5. "loss" \notin history.cut => ReadyIsAlive
    <2> SUFFICES ASSUME "loss" \notin history.cut, Idle, ~down, engine.lifecycle = "READY",
                        engine.active \notin history.unclosed, engine.active \in history.dead
                 PROVE  Report(engine.active) \in failures
        BY DEF ReadyIsAlive, Report
    <2>1. engine.active = bound /\ bound # None /\ bound \in open
        BY <1>4 DEF IInv, Presented, Holding
    <2> QED
        BY <1>0, <1>4, <2>1 DEF IInv, Reported, ReportedBut
<1>6. down => open \subseteq history.unclosed
    BY <1>0, <1>4 DEF IInv, Presented, Holding
<1>7. (Idle /\ ~down) =>
          /\ engine.active = bound
          /\ (engine.lifecycle = "READY") <=> (bound # None)
          /\ engine.target = None
          /\ engine.selected = saved
          /\ engine.fallback # None => engine.active = Qt /\ engine.fallback # Qt
    BY <1>4 DEF IInv, Presented, Preferred
<1>8. Consistent
    BY <1>1, <1>2, <1>3 DEF IInv, Consistent
<1> QED
    BY <1>5, <1>6, <1>7, <1>8 DEF RestIsTruthful

(* Between transactions only the failure of an engine that died, or the    *)
(* shutdown, takes the engine from playback.                               *)
LEMMA StepDrops ==
    ASSUME IInv, [Next]_vars, Idle, bound # None, bound' = None
    PROVE  down' \/ bound \in history.dead
<1>1. bound' # bound
    OBVIOUS
<1>2. ~At("stop") /\ ~At("detach") /\ ~At("close") /\ ~At("open") /\ ~At("bind") /\ ~At("undo")
      /\ ~At("retire")
    BY DEF At
<1>3. ~Step
    BY <1>2 DEF Step, StopTransport, DetachSource, CloseSource, OpenEngine, BindEngine,
                UndoOpen, Retire
<1>4. ~Start /\ \A e \in Engines : ~PreferActive(e) /\ ~BeginSwitch(e) /\ ~Dies(e)
    BY <1>1 DEF Start, PreferActive, BeginSwitch, Dies
<1>5. ~(UserPlays \/ UserStops \/ OutputChanges \/ OutputPrepared \/ EngineAnswers
        \/ RehydrationTimesOut \/ EnginePlays)
    BY <1>1 DEF UserPlays, UserStops, OutputChanges, OutputPrepared, EngineAnswers,
                RehydrationTimesOut, EnginePlays, Playing
<1>6. Shutdown => down'
    BY DEF Shutdown
<1>7. ASSUME NEW f \in failures, HandleFailure(f) PROVE bound \in history.dead
    <2>1. ~down /\ f.engine = engine.active /\ f.current
        BY <1>1, <1>7 DEF HandleFailure
    <2>2. engine.active = bound
        BY <2>1 DEF IInv, Presented, Steady
    <2> QED
        BY <2>1, <2>2 DEF IInv, Reported, ReportedBut
<1> QED
    BY <1>1, <1>3, <1>4, <1>5, <1>6, <1>7 DEF Next, vars

(* Consistent: playback is never connected to an engine that is released,  *)
(* one engine is held, and the lease of a switch has an owner.             *)
THEOREM SwitchConsistent == Spec => []Consistent
<1>1. IInv => Consistent
    BY IInvConsistent
<1> QED
    BY <1>1, InitIInv, Inductive, PTL DEF Spec

(* RestIsTruthful: between transactions what is presented is the case, and *)
(* after the shutdown nothing is open but what could not be released.      *)
THEOREM SwitchRestIsTruthful == Spec => []RestIsTruthful
<1>1. IInv => RestIsTruthful
    BY IInvConsistent
<1> QED
    BY <1>1, InitIInv, Inductive, PTL DEF Spec

(* OnlyTheDeadAreDropped: a late report about an earlier runtime takes no  *)
(* engine from playback.                                                   *)
THEOREM SwitchDropsOnlyTheDead == Spec => OnlyTheDeadAreDropped
<1>1. IInv /\ [Next]_vars =>
          [(Idle /\ bound # None /\ bound' = None) => (down' \/ bound \in history.dead)]_vars
    BY StepDrops
<1> QED
    BY <1>1, InitIInv, Inductive, PTL DEF Spec, OnlyTheDeadAreDropped

=============================================================================
