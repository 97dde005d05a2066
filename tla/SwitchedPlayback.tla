-------------------------- MODULE SwitchedPlayback --------------------------
(***************************************************************************)
(* PlaybackService as an engine switch sees it: the request that is        *)
(* pending, the preparation of the output that is under way, and the lease *)
(* by which a switch keeps everybody else from starting playback.  Only    *)
(* one track is told apart from none.  The methods are operators from      *)
(* record to record.                                                       *)
(*                                                                         *)
(* A restored session (STARTUP_RESTORE) refuses a switch like a user's     *)
(* request does and is not told apart from one; the latch that waits for a *)
(* position after a seek is left out, and so are position and volume.      *)
(***************************************************************************)

CONSTANT None

Purposes == {"USER_PLAY", "OUTPUT_HANDOVER", "ENGINE_SWITCH_REHYDRATION"}

(* The preparation under way: what for, and what was the case when it      *)
(* began (previous_status = PLAYING, previous_intent, previous_accepted).  *)
Preparation == [purpose : Purposes, playing : BOOLEAN, intent : BOOLEAN, accepted : BOOLEAN]

Playback ==
    [request  : Purposes \cup {None},     \* _pending_purpose
     prepare  : Preparation \cup {None},  \* of the latest request epoch
     loaded   : BOOLEAN,                  \* the request is loaded: a verdict is due
     track    : BOOLEAN,                  \* PlaybackState.file_path is not None
     intent   : BOOLEAN,                  \* _intent
     accepted : BOOLEAN,                  \* _accepted
     playing  : BOOLEAN,                  \* PlaybackState.status is PLAYING
     resume   : BOOLEAN,                  \* _reroute_resume_playing
     lease    : BOOLEAN]                  \* _engine_switch_lease_active

Silent == [request |-> None, prepare |-> None, loaded |-> FALSE, track |-> FALSE,
           intent |-> FALSE, accepted |-> FALSE, playing |-> FALSE,
           resume |-> FALSE, lease |-> FALSE]

Rehydrating(p) == p.request = "ENGINE_SWITCH_REHYDRATION"

Preparing(p, purpose) ==
    [purpose |-> purpose, playing |-> p.playing, intent |-> p.intent, accepted |-> p.accepted]

(* _clear_pending, and what goes with it: the epoch moves on, nothing is   *)
(* accepted and nothing is to play.                                        *)
Cleared(p) == [p EXCEPT !.request = None, !.prepare = None, !.loaded = FALSE,
                        !.intent = FALSE, !.accepted = FALSE]

-----------------------------------------------------------------------------
(* What the user asks for.  Each is refused while the lease is held.       *)

LoadAndPlay(p) == [p EXCEPT !.request = "USER_PLAY", !.prepare = Preparing(p, "USER_PLAY"),
                            !.loaded = FALSE, !.intent = TRUE]

Handover(p) == [p EXCEPT !.prepare = Preparing(p, "OUTPUT_HANDOVER")]

(* play: what the engine no longer has is requested anew                   *)
Play(p) == IF ~p.accepted /\ p.request = None /\ p.track
           THEN LoadAndPlay(p) ELSE [p EXCEPT !.intent = TRUE]

Stop(p) == [Cleared(p) EXCEPT !.playing = FALSE, !.accepted = p.accepted]

-----------------------------------------------------------------------------
(* The output is prepared, or it is not                                    *)

(* _continue_prepared_load, _continue_prepared_stopped_media               *)
Continued(p) ==
    LET q == p.prepare
    IN  [p EXCEPT !.request  = q.purpose,
                  !.prepare  = None,
                  !.loaded   = TRUE,
                  !.accepted = FALSE,
                  !.playing  = FALSE,
                  !.intent   = q.purpose = "USER_PLAY" \/ @,
                  !.resume   = CASE q.purpose = "USER_PLAY"       -> FALSE
                                 [] q.purpose = "OUTPUT_HANDOVER" -> q.playing
                                 [] OTHER                         -> @]

(* The engine cannot load it, or is not there.  kept: it still has what it *)
(* had, or the failure does not say.                                       *)
LoadRaises(p, kept) ==
    LET q == p.prepare
    IN  [Continued(p) EXCEPT
            !.request  = None,
            !.loaded   = FALSE,
            !.accepted = kept /\ q.accepted,
            !.intent   = IF q.purpose = "USER_PLAY" THEN kept /\ q.intent ELSE @,
            !.playing  = kept /\ q.purpose # "ENGINE_SWITCH_REHYDRATION" /\ p.playing,
            !.lease    = ~Rehydrating(p) /\ @]

(* predecessor: what was playing goes on ("kept"), is gone ("released"),   *)
(* or nobody knows ("uncertain").                                          *)
Predecessors == {"kept", "released", "uncertain"}

(* Mutant: a failed preparation does not end the rehydration.              *)
PrepareFailedQuietly(p, predecessor) ==
    LET q    == p.prepare
        over == [p EXCEPT !.request = None, !.prepare = None]
    IN  CASE q.purpose = "OUTPUT_HANDOVER" ->
               [p EXCEPT !.prepare = None, !.resume = FALSE, !.intent = q.intent,
                         !.accepted = q.accepted, !.playing = q.playing]
          [] q.purpose = "ENGINE_SWITCH_REHYDRATION" ->
               [over EXCEPT !.playing = FALSE]
          [] q.purpose = "USER_PLAY" /\ predecessor = "kept" ->
               [over EXCEPT !.intent = q.intent, !.accepted = q.accepted]
          [] q.purpose = "USER_PLAY" /\ predecessor = "released" ->
               [over EXCEPT !.intent = FALSE, !.accepted = FALSE, !.playing = FALSE]
          [] OTHER -> over

PrepareFailed(p, predecessor) ==
    LET q    == p.prepare
        over == [p EXCEPT !.request = None, !.prepare = None]
    IN  CASE q.purpose = "OUTPUT_HANDOVER" ->
               [p EXCEPT !.prepare = None, !.resume = FALSE, !.intent = q.intent,
                         !.accepted = q.accepted, !.playing = q.playing]
          [] q.purpose = "ENGINE_SWITCH_REHYDRATION" ->
               [over EXCEPT !.playing = FALSE, !.lease = FALSE]
          [] q.purpose = "USER_PLAY" /\ predecessor = "kept" ->
               [over EXCEPT !.intent = q.intent, !.accepted = q.accepted]
          [] q.purpose = "USER_PLAY" /\ predecessor = "released" ->
               [over EXCEPT !.intent = FALSE, !.accepted = FALSE, !.playing = FALSE]
          [] OTHER -> over

-----------------------------------------------------------------------------
(* The engine's verdict (_finalize_media_acceptance, _on_media_rejected)   *)

(* What was playing before a handover plays again: play is called, and it  *)
(* raises while the lease is held, before the lease could be released.     *)
Accepted(p) ==
    LET over == [p EXCEPT !.request = None, !.loaded = FALSE, !.track = TRUE,
                          !.accepted = TRUE, !.resume = FALSE]
    IN  IF p.resume
        THEN IF p.lease THEN over ELSE Play(over)
        ELSE [over EXCEPT !.lease = ~Rehydrating(p) /\ @]

(* The output refuses to commit what the engine accepted; this path does   *)
(* not end a rehydration (_commit_pending_output_once).                    *)
CommitRefused(p) == [Cleared(p) EXCEPT !.prepare = p.prepare, !.playing = FALSE]

Rejected(p) == [CommitRefused(p) EXCEPT !.lease = ~Rehydrating(p) /\ @]

-----------------------------------------------------------------------------
(* The switch                                                              *)

(* engine_switch_readiness                                                 *)
Ready(p) == IF p.lease THEN Rehydrating(p)
            ELSE p.request = None /\ ~(p.intent /\ ~p.playing)

(* _cancel_engine_switch_rehydration, and the timeout of a rehydration     *)
RehydrationOver(p) == [Cleared(p) EXCEPT !.playing = FALSE, !.lease = FALSE]

(* begin_engine_switch: a new switch supersedes a rehydration.             *)
Leased(p) == [(IF p.lease THEN RehydrationOver(p) ELSE p) EXCEPT !.lease = TRUE]

Released(p) == [p EXCEPT !.lease = FALSE]

ControlledStopped(p) == [p EXCEPT !.intent = FALSE, !.playing = FALSE]

(* prepare_on_target: the lease goes over to the rehydration, if any.      *)
Rehydrated(p) ==
    IF p.track
    THEN [p EXCEPT !.request = "ENGINE_SWITCH_REHYDRATION",
                   !.prepare = Preparing(p, "ENGINE_SWITCH_REHYDRATION")]
    ELSE Released(p)

(* converge_after_engine_loss: a pending rehydration ends with it.  It     *)
(* releases the output first, which may raise (LossRaises).                *)
LossRaises(p) == [Cleared(p) EXCEPT !.playing = FALSE]
Lost(p)       == [LossRaises(p) EXCEPT !.lease = ~Rehydrating(p) /\ @]

=============================================================================
