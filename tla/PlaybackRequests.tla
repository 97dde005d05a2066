-------------------------- MODULE PlaybackRequests --------------------------
(***************************************************************************)
(* The requests of PlaybackService, as one record of its owner-thread      *)
(* state and its methods as operators from record to record.  A request    *)
(* first has the output prepared for it by a worker (prepare_for_media_    *)
(* async); the continuation loads and plays the media; then the engine     *)
(* reports that it accepted or rejected it.  Only the latest preparation   *)
(* counts: every request increments the request epoch, and the completion  *)
(* of an older one is dropped.                                             *)
(*                                                                         *)
(* Position, volume, the published status and messages are left out, as    *)
(* are engine switches, which hold an exclusive lease.                     *)
(***************************************************************************)
EXTENDS ShuffleNavigator

CONSTANT Paths

Purposes == {"USER_PLAY", "STARTUP_RESTORE", "OUTPUT_HANDOVER"}

(* call: what the callbacks of the requestor were closed over, or None.    *)
Request(calls) == [path : Paths, purpose : Purposes, call : calls \cup {None}]

(* intent, accepted: what they were when the preparation began.  claimed:  *)
(* the output's host has loaded the media already, and the engine is asked *)
(* whether it still has it (_begin_managed_adoption).                      *)
Preparation(calls) ==
    [path : Paths, purpose : Purposes, call : calls \cup {None},
     intent : BOOLEAN, accepted : BOOLEAN, claimed : BOOLEAN]

Service(calls) ==
    [request  : Request(calls) \cup {None},      \* _pending_path, _pending_...
     prepare  : Preparation(calls) \cup {None},  \* the preparation under way
     file     : Paths \cup {None},               \* PlaybackState.file_path
     intent   : BOOLEAN,                         \* _intent
     accepted : BOOLEAN,                         \* _accepted
     played   : BOOLEAN,                         \* _user_play_play_phase_complete
     loaded   : Paths \cup {None},               \* loaded, and no verdict so far
     refused  : Paths \cup {None}]               \* _last_refused_path

Silent == [request |-> None, prepare |-> None, file |-> None, intent |-> FALSE,
           accepted |-> FALSE, played |-> FALSE, loaded |-> None, refused |-> None]

Preparing(s, path, purpose, call) ==
    [path |-> path, purpose |-> purpose, call |-> call,
     intent |-> s.intent, accepted |-> s.accepted, claimed |-> FALSE]

LoadAndPlay(s, path, call) ==
    [s EXCEPT !.request = [path |-> path, purpose |-> "USER_PLAY", call |-> call],
              !.prepare = Preparing(s, path, "USER_PLAY", call),
              !.intent  = TRUE]

PrepareForResume(s, path) ==
    [s EXCEPT !.request = [path |-> path, purpose |-> "STARTUP_RESTORE", call |-> None],
              !.prepare = Preparing(s, path, "STARTUP_RESTORE", None)]

(* The request that is pending stays so, but its preparation is obsolete.  *)
PrepareForHandover(s) ==
    [s EXCEPT !.prepare = Preparing(s, s.file, "OUTPUT_HANDOVER", None)]

-----------------------------------------------------------------------------
(* The preparation succeeds: load, and for a user's request play           *)
(* (_continue_prepared_load, _continue_prepared_stopped_media).            *)

Continued(s) ==
    LET p    == s.prepare
        user == p.purpose = "USER_PLAY"
    IN  [s EXCEPT !.request  = [path |-> p.path, purpose |-> p.purpose, call |-> p.call],
                  !.prepare  = None,
                  !.loaded   = p.path,
                  !.accepted = FALSE,
                  !.intent   = user \/ @,
                  !.played   = user \/ @]

(* A user's request that a managed output has loaded: play and acceptance  *)
(* wait for the claim to be verified, as long as no newer request or stop  *)
(* comes between.                                                          *)
Claimed(s) ==
    [s EXCEPT !.request  = [path |-> s.prepare.path, purpose |-> "USER_PLAY",
                            call |-> s.prepare.call],
              !.prepare  = [@ EXCEPT !.claimed = TRUE],
              !.loaded   = s.prepare.path,
              !.accepted = FALSE,
              !.intent   = TRUE,
              !.played   = FALSE]

(* load or play raises.  The request is over but nobody is called back:    *)
(* the requestor has long returned, and the exception reaches the event    *)
(* loop.  kept: the engine still has the previous source.                  *)
ContinueRaises(s, kept) ==
    LET p    == s.prepare
        user == p.purpose = "USER_PLAY"
    IN  [s EXCEPT !.request  = None,
                  !.prepare  = None,
                  !.loaded   = IF kept THEN @ ELSE None,
                  !.accepted = kept /\ p.accepted,
                  !.intent   = IF user THEN kept /\ p.intent ELSE @,
                  !.played   = ~user /\ @]

(* The preparation fails.  predecessor: what became of what was playing:   *)
(* it goes on ("kept"), it is gone ("released"), or nobody knows and it is *)
(* presented as playing ("uncertain").                                     *)
Predecessors == {"kept", "released", "uncertain"}

PrepareFailed(s, predecessor) ==
    LET p    == s.prepare
        over == [s EXCEPT !.prepare = None, !.request = None]
    IN  CASE p.purpose = "USER_PLAY" ->
               [over EXCEPT
                   !.played   = FALSE,
                   !.intent   = CASE predecessor = "kept"      -> p.intent
                                  [] predecessor = "released"  -> FALSE
                                  [] predecessor = "uncertain" -> @,
                   !.accepted = CASE predecessor = "kept"      -> p.accepted
                                  [] predecessor = "released"  -> FALSE
                                  [] predecessor = "uncertain" -> @]
          [] p.purpose = "STARTUP_RESTORE" -> over
          [] p.purpose = "OUTPUT_HANDOVER" ->
               [s EXCEPT !.prepare = None, !.intent = p.intent, !.accepted = p.accepted]

-----------------------------------------------------------------------------
(* The engine's verdict                                                    *)

(* An acceptance is for the pending request if the path is the same; that  *)
(* of a user's request is held back until play has returned.               *)
Accepts(s) ==
    /\ s.request # None /\ s.request.path = s.loaded
    /\ s.request.purpose = "USER_PLAY" => s.played

(* resumes: what was playing before a handover plays again.                *)
Accepted(s, resumes) ==
    [s EXCEPT !.request = None, !.loaded = None, !.file = s.request.path, !.intent = resumes \/ @,
              !.accepted = TRUE, !.played = FALSE, !.refused = None]

(* The claim is verified: the output commits and the media plays.          *)
Adopts(s) == s.prepare # None /\ s.prepare.claimed

Adopted(s) == Accepted([s EXCEPT !.prepare = None], FALSE)

(* An error of the media at path ends the pending request for it, or else  *)
(* what was playing; it is ignored when it concerns neither.  The output   *)
(* refusing to commit an accepted media ends the request the same way; so  *)
(* does a claim that is not confirmed, or one whose play fails.            *)
Rejects(s, path) == s.request # None /\ s.request.path = path

Rejected(s, path) ==
    LET over    == Rejects(s, path)
        matters == over \/ s.file = path
    IN  [s EXCEPT !.request  = IF over THEN None ELSE @,
                  !.prepare  = IF over /\ Adopts(s) THEN None ELSE @,
                  !.loaded   = IF @ = path THEN None ELSE @,
                  !.intent   = ~matters /\ @,
                  !.accepted = ~matters /\ @]

(* converge_after_engine_loss, converge_after_output_loss                  *)
Lost(s) == [s EXCEPT !.request = None, !.prepare = None, !.loaded = None,
                     !.intent = FALSE, !.accepted = FALSE]

(* stop.  replayable: the output keeps what is loaded (Shared).            *)
Stopped(s, replayable) ==
    [s EXCEPT !.request = None, !.prepare = None, !.loaded = None,
              !.intent = FALSE, !.accepted = replayable /\ @]

(* retry_last_refused: anew, and on nobody's behalf                        *)
Retried(s) == LoadAndPlay([s EXCEPT !.refused = None], s.refused, None)

(* play: media that the engine no longer has is requested anew             *)
Played(s) ==
    IF ~s.accepted /\ s.request = None /\ s.file # None
    THEN LoadAndPlay(s, s.file, None)
    ELSE [s EXCEPT !.intent = TRUE]

=============================================================================
