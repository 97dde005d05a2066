--------------------------- MODULE PlaybackSession ---------------------------
(***************************************************************************)
(* The playback session: what plays, what plays next, and how that follows *)
(* from the queue while the queue changes.  QueueService owns the queue;   *)
(* PlaybackSessionService owns the context (one track, an album or a       *)
(* playlist, or the queue itself), the current entry, repeat and shuffle;  *)
(* it asks PlaybackService (PlaybackRequests) for a track and changes its  *)
(* own state only when that reports that the engine accepted it.  All      *)
(* three live on the owner thread; the output's preparation and the engine *)
(* answer in their own time, or not at all.                                *)
(***************************************************************************)
EXTENDS PlaybackRequests

CONSTANTS
    Ids,          \* entry_ids
    MaxQueue,     \* max_tracks
    MaxContext,   \* bound on the length of an album or playlist
    MaxHistory,   \* bound on the shuffle history
    Modes,        \* the <<repeat, shuffle>> a session may be restored with
    MaxAsks,      \* bound on what the user and the output ask for in a run
    Faults        \* what else can come between a request and its answer

FaultKinds == {"raise", "stop", "handover", "retry"}

ASSUME FaultsAssumption == Faults \subseteq FaultKinds
ASSUME BoundsAssumption == {MaxQueue, MaxContext, MaxHistory, MaxAsks} \subseteq Nat \ {0}

(* PLAYLIST is handled like ALBUM throughout and is not told apart here.   *)
Contexts == {"NONE", "SINGLE", "ALBUM", "QUEUE"}
Repeats  == {"NONE", "ONE", "ALL"}

(* A Queue Track or a PlaybackSequenceEntry: its identity and its payload. *)
Entry == [id : Ids, path : Paths]

ASSUME ModesAssumption == Modes \subseteq Repeats \X BOOLEAN

ASSUME NoneAssumption == None \notin Paths \cup Entry

(* Positions count from 1; 0 is the code's -1.  live: the request epoch    *)
(* the callbacks captured is still the session's.                          *)
Call == [context : Contexts \ {"NONE"}, entries : Seq(Entry), index : Nat \ {0}, live : BOOLEAN]

ASSUME NoRequestAssumption == None \notin Call \cup Request(Call) \cup Preparation(Call)

VARIABLES
    queue,     \* QueueState.tracks
    session,   \* PlaybackSessionState and the session's private fields
    nav,       \* the ShuffleNavigator
    service,   \* the PlaybackService
    history,   \* for the properties only
    asks       \* how much has been asked for

vars == <<queue, session, nav, service, history, asks>>

Session ==
    [context : Contexts, entries : Seq(Entry), current : Nat,
     repeat  : Repeats,
     shuffle : BOOLEAN,
     active  : Entry \cup {None},   \* _active_queue_entry_id
     pending : Entry \cup {None},   \* _pending
     queued  : Entry \cup {None}]   \* _pending_queue_entry_id

(* accepted: the entry the session last committed (or was restored with).  *)
(* dropped, diverted: one of Faults has come over the request that is      *)
(* pending, or over what was committed.                                    *)
History == [accepted : Entry \cup {None}, dropped : BOOLEAN, diverted : BOOLEAN]

IndexOf(entries, e) == IF e \in ToSet(entries) THEN SelectInSeq(entries, LAMBDA x : x = e) ELSE 0

CurrentEntry ==
    IF session.current = 0 THEN None ELSE session.entries[session.current]

Candidate(call) == call.entries[call.index]

Used ==
    ToSet(queue) \cup ToSet(session.entries) \cup {session.pending, history.accepted}
    \cup DOMAIN nav.pool \cup ToSet(nav.history)
    \cup UNION {ToSet(x.call.entries) :
                    x \in {y \in {service.request, service.prepare} : y # None /\ y.call # None}}

(* New entries have ids of their own (uuid4).                              *)
Fresh(n) ==
    {es \in [1 .. n -> Entry] :
        /\ \A i \in 1 .. n : \A e \in Used \ {None} : es[i].id # e.id
        /\ \A i, j \in 1 .. n : es[i].id = es[j].id => i = j}

-----------------------------------------------------------------------------
(* The request transaction                                                 *)

(* _request, and the load_and_play it calls.  The entries of a queue are   *)
(* read again at the commit, and only the candidate is kept of them here.  *)
Requested(context, entries, index) ==
    LET e == entries[index]
        q == context = "QUEUE"
    IN  /\ session' = [session EXCEPT !.pending = e, !.queued = IF q THEN e ELSE None]
        /\ service' = LoadAndPlay(service, e.path,
                                  [context |-> context, live |-> TRUE,
                                   entries |-> IF q THEN <<e>> ELSE entries,
                                   index   |-> IF q THEN 1 ELSE index])
        /\ history' = [history EXCEPT !.dropped = FALSE]
        /\ UNCHANGED queue

IsPending(call) ==
    call # None /\ call.live /\ session.pending = Candidate(call)

(* _reject, _cancel                                                        *)
Withdrawn(call) ==
    IF IsPending(call)
    THEN [session EXCEPT !.pending = None, !.queued = None]
    ELSE session

CallOf(request) == IF request = None THEN None ELSE request.call

(* _commit: the queue as it is now, or the entries as they were requested. *)
(* A queue entry that is gone commits nothing.                             *)
Commits(call) ==
    IsPending(call) /\ (call.context = "QUEUE" => Candidate(call) \in ToSet(queue))

Committed(call) ==
    LET isQueue == call.context = "QUEUE"
        e       == Candidate(call)
    IN  [session EXCEPT
            !.pending = None, !.queued = None,
            !.context = call.context,
            !.entries = IF isQueue THEN queue ELSE call.entries,
            !.current = IF isQueue THEN IndexOf(queue, e) ELSE call.index,
            !.active  = IF isQueue THEN e ELSE None]

-----------------------------------------------------------------------------
(* Intents that start a context                                            *)

PlaySingle(e) == Requested("SINGLE", <<e>>, 1) /\ UNCHANGED nav

PlayContext(entries, index) ==
    Requested("ALBUM", entries, index) /\ UNCHANGED nav

PlayQueueIndex(index) == Requested("QUEUE", queue, index) /\ UNCHANGED nav

-----------------------------------------------------------------------------
(* Navigation                                                              *)

(* mutant: navigation through the entries as they were last published      *)
SequenceAsPublished == session.entries

(* _live_sequence: the queue is navigated as it is now, from where the     *)
(* active entry is now.                                                    *)
Sequence == IF session.context = "QUEUE" THEN queue ELSE session.entries

Position == IF session.context = "QUEUE" THEN IndexOf(queue, session.active) ELSE session.current

Navigable == session.context # "NONE" /\ Position # 0

(* _next_shuffled, _next_shuffled_live: where the session may go, with the *)
(* navigator after it.  Index 0: nowhere.                                  *)
ShuffledNext ==
    LET cycle  == FreshCycle(Sequence, CurrentEntry)
        drawn  == IF nav.pool # EmptyBag THEN Draws(nav)
                  ELSE IF session.repeat = "ALL" THEN Draws(cycle) ELSE {}
        replay == CASE session.context # "QUEUE" -> session.current
                    [] session.context = "QUEUE" -> IF Len(queue) = 1 THEN 1 ELSE 0
    IN  CASE drawn # {} -> {<<IndexOf(Sequence, d[1]), d[2]>> : d \in drawn}
          [] drawn = {} /\ session.repeat = "ALL" -> {<<replay, cycle>>}
          [] drawn = {} /\ session.repeat # "ALL" -> {<<0, nav>>}

NaturalNext ==
    CASE Position < Len(Sequence) -> Position + 1
      [] Position = Len(Sequence) -> IF session.repeat = "ALL" THEN 1 ELSE 0

NextTargets == IF session.shuffle THEN ShuffledNext ELSE {<<NaturalNext, nav>>}

(* _play_entry, _request_live_index *)
Navigate(target) ==
    /\ nav' = target[2]
    /\ IF target[1] = 0
       THEN UNCHANGED <<queue, session, service, history>>
       ELSE Requested(session.context, Sequence, target[1])

SessionNext == Navigable /\ \E target \in NextTargets : Navigate(target)

ShuffledPrevious ==
    IF Len(nav.history) < 2
    THEN <<0, nav>>
    ELSE <<IndexOf(Sequence, Last(Front(nav.history))), PreviousPick(nav)>>

NaturalPrevious ==
    CASE Position > 1 -> Position - 1
      [] Position = 1 -> IF session.repeat = "ALL" THEN Len(Sequence) ELSE 0

SessionPrevious ==
    /\ Navigable
    /\ Navigate(IF session.shuffle THEN ShuffledPrevious ELSE <<NaturalPrevious, nav>>)

(* set_repeat_mode                                                         *)
SetRepeat(mode) ==
    /\ session.repeat # mode
    /\ session' = [session EXCEPT !.repeat = mode]
    /\ UNCHANGED <<queue, nav, service, history>>

SetShuffle ==
    /\ session' = [session EXCEPT !.shuffle = ~@]
    /\ nav' = IF session.shuffle THEN Cleared ELSE FreshCycle(session.entries, CurrentEntry)
    /\ UNCHANGED <<queue, service, history>>

-----------------------------------------------------------------------------
(* What the user and the output ask of PlaybackService directly            *)

(* mutant: stop does not tell the requestor                                *)
StopSilently ==
    /\ \E replayable \in BOOLEAN : service' = Stopped(service, replayable)
    /\ UNCHANGED <<queue, session, nav, history>>

(* stop tells the requestor of what it cancels.                            *)
StopPlayback ==
    /\ \E replayable \in BOOLEAN : service' = Stopped(service, replayable)
    /\ session' = Withdrawn(CallOf(service.request))
    /\ UNCHANGED <<queue, nav, history>>

Play ==
    /\ service' = Played(service)
    /\ UNCHANGED <<queue, session, nav, history>>

Resume ==
    /\ service' = [service EXCEPT !.intent = TRUE]
    /\ UNCHANGED <<queue, session, nav, history>>

(* retry_last_refused, offered when the user changes the output policy     *)
Retry ==
    /\ "retry" \in Faults
    /\ service.refused # None
    /\ service' = Retried(service)
    /\ history' = [history EXCEPT !.dropped = TRUE, !.diverted = TRUE]
    /\ UNCHANGED <<queue, session, nav>>

(* reroute_accepted_media: the output changed under what is playing        *)
Reroute ==
    /\ "handover" \in Faults
    /\ service.file # None
    /\ service' = PrepareForHandover(service)
    /\ history' = [history EXCEPT !.dropped = @ \/ service.prepare # None]
    /\ UNCHANGED <<queue, session, nav>>

-----------------------------------------------------------------------------
(* The queue.  Every mutation ends with on_queue_changed.                  *)

(* The callbacks of what is under way are from an older request epoch now. *)
Stale(r) == IF r = None \/ r.call = None THEN r ELSE [r EXCEPT !.call.live = FALSE]

(* mutant: the candidate is forgotten, but playback is not stopped         *)
CancelWithoutStop ==
    /\ session' = [session EXCEPT !.pending = None, !.queued = None]
    /\ UNCHANGED <<nav, service, history>>

(* _cancel_pending_request.  A stop that raises is only logged.            *)
CancelCandidate ==
    /\ session' = [session EXCEPT !.pending = None, !.queued = None]
    /\ \/ /\ \E replayable \in BOOLEAN : service' = Stopped(service, replayable)
          /\ UNCHANGED history
       \/ /\ "stop" \in Faults
          /\ service' = [service EXCEPT !.request = Stale(@), !.prepare = Stale(@)]
          /\ history' = [history EXCEPT !.diverted = TRUE]
    /\ UNCHANGED nav

(* mutant: the new order is published with the old position                *)
FollowInPlace(new) ==
    /\ session' = IF session.active \in ToSet(new) THEN [session EXCEPT !.entries = new] ELSE session
    /\ nav' = Synchronized(nav, ToSet(new), session.active)
    /\ UNCHANGED <<service, history>>

(* The session follows the queue it plays from: to where its entry is now, *)
(* or to that entry alone once it is gone (_converge_to_single).           *)
Follow(new) ==
    LET synced == Synchronized(nav, ToSet(new), session.active)
        gone   == session.active # None /\ session.active \notin ToSet(new)
    IN  /\ session' =
              CASE session.active = None -> session
                [] gone -> [session EXCEPT !.context = "SINGLE", !.entries = <<CurrentEntry>>,
                                           !.current = 1, !.active = None]
                [] session.active \in ToSet(new) ->
                       [session EXCEPT !.entries = new, !.current = IndexOf(new, session.active)]
        /\ nav' = IF gone /\ session.shuffle THEN Cleared ELSE synced
        /\ UNCHANGED <<service, history>>

Mutate(new) ==
    /\ queue' = new
    /\ CASE session.queued # None /\ session.queued \notin ToSet(new) -> CancelCandidate
         [] OTHER -> IF session.context = "QUEUE"
                     THEN Follow(new)
                     ELSE UNCHANGED <<session, nav, service, history>>

(* add and insert_at raise, and add nothing, when the queue is full; so do *)
(* add_many and replace when it would become too long.                     *)
InsertTrack(i, e) == Len(queue) < MaxQueue /\ Mutate(InsertAt(queue, i, e))

AddMany(tracks) == Len(queue) + Len(tracks) <= MaxQueue /\ Mutate(queue \o tracks)

ReplaceQueue(tracks) == Len(tracks) <= MaxQueue /\ Mutate(tracks)

RemoveTrack(i) == Mutate(RemoveAt(queue, i))

MoveTrack(i, j) == i # j /\ Mutate(InsertAt(RemoveAt(queue, i), j, queue[i]))

ClearQueue == Mutate(<<>>)

-----------------------------------------------------------------------------
(* The output and the engine answer                                        *)

(* The worker that prepares the output has not answered yet.               *)
InPreparation == service.prepare # None /\ ~service.prepare.claimed

(* prepared: load and play, or claim what a managed output has loaded.  A  *)
(* handover loads what was playing when it was asked for, over whatever    *)
(* was requested or accepted since.                                        *)
Prepared ==
    LET over == service.prepare.purpose = "OUTPUT_HANDOVER"
    IN  /\ InPreparation
        /\ \/ service' = Continued(service)
           \/ service.prepare.purpose = "USER_PLAY" /\ service' = Claimed(service)
        /\ history' = [history EXCEPT
                          !.dropped  = @ \/ (over /\ service.request # None),
                          !.diverted = @ \/ (over /\ service.prepare.path # service.file)]
        /\ UNCHANGED <<queue, session, nav>>

(* load or play raises, or the preparation fails with an error that has no *)
(* code: nobody calls the session back.                                    *)
Raises ==
    /\ "raise" \in Faults
    /\ InPreparation
    /\ \/ \E kept \in BOOLEAN : service' = ContinueRaises(service, kept)
       \/ \E predecessor \in Predecessors : service' = PrepareFailed(service, predecessor)
    /\ history' = [history EXCEPT !.dropped = TRUE]
    /\ UNCHANGED <<queue, session, nav>>

(* failed with a typed refusal, which can be retried later; or a change of *)
(* the output family that could not be confirmed, which cannot             *)
Refused ==
    LET p == service.prepare
    IN  /\ InPreparation
        /\ \E predecessor \in Predecessors, retry \in BOOLEAN :
               /\ retry => p.purpose # "STARTUP_RESTORE"
               /\ service' = [PrepareFailed(service, predecessor) EXCEPT
                                 !.refused = IF retry THEN p.path ELSE @]
        /\ session' = Withdrawn(p.call)
        /\ UNCHANGED <<queue, nav, history>>

(* _on_media_accepted, or _on_managed_adopted: the session commits what it *)
(* is still waiting for.                                                   *)
MediaAccepted ==
    LET call == CallOf(service.request)
        e    == Candidate(call)
        done == Commits(call) /\ (Adopts(service) \/ Accepts(service))
    IN  /\ \/ Adopts(service) /\ service' = Adopted(service)
           \/ /\ ~Adopts(service) /\ service.loaded # None /\ Accepts(service)
              /\ \E resumes \in {FALSE, service.request.purpose = "OUTPUT_HANDOVER"} :
                     service' = Accepted(service, resumes)
           \/ /\ ~Adopts(service) /\ service.loaded # None /\ ~Accepts(service)
              /\ service' = [service EXCEPT !.loaded = None]
        /\ session' = IF done THEN Committed(call) ELSE session
        /\ nav' = IF done /\ session.shuffle THEN RecordCommit(nav, e) ELSE nav
        /\ history' = IF done
                      THEN [history EXCEPT !.accepted = e, !.diverted = FALSE]
                      ELSE history
        /\ Len(nav'.history) <= MaxHistory
        /\ UNCHANGED queue

(* _on_media_rejected.  A rejection of an earlier load may hit a request   *)
(* for the same path whose preparation is under way, and does not stop it. *)
MediaRejected(path) ==
    LET over == Rejects(service, path)
    IN  /\ path \in {service.loaded, service.file}
        /\ service' = Rejected(service, path)
        /\ session' = IF over THEN Withdrawn(service.request.call) ELSE session
        /\ history' = [history EXCEPT !.diverted = @ \/ (over /\ InPreparation)]
        /\ UNCHANGED <<queue, nav>>

(* The engine or the output device is lost.                                *)
EngineLost ==
    /\ service' = Lost(service)
    /\ session' = Withdrawn(CallOf(service.request))
    /\ UNCHANGED <<queue, nav, history>>

(* _on_end_of_media of the service, then that of the session               *)
EndOfMedia ==
    /\ service.file # None /\ service.intent
    /\ session.pending = None /\ Navigable
    /\ \/ session.repeat = "ONE" /\ Navigate(<<Position, nav>>)
       \/ /\ session.repeat # "ONE"
          /\ \E target \in NextTargets :
                 IF target[1] = 0 /\ ~session.shuffle THEN StopPlayback ELSE Navigate(target)

-----------------------------------------------------------------------------
Silence == [accepted |-> None, dropped |-> FALSE, diverted |-> FALSE]

(* restore_entries and restore_session, then prepare_for_resume of the     *)
(* current track if there is one.  A restored single track is like an      *)
(* album of one.                                                           *)
Restored(tracks, context, entries, current, mode) ==
    LET e == IF current = 0 THEN None ELSE entries[current]
    IN  /\ queue = tracks
        /\ session = [context |-> context, entries |-> entries, current |-> current,
                      repeat |-> mode[1], shuffle |-> mode[2],
                      active |-> IF context = "QUEUE" THEN e ELSE None,
                      pending |-> None, queued |-> None]
        /\ nav = IF mode[2] THEN FreshCycle(entries, e) ELSE Cleared
        /\ service \in {Silent} \cup (IF e = None THEN {} ELSE {PrepareForResume(Silent, e.path)})
        /\ history = [Silence EXCEPT !.accepted = e]

Distinct(n) ==
    {es \in UNION {[1 .. m -> Entry] : m \in 0 .. n} :
        \A i, j \in DOMAIN es : es[i].id = es[j].id => i = j}

Init ==
    /\ asks = 0
    /\ \E tracks \in Distinct(MaxQueue), mode \in Modes :
        \/ Restored(tracks, "NONE", <<>>, 0, mode)
        \/ /\ tracks # <<>>
           /\ \E current \in 1 .. Len(tracks) :
                  Restored(tracks, "QUEUE", tracks, current, mode)
        \/ \E entries \in Distinct(MaxContext) \ {<<>>} :
               /\ \A i \in DOMAIN entries, j \in DOMAIN tracks : entries[i].id # tracks[j].id
               /\ \E current \in 1 .. Len(entries) :
                      Restored(tracks, "ALBUM", entries, current, mode)

(* What the user asks for, and a change of the output                      *)
Ask ==
    \/ \E es \in Fresh(1) : PlaySingle(es[1])
    \/ \E n \in 1 .. MaxContext : \E es \in Fresh(n), i \in 1 .. n : PlayContext(es, i)
    \/ \E i \in 1 .. Len(queue) : PlayQueueIndex(i)
    \/ SessionNext
    \/ SessionPrevious
    \/ \E mode \in Repeats : SetRepeat(mode)
    \/ SetShuffle
    \/ StopPlayback
    \/ Play
    \/ Resume
    \/ Retry
    \/ Reroute
    \/ \E i \in 1 .. Len(queue) + 1, es \in Fresh(1) : InsertTrack(i, es[1])
    \/ \E n \in 2 .. MaxQueue : \E es \in Fresh(n) : AddMany(es) \/ ReplaceQueue(es)
    \/ \E i \in 1 .. Len(queue) : RemoveTrack(i)
    \/ \E i, j \in 1 .. Len(queue) : MoveTrack(i, j)
    \/ ClearQueue

(* What the output and the engine report                                   *)
Answer ==
    \/ Prepared
    \/ Raises
    \/ Refused
    \/ MediaAccepted
    \/ \E path \in Paths : MediaRejected(path)
    \/ EngineLost
    \/ EndOfMedia

Next ==
    \/ asks < MaxAsks /\ asks' = asks + 1 /\ Ask
    \/ UNCHANGED asks /\ Answer

Spec == Init /\ [][Next]_vars

-----------------------------------------------------------------------------
(* Properties                                                              *)

(* Every variable keeps its type, and the queue its capacity.              *)
TypeOK ==
    /\ queue \in Seq(Entry) /\ Len(queue) <= MaxQueue
    /\ session \in Session /\ session.current <= Len(session.entries)
    /\ IsNavigator(nav, Entry)
    /\ service \in Service(Call)
    /\ history \in History
    /\ asks \in 0 .. MaxAsks

(* The current entry is by identity the one the engine accepted last for   *)
(* the session, however the queue is changed between request, acceptance   *)
(* and now; in a queue it is what navigation starts from (on_queue_changed,*)
(* _commit).                                                               *)
CurrentIsAccepted ==
    /\ CurrentEntry = history.accepted
    /\ session.active = IF session.context = "QUEUE" THEN CurrentEntry ELSE None

(* A candidate from the queue that the session waits for is still in it:   *)
(* when it is removed the request is withdrawn (on_queue_changed), and a   *)
(* later request for something else does not inherit it (_request).        *)
PendingIsQueued ==
    session.queued # None => session.queued \in ToSet(queue) /\ session.queued = session.pending

(* The session's own bookkeeping agrees with the queue, at every moment.   *)
Consistent == TypeOK /\ CurrentIsAccepted /\ PendingIsQueued

(* What PlaybackService holds as the media that plays is the payload of    *)
(* the session's current entry, unless a handover, a retry, a stop that    *)
(* failed or an error of an earlier load of the same path has come between *)
(* the two.                                                                *)
PlaysTheCurrent ==
    service.file # None /\ ~history.diverted =>
        session.context # "NONE" /\ CurrentEntry.path = service.file

(* What the session waits for is under way, in its preparation or in the   *)
(* engine, so that an answer can still come.                               *)
UnderWay ==
    \/ service.prepare # None /\ IsPending(service.prepare.call)
    \/ /\ service.request # None /\ IsPending(service.request.call)
       /\ service.loaded = service.request.path

(* A pending request is under way as long as nothing raised and no         *)
(* handover or retry took its place.                                       *)
PendingIsUnderWay == session.pending # None /\ ~history.dropped => UnderWay

(* The same without the exception, as load_and_play promises it: accepted, *)
(* rejected, cancelled or superseded, and so never just forgotten.         *)
NeverForgotten == session.pending # None => UnderWay

(* has_next                                                                *)
HasNext ==
    /\ Navigable
    /\ session.repeat = "ALL" \/ (IF session.shuffle THEN nav.pool # EmptyBag
                                                    ELSE Position < Len(Sequence))

(* The session offers a next track exactly when next() requests one.       *)
HasNextIsNext ==
    IF HasNext THEN \A target \in NextTargets : target[1] # 0
               ELSE Navigable => \A target \in NextTargets : target[1] = 0

(* In a queue that is not shuffled, next() asks for the entry that now     *)
(* follows the accepted one, whatever was inserted, removed or moved since *)
(* that was accepted.                                                      *)
NextIsTheSuccessor ==
    [][ SessionNext /\ session.context = "QUEUE" /\ ~session.shuffle /\ session.repeat # "ALL" =>
            LET i == IndexOf(queue, history.accepted) IN
            IF i \in 1 .. Len(queue) - 1
            THEN session'.pending = queue[i + 1] /\ session'.queued = queue[i + 1]
            ELSE UNCHANGED <<queue, session, nav, service, history>> ]_vars

=============================================================================
