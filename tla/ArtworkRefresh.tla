--------------------------- MODULE ArtworkRefresh ---------------------------
(***************************************************************************)
(* LibraryArtworkRefresh: the artwork of all albums is probed by a worker  *)
(* thread, one at a time; a change of the Library supersedes what is under *)
(* way, and only the latest request that waits is started after it.  The   *)
(* worker reads files and writes blobs, the owner alone decides what the   *)
(* cache and the Library show, after it has looked again.                  *)
(*                                                                         *)
(* A probe of an album reads each track once here; the code reads the tags *)
(* twice (front cover, any picture) and then the directories.  The legacy  *)
(* paths without a tri-state probe are left out, and so is invalidate(),   *)
(* which nothing calls.  A blob may be gone before it is committed, and    *)
(* stays on disk from then on.                                             *)
(***************************************************************************)
EXTENDS Naturals, FiniteSets

CONSTANTS
    Tracks, Albums, Sources, Arts, None,
    SourceOf,     \* track -> source
    MaxRequests,  \* bound on the changes of the Library
    MaxChanges    \* bound on the changes on disk

ASSUME SourceOfAssumption == SourceOf \in [Tracks -> Sources]
ASSUME NoneAssumption ==
    /\ None \notin Arts \cup Albums \cup Nat
    /\ Arts \cap {"absent", "unreadable", "unavailable"} = {}
ASSUME BoundsAssumption == MaxRequests \in Nat /\ MaxChanges \in Nat

VARIABLES
    library, art, seen, manifest, shown,  \* see ArtworkAuthority
    refresh,   \* the owner's record
    workers,   \* the worker threads
    results,   \* the results queued for the owner thread
    undisturbed, \* nothing happened to the files, and nothing failed, since the request
    changes

vars == <<library, art, seen, manifest, shown, refresh, workers, results, undisturbed, changes>>

(* The latest request is under way, or waits.                              *)
Outstanding == refresh.active = refresh.generation \/ refresh.pending # None

Authority == INSTANCE ArtworkAuthority
                WITH answered <- ~Outstanding

(* _AlbumArtworkSnapshot: paths are the members that may be probed.        *)
Snapshot == [album : Albums, members : SUBSET Tracks, paths : SUBSET Tracks]

Complete(snapshot) == snapshot.paths = snapshot.members

(* _AlbumArtworkProbe                                                      *)
Probe == [album : Albums, members : SUBSET Tracks, complete : BOOLEAN,
          verdict : Arts \cup {"absent", "unavailable"}]

Generations == 0..MaxRequests
Job == [generation : Generations, snapshots : SUBSET Snapshot]

(* generation: latest request.  active: whose worker was started.          *)
(* pending: the job that waits.                                            *)
Refresh == [generation : Generations, active : Generations \cup {None},
            pending : Job \cup {None}, closed : BOOLEAN]

(* todo: the albums not yet probed; now: the one that is, with its unread  *)
(* paths; certain: all that was read of it could be read.                  *)
Worker == [generation : Generations, todo : SUBSET Snapshot, now : Snapshot \cup {None},
           unread : SUBSET Tracks, certain : BOOLEAN, probes : SUBSET Probe,
           cancelled : BOOLEAN]

(* ok: neither an error nor a cancellation ended the worker.               *)
Result == [generation : Generations, probes : SUBSET Probe, ok : BOOLEAN]

ASSUME NoRecordAssumption == None \notin Snapshot \cup Job

TypeOK ==
    /\ library \in Authority!Libraries
    /\ art \in [Tracks -> Authority!Observations]
    /\ seen \in [Tracks -> SUBSET Authority!Observations]
    /\ manifest \in [Albums -> Arts \cup {None}]
    /\ shown \in [Albums -> Arts \cup {None}]
    /\ refresh \in Refresh /\ workers \subseteq Worker /\ results \subseteq Result
    /\ undisturbed \in BOOLEAN
    /\ changes \in 0..MaxChanges

(* At startup nothing was observed yet, and the cache is what it was.      *)
(* What is missing already is as little probed as what is not observed.    *)
Init ==
    /\ library \in [album : [Tracks -> Albums \cup {None}], missing : {{}}, observed : {{}}]
    /\ art \in [Tracks -> Authority!Observations]
    /\ seen = [t \in Tracks |-> {}]
    /\ manifest \in [Albums -> Arts \cup {None}]
    /\ shown = Authority!Cached(library, manifest)
    /\ refresh = [generation |-> 0, active |-> None, pending |-> None, closed |-> FALSE]
    /\ workers = {} /\ results = {} /\ undisturbed = FALSE /\ changes = 0

-----------------------------------------------------------------------------
(* The owner asks (schedule)                                               *)

(* _probe_selection: the members whose source and media are positively     *)
(* available.                                                              *)
Selection(lib, a) == {t \in Authority!Members(lib, a) : Authority!Observable(lib, t)}

(* _snapshot_albums: an album without observable members is not probed.    *)
Snapshots(lib) ==
    {[album |-> a, members |-> Authority!Members(lib, a), paths |-> Selection(lib, a)] :
        a \in {b \in Albums : Selection(lib, b) # {}}}

Started(job) == [generation |-> job.generation, todo |-> job.snapshots, now |-> None,
                 unread |-> {}, certain |-> TRUE, probes |-> {}, cancelled |-> FALSE]

Cancelled(ws) == {[w EXCEPT !.cancelled = @ \/ w.generation = refresh.active] : w \in ws}

(* _start_pending: a record and the workers -> the same, afterwards        *)
StartPending(r, ws) ==
    IF r.closed \/ r.active # None \/ r.pending = None
    THEN refresh' = r /\ workers' = ws
    ELSE /\ refresh' = [r EXCEPT !.active = r.pending.generation, !.pending = None]
         /\ workers' = ws \cup {Started(r.pending)}

(* Mutant: what waits already is not replaced.                             *)
RequestedOnce(lib) ==
    LET g   == refresh.generation + 1
        job == IF Snapshots(lib) = {} THEN None
               ELSE [generation |-> g, snapshots |-> Snapshots(lib)]
    IN  [refresh EXCEPT !.generation = g, !.pending = IF @ = None THEN job ELSE @]

(* Every request is a new generation, also one without albums.             *)
Requested(lib) ==
    LET g   == refresh.generation + 1
        job == IF Snapshots(lib) = {} THEN None
               ELSE [generation |-> g, snapshots |-> Snapshots(lib)]
    IN  [refresh EXCEPT !.generation = g, !.pending = job]

(* Mutant: the cancelled worker is not waited for.                         *)
ScheduleAtOnce(lib) ==
    /\ ~refresh.closed /\ refresh.generation < MaxRequests
    /\ StartPending([Requested(lib) EXCEPT !.active = None], Cancelled(workers))
    /\ seen' = [t \in Tracks |-> IF Snapshots(lib) = {} THEN {} ELSE {art[t]}]
    /\ undisturbed' = TRUE
    /\ UNCHANGED <<art, manifest, results, changes>>

Schedule(lib) ==
    /\ ~refresh.closed /\ refresh.generation < MaxRequests
    /\ IF refresh.active = None
       THEN StartPending(Requested(lib), workers)
       ELSE refresh' = Requested(lib) /\ workers' = Cancelled(workers)
    /\ seen' = [t \in Tracks |-> IF Snapshots(lib) = {} THEN {} ELSE {art[t]}]
    /\ undisturbed' = TRUE
    /\ UNCHANGED <<art, manifest, results, changes>>

-----------------------------------------------------------------------------
(* What happens to the Library.  Each change but the last rebuilds the     *)
(* albums or not, and asks for a refresh.                                  *)

(* A scan was committed: the tracks of the source are what it found, in    *)
(* the albums their tags say, and the source is AVAILABLE.                 *)
ScanCommits(s) ==
    /\ \E albums \in [{t \in Tracks : SourceOf[t] = s} -> Albums \cup {None}],
          gone \in SUBSET {t \in Tracks : SourceOf[t] = s} :
          library' = [album    |-> [t \in Tracks |-> IF SourceOf[t] = s THEN albums[t]
                                                     ELSE library.album[t]],
                      missing  |-> {t \in library.missing : SourceOf[t] # s} \cup gone,
                      observed |-> library.observed \cup {s}]
    /\ shown' = Authority!Cached(library', manifest)
    /\ Schedule(library')

(* A scan failed, or the source was relocated, disabled or restored.       *)
SourceIsLost(s) ==
    /\ library' = [library EXCEPT !.observed = @ \ {s}]
    /\ UNCHANGED shown
    /\ Schedule(library')

SourceRetires(s) ==
    /\ library' = [library EXCEPT !.observed = @ \ {s},
                      !.album = [t \in Tracks |-> IF SourceOf[t] = s THEN None ELSE @[t]]]
    /\ shown' = Authority!Cached(library', manifest)
    /\ Schedule(library')

(* The playback gate finds a file missing (validate_track_for_playback):   *)
(* nothing is asked for.                                                   *)
GoesMissing(t) ==
    /\ ~refresh.closed /\ library.album[t] # None /\ t \notin library.missing
    /\ library' = [library EXCEPT !.missing = @ \cup {t}]
    /\ undisturbed' = FALSE
    /\ UNCHANGED <<art, seen, manifest, shown, refresh, workers, results, changes>>

(* Somebody changes a file.                                                *)
FileChanges(t) ==
    /\ changes < MaxChanges /\ changes' = changes + 1
    /\ \E o \in Authority!Observations \ {art[t]} : art' = [art EXCEPT ![t] = o]
    /\ seen' = IF Outstanding THEN [u \in Tracks |-> seen[u] \cup {art'[u]}] ELSE seen
    /\ undisturbed' = FALSE
    /\ UNCHANGED <<library, manifest, shown, refresh, workers, results>>

-----------------------------------------------------------------------------
(* The worker                                                              *)

Replace(w, v) == workers' = (workers \ {w}) \cup {v}

Ends(w, ok) ==
    /\ workers' = workers \ {w}
    /\ results' = results \cup {[generation |-> w.generation, ok |-> ok,
                                 probes |-> IF ok THEN w.probes ELSE {}]}

WorkerUnchanged == UNCHANGED <<library, art, seen, manifest, shown, refresh, changes>>

(* The next album; the token is looked at first.                           *)
NextAlbum(w) ==
    /\ ~w.cancelled /\ w.now = None
    /\ \E s \in w.todo :
          Replace(w, [w EXCEPT !.todo = @ \ {s}, !.now = s, !.unread = s.paths,
                               !.certain = TRUE])
    /\ UNCHANGED <<results, undisturbed>> /\ WorkerUnchanged

Probed(w, verdict) ==
    [w EXCEPT !.now = None, !.unread = {},
              !.probes = @ \cup {[album |-> w.now.album, members |-> w.now.members,
                                  complete |-> Complete(w.now), verdict |-> verdict]}]

(* All paths are read and no picture is found: that is confirmed only if   *)
(* everything could be read, and everything was to be read.                *)
NothingFound(w) == IF w.certain /\ Complete(w.now) THEN "absent" ELSE "unavailable"

(* A picture ends the album; its blob may not be stored (prepare_artwork). *)
ReadTrack(w, t) ==
    /\ ~w.cancelled /\ t \in w.unread
    /\ IF art[t] \in Arts
       THEN \/ Replace(w, Probed(w, art[t])) /\ UNCHANGED undisturbed
            \/ Replace(w, Probed(w, "unavailable")) /\ undisturbed' = FALSE
       ELSE /\ LET v == [w EXCEPT !.unread = @ \ {t}, !.certain = @ /\ art[t] = "absent"]
               IN  Replace(w, IF v.unread = {} THEN Probed(v, NothingFound(v)) ELSE v)
            /\ UNCHANGED undisturbed
    /\ UNCHANGED results /\ WorkerUnchanged

(* It is done, it sees that it was cancelled, or an exception ends it.     *)
WorkerEnds(w) ==
    /\ \/ /\ ~w.cancelled /\ w.todo = {} /\ w.now = None
          /\ Ends(w, TRUE) /\ UNCHANGED undisturbed
       \/ w.cancelled /\ (w.todo # {} \/ w.now # None) /\ Ends(w, FALSE) /\ UNCHANGED undisturbed
       \/ w.cancelled /\ w.todo = {} /\ w.now = None /\ Ends(w, TRUE) /\ UNCHANGED undisturbed
       \/ Ends(w, FALSE) /\ undisturbed' = FALSE
    /\ WorkerUnchanged

-----------------------------------------------------------------------------
(* The owner is answered (handle_done)                                     *)

(* Mutant: a removal is not checked against what is observable by now.     *)
AcceptsAsProbed(p) ==
    /\ p.album \in Authority!Current(library)
    /\ Authority!Members(library, p.album) = p.members
    /\ \/ p.verdict \in Arts
       \/ p.verdict = "absent" /\ p.complete

(* _apply looks again: the album is still there with the same members, and *)
(* for a removal all of them are still observable.  The signature of the   *)
(* code also tells their order, which changes only when albums are rebuilt;*)
(* each rebuild asks for a refresh, so the generation tells it first.      *)
Accepts(p) ==
    /\ p.album \in Authority!Current(library)
    /\ Authority!Members(library, p.album) = p.members
    /\ \/ p.verdict \in Arts
       \/ p.verdict = "absent" /\ p.complete /\ Selection(library, p.album) = p.members

Picture(p) == IF p.verdict \in Arts THEN p.verdict ELSE None

(* The pictures that would be committed.  The blob of some may be gone by  *)
(* then (is_file): their albums keep what they had.                        *)
Found(probes) == {p \in probes : Accepts(p) /\ p.verdict \in Arts}

(* commit_manifest_batch, and what the Library shows                       *)
Commit(accepted) ==
    LET Answered(a) == {Picture(p) : p \in {q \in accepted : q.album = a}}
    IN  /\ manifest' = [a \in Albums |-> IF Answered(a) = {} THEN manifest[a]
                                         ELSE CHOOSE x \in Answered(a) : TRUE]
        /\ shown' = [a \in Albums |->
                        IF a \notin Authority!Current(library) THEN None
                        ELSE IF Answered(a) = {} THEN shown[a] ELSE manifest'[a]]

Apply(probes) ==
    \E lost \in SUBSET Found(probes) :
        /\ Commit({p \in probes : Accepts(p)} \ lost)
        /\ undisturbed' = (undisturbed /\ lost = {})

(* Mutant: a failure does not free the slot.                               *)
HandleSuccess(r) ==
    /\ results' = results \ {r}
    /\ IF refresh.closed \/ ~r.ok \/ r.generation # refresh.active
       THEN UNCHANGED <<refresh, workers, manifest, shown, undisturbed>>
       ELSE /\ StartPending([refresh EXCEPT !.active = None], workers)
            /\ IF r.generation = refresh.generation /\ r.ok
               THEN Apply(r.probes)
               ELSE UNCHANGED <<manifest, shown, undisturbed>>
    /\ seen' = IF Outstanding' THEN seen ELSE [t \in Tracks |-> {}]
    /\ UNCHANGED <<library, art, changes>>

HandleDone(r) ==
    /\ results' = results \ {r}
    /\ IF refresh.closed \/ r.generation # refresh.active
       THEN UNCHANGED <<refresh, workers, manifest, shown, undisturbed>>
       ELSE /\ StartPending([refresh EXCEPT !.active = None], workers)
            /\ IF r.generation = refresh.generation /\ r.ok
               THEN Apply(r.probes)
               ELSE UNCHANGED <<manifest, shown, undisturbed>>
    /\ seen' = IF Outstanding' THEN seen ELSE [t \in Tracks |-> {}]
    /\ UNCHANGED <<library, art, changes>>

(* Shutdown cancels what is under way; the dispatcher drops the rest.      *)
Shutdown ==
    /\ ~refresh.closed
    /\ refresh' = [generation |-> refresh.generation + 1, active |-> None,
                   pending |-> None, closed |-> TRUE]
    /\ refresh.generation < MaxRequests
    /\ workers' = Cancelled(workers)
    /\ seen' = [t \in Tracks |-> {}]
    /\ UNCHANGED <<library, art, manifest, shown, results, undisturbed, changes>>

-----------------------------------------------------------------------------

LibraryNext ==
    \/ \E s \in Sources : ScanCommits(s) \/ SourceIsLost(s) \/ SourceRetires(s)
    \/ \E t \in Tracks : GoesMissing(t) \/ FileChanges(t)

WorkerNext ==
    \E w \in workers : NextAlbum(w) \/ WorkerEnds(w) \/ (\E t \in w.unread : ReadTrack(w, t))

Next ==
    \/ LibraryNext
    \/ WorkerNext
    \/ \E r \in results : HandleDone(r)
    \/ Shutdown

(* Threads run and the owner's queue is served.                            *)
Fairness == WF_vars(WorkerNext) /\ WF_vars(\E r \in results : HandleDone(r))

Spec == Init /\ [][Next]_vars /\ Fairness

-----------------------------------------------------------------------------
(* Correctness                                                             *)

(* What runs or waits to be delivered, before the shutdown, is the worker  *)
(* that the owner waits for, and there is one.                             *)
SingleFlight ==
    LET flying == {w.generation : w \in workers} \cup {r.generation : r \in results}
    IN  ~refresh.closed =>
            /\ flying = (IF refresh.active = None THEN {} ELSE {refresh.active})
            /\ Cardinality(workers) + Cardinality(results) <= 1

(* The latest request is never left waiting for nobody, and what waits is  *)
(* the latest: requests coalesce, none is lost.                            *)
LatestWaits ==
    refresh.pending # None =>
        /\ refresh.active # None /\ ~refresh.closed
        /\ refresh.pending.generation = refresh.generation
        /\ refresh.active # refresh.generation

(* What the Library shows is what the cache holds for its albums: they are *)
(* written in different places and must not drift apart.                   *)
ShownIsCached == shown = Authority!Cached(library, manifest)

(* However requests, workers and results cross, the refresh is one worker, *)
(* at most one request that waits for it, and one picture per album.       *)
Consistent == TypeOK /\ SingleFlight /\ LatestWaits /\ ShownIsCached

(* Once all requests are answered, and the files and the workers were left *)
(* alone since the last, every album shows a picture one of its observable *)
(* members has; or none, when all of them are observable and have none.    *)
ShowsTheDisk ==
    (undisturbed /\ ~refresh.closed /\ refresh.active = None) =>
        \A a \in Albums :
            LET there == {art[t] : t \in Selection(library, a)}
            IN  /\ there \cap Arts # {} => shown[a] \in there
                /\ (there = {"absent"} /\ Selection(library, a) = Authority!Members(library, a))
                      => shown[a] = None

(* Once the Library is left alone, the last of its requests is answered:   *)
(* whatever became of the worker, the slot is freed and what waits starts. *)
RequestsEnd == refresh.active # None ~> refresh.active = None

(* Every step of the refresh is one the artwork authority allows.          *)
ImplementsAuthority == Authority!Spec

=============================================================================
