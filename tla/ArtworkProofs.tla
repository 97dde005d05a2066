---------------------------- MODULE ArtworkProofs ----------------------------
(***************************************************************************)
(* The inductive invariant of the artwork refresh, for any tracks, albums, *)
(* sources and pictures and any number of requests; from it, that it is    *)
(* one worker and one picture per album, that it ends up showing the disk, *)
(* and that generations, worker and results implement the authority over   *)
(* artwork, step by step.                                                  *)
(***************************************************************************)
EXTENDS ArtworkRefresh, FiniteSetTheorems, TLAPS

(* What flies, before the shutdown, is the worker of the active generation *)
(* or its result.                                                          *)
Flies(g) == \/ \E w \in workers : workers = {w} /\ results = {} /\ w.generation = g
            \/ \E r \in results : results = {r} /\ workers = {} /\ r.generation = g

Flight ==
    ~refresh.closed => IF refresh.active = None THEN workers = {} /\ results = {}
                                                ELSE Flies(refresh.active)

(* What waits is the latest request, and it waits for an older one.        *)
Coalesced ==
    /\ refresh.active # None => refresh.active <= refresh.generation
    /\ refresh.closed => refresh.active = None
    /\ LatestWaits

(* A worker reads only for the album it is at.                             *)
Reading == \A w \in workers : w.now = None => w.unread = {}

(* seen is what was on disk since the last request.                        *)
SeenIsKept ==
    IF Outstanding THEN \A t \in Tracks : art[t] \in seen[t]
                   ELSE seen = [t \in Tracks |-> {}]

IsLatest(x) == ~refresh.closed /\ x.generation = refresh.generation

(* A probe found a picture where it was seen, and found nothing only after *)
(* nothing was seen anywhere.                                              *)
Witnessed(p) ==
    /\ p.verdict \in Arts => \E t \in p.members : p.verdict \in seen[t]
    /\ p.verdict = "absent" => \A t \in p.members : "absent" \in seen[t]

(* paths that were read already                                            *)
Read(w) == w.now.paths \ w.unread

WellFormed(s) == s.paths \subseteq s.members

(* What the worker of the latest request found was there to be found.      *)
Honest(w) ==
    /\ ~w.cancelled
    /\ \A s \in w.todo : WellFormed(s)
    /\ \A p \in w.probes : Witnessed(p)
    /\ w.now # None => /\ WellFormed(w.now) /\ w.unread \subseteq w.now.paths
                       /\ w.certain => \A t \in Read(w) : "absent" \in seen[t]

Evidence ==
    /\ refresh.pending # None => \A s \in refresh.pending.snapshots : WellFormed(s)
    /\ \A w \in workers : IsLatest(w) => Honest(w)
    /\ \A r \in results : IsLatest(r) => \A p \in r.probes : Witnessed(p)

There(a) == {art[t] : t \in Selection(library, a)}

(* The verdict about an album, when nothing was disturbed.                 *)
Right(p) ==
    /\ p.members = Authority!Members(library, p.album)
    /\ p.complete <=> Selection(library, p.album) = p.members
    /\ There(p.album) \cap Arts # {} => p.verdict \in There(p.album) \cap Arts
    /\ There(p.album) = {"absent"} /\ p.complete => p.verdict = "absent"

Covered(probes, s) == \E p \in probes : p.album = s.album

ShownRight(a) ==
    /\ There(a) \cap Arts # {} => shown[a] \in There(a)
    /\ There(a) = {"absent"} /\ Selection(library, a) = Authority!Members(library, a)
          => shown[a] = None

(* While nothing is disturbed, the latest request works off the Library as *)
(* it is, and finds what is on disk.                                       *)
OnTrack(w) ==
    /\ w.todo \subseteq Snapshots(library)
    /\ \A p \in w.probes : Right(p)
    /\ \A s \in Snapshots(library) : s \in w.todo \/ s = w.now \/ Covered(w.probes, s)
    /\ w.now # None =>
          /\ w.now \in Snapshots(library)
          /\ \A t \in Read(w) : art[t] \notin Arts
          /\ w.certain <=> \A t \in Read(w) : art[t] = "absent"

Delivers(r) ==
    /\ r.ok
    /\ \A p \in r.probes : Right(p)
    /\ \A s \in Snapshots(library) : Covered(r.probes, s)

Progress ==
    undisturbed /\ ~refresh.closed =>
        /\ refresh.pending # None => refresh.pending.snapshots = Snapshots(library)
        /\ \A w \in workers : IsLatest(w) => OnTrack(w)
        /\ \A r \in results : IsLatest(r) => Delivers(r)
        /\ ~Outstanding => \A a \in Albums : ShownRight(a)

IInv == /\ TypeOK /\ Flight /\ Coalesced /\ ShownIsCached /\ Reading
        /\ SeenIsKept /\ Evidence /\ Progress

-----------------------------------------------------------------------------
(* The operators                                                           *)

(* A snapshot is of what may be probed, and never of nothing.              *)
LEMMA SnapshotsAre ==
    ASSUME NEW lib
    PROVE  /\ Snapshots(lib) \subseteq Snapshot
           /\ \A s \in Snapshots(lib) :
                 /\ s.members = Authority!Members(lib, s.album) /\ s.paths = Selection(lib, s.album)
                 /\ WellFormed(s) /\ s.paths # {}
           /\ \A a \in Albums : Selection(lib, a) # {} => \E s \in Snapshots(lib) : s.album = a
<1>1. \A a : Selection(lib, a) \subseteq Authority!Members(lib, a)
    BY DEF Selection
<1>2. \A a : Authority!Members(lib, a) \subseteq Tracks
    BY DEF Authority!Members
<1> DEFINE S(a) == [album |-> a, members |-> Authority!Members(lib, a), paths |-> Selection(lib, a)]
<1>3. \A a \in Albums : S(a) \in Snapshot
    BY <1>1, <1>2 DEF Snapshot
<1>4. \A a : S(a).album = a /\ S(a).members = Authority!Members(lib, a) /\ S(a).paths = Selection(lib, a)
    OBVIOUS
<1>5. Snapshots(lib) = {S(a) : a \in {b \in Albums : Selection(lib, b) # {}}}
    BY DEF Snapshots
<1> HIDE DEF S
<1> QED
    BY <1>1, <1>3, <1>4, <1>5 DEF WellFormed

(* A request is a new generation, and waits if there is anything to probe. *)
LEMMA RequestedIs ==
    ASSUME refresh \in Refresh, refresh.generation < MaxRequests, NEW lib
    PROVE  /\ Requested(lib) \in Refresh
           /\ Requested(lib).generation = refresh.generation + 1
           /\ Requested(lib).active = refresh.active /\ Requested(lib).closed = refresh.closed
           /\ Requested(lib).pending = None <=> Snapshots(lib) = {}
           /\ Requested(lib).pending # None =>
                 /\ Requested(lib).pending.generation = refresh.generation + 1
                 /\ Requested(lib).pending.snapshots = Snapshots(lib)
<1> DEFINE g == refresh.generation + 1
           request == [generation |-> g, snapshots |-> Snapshots(lib)]
           job == IF Snapshots(lib) = {} THEN None ELSE request
<1>1. refresh.generation \in Nat /\ g \in Generations
    BY BoundsAssumption DEF Refresh, Generations
<1>2. request \in Job /\ request.generation = g /\ request.snapshots = Snapshots(lib)
    BY <1>1, SnapshotsAre DEF Job
<1>3. request # None
    BY <1>2, NoRecordAssumption
<1>4. Requested(lib) = [refresh EXCEPT !.generation = g, !.pending = job]
    BY DEF Requested
<1>5. job \in Job \cup {None} /\ (job = None <=> Snapshots(lib) = {})
      /\ (job # None => job = request)
    BY <1>2, <1>3
<1> HIDE DEF g, request, job
<1>6. /\ Requested(lib) \in Refresh /\ Requested(lib).generation = g
      /\ Requested(lib).active = refresh.active /\ Requested(lib).closed = refresh.closed
      /\ Requested(lib).pending = job
    BY <1>1, <1>4, <1>5 DEF Refresh
<1> QED
    BY <1>2, <1>5, <1>6 DEF g

(* None is not a generation.                                               *)
LEMMA NoneIsNoGeneration == None \notin Generations /\ Generations \subseteq Nat
    BY NoneAssumption, BoundsAssumption DEF Generations

(* What waits is started when nothing is under way.                        *)
LEMMA StartPendingIs ==
    ASSUME NEW r \in Refresh, NEW ws \in SUBSET Worker, StartPending(r, ws)
    PROVE  /\ refresh' \in Refresh /\ workers' \subseteq Worker
           /\ refresh'.generation = r.generation /\ refresh'.closed = r.closed
           /\ r.closed \/ r.active # None \/ r.pending = None => refresh' = r /\ workers' = ws
           /\ ~r.closed /\ r.active = None /\ r.pending # None =>
                 /\ refresh'.active = r.pending.generation /\ refresh'.pending = None
                 /\ workers' = ws \cup {Started(r.pending)}
                 /\ Started(r.pending) \in Worker
                 /\ Started(r.pending).generation = r.pending.generation
                 /\ Started(r.pending).todo = r.pending.snapshots
                 /\ Started(r.pending).now = None /\ Started(r.pending).unread = {}
                 /\ Started(r.pending).probes = {} /\ ~Started(r.pending).cancelled
<1>1. CASE r.closed \/ r.active # None \/ r.pending = None
    BY <1>1 DEF StartPending
<1>2. CASE ~(r.closed \/ r.active # None \/ r.pending = None)
    <2>1. /\ refresh' = [r EXCEPT !.active = r.pending.generation, !.pending = None]
          /\ workers' = ws \cup {Started(r.pending)}
        BY <1>2 DEF StartPending
    <2>2. r.pending \in Job
        BY <1>2 DEF Refresh
    <2>3. r.pending.generation \in Generations /\ r.pending.snapshots \subseteq Snapshot
        BY <2>2 DEF Job
    <2>4. refresh' \in Refresh /\ refresh'.generation = r.generation /\ refresh'.closed = r.closed
          /\ refresh'.active = r.pending.generation /\ refresh'.pending = None
        BY <2>1, <2>3 DEF Refresh
    <2> DEFINE w == Started(r.pending)
    <2>5. /\ w \in Worker /\ w.generation = r.pending.generation /\ w.todo = r.pending.snapshots
          /\ w.now = None /\ w.unread = {} /\ w.probes = {} /\ ~w.cancelled
        BY <2>3 DEF Started, Worker
    <2> HIDE DEF w
    <2> QED
        BY <1>2, <2>1, <2>4, <2>5 DEF w
<1> QED
    BY <1>1, <1>2

(* Cancelling touches only the flag, and leaves nobody out.                *)
LEMMA CancelledIs ==
    ASSUME workers \subseteq Worker
    PROVE  /\ Cancelled(workers) \subseteq Worker
           /\ \A v \in Cancelled(workers) : \E w \in workers : v.generation = w.generation
           /\ workers = {} => Cancelled(workers) = {}
           /\ \A w : workers = {w} => \E v : Cancelled(workers) = {v} /\ v.generation = w.generation
<1> DEFINE V(w) == [w EXCEPT !.cancelled = w.cancelled \/ w.generation = refresh.active]
<1>1. \A w \in workers : V(w) \in Worker /\ V(w).generation = w.generation
    BY DEF Worker
<1>2. Cancelled(workers) = {V(w) : w \in workers}
    BY DEF Cancelled
<1> HIDE DEF V
<1> QED
    BY <1>1, <1>2

(* The picture that counts for an album is one of those that are committed.*)
LEMMA CommitIs ==
    ASSUME NEW accepted, Commit(accepted), NEW a \in Albums
    PROVE  \/ /\ manifest'[a] = manifest[a]
              /\ ~\E p \in accepted : p.album = a
           \/ \E p \in accepted : p.album = a /\ manifest'[a] = Picture(p)
<1> DEFINE Answered == {Picture(p) : p \in {q \in accepted : q.album = a}}
<1>1. manifest'[a] = IF Answered = {} THEN manifest[a] ELSE CHOOSE x \in Answered : TRUE
    BY DEF Commit
<1>2. CASE Answered = {}
    BY <1>1, <1>2
<1>3. CASE Answered # {}
    <2>1. manifest'[a] \in Answered
        BY <1>1, <1>3
    <2> QED
        BY <2>1
<1> QED
    BY <1>2, <1>3

(* What is committed is the cache of pictures that it was, and shown.      *)
LEMMA CommittedIsCached ==
    ASSUME IInv, NEW accepted, Commit(accepted)
    PROVE  /\ manifest' \in [Albums -> Arts \cup {None}]
           /\ shown' = Authority!Cached(library, manifest')
<1>1. manifest \in [Albums -> Arts \cup {None}] /\ shown = Authority!Cached(library, manifest)
    BY DEF IInv, TypeOK, ShownIsCached
<1>2. \A a \in Albums : manifest'[a] \in Arts \cup {None}
    <2> SUFFICES ASSUME NEW a \in Albums PROVE manifest'[a] \in Arts \cup {None}
        OBVIOUS
    <2>1. \A p : Picture(p) \in Arts \cup {None}
        BY DEF Picture
    <2> QED
        BY <1>1, <2>1, CommitIs
<1>3. manifest' \in [Albums -> Arts \cup {None}]
    <2>1. manifest' = [a \in Albums |-> manifest'[a]]
        BY DEF Commit
    <2> QED
        BY <1>2, <2>1
<1>4. shown' = [a \in Albums |-> IF a \in Authority!Current(library) THEN manifest'[a] ELSE None]
    <2> DEFINE Answered(a) == {Picture(p) : p \in {q \in accepted : q.album = a}}
    <2>1. shown' = [a \in Albums |-> IF a \notin Authority!Current(library) THEN None
                                     ELSE IF Answered(a) = {} THEN shown[a] ELSE manifest'[a]]
        BY DEF Commit
    <2>2. \A a \in Albums : Answered(a) = {} => manifest'[a] = manifest[a]
        BY DEF Commit
    <2> HIDE DEF Answered
    <2>3. \A a \in Albums : a \in Authority!Current(library) => shown[a] = manifest[a]
        BY <1>1 DEF Authority!Cached
    <2> QED
        BY <2>1, <2>2, <2>3
<1> QED
    BY <1>3, <1>4 DEF Authority!Cached

(* A picture that counts was accepted; an accepted one is passed over only *)
(* when its blob is gone.                                                  *)
LEMMA ApplyIs ==
    ASSUME NEW probes, Apply(probes), NEW a \in Albums
    PROVE  \/ /\ manifest'[a] = manifest[a]
              /\ undisturbed' => ~\E p \in probes : Accepts(p) /\ p.album = a
           \/ \E p \in probes : Accepts(p) /\ p.album = a /\ manifest'[a] = Picture(p)
<1>1. PICK lost \in SUBSET Found(probes) :
          /\ Commit({p \in probes : Accepts(p)} \ lost)
          /\ undisturbed' = (undisturbed /\ lost = {})
    BY DEF Apply
<1> DEFINE accepted == {p \in probes : Accepts(p)} \ lost
<1>2. accepted \subseteq {p \in probes : Accepts(p)}
    OBVIOUS
<1>3. undisturbed' => accepted = {p \in probes : Accepts(p)}
    BY <1>1
<1>4. Commit(accepted)
    BY <1>1
<1> HIDE DEF accepted
<1> QED
    BY <1>2, <1>3, <1>4, CommitIs

-----------------------------------------------------------------------------
(* What the invariant says                                                 *)

(* At startup nothing was asked for.                                       *)
LEMMA InitIInv == Init => IInv
<1> SUFFICES ASSUME Init PROVE IInv
    OBVIOUS
<1>1. /\ refresh = [generation |-> 0, active |-> None, pending |-> None, closed |-> FALSE]
      /\ workers = {} /\ results = {} /\ undisturbed = FALSE /\ changes = 0
      /\ seen = [t \in Tracks |-> {}]
    BY DEF Init
<1>2. refresh \in Refresh
    BY <1>1, BoundsAssumption DEF Refresh, Generations
<1>3. library \in Authority!Libraries
    BY DEF Init, Authority!Libraries
<1>4. shown \in [Albums -> Arts \cup {None}] /\ manifest \in [Albums -> Arts \cup {None}]
    BY DEF Init, Authority!Cached
<1>5. TypeOK
    <2>1. art \in [Tracks -> Authority!Observations] /\ seen \in [Tracks -> SUBSET Authority!Observations]
        BY <1>1 DEF Init
    <2>2. workers \subseteq Worker /\ results \subseteq Result
        BY <1>1
    <2>3. undisturbed \in BOOLEAN
        BY <1>1
    <2>4. changes \in 0..MaxChanges
        BY <1>1, BoundsAssumption
    <2> QED
        BY <1>2, <1>3, <1>4, <2>1, <2>2, <2>3, <2>4 DEF TypeOK
<1>6. Flight /\ Coalesced /\ Reading /\ Evidence /\ Progress
    BY <1>1 DEF Flight, Coalesced, LatestWaits, Reading, Evidence, Progress
<1>7. ~Outstanding
    BY <1>1, NoneIsNoGeneration, BoundsAssumption DEF Outstanding, Generations
<1>8. SeenIsKept
    BY <1>1, <1>7 DEF SeenIsKept
<1>9. ShownIsCached
    BY DEF Init, ShownIsCached
<1> QED
    BY <1>5, <1>6, <1>8, <1>9 DEF IInv

(* The latest request is outstanding as long as its worker or result is    *)
(* there, or it waits.                                                     *)
LEMMA LatestIsOutstanding ==
    ASSUME IInv, NEW x \in workers \cup results
    PROVE  /\ ~refresh.closed => x.generation = refresh.active /\ refresh.active # None
           /\ ~refresh.closed => x.generation <= refresh.generation
           /\ IsLatest(x) => Outstanding /\ refresh.active = refresh.generation
<1>1. ~refresh.closed => refresh.active # None /\ Flies(refresh.active)
    BY DEF IInv, Flight
<1>2. ~refresh.closed => x.generation = refresh.active
    BY <1>1 DEF Flies
<1> QED
    BY <1>1, <1>2 DEF IInv, Coalesced, IsLatest, Outstanding

(* When nothing flies, nothing waits: the last request was answered.       *)
LEMMA IdleIsAnswered == ASSUME IInv, refresh.active = None PROVE ~Outstanding
<1>1. refresh.pending = None
    BY DEF IInv, Coalesced, LatestWaits
<1>2. refresh.generation # None
    BY NoneIsNoGeneration DEF IInv, TypeOK, Refresh
<1> QED
    BY <1>1, <1>2 DEF Outstanding

(* The properties follow.                                                  *)
LEMMA IInvConsistent == IInv => Consistent /\ ShowsTheDisk
<1> SUFFICES ASSUME IInv PROVE Consistent /\ ShowsTheDisk
    OBVIOUS
<1>1. SingleFlight
    <2> DEFINE flying == {w.generation : w \in workers} \cup {r.generation : r \in results}
    <2> SUFFICES ASSUME ~refresh.closed
                 PROVE  /\ flying = (IF refresh.active = None THEN {} ELSE {refresh.active})
                        /\ Cardinality(workers) + Cardinality(results) <= 1
        BY DEF SingleFlight
    <2>1. CASE refresh.active = None
        <3>1. workers = {} /\ results = {}
            BY <2>1 DEF IInv, Flight
        <3> QED
            BY <2>1, <3>1, FS_EmptySet
    <2>2. CASE refresh.active # None
        <3>1. Flies(refresh.active)
            BY <2>2 DEF IInv, Flight
        <3>2. ASSUME NEW w \in workers, workers = {w}, results = {}, w.generation = refresh.active
              PROVE  flying = {refresh.active} /\ Cardinality(workers) + Cardinality(results) <= 1
            <4>1. Cardinality({w}) = 1 /\ Cardinality({}) = 0
                BY FS_EmptySet, FS_Singleton
            <4> QED
                BY <3>2, <4>1
        <3>3. ASSUME NEW r \in results, results = {r}, workers = {}, r.generation = refresh.active
              PROVE  flying = {refresh.active} /\ Cardinality(workers) + Cardinality(results) <= 1
            <4>1. Cardinality({r}) = 1 /\ Cardinality({}) = 0
                BY FS_EmptySet, FS_Singleton
            <4> QED
                BY <3>3, <4>1
        <3> QED
            BY <2>2, <3>1, <3>2, <3>3 DEF Flies
    <2> QED
        BY <2>1, <2>2
<1>2. Consistent
    BY <1>1 DEF Consistent, IInv, Coalesced
<1>3. ShowsTheDisk
    <2> SUFFICES ASSUME undisturbed, ~refresh.closed, refresh.active = None, NEW a \in Albums
                 PROVE  /\ There(a) \cap Arts # {} => shown[a] \in There(a)
                        /\ (There(a) = {"absent"} /\ Selection(library, a) = Authority!Members(library, a))
                              => shown[a] = None
        BY DEF ShowsTheDisk, There
    <2>1. ~Outstanding
        BY IdleIsAnswered
    <2>2. ShownRight(a)
        BY <2>1 DEF IInv, Progress
    <2> QED
        BY <2>2 DEF ShownRight
<1> QED
    BY <1>2, <1>3

-----------------------------------------------------------------------------
(* The worker                                                              *)

(* A worker may become another, if it is as honest and as far.             *)
LEMMA ReplaceKeeps ==
    ASSUME IInv, NEW w \in workers, NEW v \in Worker, Replace(w, v),
           v.generation = w.generation, v.now = None => v.unread = {},
           WorkerUnchanged, results' = results,
           undisturbed' \in BOOLEAN, undisturbed' => undisturbed,
           IsLatest(w) => Honest(v), undisturbed' /\ IsLatest(w) => OnTrack(v)
    PROVE  IInv'
<1>1. /\ workers' = (workers \ {w}) \cup {v} /\ results' = results
      /\ library' = library /\ art' = art /\ seen' = seen /\ manifest' = manifest
      /\ shown' = shown /\ refresh' = refresh /\ changes' = changes
    BY DEF Replace, WorkerUnchanged
<1>2. TypeOK'
    BY <1>1 DEF IInv, TypeOK
<1>3. Flight'
    <2>1. \A g : Flies(g) => Flies(g)'
        BY <1>1 DEF Flies
    <2>2. ~refresh.closed => refresh.active # None
        BY DEF IInv, Flight
    <2> QED
        BY <1>1, <2>1, <2>2 DEF IInv, Flight
<1>4. Coalesced' /\ ShownIsCached' /\ SeenIsKept'
    BY <1>1 DEF IInv, Coalesced, LatestWaits, ShownIsCached, SeenIsKept, Outstanding
<1>5. Reading'
    BY <1>1 DEF IInv, Reading
<1>6. (IsLatest(w) <=> IsLatest(v)') /\ \A x : IsLatest(x)' <=> IsLatest(x)
    BY <1>1 DEF IsLatest
<1>7. Evidence'
    <2>1. \A u : Honest(u)' <=> Honest(u)
        BY <1>1 DEF Honest, Witnessed
    <2>2. \A p : Witnessed(p)' <=> Witnessed(p)
        BY <1>1 DEF Witnessed
    <2> QED
        BY <1>1, <1>6, <2>1, <2>2 DEF IInv, Evidence
<1>8. Progress'
    <2>1. \A u : OnTrack(u)' <=> OnTrack(u)
        BY <1>1 DEF OnTrack, Right, There
    <2>2. \A r : Delivers(r)' <=> Delivers(r)
        BY <1>1 DEF Delivers, Right, There
    <2>3. (Outstanding' <=> Outstanding) /\ \A a : ShownRight(a)' <=> ShownRight(a)
        BY <1>1 DEF Outstanding, ShownRight, There
    <2> QED
        BY <1>1, <1>6, <2>1, <2>2, <2>3 DEF IInv, Progress
<1> QED
    BY <1>2, <1>3, <1>4, <1>5, <1>7, <1>8 DEF IInv

(* The next album is one of those to be probed; none of it was read.       *)
LEMMA NextAlbumKeeps == ASSUME IInv, NEW w \in workers, NextAlbum(w) PROVE IInv'
<1>1. PICK s \in w.todo : Replace(w, [w EXCEPT !.todo = @ \ {s}, !.now = s, !.unread = s.paths,
                                               !.certain = TRUE])
    BY DEF NextAlbum
<1>2. w \in Worker
    BY DEF IInv, TypeOK
<1>3. s \in Snapshot /\ s.paths \subseteq Tracks /\ s # None
    BY <1>2, NoRecordAssumption DEF Worker, Snapshot
<1>4. PICK v : v = [w EXCEPT !.todo = w.todo \ {s}, !.now = s, !.unread = s.paths, !.certain = TRUE]
    OBVIOUS
<1>5. /\ v = [generation |-> w.generation, todo |-> w.todo \ {s}, now |-> s, unread |-> s.paths,
              certain |-> TRUE, probes |-> w.probes, cancelled |-> w.cancelled]
    BY <1>2, <1>4 DEF Worker
<1>6. /\ v \in Worker /\ v.generation = w.generation /\ v.todo = w.todo \ {s} /\ v.now = s
      /\ v.unread = s.paths /\ v.probes = w.probes /\ v.cancelled = w.cancelled /\ v.certain = TRUE
    BY <1>2, <1>3, <1>5 DEF Worker
<1>7. Read(v) = {}
    BY <1>6 DEF Read
<1>8. w.now = None /\ WorkerUnchanged /\ results' = results /\ undisturbed' = undisturbed
    BY DEF NextAlbum
<1>9. IsLatest(w) => Honest(v)
    BY <1>3, <1>6, <1>7 DEF IInv, Evidence, Honest
<1>10. undisturbed' /\ IsLatest(w) => OnTrack(v)
    <2> SUFFICES ASSUME undisturbed, IsLatest(w) PROVE OnTrack(v)
        BY <1>8
    <2>1. OnTrack(w)
        BY DEF IInv, Progress, IsLatest
    <2>2. \A u \in Snapshots(library) : u # None
        BY SnapshotsAre, NoRecordAssumption
    <2> QED
        BY <1>6, <1>7, <1>8, <2>1, <2>2 DEF OnTrack
<1>11. undisturbed \in BOOLEAN
    BY DEF IInv, TypeOK
<1> QED
    BY <1>1, <1>3, <1>4, <1>6, <1>8, <1>9, <1>10, <1>11, ReplaceKeeps

(* A verdict on the album that is probed is one more probe.                *)
LEMMA ProbedIs ==
    ASSUME NEW w \in Worker, w.now # None, NEW verdict \in Arts \cup {"absent", "unavailable"}
    PROVE  LET p == [album |-> w.now.album, members |-> w.now.members,
                     complete |-> Complete(w.now), verdict |-> verdict]
               v == Probed(w, verdict)
           IN  /\ p.album = w.now.album /\ p.members = w.now.members
               /\ p.complete = Complete(w.now) /\ p.verdict = verdict
               /\ v \in Worker /\ v.generation = w.generation /\ v.cancelled = w.cancelled
               /\ v.todo = w.todo /\ v.now = None /\ v.unread = {}
               /\ v.probes = w.probes \cup {p}
<1> DEFINE p == [album |-> w.now.album, members |-> w.now.members,
                 complete |-> Complete(w.now), verdict |-> verdict]
           v == Probed(w, verdict)
<1>1. w.now \in Snapshot
    BY DEF Worker
<1>2. p \in Probe
    BY <1>1 DEF Snapshot, Probe, Complete
<1>3. p.album = w.now.album /\ p.members = w.now.members /\ p.complete = Complete(w.now) /\ p.verdict = verdict
    OBVIOUS
<1>4. v = [w EXCEPT !.now = None, !.unread = {}, !.probes = w.probes \cup {p}]
    BY DEF Probed
<1> HIDE DEF p, v
<1>5. w.probes \cup {p} \in SUBSET Probe
    BY <1>2 DEF Worker
<1>6. v = [generation |-> w.generation, todo |-> w.todo, now |-> None, unread |-> {},
           certain |-> w.certain, probes |-> w.probes \cup {p}, cancelled |-> w.cancelled]
    BY <1>4 DEF Worker
<1>7. /\ v \in Worker /\ v.generation = w.generation /\ v.cancelled = w.cancelled
      /\ v.todo = w.todo /\ v.now = None /\ v.unread = {} /\ v.probes = w.probes \cup {p}
    BY <1>5, <1>6 DEF Worker
<1> QED
    BY <1>3, <1>7 DEF p, v

(* A picture that was read is a verdict: it was seen at a member, and it   *)
(* is there.  Its blob may not be stored: then there is no verdict.        *)
LEMMA PictureKeeps ==
    ASSUME IInv, NEW w \in workers, NEW t \in w.unread, art[t] \in Arts,
           WorkerUnchanged, results' = results,
           \/ Replace(w, Probed(w, art[t])) /\ undisturbed' = undisturbed
           \/ Replace(w, Probed(w, "unavailable")) /\ undisturbed' = FALSE
    PROVE  IInv'
<1>1. w \in Worker /\ w.now # None /\ t \in Tracks /\ w.now \in Snapshot
    BY DEF IInv, TypeOK, Reading, Worker
<1>2. undisturbed \in BOOLEAN
    BY DEF IInv, TypeOK
<1>3. PICK verdict \in {art[t], "unavailable"} :
          /\ Replace(w, Probed(w, verdict)) /\ undisturbed' \in BOOLEAN
          /\ undisturbed' => undisturbed /\ verdict = art[t]
    <2>1. CASE Replace(w, Probed(w, art[t])) /\ undisturbed' = undisturbed
        BY <1>2, <2>1
    <2>2. CASE Replace(w, Probed(w, "unavailable")) /\ undisturbed' = FALSE
        BY <2>2
    <2> QED
        BY <2>1, <2>2
<1>4. verdict \in Arts \cup {"absent", "unavailable"} /\ verdict # "absent"
      /\ (verdict \in Arts => verdict = art[t])
    BY NoneAssumption
<1>5. PICK p : p = [album |-> w.now.album, members |-> w.now.members,
                    complete |-> Complete(w.now), verdict |-> verdict]
    OBVIOUS
<1>6. PICK v : v = Probed(w, verdict)
    OBVIOUS
<1>7. /\ p.album = w.now.album /\ p.members = w.now.members
      /\ p.complete = Complete(w.now) /\ p.verdict = verdict
      /\ v \in Worker /\ v.generation = w.generation /\ v.cancelled = w.cancelled
      /\ v.todo = w.todo /\ v.now = None /\ v.unread = {} /\ v.probes = w.probes \cup {p}
    BY <1>1, <1>4, <1>5, <1>6, ProbedIs
<1>8. IsLatest(w) => Honest(v)
    <2> SUFFICES ASSUME IsLatest(w) PROVE Honest(v)
        OBVIOUS
    <2>1. Honest(w)
        BY DEF IInv, Evidence
    <2>2. art[t] \in seen[t]
        BY <1>1, LatestIsOutstanding DEF IInv, SeenIsKept
    <2>3. t \in w.now.members
        BY <1>1, <2>1 DEF Honest, WellFormed
    <2>4. Witnessed(p)
        BY <1>4, <1>7, <2>2, <2>3 DEF Witnessed
    <2> QED
        BY <1>7, <2>1, <2>4 DEF Honest
<1>9. undisturbed' /\ IsLatest(w) => OnTrack(v)
    <2> SUFFICES ASSUME undisturbed', IsLatest(w) PROVE OnTrack(v)
        OBVIOUS
    <2>1. OnTrack(w) /\ Honest(w) /\ verdict = art[t]
        BY <1>3 DEF IInv, Progress, Evidence, IsLatest
    <2>2. /\ w.now \in Snapshots(library) /\ w.now.members = Authority!Members(library, w.now.album)
          /\ w.now.paths = Selection(library, w.now.album)
        BY <1>1, <2>1, SnapshotsAre DEF OnTrack
    <2>3. art[t] \in There(w.now.album) /\ There(w.now.album) # {"absent"}
        BY <1>1, <2>1, <2>2, NoneAssumption DEF Honest, There
    <2>4. p.complete <=> Selection(library, p.album) = p.members
        BY <1>7, <2>2 DEF Complete
    <2>5. Right(p)
        BY <1>7, <2>1, <2>2, <2>3, <2>4 DEF Right
    <2>6. \A s \in Snapshots(library) : s \in v.todo \/ Covered(v.probes, s)
        BY <1>7, <2>1 DEF OnTrack, Covered
    <2> QED
        BY <1>7, <2>1, <2>5, <2>6 DEF OnTrack
<1> QED
    BY <1>3, <1>6, <1>7, <1>8, <1>9, ReplaceKeeps

(* Without a picture the worker reads on; whoever has read all paths says  *)
(* "absent" only of an album it could read to the last member.             *)
LEMMA NoPictureKeeps ==
    ASSUME IInv, NEW w \in workers, NEW t \in w.unread, art[t] \notin Arts, ReadTrack(w, t)
    PROVE  IInv'
<1>1. w \in Worker /\ w.now # None /\ t \in Tracks /\ w.now \in Snapshot
    BY DEF IInv, TypeOK, Reading, Worker
<1>2. undisturbed \in BOOLEAN
    BY DEF IInv, TypeOK
<1>3. PICK u : u = [w EXCEPT !.unread = w.unread \ {t}, !.certain = w.certain /\ art[t] = "absent"]
    OBVIOUS
<1>4. /\ Replace(w, IF u.unread = {} THEN Probed(u, NothingFound(u)) ELSE u)
      /\ WorkerUnchanged /\ results' = results /\ undisturbed' = undisturbed
    BY <1>3 DEF ReadTrack
<1>5. w.certain \in BOOLEAN /\ (w.certain /\ art[t] = "absent") \in BOOLEAN
    BY <1>1 DEF Worker
<1>6. /\ u \in Worker /\ u.generation = w.generation /\ u.todo = w.todo /\ u.now = w.now
      /\ u.unread = w.unread \ {t} /\ u.probes = w.probes /\ u.cancelled = w.cancelled
      /\ u.certain <=> w.certain /\ art[t] = "absent"
    BY <1>1, <1>3, <1>5 DEF Worker
<1>7. IsLatest(w) =>
          /\ Honest(u) /\ w.unread \subseteq w.now.paths
          /\ Read(u) = Read(w) \cup {t} /\ (u.unread = {} => Read(u) = u.now.paths)
    <2> SUFFICES ASSUME IsLatest(w)
                 PROVE  /\ Honest(u) /\ w.unread \subseteq w.now.paths
                        /\ Read(u) = Read(w) \cup {t} /\ (u.unread = {} => Read(u) = u.now.paths)
        OBVIOUS
    <2>1. Honest(w)
        BY DEF IInv, Evidence
    <2>2. art[t] \in seen[t]
        BY <1>1, LatestIsOutstanding DEF IInv, SeenIsKept
    <2>3. w.unread \subseteq w.now.paths
        BY <1>1, <2>1 DEF Honest
    <2>4. Read(u) = Read(w) \cup {t} /\ (u.unread = {} => Read(u) = u.now.paths)
        BY <1>6, <2>3 DEF Read
    <2>5. u.certain => \A x \in Read(u) : "absent" \in seen[x]
        BY <1>1, <1>6, <2>1, <2>2, <2>4 DEF Honest
    <2> QED
        BY <1>6, <2>1, <2>3, <2>4, <2>5 DEF Honest
<1>8. undisturbed /\ IsLatest(w) => OnTrack(u)
    <2> SUFFICES ASSUME undisturbed, IsLatest(w) PROVE OnTrack(u)
        OBVIOUS
    <2>1. OnTrack(w)
        BY DEF IInv, Progress, IsLatest
    <2>2. (\A x \in Read(u) : art[x] \notin Arts) /\ (u.certain <=> \A x \in Read(u) : art[x] = "absent")
        BY <1>1, <1>6, <1>7, <2>1 DEF OnTrack
    <2> QED
        BY <1>6, <2>1, <2>2 DEF OnTrack
<1>9. CASE u.unread # {}
    <2>1. Replace(w, u)
        BY <1>4, <1>9
    <2> QED
        BY <1>1, <1>2, <1>4, <1>6, <1>7, <1>8, <2>1, ReplaceKeeps
<1>10. CASE u.unread = {}
    <2> DEFINE verdict == NothingFound(u)
    <2>1. /\ verdict \in {"absent", "unavailable"} /\ verdict \notin Arts
          /\ verdict = "absent" <=> u.certain /\ Complete(u.now)
        BY NoneAssumption DEF NothingFound
    <2> HIDE DEF verdict
    <2>2. PICK p : p = [album |-> u.now.album, members |-> u.now.members,
                        complete |-> Complete(u.now), verdict |-> verdict]
        OBVIOUS
    <2>3. PICK v : v = Probed(u, verdict)
        OBVIOUS
    <2>4. /\ p.album = w.now.album /\ p.members = w.now.members
          /\ p.complete = Complete(w.now) /\ p.verdict = verdict
          /\ v \in Worker /\ v.generation = w.generation /\ v.cancelled = w.cancelled
          /\ v.todo = w.todo /\ v.now = None /\ v.unread = {} /\ v.probes = w.probes \cup {p}
        BY <1>1, <1>6, <2>1, <2>2, <2>3, ProbedIs
    <2>5. Replace(w, v)
        BY <1>4, <1>10, <2>3 DEF verdict
    <2>6. IsLatest(w) => Honest(v)
        <3> SUFFICES ASSUME IsLatest(w) PROVE Honest(v)
            OBVIOUS
        <3>1. Honest(u) /\ Read(u) = u.now.paths
            BY <1>7, <1>10
        <3>2. Witnessed(p)
            BY <1>1, <1>6, <2>1, <2>4, <3>1 DEF Witnessed, Honest, Complete
        <3> QED
            BY <1>6, <2>4, <3>1, <3>2 DEF Honest
    <2>7. undisturbed /\ IsLatest(w) => OnTrack(v)
        <3> SUFFICES ASSUME undisturbed, IsLatest(w) PROVE OnTrack(v)
            OBVIOUS
        <3>1. OnTrack(u) /\ Read(u) = u.now.paths
            BY <1>7, <1>8, <1>10
        <3>2. /\ w.now \in Snapshots(library) /\ w.now.members = Authority!Members(library, w.now.album)
              /\ w.now.paths = Selection(library, w.now.album)
            BY <1>1, <1>6, <3>1, SnapshotsAre DEF OnTrack
        <3>3. /\ \A x \in Selection(library, w.now.album) : art[x] \notin Arts
              /\ u.certain <=> \A x \in Selection(library, w.now.album) : art[x] = "absent"
            BY <1>1, <1>6, <3>1, <3>2 DEF OnTrack
        <3>4. /\ There(w.now.album) \cap Arts = {}
              /\ There(w.now.album) = {"absent"} => u.certain
            BY <3>3 DEF There
        <3>5. p.complete <=> Selection(library, p.album) = p.members
            BY <2>4, <3>2 DEF Complete
        <3>6. Right(p)
            BY <1>6, <2>1, <2>4, <3>2, <3>4, <3>5 DEF Right
        <3>7. \A s \in Snapshots(library) : s \in v.todo \/ Covered(v.probes, s)
            BY <1>6, <2>4, <3>1 DEF OnTrack, Covered
        <3> QED
            BY <1>6, <2>4, <3>1, <3>6, <3>7 DEF OnTrack
    <2> QED
        BY <1>2, <1>4, <2>4, <2>5, <2>6, <2>7, ReplaceKeeps
<1> QED
    BY <1>9, <1>10

(* A worker that ends hands over what it found, unless it failed or was    *)
(* cancelled.                                                              *)
LEMMA WorkerEndsKeeps == ASSUME IInv, NEW w \in workers, WorkerEnds(w) PROVE IInv'
<1>1. w \in Worker /\ undisturbed \in BOOLEAN
    BY DEF IInv, TypeOK
<1>2. PICK ok \in BOOLEAN :
          /\ Ends(w, ok) /\ undisturbed' \in BOOLEAN
          /\ undisturbed' => undisturbed
          /\ ok => w.todo = {} /\ w.now = None
          /\ undisturbed' /\ ~ok => w.cancelled
    <2>1. CASE /\ w.todo = {} /\ w.now = None /\ Ends(w, TRUE) /\ undisturbed' = undisturbed
        BY <1>1, <2>1
    <2>2. CASE w.cancelled /\ Ends(w, FALSE) /\ undisturbed' = undisturbed
        BY <1>1, <2>2
    <2>3. CASE Ends(w, FALSE) /\ undisturbed' = FALSE
        BY <2>3
    <2> QED
        BY <2>1, <2>2, <2>3 DEF WorkerEnds
<1>3. PICK r : r = [generation |-> w.generation, ok |-> ok, probes |-> IF ok THEN w.probes ELSE {}]
    OBVIOUS
<1>4. /\ r \in Result /\ r.generation = w.generation /\ r.ok = ok
      /\ r.probes = IF ok THEN w.probes ELSE {}
    BY <1>1, <1>3 DEF Worker, Result
<1>5. /\ workers' = workers \ {w} /\ results' = results \cup {r}
      /\ library' = library /\ art' = art /\ seen' = seen /\ manifest' = manifest
      /\ shown' = shown /\ refresh' = refresh /\ changes' = changes
    <2>1. WorkerUnchanged
        BY DEF WorkerEnds
    <2>2. Ends(w, ok)
        BY <1>2
    <2> QED
        BY <1>3, <2>1, <2>2 DEF Ends, WorkerUnchanged
<1>6. TypeOK'
    <2>1. workers' \subseteq Worker /\ results' \subseteq Result
        BY <1>4, <1>5 DEF IInv, TypeOK
    <2>2. undisturbed' \in BOOLEAN
        BY <1>2
    <2> QED
        BY <1>5, <2>1, <2>2 DEF IInv, TypeOK
<1>7. Flight'
    <2> SUFFICES ASSUME ~refresh.closed PROVE refresh.active # None /\ Flies(refresh.active)'
        BY <1>5 DEF Flight
    <2>1. refresh.active # None /\ Flies(refresh.active)
        BY DEF IInv, Flight
    <2>2. workers = {w} /\ results = {} /\ w.generation = refresh.active
        BY <2>1 DEF Flies
    <2> QED
        BY <1>4, <1>5, <2>1, <2>2 DEF Flies
<1>8. Coalesced' /\ ShownIsCached' /\ SeenIsKept' /\ Reading'
    BY <1>5 DEF IInv, Coalesced, LatestWaits, ShownIsCached, SeenIsKept, Outstanding, Reading
<1>9. (IsLatest(w) <=> IsLatest(r)') /\ \A x : IsLatest(x)' <=> IsLatest(x)
    BY <1>4, <1>5 DEF IsLatest
<1>10. Evidence'
    <2>1. \A u : Honest(u)' <=> Honest(u)
        BY <1>5 DEF Honest, Witnessed
    <2>2. \A p : Witnessed(p)' <=> Witnessed(p)
        BY <1>5 DEF Witnessed
    <2>3. IsLatest(w) => \A p \in r.probes : Witnessed(p)
        BY <1>4 DEF IInv, Evidence, Honest
    <2> QED
        BY <1>5, <1>9, <2>1, <2>2, <2>3 DEF IInv, Evidence
<1>11. Progress'
    <2>1. \A u : OnTrack(u)' <=> OnTrack(u)
        BY <1>5 DEF OnTrack, Right, There
    <2>2. \A x : Delivers(x)' <=> Delivers(x)
        BY <1>5 DEF Delivers, Right, There
    <2>3. (Outstanding' <=> Outstanding) /\ \A a : ShownRight(a)' <=> ShownRight(a)
        BY <1>5 DEF Outstanding, ShownRight, There
    <2>4. undisturbed' => undisturbed
        BY <1>2
    <2>5. undisturbed' /\ IsLatest(w) => Delivers(r)
        <3> SUFFICES ASSUME undisturbed', IsLatest(w) PROVE Delivers(r)
            OBVIOUS
        <3>0. ~refresh.closed /\ undisturbed
            BY <2>4 DEF IsLatest
        <3>1. OnTrack(w) /\ ~w.cancelled
            BY <3>0 DEF IInv, Progress, Evidence, Honest
        <3>2. ok /\ w.todo = {} /\ w.now = None
            BY <1>2, <3>1
        <3>3. \A s \in Snapshots(library) : s # None
            BY SnapshotsAre, NoRecordAssumption
        <3> QED
            BY <1>4, <3>1, <3>2, <3>3 DEF OnTrack, Delivers
    <2> QED
        BY <1>5, <1>9, <2>1, <2>2, <2>3, <2>4, <2>5 DEF IInv, Progress
<1> QED
    BY <1>6, <1>7, <1>8, <1>10, <1>11 DEF IInv

(* No step of the worker breaks the invariant.                             *)
LEMMA WorkerKeeps == ASSUME IInv, WorkerNext PROVE IInv'
<1>1. PICK w \in workers : NextAlbum(w) \/ WorkerEnds(w) \/ (\E t \in w.unread : ReadTrack(w, t))
    BY DEF WorkerNext
<1>2. ASSUME NEW t \in w.unread, ReadTrack(w, t), art[t] \in Arts PROVE IInv'
    BY <1>2, PictureKeeps DEF ReadTrack
<1> QED
    BY <1>1, <1>2, NextAlbumKeeps, WorkerEndsKeeps, NoPictureKeeps

-----------------------------------------------------------------------------
(* The owner asks                                                          *)

(* A cache of pictures shows pictures, whatever the Library is.            *)
LEMMA CachedType ==
    ASSUME NEW lib, manifest \in [Albums -> Arts \cup {None}]
    PROVE  Authority!Cached(lib, manifest) \in [Albums -> Arts \cup {None}]
BY DEF Authority!Cached

(* What is shown depends on the albums of the tracks alone.                *)
LEMMA CachedByAlbums ==
    ASSUME NEW lib, NEW mib, lib.album = mib.album
    PROVE  Authority!Cached(lib, manifest) = Authority!Cached(mib, manifest)
<1>1. \A a : Authority!Members(lib, a) = Authority!Members(mib, a)
    BY DEF Authority!Members
<1> QED
    BY <1>1 DEF Authority!Cached, Authority!Current

(* A request is outstanding if there is anything to probe; what is under   *)
(* way, if anything, is no longer the latest.                              *)
LEMMA ScheduleKeeps ==
    ASSUME IInv, library' \in Authority!Libraries,
           shown' = Authority!Cached(library', manifest), Schedule(library')
    PROVE  IInv' /\ (Outstanding' <=> Snapshots(library') # {})
<1> DEFINE R == Requested(library')
           g == refresh.generation + 1
<1>1. /\ ~refresh.closed /\ refresh.generation < MaxRequests
      /\ art' = art /\ manifest' = manifest /\ results' = results /\ changes' = changes
      /\ undisturbed' = TRUE
      /\ seen' = [t \in Tracks |-> IF Snapshots(library') = {} THEN {} ELSE {art[t]}]
    BY DEF Schedule
<1>2. refresh \in Refresh /\ workers \subseteq Worker /\ results \subseteq Result
    BY DEF IInv, TypeOK
<1>3. /\ R \in Refresh /\ R.generation = g /\ R.active = refresh.active /\ ~R.closed
      /\ R.pending = None <=> Snapshots(library') = {}
      /\ R.pending # None => R.pending.generation = g /\ R.pending.snapshots = Snapshots(library')
    BY <1>1, <1>2, RequestedIs
<1>4. refresh.generation \in Nat /\ g \in Nat /\ g # None /\ refresh.generation < g
      /\ (refresh.active # None => refresh.active \in Nat /\ refresh.active < g)
    <2>1. refresh.generation \in Nat /\ refresh.active \in Nat \cup {None}
        BY <1>2, NoneIsNoGeneration DEF Refresh
    <2>2. g \in Nat /\ refresh.generation < g
        BY <2>1
    <2>3. g # None
        BY <2>2, NoneAssumption
    <2>4. refresh.active # None => refresh.active <= refresh.generation
        BY DEF IInv, Coalesced
    <2> QED
        BY <2>1, <2>2, <2>3, <2>4
<1> HIDE DEF R, g
<1>5. /\ refresh' \in Refresh /\ workers' \subseteq Worker /\ refresh'.generation = g
      /\ ~refresh'.closed
      /\ Flight' /\ Reading' /\ Coalesced'
      /\ (Outstanding' <=> Snapshots(library') # {})
      /\ refresh'.pending # None => refresh'.pending.snapshots = Snapshots(library')
      /\ \A w \in workers' : w.generation = g =>
            /\ w.todo = Snapshots(library') /\ w.now = None /\ w.unread = {} /\ w.probes = {}
            /\ ~w.cancelled
      /\ \A r \in results' : r.generation # g
    <2>1. CASE refresh.active # None
        <3>1. refresh' = R /\ workers' = Cancelled(workers)
            BY <1>1, <2>1 DEF Schedule, R
        <3>2. /\ Cancelled(workers) \subseteq Worker
              /\ \A v \in Cancelled(workers) : \E w \in workers : v.generation = w.generation
              /\ workers = {} => Cancelled(workers) = {}
              /\ \A w : workers = {w} => \E v : Cancelled(workers) = {v} /\ v.generation = w.generation
            BY <1>2, CancelledIs
        <3>3. Flies(refresh.active)
            BY <1>1, <2>1 DEF IInv, Flight
        <3>4. Flies(refresh.active)'
            BY <1>1, <1>3, <3>1, <3>2, <3>3 DEF Flies
        <3>5. \A x \in workers' \cup results' : x.generation = refresh.active
            BY <1>1, <3>1, <3>2, <3>3 DEF Flies
        <3>6. Reading'
            <4>1. \A v \in Cancelled(workers) : v.now = None => v.unread = {}
                <5> SUFFICES ASSUME NEW w \in workers
                             PROVE  LET v == [w EXCEPT !.cancelled = w.cancelled \/ w.generation = refresh.active]
                                    IN  v.now = None => v.unread = {}
                    BY DEF Cancelled
                <5>1. w \in Worker
                    BY <1>2
                <5> QED
                    BY <5>1 DEF IInv, Reading, Worker
            <4> QED
                BY <3>1, <4>1 DEF Reading
        <3>7. Flight'
            BY <1>3, <2>1, <3>1, <3>4 DEF Flight
        <3>8. Coalesced'
            BY <1>3, <1>4, <2>1, <3>1 DEF Coalesced, LatestWaits
        <3>9. Outstanding' <=> Snapshots(library') # {}
            BY <1>3, <1>4, <2>1, <3>1 DEF Outstanding
        <3> QED
            BY <1>3, <1>4, <2>1, <3>1, <3>2, <3>5, <3>6, <3>7, <3>8, <3>9
    <2>2. CASE refresh.active = None
        <3>1. StartPending(R, workers) /\ workers = {} /\ results = {}
            BY <1>1, <2>2 DEF Schedule, R, IInv, Flight
        <3>2. CASE R.pending = None
            <4>1. refresh' = R /\ workers' = {} /\ results' = {}
                BY <1>1, <3>1, <3>2 DEF StartPending
            <4>2. Flight' /\ Reading' /\ Coalesced' /\ ~Outstanding'
                BY <1>3, <1>4, <2>2, <3>2, <4>1
                   DEF Flight, Reading, Coalesced, LatestWaits, Outstanding
            <4> QED
                BY <1>3, <3>2, <4>1, <4>2
        <3>3. CASE R.pending # None
            <4> DEFINE w == Started(R.pending)
            <4>1. /\ refresh' \in Refresh /\ refresh'.generation = g /\ ~refresh'.closed
                  /\ refresh'.active = g /\ refresh'.pending = None
                  /\ workers' = {w} /\ w \in Worker /\ w.generation = g /\ w.todo = Snapshots(library')
                  /\ w.now = None /\ w.unread = {} /\ w.probes = {} /\ ~w.cancelled
                BY <1>2, <1>3, <2>2, <3>1, <3>3, StartPendingIs
            <4> HIDE DEF w
            <4>2. Flight' /\ Reading' /\ Coalesced' /\ Outstanding' /\ results' = {}
                BY <1>1, <1>4, <3>1, <4>1
                   DEF Flight, Flies, Reading, Coalesced, LatestWaits, Outstanding
            <4> QED
                BY <1>3, <3>3, <4>1, <4>2
        <3> QED
            BY <3>2, <3>3
    <2> QED
        BY <2>1, <2>2
<1>6. TypeOK'
    <2>1. art \in [Tracks -> Authority!Observations]
        BY DEF IInv, TypeOK
    <2>2. seen' \in [Tracks -> SUBSET Authority!Observations]
        BY <1>1, <2>1
    <2>3. manifest \in [Albums -> Arts \cup {None}]
        BY DEF IInv, TypeOK
    <2>4. shown' \in [Albums -> Arts \cup {None}]
        BY <2>3, CachedType
    <2>5. undisturbed' \in BOOLEAN
        BY <1>1
    <2> QED
        BY <1>1, <1>5, <2>1, <2>2, <2>3, <2>4, <2>5 DEF IInv, TypeOK
<1>7. ShownIsCached'
    BY <1>1 DEF ShownIsCached
<1>8. SeenIsKept'
    BY <1>1, <1>5 DEF SeenIsKept
<1>9. \A s \in Snapshots(library') : WellFormed(s)
    BY SnapshotsAre
<1>10. Evidence'
    <2>1. \A w \in workers' : IsLatest(w)' => Honest(w)'
        BY <1>5, <1>9 DEF IsLatest, Honest
    <2>2. \A r \in results' : ~IsLatest(r)'
        BY <1>5 DEF IsLatest
    <2> QED
        BY <1>5, <1>9, <2>1, <2>2 DEF Evidence
<1>11. Progress'
    <2>1. \A w \in workers' : IsLatest(w)' => OnTrack(w)'
        BY <1>5 DEF IsLatest, OnTrack
    <2>2. \A r \in results' : ~IsLatest(r)'
        BY <1>5 DEF IsLatest
    <2>3. ASSUME ~Outstanding', NEW a \in Albums PROVE ShownRight(a)'
        <3>1. Selection(library', a) = {}
            BY <1>5, <2>3, SnapshotsAre
        <3>2. There(a)' = {}
            BY <3>1 DEF There
        <3> QED
            BY <3>2 DEF ShownRight
    <2> QED
        BY <1>5, <2>1, <2>2, <2>3 DEF Progress
<1> QED
    BY <1>5, <1>6, <1>7, <1>8, <1>10, <1>11 DEF IInv

(* The Library that a commit, a loss or a retirement leaves is one.        *)
LEMMA LibraryChanges ==
    ASSUME IInv, NEW s \in Sources, ScanCommits(s) \/ SourceIsLost(s) \/ SourceRetires(s)
    PROVE  /\ library' \in Authority!Libraries /\ Schedule(library')
           /\ shown' = Authority!Cached(library', manifest)
<1>1. library \in Authority!Libraries
    BY DEF IInv, TypeOK
<1>2. CASE ScanCommits(s)
    <2> DEFINE mine == {t \in Tracks : SourceOf[t] = s}
    <2>1. PICK albums \in [mine -> Albums \cup {None}], gone \in SUBSET mine :
              library' = [album    |-> [t \in Tracks |-> IF SourceOf[t] = s THEN albums[t]
                                                         ELSE library.album[t]],
                          missing  |-> {t \in library.missing : SourceOf[t] # s} \cup gone,
                          observed |-> library.observed \cup {s}]
        BY <1>2 DEF ScanCommits
    <2>2. [t \in Tracks |-> IF SourceOf[t] = s THEN albums[t] ELSE library.album[t]]
              \in [Tracks -> Albums \cup {None}]
        BY <1>1 DEF Authority!Libraries
    <2>3. library' \in Authority!Libraries
        BY <1>1, <2>1, <2>2 DEF Authority!Libraries
    <2> QED
        BY <1>2, <2>3 DEF ScanCommits
<1>3. CASE SourceIsLost(s)
    <2>1. library' = [library EXCEPT !.observed = library.observed \ {s}]
        BY <1>3 DEF SourceIsLost
    <2>2. library' \in Authority!Libraries /\ library'.album = library.album
        BY <1>1, <2>1 DEF Authority!Libraries
    <2>3. shown' = shown /\ shown = Authority!Cached(library, manifest)
        BY <1>3 DEF SourceIsLost, IInv, ShownIsCached
    <2> QED
        BY <1>3, <2>2, <2>3, CachedByAlbums DEF SourceIsLost
<1>4. CASE SourceRetires(s)
    <2>1. PICK albums : albums = [t \in Tracks |-> IF SourceOf[t] = s THEN None ELSE library.album[t]]
        OBVIOUS
    <2>2. albums \in [Tracks -> Albums \cup {None}]
        BY <1>1, <2>1 DEF Authority!Libraries
    <2>3. library' = [library EXCEPT !.observed = library.observed \ {s}, !.album = albums]
        BY <1>4, <2>1 DEF SourceRetires
    <2>4. library' \in Authority!Libraries
        BY <1>1, <2>2, <2>3 DEF Authority!Libraries
    <2> QED
        BY <1>4, <2>4 DEF SourceRetires
<1> QED
    BY <1>2, <1>3, <1>4

(* A file that goes missing is no longer what the latest request saw.      *)
LEMMA GoesMissingKeeps == ASSUME IInv, NEW t \in Tracks, GoesMissing(t) PROVE IInv'
<1>1. /\ library' = [library EXCEPT !.missing = library.missing \cup {t}]
      /\ art' = art /\ seen' = seen /\ manifest' = manifest /\ shown' = shown
      /\ refresh' = refresh /\ workers' = workers /\ results' = results /\ changes' = changes
      /\ ~undisturbed'
    BY DEF GoesMissing
<1>2. undisturbed' \in BOOLEAN
    BY DEF GoesMissing
<1>3. library' \in Authority!Libraries /\ library'.album = library.album
    BY <1>1 DEF IInv, TypeOK, Authority!Libraries
<1>4. TypeOK'
    BY <1>1, <1>2, <1>3 DEF IInv, TypeOK
<1>5. ShownIsCached'
    BY <1>1, <1>3, CachedByAlbums DEF IInv, ShownIsCached
<1>6. Flight' /\ Coalesced' /\ Reading' /\ SeenIsKept'
    BY <1>1 DEF IInv, Flight, Flies, Coalesced, LatestWaits, Reading, SeenIsKept, Outstanding
<1>7. Evidence'
    BY <1>1 DEF IInv, Evidence, Honest, Witnessed, IsLatest
<1>8. Progress'
    BY <1>1 DEF Progress
<1> QED
    BY <1>4, <1>5, <1>6, <1>7, <1>8 DEF IInv

(* A file that changes is seen as it was and as it is.                     *)
LEMMA FileChangesKeeps == ASSUME IInv, NEW t \in Tracks, FileChanges(t) PROVE IInv'
<1>1. /\ library' = library /\ manifest' = manifest /\ shown' = shown
      /\ refresh' = refresh /\ workers' = workers /\ results' = results
      /\ ~undisturbed' /\ changes < MaxChanges /\ changes' = changes + 1
      /\ seen' = IF Outstanding THEN [u \in Tracks |-> seen[u] \cup {art'[u]}] ELSE seen
    BY DEF FileChanges
<1>2. undisturbed' \in BOOLEAN
    BY DEF FileChanges
<1>3. art' \in [Tracks -> Authority!Observations]
    BY DEF FileChanges, IInv, TypeOK
<1>4. seen \in [Tracks -> SUBSET Authority!Observations]
    BY DEF IInv, TypeOK
<1>5. seen' \in [Tracks -> SUBSET Authority!Observations]
    BY <1>1, <1>3, <1>4
<1>6. changes' \in 0..MaxChanges
    BY <1>1, BoundsAssumption DEF IInv, TypeOK
<1>7. TypeOK'
    BY <1>1, <1>2, <1>3, <1>5, <1>6 DEF IInv, TypeOK
<1>8. ShownIsCached' /\ Flight' /\ Coalesced' /\ Reading'
    BY <1>1 DEF IInv, ShownIsCached, Flight, Flies, Coalesced, LatestWaits, Reading
<1>9. SeenIsKept' /\ \A u \in Tracks : seen[u] \subseteq seen'[u]
    BY <1>1, <1>4 DEF IInv, SeenIsKept, Outstanding
<1>10. Evidence'
    <2>1. \A r : IsLatest(r)' <=> IsLatest(r)
        BY <1>1 DEF IsLatest
    <2>2. \A p \in Probe : Witnessed(p) => Witnessed(p)'
        BY <1>9 DEF Witnessed, Probe
    <2>3. \A w \in workers : w \in Worker /\ w.probes \subseteq Probe
        BY DEF IInv, TypeOK, Worker
    <2>4. ASSUME NEW w \in workers, Honest(w) PROVE Honest(w)'
        <3>1. w.now # None => Read(w) \subseteq Tracks
            BY <2>3 DEF Worker, Snapshot, Read
        <3> QED
            BY <1>9, <2>2, <2>3, <2>4, <3>1 DEF Honest
    <2>5. \A r \in results : r.probes \subseteq Probe
        BY DEF IInv, TypeOK, Result
    <2> QED
        BY <1>1, <2>1, <2>2, <2>4, <2>5 DEF IInv, Evidence
<1>11. Progress'
    BY <1>1 DEF Progress
<1> QED
    BY <1>7, <1>8, <1>9, <1>10, <1>11 DEF IInv

-----------------------------------------------------------------------------
(* The owner is answered                                                   *)

(* What is applied is shown, and cached.                                   *)
LEMMA AppliedIsCached ==
    ASSUME IInv, NEW probes \in SUBSET Probe, Apply(probes)
    PROVE  /\ manifest' \in [Albums -> Arts \cup {None}]
           /\ shown' = Authority!Cached(library, manifest')
           /\ undisturbed' \in BOOLEAN /\ (undisturbed' => undisturbed)
<1>1. PICK lost \in SUBSET Found(probes) :
          /\ Commit({p \in probes : Accepts(p)} \ lost)
          /\ undisturbed' = (undisturbed /\ lost = {})
    BY DEF Apply
<1> QED
    BY <1>1, CommittedIsCached DEF IInv, TypeOK

(* When all that was delivered is right, and every album is covered, the   *)
(* Library shows what is on disk.                                          *)
LEMMA AppliedIsRight ==
    ASSUME IInv, NEW probes \in SUBSET Probe, Apply(probes), library' = library, art' = art, undisturbed',
           \A p \in probes : Right(p), \A s \in Snapshots(library) : Covered(probes, s),
           NEW a \in Albums
    PROVE  ShownRight(a)'
<1>1. There(a)' = There(a)
    BY DEF There
<1>2. Selection(library, a) \subseteq Authority!Members(library, a)
    BY DEF Selection
<1>3. Selection(library, a) # {} => \E p \in probes : p.album = a
    BY SnapshotsAre DEF Covered
<1>4. There(a) # {} => Selection(library, a) # {} /\ a \in Authority!Current(library)
    BY <1>2 DEF There, Authority!Current
<1>5. shown' = Authority!Cached(library, manifest')
    BY AppliedIsCached
<1>6. a \in Authority!Current(library) => shown'[a] = manifest'[a]
    BY <1>5 DEF Authority!Cached
<1>7. ASSUME There(a) \cap Arts # {} PROVE shown'[a] \in There(a)
    <2>1. a \in Authority!Current(library)
        BY <1>4, <1>7
    <2>2. \A p \in probes : p.album = a => /\ p.verdict \in There(a) \cap Arts
                                           /\ Picture(p) = p.verdict /\ Accepts(p)
        BY <1>7, <2>1 DEF Right, Picture, Accepts
    <2>3. manifest'[a] \in There(a)
        BY <1>3, <1>4, <1>7, <2>2, ApplyIs
    <2> QED
        BY <1>6, <2>1, <2>3
<1>8. ASSUME There(a) = {"absent"}, Selection(library, a) = Authority!Members(library, a)
      PROVE  shown'[a] = None
    <2>1. a \in Authority!Current(library)
        BY <1>4, <1>8
    <2>2. \A p \in probes : p.album = a => Picture(p) = None /\ Accepts(p)
        BY <1>8, <2>1, NoneAssumption DEF Right, Picture, Accepts
    <2>3. manifest'[a] = None
        BY <1>3, <1>4, <1>8, <2>2, ApplyIs
    <2> QED
        BY <1>6, <2>1, <2>3
<1> QED
    BY <1>1, <1>7, <1>8 DEF ShownRight

(* A result frees the slot.  That of the latest request is applied, and    *)
(* nothing is outstanding then; after an older one, what waits starts.     *)
LEMMA HandleDoneKeeps ==
    ASSUME IInv, NEW r \in results, HandleDone(r)
    PROVE  /\ IInv'
           /\ \/ /\ manifest' = manifest /\ shown' = shown /\ seen' = seen
                 /\ Outstanding' <=> Outstanding
              \/ /\ Outstanding /\ ~Outstanding' /\ IsLatest(r)
                 /\ seen' = [t \in Tracks |-> {}]
                 /\ Apply(r.probes) \/ (manifest' = manifest /\ shown' = shown)
<1>1. /\ library' = library /\ art' = art /\ changes' = changes
      /\ results' = results \ {r}
      /\ seen' = IF Outstanding' THEN seen ELSE [t \in Tracks |-> {}]
    BY DEF HandleDone
<1>2. r \in Result /\ refresh \in Refresh /\ workers \subseteq Worker
    BY DEF IInv, TypeOK
<1>3. r.probes \in SUBSET Probe
    BY <1>2 DEF Result
<1>4. seen \in [Tracks -> SUBSET Authority!Observations]
    BY DEF IInv, TypeOK
<1>5. seen' \in [Tracks -> SUBSET Authority!Observations]
    BY <1>1, <1>4
<1>6. (\A p : Witnessed(p) <=> Witnessed(p)') \/ ~Outstanding'
    BY <1>1 DEF Witnessed
<1>7. CASE refresh.closed
    <2>1. /\ refresh' = refresh /\ workers' = workers /\ manifest' = manifest /\ shown' = shown
          /\ undisturbed' = undisturbed
        BY <1>7 DEF HandleDone
    <2>2. Outstanding' <=> Outstanding
        BY <2>1 DEF Outstanding
    <2>3. seen' = seen
        BY <1>1, <2>2 DEF IInv, SeenIsKept
    <2>4. TypeOK' /\ ShownIsCached' /\ SeenIsKept' /\ Coalesced' /\ Reading'
        BY <1>1, <2>1, <2>2, <2>3
           DEF IInv, TypeOK, ShownIsCached, SeenIsKept, Coalesced, LatestWaits, Reading
    <2>5. refresh'.closed /\ refresh'.pending = None
        BY <1>7, <2>1 DEF IInv, Coalesced, LatestWaits
    <2>6. Flight' /\ Evidence' /\ Progress'
        BY <2>5 DEF Flight, Evidence, IsLatest, Progress
    <2> QED
        BY <2>1, <2>2, <2>3, <2>4, <2>6 DEF IInv
<1>8. CASE ~refresh.closed
    <2> DEFINE F == [refresh EXCEPT !.active = None]
    <2>1. /\ r.generation = refresh.active /\ refresh.active # None
          /\ workers = {} /\ results = {r}
        BY <1>8 DEF IInv, Flight, Flies
    <2>2. /\ F \in Refresh /\ F.active = None /\ F.generation = refresh.generation
          /\ F.pending = refresh.pending /\ ~F.closed
        BY <1>2, <1>8 DEF Refresh
    <2>3. StartPending(F, workers)
        BY <1>8, <2>1 DEF HandleDone
    <2>4. IF r.generation = refresh.generation /\ r.ok
          THEN Apply(r.probes)
          ELSE manifest' = manifest /\ shown' = shown /\ undisturbed' = undisturbed
        BY <1>8, <2>1 DEF HandleDone
    <2> HIDE DEF F
    <2>5. manifest' \in [Albums -> Arts \cup {None}] /\ shown' = Authority!Cached(library, manifest')
        BY <1>3, <2>4, AppliedIsCached DEF IInv, TypeOK, ShownIsCached
    <2>11. undisturbed' \in BOOLEAN /\ (undisturbed' => undisturbed)
        BY <1>3, <2>4, AppliedIsCached DEF IInv, TypeOK
    <2>6. shown' \in [Albums -> Arts \cup {None}] /\ ShownIsCached'
        BY <1>1, <2>5, CachedType DEF ShownIsCached, Authority!Cached
    <2>7. refresh.generation \in Nat /\ refresh.generation # None
        BY <1>2, NoneIsNoGeneration DEF Refresh
    <2>8. results' = {}
        BY <1>1, <2>1
    <2>9. CASE refresh.pending = None
        <3>1. refresh' = F /\ workers' = {}
            BY <1>2, <2>1, <2>2, <2>3, <2>9, StartPendingIs
        <3>2. ~Outstanding' /\ seen' = [t \in Tracks |-> {}]
            BY <1>1, <2>2, <2>7, <2>9, <3>1 DEF Outstanding
        <3>3. TypeOK'
            BY <1>1, <1>5, <2>2, <2>5, <2>6, <2>8, <2>11, <3>1 DEF IInv, TypeOK
        <3>4. Flight' /\ Coalesced' /\ Reading' /\ SeenIsKept' /\ Evidence'
            BY <1>8, <2>2, <2>8, <2>9, <3>1, <3>2
               DEF Flight, Coalesced, LatestWaits, Reading, SeenIsKept, Evidence
        <3>5. ASSUME undisturbed', NEW a \in Albums PROVE ShownRight(a)'
            <4>0. undisturbed
                BY <2>11, <3>5
            <4>1. CASE r.generation = refresh.generation
                <5>1. Delivers(r)
                    BY <1>8, <4>0, <4>1 DEF IInv, Progress, IsLatest
                <5>2. Apply(r.probes)
                    BY <2>4, <4>1, <5>1 DEF Delivers
                <5> QED
                    BY <1>1, <1>3, <3>5, <5>1, <5>2, AppliedIsRight DEF Delivers
            <4>2. CASE r.generation # refresh.generation
                <5>1. ~Outstanding
                    BY <2>1, <2>9, <4>2 DEF Outstanding
                <5>2. ShownRight(a) /\ shown' = shown
                    BY <1>8, <2>4, <4>0, <4>2, <5>1 DEF IInv, Progress
                <5> QED
                    BY <1>1, <5>2 DEF ShownRight, There
            <4> QED
                BY <4>1, <4>2
        <3>6. Progress'
            BY <1>1, <2>2, <2>8, <2>9, <3>1, <3>5 DEF Progress
        <3>7. \/ r.generation = refresh.generation /\ Outstanding /\ IsLatest(r)
              \/ r.generation # refresh.generation /\ ~Outstanding
            BY <1>8, <2>1, <2>9 DEF Outstanding, IsLatest
        <3>8. ~Outstanding => seen' = seen
            BY <3>2 DEF IInv, SeenIsKept
        <3> QED
            BY <2>4, <2>6, <3>2, <3>3, <3>4, <3>6, <3>7, <3>8 DEF IInv
    <2>10. CASE refresh.pending # None
        <3>0. PICK w : w = Started(refresh.pending)
            OBVIOUS
        <3>1. /\ refresh.pending.generation = refresh.generation
              /\ r.generation # refresh.generation
            BY <2>1, <2>10 DEF IInv, Coalesced, LatestWaits
        <3>2. /\ refresh' \in Refresh /\ refresh'.generation = refresh.generation /\ ~refresh'.closed
              /\ refresh'.active = refresh.generation /\ refresh'.pending = None
              /\ workers' = {w} /\ w \in Worker /\ w.generation = refresh.generation
              /\ w.todo = refresh.pending.snapshots
              /\ w.now = None /\ w.unread = {} /\ w.probes = {} /\ ~w.cancelled
            BY <1>2, <2>1, <2>2, <2>3, <2>10, <3>0, <3>1, StartPendingIs
        <3>3. Outstanding /\ Outstanding' /\ seen' = seen /\ manifest' = manifest /\ shown' = shown
            BY <1>1, <2>4, <2>10, <3>1, <3>2 DEF Outstanding
        <3>4. TypeOK'
            BY <1>1, <1>5, <2>5, <2>6, <2>8, <2>11, <3>2 DEF IInv, TypeOK
        <3>5. Flight' /\ Coalesced' /\ Reading'
            BY <2>7, <2>8, <3>2 DEF Flight, Flies, Coalesced, LatestWaits, Reading
        <3>6. SeenIsKept'
            BY <1>1, <3>3 DEF IInv, SeenIsKept
        <3>7. Evidence'
            BY <2>8, <2>10, <3>2 DEF IInv, Evidence, Honest
        <3>8. Progress'
            <4> SUFFICES ASSUME undisturbed PROVE OnTrack(w)'
                BY <1>1, <2>8, <2>11, <3>2, <3>3 DEF Progress
            <4>1. refresh.pending.snapshots = Snapshots(library)
                BY <1>8, <2>10 DEF IInv, Progress
            <4> QED
                BY <1>1, <3>2, <4>1 DEF OnTrack
        <3> QED
            BY <2>6, <3>3, <3>4, <3>5, <3>6, <3>7, <3>8 DEF IInv
    <2> QED
        BY <2>9, <2>10
<1> QED
    BY <1>7, <1>8

(* After the shutdown nothing is outstanding, and nobody is the latest.    *)
LEMMA ShutdownKeeps ==
    ASSUME IInv, Shutdown
    PROVE  IInv' /\ ~Outstanding'
<1>1. /\ library' = library /\ art' = art /\ manifest' = manifest /\ shown' = shown
      /\ results' = results /\ undisturbed' = undisturbed /\ changes' = changes
      /\ seen' = [t \in Tracks |-> {}] /\ workers' = Cancelled(workers)
      /\ refresh' = [generation |-> refresh.generation + 1, active |-> None,
                     pending |-> None, closed |-> TRUE]
      /\ refresh.generation < MaxRequests
    BY DEF Shutdown
<1>2. refresh \in Refresh /\ workers \subseteq Worker
    BY DEF IInv, TypeOK
<1>3. refresh.generation + 1 \in Generations
    BY <1>1, <1>2, BoundsAssumption DEF Refresh, Generations
<1>4. /\ refresh' \in Refresh /\ refresh'.closed /\ refresh'.active = None /\ refresh'.pending = None
      /\ refresh'.generation # None
    BY <1>1, <1>3, NoneIsNoGeneration DEF Refresh
<1>5. workers' \subseteq Worker
    BY <1>1, <1>2, CancelledIs
<1>6. TypeOK'
    BY <1>1, <1>4, <1>5 DEF IInv, TypeOK
<1>7. ~Outstanding'
    BY <1>4 DEF Outstanding
<1>8. Reading'
    <2> SUFFICES ASSUME NEW w \in workers
                 PROVE  LET v == [w EXCEPT !.cancelled = w.cancelled \/ w.generation = refresh.active]
                        IN  v.now = None => v.unread = {}
        BY <1>1 DEF Reading, Cancelled
    <2>1. w \in Worker
        BY <1>2
    <2> QED
        BY <2>1 DEF IInv, Reading, Worker
<1>9. Flight' /\ Coalesced' /\ ShownIsCached' /\ SeenIsKept' /\ Evidence' /\ Progress'
    BY <1>1, <1>4, <1>7 DEF IInv, Flight, Coalesced, LatestWaits, ShownIsCached, SeenIsKept,
                            Evidence, IsLatest, Progress
<1> QED
    BY <1>6, <1>7, <1>8, <1>9 DEF IInv

(* Nothing happens.                                                        *)
LEMMA StutterKeeps == IInv /\ UNCHANGED vars => IInv'
<1> SUFFICES ASSUME IInv, UNCHANGED vars PROVE IInv'
    OBVIOUS
<1>1. /\ library' = library /\ art' = art /\ refresh' = refresh /\ workers' = workers
      /\ results' = results /\ manifest' = manifest /\ shown' = shown /\ seen' = seen
      /\ undisturbed' = undisturbed /\ changes' = changes
    BY DEF vars
<1>2. TypeOK'
    BY <1>1 DEF IInv, TypeOK
<1>3. Flight'
    BY <1>1 DEF IInv, Flight, Flies
<1>4. Coalesced' /\ ShownIsCached' /\ Reading'
    BY <1>1 DEF IInv, Coalesced, LatestWaits, ShownIsCached, Reading
<1>5. SeenIsKept'
    BY <1>1 DEF IInv, SeenIsKept, Outstanding
<1>6. \A x : IsLatest(x)' <=> IsLatest(x)
    BY <1>1 DEF IsLatest
<1>7. \A p : Witnessed(p)' <=> Witnessed(p)
    BY <1>1 DEF Witnessed
<1>8. \A w : Honest(w)' <=> Honest(w)
    BY <1>1 DEF Honest, Witnessed
<1>9. Evidence'
    BY <1>1, <1>6, <1>7, <1>8 DEF IInv, Evidence
<1>10. \A p : Right(p)' <=> Right(p)
    BY <1>1 DEF Right, There
<1>11. \A w : OnTrack(w)' <=> OnTrack(w)
    BY <1>1, <1>10 DEF OnTrack
<1>12. \A r : Delivers(r)' <=> Delivers(r)
    BY <1>1, <1>10 DEF Delivers
<1>13. \A a : ShownRight(a)' <=> ShownRight(a)
    BY <1>1 DEF ShownRight, There
<1>14. Progress'
    BY <1>1, <1>6, <1>11, <1>12, <1>13 DEF IInv, Progress, Outstanding
<1> QED
    BY <1>2, <1>3, <1>4, <1>5, <1>9, <1>14 DEF IInv

-----------------------------------------------------------------------------
(* Theorems                                                                *)

(* Every step of the refresh keeps the inductive invariant.                *)
THEOREM Inductive == IInv /\ [Next]_vars => IInv'
<1> SUFFICES ASSUME IInv, [Next]_vars PROVE IInv'
    OBVIOUS
<1>1. ASSUME NEW s \in Sources, ScanCommits(s) \/ SourceIsLost(s) \/ SourceRetires(s) PROVE IInv'
    BY <1>1, LibraryChanges, ScheduleKeeps
<1>2. ASSUME NEW t \in Tracks, GoesMissing(t) \/ FileChanges(t) PROVE IInv'
    BY <1>2, GoesMissingKeeps, FileChangesKeeps
<1>3. CASE WorkerNext
    BY <1>3, WorkerKeeps
<1>4. ASSUME NEW r \in results, HandleDone(r) PROVE IInv'
    BY <1>4, HandleDoneKeeps
<1>5. CASE Shutdown
    BY <1>5, ShutdownKeeps
<1>6. CASE UNCHANGED vars
    BY <1>6, StutterKeeps
<1> QED
    BY <1>1, <1>2, <1>3, <1>4, <1>5, <1>6 DEF Next, LibraryNext

(* Consistent: for any Library and any number of requests there is at most *)
(* one worker or result, of the request that is active, at most one        *)
(* request waits for it, the latest, and the Library shows what is cached. *)
THEOREM RefreshConsistent == Spec => []Consistent
<1>1. IInv => Consistent
    BY IInvConsistent
<1> QED
    BY <1>1, InitIInv, Inductive, PTL DEF Spec

(* ShowsTheDisk: once all requests are answered and nothing was disturbed  *)
(* since the last, each album shows a picture that one of its observable   *)
(* members has, or none when all were observed to have none.               *)
THEOREM RefreshShowsTheDisk == Spec => []ShowsTheDisk
<1>1. IInv => ShowsTheDisk
    BY IInvConsistent
<1> QED
    BY <1>1, InitIInv, Inductive, PTL DEF Spec

-----------------------------------------------------------------------------
(* The authority over artwork                                              *)

(* The refresh begins where the authority does.                            *)
LEMMA InitImplements == Init => Authority!Init
<1> SUFFICES ASSUME Init PROVE Authority!Init
    OBVIOUS
<1>1. library \in Authority!Libraries
    BY DEF Init, Authority!Libraries
<1>2. ~Outstanding
    BY InitIInv, IdleIsAnswered DEF Init
<1> QED
    BY <1>1, <1>2 DEF Init, Authority!Init, Authority!Nothing

(* A change of the Library that asks for a refresh is a request.           *)
LEMMA LibraryImplements ==
    ASSUME IInv, NEW s \in Sources, ScanCommits(s) \/ SourceIsLost(s) \/ SourceRetires(s)
    PROVE  Authority!Request
<1>1. /\ library' \in Authority!Libraries /\ Schedule(library')
      /\ shown' = Authority!Cached(library', manifest)
    BY LibraryChanges
<1>2. Outstanding' <=> Snapshots(library') # {}
    BY <1>1, ScheduleKeeps
<1>3. /\ art' = art /\ manifest' = manifest
      /\ seen' = [t \in Tracks |-> IF Snapshots(library') = {} THEN {} ELSE {art[t]}]
    BY <1>1 DEF Schedule
<1>4. (~Outstanding)' \in BOOLEAN
    BY DEF Outstanding
<1>5. seen' = IF (~Outstanding)' THEN Authority!Nothing ELSE [t \in Tracks |-> {art[t]}]
    BY <1>2, <1>3 DEF Authority!Nothing
<1> QED
    BY <1>1, <1>3, <1>4, <1>5 DEF Authority!Request

(* A file changes, or goes missing, as it does for the authority.          *)
LEMMA FilesImplement ==
    ASSUME IInv, NEW t \in Tracks, GoesMissing(t) \/ FileChanges(t)
    PROVE  Authority!GoesMissing \/ Authority!FilesChange
<1>1. CASE GoesMissing(t)
    <2>1. /\ library' = [library EXCEPT !.missing = library.missing \cup {t}]
          /\ art' = art /\ seen' = seen /\ manifest' = manifest /\ shown' = shown /\ refresh' = refresh
        BY <1>1 DEF GoesMissing
    <2>2. library' \in Authority!Libraries
          /\ library' = [library EXCEPT !.missing = library'.missing]
        BY <2>1 DEF IInv, TypeOK, Authority!Libraries
    <2>3. (~Outstanding)' = ~Outstanding
        BY <2>1 DEF Outstanding
    <2> QED
        BY <2>1, <2>2, <2>3 DEF Authority!GoesMissing
<1>2. CASE FileChanges(t)
    <2>1. /\ library' = library /\ manifest' = manifest /\ shown' = shown /\ refresh' = refresh
          /\ seen' = IF Outstanding THEN [u \in Tracks |-> seen[u] \cup {art'[u]}] ELSE seen
        BY <1>2 DEF FileChanges
    <2>2. art' \in [Tracks -> Authority!Observations]
        BY <1>2 DEF FileChanges, IInv, TypeOK
    <2>3. (~Outstanding)' = ~Outstanding
        BY <2>1 DEF Outstanding
    <2> QED
        BY <2>1, <2>2, <2>3 DEF Authority!FilesChange
<1> QED
    BY <1>1, <1>2

(* What was applied is justified by what was seen since the request.       *)
LEMMA AppliedIsJustified ==
    ASSUME IInv, NEW r \in results, IsLatest(r), Apply(r.probes), NEW a \in Albums
    PROVE  IF a \in Authority!Current(library) THEN Authority!Justified(a, manifest'[a])
                                               ELSE manifest'[a] = manifest[a]
<1>1. \A p \in r.probes : Witnessed(p)
    BY DEF IInv, Evidence
<1>2. CASE manifest'[a] = manifest[a]
    BY <1>2 DEF Authority!Justified
<1>3. ASSUME NEW p \in r.probes, Accepts(p), p.album = a, manifest'[a] = Picture(p)
      PROVE  a \in Authority!Current(library) /\ Authority!Justified(a, manifest'[a])
    <2>1. a \in Authority!Current(library) /\ Authority!Members(library, a) = p.members
        BY <1>3 DEF Accepts
    <2>2. CASE p.verdict \in Arts
        <3>1. \E t \in Authority!Members(library, a) : p.verdict \in seen[t]
            BY <1>1, <2>1, <2>2 DEF Witnessed
        <3> QED
            BY <1>3, <2>1, <2>2, <3>1 DEF Authority!Justified, Picture
    <2>3. CASE p.verdict \notin Arts
        <3>1. p.verdict = "absent" /\ Selection(library, a) = Authority!Members(library, a)
            BY <1>3, <2>1, <2>3 DEF Accepts
        <3>2. \A t \in Authority!Members(library, a) : Authority!Observable(library, t) /\ "absent" \in seen[t]
            BY <1>1, <2>1, <3>1 DEF Witnessed, Selection
        <3> QED
            BY <1>3, <2>1, <2>3, <3>2 DEF Authority!Justified, Picture
    <2> QED
        BY <2>2, <2>3
<1> QED
    BY <1>2, <1>3, ApplyIs

(* The result of the latest request is the answer; no other is seen.       *)
LEMMA HandleDoneImplements ==
    ASSUME IInv, NEW r \in results, HandleDone(r)
    PROVE  Authority!Answer \/ UNCHANGED Authority!authorityVars
<1>1. library' = library /\ art' = art
    BY DEF HandleDone
<1>2. CASE /\ manifest' = manifest /\ shown' = shown /\ seen' = seen
           /\ Outstanding' <=> Outstanding
    <2>1. (~Outstanding)' = ~Outstanding
        BY <1>2
    <2> QED
        BY <1>1, <1>2, <2>1 DEF Authority!authorityVars
<1>3. CASE /\ Outstanding /\ ~Outstanding' /\ IsLatest(r)
           /\ seen' = [t \in Tracks |-> {}]
           /\ Apply(r.probes) \/ (manifest' = manifest /\ shown' = shown)
    <2>1. r.probes \in SUBSET Probe
        BY DEF IInv, TypeOK, Result
    <2>2. manifest' \in [Albums -> Arts \cup {None}] /\ shown' = Authority!Cached(library, manifest')
        BY <1>3, <2>1, AppliedIsCached DEF IInv, TypeOK, ShownIsCached
    <2>3. \A a \in Albums : IF a \in Authority!Current(library)
                            THEN Authority!Justified(a, manifest'[a])
                            ELSE manifest'[a] = manifest[a]
        BY <1>3, AppliedIsJustified DEF Authority!Justified
    <2> QED
        BY <1>1, <1>3, <2>2, <2>3 DEF Authority!Answer, Authority!Nothing
<1> QED
    BY <1>2, <1>3, HandleDoneKeeps

(* The shutdown answers what is outstanding with what is cached.           *)
LEMMA ShutdownImplements ==
    ASSUME IInv, Shutdown
    PROVE  Authority!Answer \/ UNCHANGED Authority!authorityVars
<1>1. /\ library' = library /\ art' = art /\ manifest' = manifest /\ shown' = shown
      /\ seen' = [t \in Tracks |-> {}]
    BY DEF Shutdown
<1>2. ~Outstanding'
    BY ShutdownKeeps
<1>3. CASE Outstanding
    <2>1. manifest \in [Albums -> Arts \cup {None}] /\ shown = Authority!Cached(library, manifest)
        BY DEF IInv, TypeOK, ShownIsCached
    <2> QED
        BY <1>1, <1>2, <1>3, <2>1 DEF Authority!Answer, Authority!Nothing, Authority!Justified
<1>4. CASE ~Outstanding
    <2>1. seen' = seen
        BY <1>1, <1>4 DEF IInv, SeenIsKept
    <2>2. (~Outstanding)' = ~Outstanding
        BY <1>2, <1>4
    <2> QED
        BY <1>1, <2>1, <2>2 DEF Authority!authorityVars
<1> QED
    BY <1>3, <1>4

(* Every step of the refresh is one of the authority, or none.             *)
LEMMA StepImplements == IInv /\ [Next]_vars => [Authority!Next]_(Authority!authorityVars)
<1> SUFFICES ASSUME IInv, [Next]_vars
             PROVE  Authority!Next \/ UNCHANGED Authority!authorityVars
    OBVIOUS
<1>1. ASSUME NEW s \in Sources, ScanCommits(s) \/ SourceIsLost(s) \/ SourceRetires(s)
      PROVE  Authority!Next
    BY <1>1, LibraryImplements DEF Authority!Next
<1>2. ASSUME NEW t \in Tracks, GoesMissing(t) \/ FileChanges(t) PROVE Authority!Next
    BY <1>2, FilesImplement DEF Authority!Next
<1>3. ASSUME library' = library, art' = art, seen' = seen, manifest' = manifest, shown' = shown,
             refresh' = refresh
      PROVE  UNCHANGED Authority!authorityVars
    <2>1. (~Outstanding)' = ~Outstanding
        BY <1>3 DEF Outstanding
    <2> QED
        BY <1>3, <2>1 DEF Authority!authorityVars
<1>4. CASE WorkerNext
    BY <1>3, <1>4 DEF WorkerNext, NextAlbum, ReadTrack, WorkerEnds, WorkerUnchanged
<1>5. ASSUME NEW r \in results, HandleDone(r)
      PROVE  Authority!Next \/ UNCHANGED Authority!authorityVars
    BY <1>5, HandleDoneImplements DEF Authority!Next
<1>6. CASE Shutdown
    BY <1>6, ShutdownImplements DEF Authority!Next
<1>7. CASE UNCHANGED vars
    BY <1>3, <1>7 DEF vars
<1> QED
    BY <1>1, <1>2, <1>4, <1>5, <1>6, <1>7 DEF Next, LibraryNext

(* ImplementsAuthority: the refresh with its generations, workers, results *)
(* and coalesced requests is the atomic authority: each request is         *)
(* answered at most once, each picture was there since the request, and    *)
(* none is taken away without exhaustive negative evidence.                *)
THEOREM RefreshImplements == Spec => ImplementsAuthority
<1> QED
    BY InitIInv, Inductive, InitImplements, StepImplements, PTL
       DEF Spec, ImplementsAuthority, Authority!Spec

=============================================================================
