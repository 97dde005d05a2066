--------------------------- MODULE Reconciliation ---------------------------
(***************************************************************************)
(* What one scan of one source does with the files it finds: the worker    *)
(* walks the root, reconciles each file with the catalog row it belongs to *)
(* and extracts metadata (compute_source_reconciliation); the owner then   *)
(* commits the plan to the catalog, to two rebuildable caches and to the   *)
(* visible Library, one after the other (commit_source_reconciliation).    *)
(* The user and other programs change the files all the while, and the     *)
(* process can die between any two steps.                                  *)
(*                                                                         *)
(* That at most one scan is in flight, and that the plan of a superseded   *)
(* one is dropped, is what SourceScan is about: here a scan is abandoned   *)
(* at any moment, or it commits.                                           *)
(***************************************************************************)
EXTENDS Integers, FiniteSets, Functions

CONSTANTS
    Paths,          \* relative paths of the media files of the source
    Roots,          \* directories the tree is mounted at, one at a time
    Nodes,          \* (device, inode) pairs
    Media,          \* MediaFileIds, each with its TrackId
    NoFile, NoMeta, NoRow,
    IdleChanges,    \* what happens to the files while no scan is in flight
    RacingChanges,  \* and while one is
    Faults,         \* what can go wrong during a commit
    Legacy,         \* what the tracks of a migrated catalog come from
    MaxChanges      \* bound on the number of changes to the files

ChangeKinds == {"create", "edit", "delete", "move", "link", "remount"}
FaultKinds  == {"crash", "index", "media"}
LegacyKinds == {"indexed", "referenced"}

ASSUME ChangesAssumption ==
    /\ IdleChanges \subseteq ChangeKinds
    /\ RacingChanges \subseteq ChangeKinds
    /\ Faults \subseteq FaultKinds
    /\ Legacy \subseteq LegacyKinds
    /\ MaxChanges \in Nat

(* A content is named by the change that wrote it.  The code takes a file  *)
(* with the same size and mtime for the same content; so does the model,   *)
(* and a content stands for the metadata extracted from it as well.        *)
Content == 0 .. MaxChanges
File    == [node : Nodes, content : Content]

Availability == {"AVAILABLE", "MISSING", "UNKNOWN"}

(* "root" and "path" make the last_known_path. *)
Row == [path : Paths, root : Roots, availability : Availability]

ASSUME NoneAssumption ==
    NoFile \notin File /\ NoMeta \notin Content /\ NoRow \notin Row

(* The catalog has finitely many ids. *)
ASSUME MediaAssumption == IsFiniteSet(Media)

VARIABLES
    mounted, disk,  \* where the tree is, and the file at each path of it
    root,           \* the root_path of the source
    rows,           \* library_media_files (with library_tracks)
    cache,          \* library_media_cache: the file a row was last seen as
    index,          \* library_index: metadata by absolute path
    visible,        \* LibraryState: the TrackRefs of the source
    scan,           \* the worker's and the plan's data
    clock,          \* changes to the files so far (environment bound)
    history         \* for the properties only

files   == <<mounted, disk, clock>>
durable == <<root, rows, cache, index>>
vars    == <<mounted, disk, root, rows, cache, index, visible, scan, clock, history>>

Ref == [media : Media, path : Paths, root : Roots,
        availability : Availability, meta : Content \cup {NoMeta}]

Scan == [phase     : {"idle", "walking", "reconciling", "planned"},
         todo      : SUBSET Paths,
         found     : [Paths -> File \cup {NoFile}],       \* discovered
         meta      : [Paths -> Content \cup {NoMeta}],    \* of what was found
         extracted : SUBSET Paths,                        \* index_upserts
         lost      : SUBSET Ref]                          \* refs of missing media

NoScan == [phase |-> "idle", todo |-> {}, found |-> [p \in Paths |-> NoFile],
           meta |-> [p \in Paths |-> NoMeta], extracted |-> {}, lost |-> {}]

(* quiet: no change since the walk began.  settled: nothing happened since *)
(* a quiet scan was committed and published.  seen: the file that a row    *)
(* was last committed as.  past, roots: the contents a path and the roots  *)
(* the source has had; returned: one of them came back.                    *)
History == [quiet : BOOLEAN, settled : BOOLEAN, seen : [Media -> File \cup {NoFile}],
            past : SUBSET (Paths \X Content), roots : SUBSET Roots,
            returned : BOOLEAN]

FileAt(r, p) == IF r = mounted THEN disk[p] ELSE NoFile

IsRow(m) == rows[m] # NoRow

-----------------------------------------------------------------------------
(* The environment: other programs and the user change the files           *)

Change(kind, new) ==
    /\ clock < MaxChanges
    /\ kind \in IF scan.phase = "idle" THEN IdleChanges ELSE RacingChanges
    /\ clock' = clock + 1
    /\ disk' = new
    /\ LET placed == {<<p, new[p].content>> :
                        p \in {q \in Paths : new[q] \notin {NoFile, disk[q]}}}
       IN history' = [history EXCEPT
              !.quiet = FALSE, !.settled = FALSE,
              !.past = @ \cup placed,
              !.returned = @ \/ placed \cap history.past # {}]
    /\ UNCHANGED <<durable, visible, scan>>

InUse(n) == \E p \in Paths : disk[p] # NoFile /\ disk[p].node = n

(* An inode that is no longer in use may be given to a new file. *)
CreateFile(p, n) ==
    /\ disk[p] = NoFile /\ ~InUse(n)
    /\ Change("create", [disk EXCEPT ![p] = [node |-> n, content |-> clock]])
    /\ UNCHANGED mounted

EditFile(n) ==
    /\ InUse(n)
    /\ Change("edit", [p \in Paths |-> IF disk[p] # NoFile /\ disk[p].node = n
                                        THEN [node |-> n, content |-> clock]
                                        ELSE disk[p]])
    /\ UNCHANGED mounted

DeleteFile(p) ==
    /\ disk[p] # NoFile
    /\ Change("delete", [disk EXCEPT ![p] = NoFile])
    /\ UNCHANGED mounted

(* Moving a file keeps its inode and its mtime, and overwrites the target. *)
MoveFile(p, q) ==
    /\ p # q /\ disk[p] # NoFile
    /\ Change("move", [disk EXCEPT ![p] = NoFile, ![q] = disk[p]])
    /\ UNCHANGED mounted

LinkFile(p, q) ==
    /\ disk[p] # NoFile /\ disk[q] = NoFile
    /\ Change("link", [disk EXCEPT ![q] = disk[p]])
    /\ UNCHANGED mounted

Remount(r) ==
    /\ r # mounted
    /\ Change("remount", disk)
    /\ mounted' = r

-----------------------------------------------------------------------------
(* The worker: walk and reconcile                                          *)

(* A root that is not there is an error of the source, not a scan. *)
StartWalk ==
    /\ scan.phase = "idle"
    /\ root = mounted
    /\ scan' = [NoScan EXCEPT !.phase = "walking", !.todo = Paths]
    /\ history' = [history EXCEPT !.quiet = TRUE]
    /\ UNCHANGED <<files, durable, visible>>

(* A path that vanished before its stat is skipped. *)
StatFile(p) ==
    /\ scan.phase = "walking" /\ p \in scan.todo
    /\ scan' = [scan EXCEPT !.todo = @ \ {p}, !.found[p] = FileAt(root, p)]
    /\ UNCHANGED <<files, durable, visible, history>>

Found == {p \in Paths : scan.found[p] # NoFile}

(* The catalog and the caches are read here: no other scan changes them    *)
(* until the commit, and a plan does not depend on a row's availability.   *)
EndWalk ==
    /\ scan.phase = "walking" /\ scan.todo = {}
    /\ scan' = [scan EXCEPT !.phase = "reconciling", !.todo = Found]
    /\ UNCHANGED <<files, durable, visible, history>>

(* known_by_path, as a set of at most one row *)
KnownAt(p) == {m \in Media : IsRow(m) /\ rows[m].path = p}

(* CASE A: the size and mtime of a known file are the cached ones. *)
Unchanged(p) ==
    \E m \in KnownAt(p) :
        cache[m] # NoFile /\ cache[m].content = scan.found[p].content

(* §15: only an UNCHANGED file has its metadata from the index. *)
Reusable(p) == Unchanged(p) /\ index[<<root, p>>] # NoMeta

ReconcileFile(p) ==
    /\ scan.phase = "reconciling" /\ p \in scan.todo
    /\ \/ /\ Reusable(p)
          /\ scan' = [scan EXCEPT !.todo = @ \ {p}, !.meta[p] = index[<<root, p>>]]
       \/ /\ ~Reusable(p) /\ FileAt(root, p) # NoFile
          /\ scan' = [scan EXCEPT !.todo = @ \ {p}, !.extracted = @ \cup {p},
                                  !.meta[p] = FileAt(root, p).content]
    /\ UNCHANGED <<files, durable, visible, history>>

Gone == {m \in Media : IsRow(m) /\ rows[m].path \notin Found}

(* mutant: an inode alone is taken for evidence of the same file           *)
SameInode(a, b) == a # NoFile /\ b # NoFile /\ a.node = b.node

(* device, inode, size and mtime agree *)
SameEvidence(a, b) == a # NoFile /\ a = b

Candidates(p) == {m \in Gone : SameEvidence(cache[m], scan.found[p])}

(* mutant: a path that is in the catalog can be relinked as well           *)
RelinkableOverKnown(p) ==
    /\ Cardinality(Candidates(p)) = 1
    /\ {q \in Found : SameEvidence(scan.found[q], scan.found[p])} = {p}

(* CASE B: exactly one missing row and exactly one path share the evidence. *)
Relinkable(p) ==
    /\ KnownAt(p) = {}
    /\ Cardinality(Candidates(p)) = 1
    /\ {q \in Found : SameEvidence(scan.found[q], scan.found[p])} = {p}

Relinked == {p \in Found : Relinkable(p)}
Added    == {p \in Found : KnownAt(p) = {} /\ ~Relinkable(p)}

(* mutant: a relinked row stays among the missing ones                     *)
MissingOrRelinked == Gone

Missing == Gone \ UNION {Candidates(p) : p \in Relinked}

(* A missing row shows the metadata of its last known path: the indexed    *)
(* one, else what _build_ref extracts from the file there, if it can.      *)
LostMeta(m) ==
    LET indexed == index[<<rows[m].root, rows[m].path>>]
        file    == FileAt(rows[m].root, rows[m].path)
    IN CASE indexed # NoMeta                   -> indexed
         [] indexed = NoMeta /\ file # NoFile  -> file.content
         [] indexed = NoMeta /\ file = NoFile  -> NoMeta

Projectable == \A m \in Missing : LostMeta(m) # NoMeta

(* PHASE 4, MARKING_MISSING: the plan is complete. *)
MarkMissing ==
    /\ scan.phase = "reconciling" /\ scan.todo = {}
    /\ Projectable
    /\ scan' = [scan EXCEPT
           !.phase = "planned",
           !.lost = {[media |-> m, path |-> rows[m].path, root |-> rows[m].root,
                      availability |-> "MISSING", meta |-> LostMeta(m)] : m \in Missing}]
    /\ UNCHANGED <<files, durable, visible, history>>

(* The scan fails (a file could not be read, the catalog transaction       *)
(* failed), is cancelled or superseded: nothing was written.               *)
AbandonScan ==
    /\ scan.phase # "idle"
    /\ scan' = NoScan
    /\ UNCHANGED <<files, durable, visible, history>>

-----------------------------------------------------------------------------
(* The owner: commit, relocation, playback gate, restart                   *)

(* mutant: the media cache is written before the index                     *)
OutcomesCacheFirst ==
    {[indexed |-> TRUE, cached |-> Found, crashed |-> FALSE]}
    \cup {[indexed |-> FALSE, cached |-> c, crashed |-> TRUE] :
            c \in IF "crash" \in Faults THEN SUBSET Found ELSE {}}

(* How far the writes after the catalog transaction get: the index, then   *)
(* one media cache entry at a time.  upsert_many swallows its errors, an   *)
(* error of the media cache ends its loop, and the process may die.        *)
Outcomes ==
    {o \in [indexed : BOOLEAN, cached : SUBSET Found, crashed : BOOLEAN] :
        /\ o.crashed => "crash" \in Faults
        /\ o.cached # Found => "media" \in Faults \/ o.crashed
        /\ ~o.indexed => "index" \in Faults \/ (o.crashed /\ o.cached = {})}

(* The row of each found path; "fresh" are the new MediaFileIds. *)
MediaOf(p, fresh) ==
    CASE p \in Added     -> fresh[p]
      [] p \in Relinked  -> CHOOSE m \in Candidates(p) : TRUE
      [] OTHER           -> CHOOSE m \in KnownAt(p) : TRUE

(* apply_source_reconciliation: a row that is found where it was known is  *)
(* not written.                                                            *)
RowsAfter(fresh) ==
    [m \in Media |->
        IF \E p \in Added \cup Relinked : MediaOf(p, fresh) = m
        THEN [path |-> CHOOSE p \in Added \cup Relinked : MediaOf(p, fresh) = m,
              root |-> root, availability |-> "AVAILABLE"]
        ELSE IF m \in Missing THEN [rows[m] EXCEPT !.availability = "MISSING"]
        ELSE rows[m]]

(* mutant: a relinked file is not entered under its new path               *)
IndexAfterWithoutRelinked ==
    [k \in Roots \X Paths |-> IF k[1] = root /\ k[2] \in scan.extracted \ Relinked
                              THEN scan.meta[k[2]] ELSE index[k]]

IndexAfter ==
    [k \in Roots \X Paths |-> IF k[1] = root /\ k[2] \in scan.extracted
                              THEN scan.meta[k[2]] ELSE index[k]]

FilesAfter(old, paths, fresh) ==
    [m \in Media |-> IF \E p \in paths : MediaOf(p, fresh) = m
                     THEN scan.found[CHOOSE p \in paths : MediaOf(p, fresh) = m]
                     ELSE old[m]]

PlannedRefs(fresh) ==
    {[media |-> MediaOf(p, fresh), path |-> p, root |-> root,
      availability |-> "AVAILABLE", meta |-> scan.meta[p]] : p \in Found}
    \cup scan.lost

(* hydrate_catalog: the catalog's rows with the indexed metadata. *)
Hydrated(rs, ix) ==
    {[media |-> m, path |-> rs[m].path, root |-> rs[m].root,
      availability |-> rs[m].availability, meta |-> ix[<<rs[m].root, rs[m].path>>]] :
        m \in {n \in Media : rs[n] # NoRow}}

CommitPlan ==
    /\ scan.phase = "planned"
    /\ \E fresh \in Injection(Added, {m \in Media : ~IsRow(m)}),
          o \in Outcomes, published \in BOOLEAN :
           /\ rows' = RowsAfter(fresh)
           /\ index' = IF o.indexed THEN IndexAfter ELSE index
           /\ cache' = FilesAfter(cache, o.cached, fresh)
           /\ visible' = CASE o.crashed               -> Hydrated(rows', index')
                           [] ~o.crashed /\ published  -> PlannedRefs(fresh)
                           [] ~o.crashed /\ ~published -> visible
           /\ history' = [history EXCEPT
                  !.settled = history.quiet /\ published /\ ~o.crashed,
                  !.seen = FilesAfter(@, Found, fresh)]
    /\ scan' = NoScan
    /\ UNCHANGED <<files, root>>

(* relocate_source_root: only the root; the scan in flight is superseded. *)
Relocate(r) ==
    /\ r # root /\ r = mounted
    /\ root' = r
    /\ scan' = NoScan
    /\ history' = [history EXCEPT !.settled = FALSE, !.roots = @ \cup {r},
                                  !.returned = @ \/ r \in history.roots]
    /\ UNCHANGED <<files, rows, cache, index, visible>>

(* validate_track_for_playback: a track without its file is marked MISSING *)
(* in the Library and, unless that fails, in the catalog.                  *)
PlayMissing(ref) ==
    /\ ref \in visible
    /\ FileAt(ref.root, ref.path) = NoFile
    /\ visible' = (visible \ {ref}) \cup {[ref EXCEPT !.availability = "MISSING"]}
    /\ rows' \in {rows, [rows EXCEPT ![ref.media].availability = "MISSING"]}
    /\ UNCHANGED <<files, root, cache, index, scan, history>>

(* The process ends and starts again. *)
Restart ==
    /\ visible' = Hydrated(rows, index)
    /\ scan' = NoScan
    /\ history' = [history EXCEPT !.settled = FALSE]
    /\ UNCHANGED <<files, durable>>

-----------------------------------------------------------------------------

(* A catalog of an older version is migrated: there is a row for each path *)
(* the old index has ("indexed") or a favourite, a playlist, the history   *)
(* or the session refers to ("referenced").  The index is kept, and of no  *)
(* row is it known which file it was.                                      *)
LegacyRow(p) == [path |-> p, root |-> root, availability |-> "UNKNOWN"]

LegacyRows ==
    {rs \in [Media -> {LegacyRow(p) : p \in IF Legacy = {} THEN {} ELSE Paths} \cup {NoRow}] :
        \A m, n \in Media : rs[m] # NoRow /\ rs[m] = rs[n] => m = n}

LegacyIndexes(rs) ==
    {ix \in [Roots \X Paths -> {0, NoMeta}] : \A k \in Roots \X Paths :
        IF k[1] = root /\ \E m \in Media : rs[m] = LegacyRow(k[2])
        THEN (IF ix[k] = NoMeta THEN "referenced" ELSE "indexed") \in Legacy
        ELSE ix[k] = NoMeta}

Init ==
    /\ mounted \in Roots
    /\ disk = [p \in Paths |-> NoFile]
    /\ root = mounted
    /\ rows \in LegacyRows
    /\ cache = [m \in Media |-> NoFile]
    /\ index \in LegacyIndexes(rows)
    /\ visible = Hydrated(rows, index)
    /\ scan = NoScan
    /\ clock \in 0 .. MaxChanges
    /\ clock = Cardinality({m \in Media : rows[m] # NoRow})    \* the bound counts them
    /\ history = [quiet |-> FALSE, settled |-> FALSE, seen |-> [m \in Media |-> NoFile],
                  past |-> {}, roots |-> {root}, returned |-> FALSE]

FilesNext ==
    \/ \E p \in Paths, n \in Nodes : CreateFile(p, n)
    \/ \E n \in Nodes : EditFile(n)
    \/ \E p \in Paths : DeleteFile(p)
    \/ \E p, q \in Paths : MoveFile(p, q) \/ LinkFile(p, q)
    \/ \E r \in Roots : Remount(r)

WorkerNext ==
    \/ StartWalk \/ EndWalk \/ MarkMissing \/ AbandonScan
    \/ \E p \in Paths : StatFile(p) \/ ReconcileFile(p)

OwnerNext ==
    \/ CommitPlan \/ Restart
    \/ \E r \in Roots : Relocate(r)
    \/ \E ref \in visible : PlayMissing(ref)

Next == FilesNext \/ WorkerNext \/ OwnerNext

Spec == Init /\ [][Next]_vars

-----------------------------------------------------------------------------
(* Properties                                                              *)

(* Type invariant; what a scan extracted is metadata, never the lack of it *)
(* ("a typed filesystem failure is NEVER converted into a fabricated       *)
(* success").                                                              *)
TypeOK ==
    /\ mounted \in Roots
    /\ disk \in [Paths -> File \cup {NoFile}]
    /\ root \in Roots
    /\ rows \in [Media -> Row \cup {NoRow}]
    /\ cache \in [Media -> File \cup {NoFile}]
    /\ index \in [Roots \X Paths -> Content \cup {NoMeta}]
    /\ visible \subseteq Ref
    /\ scan \in Scan
    /\ \A p \in scan.extracted : scan.meta[p] \in Content
    /\ clock \in 0 .. MaxChanges
    /\ history \in History

(* No two rows share a path, however files were moved, replaced or linked  *)
(* while they were walked: the UNIQUE constraint of the catalog never      *)
(* refuses a plan.                                                         *)
OneIdentityPerPath ==
    \A m, n \in Media : IsRow(m) /\ IsRow(n) /\ rows[m].path = rows[n].path => m = n

(* Whatever happens to the files, rows stay well formed and distinct.      *)
Consistent == TypeOK /\ OneIdentityPerPath

(* "Conservative false-negative > false-positive identity merge": a row    *)
(* follows a file to another path only if it is the very file, unedited,   *)
(* that the row was last seen as, and no other path leads to that file.    *)
RelinkIsTheSameFile ==
    [][\A m \in Media :
          IsRow(m) /\ rows'[m].path # rows[m].path =>
              {p \in Found : scan.found[p] = history.seen[m]} = {rows'[m].path}]_vars

(* A scan during which the files did not change reaches its plan: nothing  *)
(* the caches hold or lost stands in its way.                              *)
QuietScanSucceeds ==
    scan.phase = "reconciling" /\ scan.todo = {} /\ history.quiet => Projectable

(* After an undisturbed scan the Library shows exactly what is on disk:    *)
(* each file once, available, with the metadata of its present content,    *)
(* whatever earlier scans were disturbed, degraded or cut short; and every *)
(* other row as missing (but see MetadataIsFresh).                         *)
ShowsTheDisk ==
    history.settled /\ ~history.returned =>
        /\ \A p \in Paths :
               disk[p] # NoFile =>
                   \E ref \in visible :
                       /\ ref.path = p /\ ref.root = root
                       /\ ref.availability = "AVAILABLE"
                       /\ ref.meta = disk[p].content
        /\ \A ref \in visible : ref.availability = "AVAILABLE" => disk[ref.path] # NoFile
        /\ \A a, b \in visible : a.media = b.media \/ a.path = b.path => a = b
        /\ {ref.media : ref \in visible} = {m \in Media : IsRow(m)}

(* The same for the metadata, without the exception: "tags changed ->      *)
(* fresh facts".  But the index is looked up by absolute path alone, so a  *)
(* content or a root that comes back finds what the index has kept of      *)
(* another content.                                                        *)
MetadataIsFresh ==
    history.settled =>
        \A ref \in visible : ref.availability = "AVAILABLE" => ref.meta = disk[ref.path].content

(* "Availability is the last OBSERVED state": the Library a restart would  *)
(* hydrate shows each track as available exactly if the last scan did.     *)
HydratesLastObserved ==
    history.settled =>
        {<<ref.media, ref.availability>> : ref \in Hydrated(rows, index)}
            = {<<ref.media, ref.availability>> : ref \in visible}

=============================================================================
