------------------------- MODULE ReconciliationProofs -------------------------
(***************************************************************************)
(* Proofs about Reconciliation, for any paths, roots, inodes and ids and   *)
(* any number of changes to the files: the catalog stays consistent        *)
(* whatever happens; what else holds, and which faults of a commit it      *)
(* withstands, is said theorem by theorem.                                 *)
(***************************************************************************)
EXTENDS Reconciliation, FiniteSetTheorems, TLAPS

-----------------------------------------------------------------------------
(* The inductive invariant, which holds whatever happens                   *)

(* What the Library shows, and what was never seen, agrees with the rows.  *)
RowsInv ==
    /\ \A ref \in visible : IsRow(ref.media)
    /\ \A m \in Media : ~IsRow(m) => cache[m] = NoFile

Collected == scan.phase \in {"reconciling", "planned"}

(* What was reconciled was either extracted, or is in the index.           *)
PlanInv ==
    /\ ~Collected => scan.extracted = {}
    /\ Collected =>
        /\ scan.todo \subseteq Found
        /\ scan.extracted \subseteq Found \ scan.todo
        /\ \A p \in Found \ scan.todo :
              \/ p \in scan.extracted
              \/ Reusable(p) /\ scan.meta[p] = index[<<root, p>>]

(* The plan of a finished scan has one lost track for each missing row.    *)
LostInv ==
    scan.phase = "planned" =>
        /\ scan.todo = {}
        /\ \A ref \in scan.lost : /\ ref.media \in Missing
                                  /\ ref.path = rows[ref.media].path
                                  /\ ref.availability = "MISSING"
        /\ \A a, b \in scan.lost : a.media = b.media => a = b
        /\ \A m \in Missing : \E ref \in scan.lost : ref.media = m

Inv == TypeOK /\ OneIdentityPerPath /\ RowsInv /\ PlanInv /\ LostInv

-----------------------------------------------------------------------------
(* What the last scans of the source leave behind                          *)

(* While the files are left alone, what was found is what is there.        *)
QuietInv ==
    /\ history.quiet /\ scan.phase # "idle" =>
        /\ root = mounted
        /\ \A p \in Paths : (scan.phase = "walking" /\ p \in scan.todo)
                            \/ scan.found[p] = disk[p]
    /\ history.settled => root = mounted

(* What was seen at a path was there, and has a past; so have the roots.   *)
PastInv ==
    /\ \A p \in Paths : disk[p] # NoFile => <<p, disk[p].content>> \in history.past
    /\ \A p \in Found : <<p, scan.found[p].content>> \in history.past
    /\ \A m \in Media : IsRow(m) /\ cache[m] # NoFile =>
                            <<rows[m].path, cache[m].content>> \in history.past
    /\ root \in history.roots
    /\ \A r \in Roots, p \in Paths : index[<<r, p>>] # NoMeta => r \in history.roots

(* The file at p has content c now. *)
Holds(p, c) == disk[p] # NoFile /\ disk[p].content = c

(* As long as no content comes back to its path: a path that has the       *)
(* content it was seen with has had it all along.                          *)
IndexIsFresh ==
    \A m \in Media :
        /\ IsRow(m) /\ cache[m] # NoFile
        /\ index[<<root, rows[m].path>>] # NoMeta
        /\ Holds(rows[m].path, cache[m].content)
        => index[<<root, rows[m].path>>] = cache[m].content

MetaIsFresh ==
    Collected => \A p \in Found \ scan.todo :
        Holds(p, scan.found[p].content) => scan.meta[p] = scan.found[p].content

FoundIsFresh ==
    \A p \in Found, m \in Media :
        IsRow(m) /\ rows[m].path = p /\ cache[m] # NoFile /\ Holds(p, cache[m].content)
        => scan.found[p].content = cache[m].content

FreshInv == ~history.returned => IndexIsFresh /\ MetaIsFresh /\ FoundIsFresh

(* Without moves and links a content is of one path.                       *)
Immobile == (IdleChanges \cup RacingChanges) \cap {"move", "link"} = {}

OnePlaceInv ==
    Immobile =>
        /\ \A x \in history.past : x[2] < clock
        /\ \A x, y \in history.past : x[2] = y[2] => x = y
        /\ \A p, q \in Paths : disk[p] # NoFile /\ disk[q] # NoFile /\ disk[p].node = disk[q].node
                                => p = q

(* The index keeps what was read at every path a row was given.            *)
RowsAreIndexed == \A m \in Media : IsRow(m) => index[<<rows[m].root, rows[m].path>>] # NoMeta

(* The cache is what a row was last committed as.                          *)
CacheIsSeen == cache = history.seen

-----------------------------------------------------------------------------
(* The operators of the plan                                               *)

(* A change of the availability of a row is nothing the plan depends on.   *)
SamePaths(rs) == \A m \in Media : /\ (rs[m] # NoRow) <=> IsRow(m)
                                  /\ IsRow(m) => rs[m].path = rows[m].path

(* The media of the new rows of a plan are not in use.                     *)
Fresh == Injection(Added, {m \in Media : ~IsRow(m)})

Placed == Added \cup Relinked

LEMMA FoundTypes ==
    ASSUME TypeOK
    PROVE  /\ Found \subseteq Paths
           /\ \A p \in Found : scan.found[p] \in File
           /\ \A p \in Paths : FileAt(root, p) \in File \cup {NoFile}
           /\ \A p \in Paths : FileAt(root, p) # NoFile => mounted = root /\ FileAt(root, p) = disk[p]
BY DEF TypeOK, Scan, Found, FileAt

LEMMA RowTypes ==
    ASSUME TypeOK, NEW m \in Media, IsRow(m)
    PROVE  /\ rows[m] \in Row
           /\ rows[m].path \in Paths
           /\ rows[m].root \in Roots
           /\ rows[m].availability \in Availability
BY DEF TypeOK, IsRow, Row

(* A path is placed when no row has it.                                    *)
LEMMA PlacedIsUnknown ==
    /\ Placed = {p \in Found : KnownAt(p) = {}}
    /\ Added \cap Relinked = {}
    /\ Placed \subseteq Found
BY DEF Placed, Added, Relinked, Relinkable

LEMMA RelinkedFrom ==
    ASSUME NEW p \in Relinked
    PROVE  \E m \in Media : /\ Candidates(p) = {m}
                            /\ IsRow(m)
                            /\ rows[m].path \notin Found
                            /\ cache[m] # NoFile
                            /\ cache[m] = scan.found[p]
                            /\ \A q \in Relinked : m \in Candidates(q) => q = p
<1>1. Candidates(p) \in SUBSET Media
    BY DEF Candidates, Gone
<1>2. IsFiniteSet(Candidates(p))
    BY <1>1, MediaAssumption, FS_Subset
<1>3. Cardinality(Candidates(p)) = 1
    BY DEF Relinked, Relinkable
<1>4. PICK m : Candidates(p) = {m}
    BY <1>2, <1>3, FS_Singleton
<1>5. m \in Gone /\ SameEvidence(cache[m], scan.found[p])
    BY <1>4 DEF Candidates
<1>6. ASSUME NEW q \in Relinked, m \in Candidates(q)
      PROVE  q = p
    <2>1. SameEvidence(cache[m], scan.found[q])
        BY <1>6 DEF Candidates
    <2>2. q \in {x \in Found : SameEvidence(scan.found[x], scan.found[p])}
        BY <1>5, <2>1 DEF SameEvidence, Relinked
    <2> QED
        BY <2>2 DEF Relinked, Relinkable
<1> QED
    BY <1>4, <1>5, <1>6 DEF Gone, SameEvidence

LEMMA MediaOfAdded ==
    ASSUME NEW fresh \in Fresh, NEW p \in Added
    PROVE  MediaOf(p, fresh) = fresh[p] /\ fresh[p] \in Media /\ ~IsRow(fresh[p])
<1>1. p \notin Relinked
    BY PlacedIsUnknown
<1>2. MediaOf(p, fresh) = fresh[p]
    BY <1>1 DEF MediaOf
<1>3. fresh \in [Added -> {m \in Media : ~IsRow(m)}]
    BY DEF Fresh, Injection
<1> QED
    BY <1>2, <1>3

LEMMA MediaOfRelinked ==
    ASSUME NEW fresh \in Fresh, NEW p \in Relinked
    PROVE  /\ Candidates(p) = {MediaOf(p, fresh)}
           /\ MediaOf(p, fresh) \in Media
           /\ IsRow(MediaOf(p, fresh))
           /\ rows[MediaOf(p, fresh)].path \notin Found
           /\ cache[MediaOf(p, fresh)] # NoFile
           /\ cache[MediaOf(p, fresh)] = scan.found[p]
           /\ \A q \in Relinked : MediaOf(p, fresh) \in Candidates(q) => q = p
<1>1. p \notin Added
    BY PlacedIsUnknown
<1>2. MediaOf(p, fresh) = CHOOSE m \in Candidates(p) : TRUE
    BY <1>1 DEF MediaOf
<1>3. PICK m \in Media : /\ Candidates(p) = {m}
                         /\ IsRow(m)
                         /\ rows[m].path \notin Found
                         /\ cache[m] # NoFile
                         /\ cache[m] = scan.found[p]
                         /\ \A q \in Relinked : m \in Candidates(q) => q = p
    BY RelinkedFrom
<1>4. MediaOf(p, fresh) = m
    BY <1>2, <1>3
<1> QED
    BY <1>3, <1>4

LEMMA MediaOfKnown ==
    ASSUME NEW fresh \in Fresh, NEW p \in Found \ Placed
    PROVE  /\ MediaOf(p, fresh) \in Media
           /\ IsRow(MediaOf(p, fresh))
           /\ rows[MediaOf(p, fresh)].path = p
<1>1. p \notin Added /\ p \notin Relinked /\ KnownAt(p) # {}
    BY PlacedIsUnknown DEF Placed
<1>2. MediaOf(p, fresh) = CHOOSE m \in KnownAt(p) : TRUE
    BY <1>1 DEF MediaOf
<1>3. MediaOf(p, fresh) \in KnownAt(p)
    BY <1>1, <1>2
<1> QED
    BY <1>3 DEF KnownAt

LEMMA MediaOfType ==
    ASSUME NEW fresh \in Fresh, NEW p \in Found
    PROVE  MediaOf(p, fresh) \in Media
BY MediaOfAdded, MediaOfRelinked, MediaOfKnown DEF Placed

(* Every path has a row of its own.                                        *)
LEMMA MediaOfInjective ==
    ASSUME NEW fresh \in Fresh, NEW p \in Found, NEW q \in Found,
           MediaOf(p, fresh) = MediaOf(q, fresh)
    PROVE  p = q
<1>1. CASE p \in Added
    <2>1. q \in Added
        BY <1>1, MediaOfAdded, MediaOfRelinked, MediaOfKnown DEF Placed
    <2>2. fresh[p] = fresh[q]
        BY <1>1, <2>1, MediaOfAdded
    <2> QED
        BY <1>1, <2>1, <2>2 DEF Fresh, Injection, IsInjective
<1>2. CASE p \in Relinked
    <2>1. q \in Relinked
        BY <1>2, MediaOfAdded, MediaOfRelinked, MediaOfKnown DEF Placed
    <2> QED
        BY <1>2, <2>1, MediaOfRelinked
<1>3. CASE p \notin Placed
    <2>1. q \notin Placed
        BY <1>3, MediaOfAdded, MediaOfRelinked, MediaOfKnown DEF Placed
    <2> QED
        BY <1>3, <2>1, MediaOfKnown
<1> QED
    BY <1>1, <1>2, <1>3 DEF Placed

(* What the transaction writes                                             *)

Untouched(m, fresh) == \A p \in Placed : MediaOf(p, fresh) # m

LEMMA RowsAfterPlaced ==
    ASSUME NEW fresh \in Fresh, NEW p \in Placed
    PROVE  RowsAfter(fresh)[MediaOf(p, fresh)]
               = [path |-> p, root |-> root, availability |-> "AVAILABLE"]
<1> DEFINE m == MediaOf(p, fresh)
<1>1. m \in Media /\ Placed \subseteq Found
    BY MediaOfType, PlacedIsUnknown
<1>2. \A q \in Placed : MediaOf(q, fresh) = m => q = p
    BY <1>1, MediaOfInjective
<1>3. (CHOOSE q \in Placed : MediaOf(q, fresh) = m) = p
    BY <1>2
<1> QED
    BY <1>1, <1>3 DEF RowsAfter, Placed

LEMMA RowsAfterUntouched ==
    ASSUME NEW fresh \in Fresh, NEW m \in Media, Untouched(m, fresh)
    PROVE  RowsAfter(fresh)[m] = IF m \in Missing THEN [rows[m] EXCEPT !.availability = "MISSING"]
                                                 ELSE rows[m]
BY DEF RowsAfter, Untouched, Placed

LEMMA FilesAfterFound ==
    ASSUME NEW fresh \in Fresh, NEW old, NEW ps \in SUBSET Found, NEW p \in ps
    PROVE  FilesAfter(old, ps, fresh)[MediaOf(p, fresh)] = scan.found[p]
<1> DEFINE m == MediaOf(p, fresh)
<1>1. m \in Media
    BY MediaOfType
<1>2. \A q \in ps : MediaOf(q, fresh) = m => q = p
    BY MediaOfInjective
<1>3. (CHOOSE q \in ps : MediaOf(q, fresh) = m) = p
    BY <1>2
<1> QED
    BY <1>1, <1>3 DEF FilesAfter

LEMMA FilesAfterOther ==
    ASSUME NEW fresh, NEW old, NEW ps, NEW m \in Media,
           \A p \in ps : MediaOf(p, fresh) # m
    PROVE  FilesAfter(old, ps, fresh)[m] = old[m]
BY DEF FilesAfter

LEMMA RowsAfterType ==
    ASSUME TypeOK, NEW fresh \in Fresh
    PROVE  /\ RowsAfter(fresh) \in [Media -> Row \cup {NoRow}]
           /\ \A m \in Media : IsRow(m) => RowsAfter(fresh)[m] # NoRow
           /\ \A m \in Media : Untouched(m, fresh) =>
                 /\ (RowsAfter(fresh)[m] # NoRow) <=> IsRow(m)
                 /\ IsRow(m) => /\ RowsAfter(fresh)[m].path = rows[m].path
                                /\ RowsAfter(fresh)[m].root = rows[m].root
<1>1. ASSUME NEW m \in Media, NEW p \in Placed, MediaOf(p, fresh) = m
      PROVE  RowsAfter(fresh)[m] \in Row
    <2>1. RowsAfter(fresh)[m] = [path |-> p, root |-> root, availability |-> "AVAILABLE"]
        BY <1>1, RowsAfterPlaced
    <2>2. p \in Paths /\ root \in Roots
        BY PlacedIsUnknown, FoundTypes DEF TypeOK
    <2> QED
        BY <2>1, <2>2 DEF Row, Availability
<1>2. ASSUME NEW m \in Media, Untouched(m, fresh)
      PROVE  /\ RowsAfter(fresh)[m] \in Row \cup {NoRow}
             /\ (RowsAfter(fresh)[m] # NoRow) <=> IsRow(m)
             /\ IsRow(m) => /\ RowsAfter(fresh)[m].path = rows[m].path
                            /\ RowsAfter(fresh)[m].root = rows[m].root
    <2>1. CASE m \in Missing
        <3>1. RowsAfter(fresh)[m] = [rows[m] EXCEPT !.availability = "MISSING"]
            BY <1>2, <2>1, RowsAfterUntouched
        <3>2. IsRow(m) /\ rows[m] \in Row
            BY <2>1, RowTypes DEF Missing, Gone
        <3>3. [rows[m] EXCEPT !.availability = "MISSING"] \in Row
            BY <3>2 DEF Row, Availability
        <3> QED
            BY <3>1, <3>2, <3>3, NoneAssumption DEF Row
    <2>2. CASE m \notin Missing
        BY <1>2, <2>2, RowsAfterUntouched DEF TypeOK, IsRow
    <2> QED
        BY <2>1, <2>2
<1>3. \A m \in Media : RowsAfter(fresh)[m] \in Row \cup {NoRow}
    BY <1>1, <1>2 DEF Untouched
<1>4. RowsAfter(fresh) = [m \in Media |-> RowsAfter(fresh)[m]]
    BY DEF RowsAfter
<1>5. \A m \in Media : IsRow(m) => RowsAfter(fresh)[m] # NoRow
    BY <1>1, <1>2, NoneAssumption DEF Untouched
<1> QED
    BY <1>2, <1>3, <1>4, <1>5

-----------------------------------------------------------------------------
(* The files change                                                        *)

PlacedAt(new) == {<<p, new[p].content>> : p \in {q \in Paths : new[q] \notin {NoFile, disk[q]}}}

LEMMA ChangeIs ==
    ASSUME NEW kind, NEW new, Change(kind, new)
    PROVE  /\ clock < MaxChanges
           /\ kind \in IdleChanges \cup RacingChanges
           /\ clock' = clock + 1
           /\ disk' = new
           /\ history' = [history EXCEPT
                  !.quiet = FALSE, !.settled = FALSE,
                  !.past = @ \cup PlacedAt(new),
                  !.returned = @ \/ PlacedAt(new) \cap history.past # {}]
           /\ UNCHANGED <<root, rows, cache, index, visible, scan>>
BY DEF Change, PlacedAt, durable

(* Whatever changes the files leaves them well formed.                     *)
LEMMA FilesStep ==
    ASSUME TypeOK, FilesNext
    PROVE  /\ \E kind \in ChangeKinds : Change(kind, disk')
           /\ mounted' \in Roots
           /\ disk' \in [Paths -> File \cup {NoFile}]
<1>1. clock \in Content /\ clock \in Nat
    BY ChangesAssumption DEF TypeOK, Content
<1>2. /\ mounted \in Roots
      /\ disk \in [Paths -> File \cup {NoFile}]
    BY DEF TypeOK
<1>3. ASSUME NEW p \in Paths, NEW n \in Nodes, CreateFile(p, n)
      PROVE  /\ Change("create", disk')
             /\ mounted' \in Roots
             /\ disk' \in [Paths -> File \cup {NoFile}]
    <2>1. disk' = [disk EXCEPT ![p] = [node |-> n, content |-> clock]]
        BY <1>3 DEF CreateFile, Change
    <2>2. [node |-> n, content |-> clock] \in File
        BY <1>1 DEF File
    <2> QED
        BY <1>2, <1>3, <2>1, <2>2 DEF CreateFile
<1>4. ASSUME NEW n \in Nodes, EditFile(n)
      PROVE  /\ Change("edit", disk')
             /\ mounted' \in Roots
             /\ disk' \in [Paths -> File \cup {NoFile}]
    <2>1. disk' = [p \in Paths |-> IF disk[p] # NoFile /\ disk[p].node = n
                                   THEN [node |-> n, content |-> clock] ELSE disk[p]]
        BY <1>4 DEF EditFile, Change
    <2>2. [node |-> n, content |-> clock] \in File
        BY <1>1 DEF File
    <2> QED
        BY <1>2, <1>4, <2>1, <2>2 DEF EditFile
<1>5. ASSUME NEW p \in Paths, DeleteFile(p)
      PROVE  /\ Change("delete", disk')
             /\ mounted' \in Roots
             /\ disk' \in [Paths -> File \cup {NoFile}]
    <2>1. disk' = [disk EXCEPT ![p] = NoFile]
        BY <1>5 DEF DeleteFile, Change
    <2> QED
        BY <1>2, <1>5, <2>1 DEF DeleteFile
<1>6. ASSUME NEW p \in Paths, NEW q \in Paths, MoveFile(p, q)
      PROVE  /\ Change("move", disk')
             /\ mounted' \in Roots
             /\ disk' \in [Paths -> File \cup {NoFile}]
    <2>1. disk' = [disk EXCEPT ![p] = NoFile, ![q] = disk[p]]
        BY <1>6 DEF MoveFile, Change
    <2> QED
        BY <1>2, <1>6, <2>1 DEF MoveFile
<1>7. ASSUME NEW p \in Paths, NEW q \in Paths, LinkFile(p, q)
      PROVE  /\ Change("link", disk')
             /\ mounted' \in Roots
             /\ disk' \in [Paths -> File \cup {NoFile}]
    <2>1. disk' = [disk EXCEPT ![q] = disk[p]]
        BY <1>7 DEF LinkFile, Change
    <2> QED
        BY <1>2, <1>7, <2>1 DEF LinkFile
<1>8. ASSUME NEW r \in Roots, Remount(r)
      PROVE  /\ Change("remount", disk')
             /\ mounted' \in Roots
             /\ disk' \in [Paths -> File \cup {NoFile}]
    <2>1. disk' = disk
        BY <1>8 DEF Remount, Change
    <2> QED
        BY <1>2, <1>8, <2>1 DEF Remount
<1> QED
    BY <1>3, <1>4, <1>5, <1>6, <1>7, <1>8 DEF FilesNext, ChangeKinds

LEMMA PlanUnchanged ==
    ASSUME UNCHANGED <<root, rows, cache, index, visible, scan>>
    PROVE  /\ OneIdentityPerPath => OneIdentityPerPath'
           /\ RowsInv => RowsInv'
           /\ PlanInv => PlanInv'
           /\ LostInv => LostInv'
<1>1. OneIdentityPerPath => OneIdentityPerPath'
    BY DEF OneIdentityPerPath, IsRow
<1>2. RowsInv => RowsInv'
    BY DEF RowsInv, IsRow
<1>3. Found' = Found
    BY DEF Found
<1>4. PlanInv => PlanInv'
    BY <1>3 DEF PlanInv, Collected, Reusable, Unchanged, KnownAt, IsRow
<1>5. Missing' = Missing
    BY <1>3 DEF Missing, Gone, Relinked, Relinkable, Candidates, KnownAt, IsRow
<1>6. LostInv => LostInv'
    BY <1>5 DEF LostInv
<1> QED
    BY <1>1, <1>2, <1>4, <1>6

LEMMA FilesKeepInv ==
    ASSUME Inv, FilesNext
    PROVE  Inv'
<1>1. PICK kind \in ChangeKinds : Change(kind, disk')
    BY FilesStep DEF Inv
<1>2. /\ clock < MaxChanges
      /\ clock' = clock + 1
      /\ history' = [history EXCEPT
             !.quiet = FALSE, !.settled = FALSE,
             !.past = @ \cup PlacedAt(disk'),
             !.returned = @ \/ PlacedAt(disk') \cap history.past # {}]
      /\ UNCHANGED <<root, rows, cache, index, visible, scan>>
    BY <1>1, ChangeIs
<1>3. mounted' \in Roots /\ disk' \in [Paths -> File \cup {NoFile}]
    BY FilesStep DEF Inv
<1>4. clock' \in 0 .. MaxChanges
    BY <1>2, ChangesAssumption DEF Inv, TypeOK
<1>5. PlacedAt(disk') \subseteq Paths \X Content
    <2>1. ASSUME NEW p \in Paths, disk'[p] # NoFile
          PROVE  disk'[p].content \in Content
        BY <1>3, <2>1 DEF File
    <2> QED
        BY <2>1 DEF PlacedAt
<1>6. history' \in History
    <2>1. history \in History
        BY DEF Inv, TypeOK
    <2>2. PICK rt \in BOOLEAN : history' = [history EXCEPT
             !.quiet = FALSE, !.settled = FALSE,
             !.past = history.past \cup PlacedAt(disk'),
             !.returned = rt]
        BY <1>2, <2>1 DEF History
    <2>3. history.past \cup PlacedAt(disk') \in SUBSET (Paths \X Content)
        BY <1>5, <2>1 DEF History
    <2> QED
        BY <2>1, <2>2, <2>3 DEF History
<1>7. TypeOK'
    BY <1>2, <1>3, <1>4, <1>6 DEF Inv, TypeOK
<1> QED
    BY <1>2, <1>7, PlanUnchanged DEF Inv

-----------------------------------------------------------------------------
(* The worker                                                              *)

LEMMA NoScanType ==
    /\ NoScan \in Scan
    /\ NoScan.phase = "idle" /\ NoScan.todo = {} /\ NoScan.extracted = {} /\ NoScan.lost = {}
    /\ \A p \in Paths : NoScan.found[p] = NoFile
BY DEF NoScan, Scan

(* The invariant asks nothing of a scan that was abandoned.                *)
LEMMA ScanEnds ==
    ASSUME scan' = NoScan
    PROVE  PlanInv' /\ LostInv'
BY NoScanType DEF PlanInv, LostInv, Collected

LEMMA WorkerLeaves ==
    ASSUME Inv, WorkerNext
    PROVE  /\ UNCHANGED <<mounted, disk, clock, root, rows, cache, index, visible>>
           /\ history' \in History
           /\ history' # history => StartWalk
<1>1. history \in History
    BY DEF Inv, TypeOK
<1>2. CASE StartWalk
    BY <1>1, <1>2 DEF StartWalk, files, durable, History
<1>3. CASE ~StartWalk
    BY <1>1, <1>3 DEF WorkerNext, EndWalk, MarkMissing, AbandonScan, StatFile, ReconcileFile,
                      files, durable
<1> QED
    BY <1>2, <1>3

(* What a step of the worker still owes.                                   *)
LEMMA WorkerKeeps ==
    ASSUME Inv, WorkerNext, scan' \in Scan,
           \A p \in scan'.extracted : scan'.meta[p] \in Content,
           PlanInv', LostInv'
    PROVE  Inv'
<1>1. UNCHANGED <<mounted, disk, clock, root, rows, cache, index, visible>> /\ history' \in History
    BY WorkerLeaves
<1>2. TypeOK'
    BY <1>1 DEF Inv, TypeOK
<1>3. OneIdentityPerPath' /\ RowsInv'
    BY <1>1 DEF Inv, OneIdentityPerPath, RowsInv, IsRow
<1> QED
    BY <1>2, <1>3 DEF Inv

LEMMA StartWalkKeepsInv ==
    ASSUME Inv, StartWalk
    PROVE  Inv'
<1>1. scan' = [NoScan EXCEPT !.phase = "walking", !.todo = Paths]
    BY DEF StartWalk
<1>2. scan' \in Scan /\ scan'.phase = "walking" /\ scan'.extracted = {}
    BY <1>1, NoScanType DEF Scan
<1>3. PlanInv' /\ LostInv'
    BY <1>2 DEF PlanInv, LostInv, Collected
<1> QED
    BY <1>2, <1>3, WorkerKeeps DEF WorkerNext

LEMMA StatFileKeepsInv ==
    ASSUME Inv, NEW p \in Paths, StatFile(p)
    PROVE  Inv'
<1>1. /\ scan.phase = "walking"
      /\ scan' = [scan EXCEPT !.todo = @ \ {p}, !.found[p] = FileAt(root, p)]
    BY DEF StatFile
<1>2. scan \in Scan /\ FileAt(root, p) \in File \cup {NoFile}
    BY FoundTypes DEF Inv, TypeOK
<1>3. scan' \in Scan /\ scan'.phase = "walking" /\ scan'.extracted = scan.extracted
    <2>1. PICK f \in [Paths -> File \cup {NoFile}] : f = [scan.found EXCEPT ![p] = FileAt(root, p)]
        BY <1>2 DEF Scan
    <2>2. scan' = [scan EXCEPT !.todo = scan.todo \ {p}, !.found = f]
        BY <1>1, <1>2, <2>1 DEF Scan
    <2>3. scan.todo \ {p} \in SUBSET Paths
        BY <1>2 DEF Scan
    <2>4. scan' \in Scan /\ scan'.phase = scan.phase /\ scan'.extracted = scan.extracted
        BY <1>2, <2>2, <2>3 DEF Scan
    <2> QED
        BY <1>1, <2>4
<1>4. scan'.extracted = {}
    BY <1>1, <1>3 DEF Inv, PlanInv, Collected
<1>5. PlanInv' /\ LostInv'
    BY <1>3, <1>4 DEF PlanInv, LostInv, Collected
<1> QED
    BY <1>3, <1>4, <1>5, WorkerKeeps DEF WorkerNext

LEMMA EndWalkKeepsInv ==
    ASSUME Inv, EndWalk
    PROVE  Inv'
<1>1. /\ scan.phase = "walking"
      /\ scan' = [scan EXCEPT !.phase = "reconciling", !.todo = Found]
    BY DEF EndWalk
<1>2. scan \in Scan /\ Found \in SUBSET Paths
    BY FoundTypes DEF Inv, TypeOK
<1>3. /\ scan' \in Scan
      /\ scan'.phase = "reconciling"
      /\ scan'.todo = Found
      /\ scan'.extracted = scan.extracted
      /\ scan'.found = scan.found
    BY <1>1, <1>2 DEF Scan
<1>4. scan'.extracted = {}
    BY <1>1, <1>3 DEF Inv, PlanInv, Collected
<1>5. Found' = Found
    BY <1>3 DEF Found
<1>6. PlanInv' /\ LostInv'
    BY <1>3, <1>4, <1>5 DEF PlanInv, LostInv, Collected
<1> QED
    BY <1>3, <1>4, <1>6, WorkerKeeps DEF WorkerNext

LEMMA AbandonKeepsInv ==
    ASSUME Inv, AbandonScan
    PROVE  Inv'
<1>1. scan' = NoScan
    BY DEF AbandonScan
<1> QED
    BY <1>1, NoScanType, ScanEnds, WorkerKeeps DEF WorkerNext

(* A file that was reconciled is either in the index, or was read.         *)
LEMMA Reconciled ==
    ASSUME Inv, NEW p \in Paths, ReconcileFile(p)
    PROVE  /\ scan.phase = "reconciling" /\ p \in scan.todo /\ p \in Found
           /\ \E c \in Content :
                 \E x \in {scan.extracted, scan.extracted \cup {p}} :
                    /\ scan' = [scan EXCEPT !.todo = scan.todo \ {p}, !.extracted = x,
                                            !.meta = [scan.meta EXCEPT ![p] = c]]
                    /\ x = scan.extracted => Reusable(p) /\ c = index[<<root, p>>]
                    /\ x # scan.extracted => FileAt(root, p) # NoFile /\ c = FileAt(root, p).content
<1>1. scan.phase = "reconciling" /\ p \in scan.todo /\ p \in Found
    BY DEF ReconcileFile, Inv, PlanInv, Collected
<1>2. scan \in Scan /\ p \notin scan.extracted
    BY <1>1 DEF Inv, TypeOK, PlanInv, Collected
<1>3. CASE Reusable(p) /\ scan' = [scan EXCEPT !.todo = @ \ {p}, !.meta[p] = index[<<root, p>>]]
    <2>1. <<root, p>> \in Roots \X Paths
        BY DEF Inv, TypeOK
    <2>2. index[<<root, p>>] \in Content
        BY <1>3, <2>1 DEF Reusable, Inv, TypeOK
    <2>3. scan' = [scan EXCEPT !.todo = scan.todo \ {p}, !.extracted = scan.extracted,
                               !.meta = [scan.meta EXCEPT ![p] = index[<<root, p>>]]]
        BY <1>2, <1>3 DEF Scan
    <2> QED
        BY <1>1, <1>3, <2>2, <2>3
<1>4. CASE /\ ~Reusable(p) /\ FileAt(root, p) # NoFile
           /\ scan' = [scan EXCEPT !.todo = @ \ {p}, !.extracted = @ \cup {p},
                                   !.meta[p] = FileAt(root, p).content]
    <2>1. FileAt(root, p).content \in Content
        BY <1>4, FoundTypes DEF Inv, File
    <2>2. scan' = [scan EXCEPT !.todo = scan.todo \ {p}, !.extracted = scan.extracted \cup {p},
                               !.meta = [scan.meta EXCEPT ![p] = FileAt(root, p).content]]
        BY <1>2, <1>4 DEF Scan
    <2>3. scan.extracted \cup {p} # scan.extracted
        BY <1>2
    <2> QED
        BY <1>1, <1>4, <2>1, <2>2, <2>3
<1> QED
    BY <1>3, <1>4 DEF ReconcileFile

LEMMA ReconcileFileKeepsInv ==
    ASSUME Inv, NEW p \in Paths, ReconcileFile(p)
    PROVE  Inv'
<1>1. scan.phase = "reconciling" /\ p \in scan.todo /\ p \in Found
    BY Reconciled
<1>2. PICK c \in Content, x \in {scan.extracted, scan.extracted \cup {p}} :
          /\ scan' = [scan EXCEPT !.todo = scan.todo \ {p}, !.extracted = x,
                                  !.meta = [scan.meta EXCEPT ![p] = c]]
          /\ x = scan.extracted => Reusable(p) /\ c = index[<<root, p>>]
    BY Reconciled
<1>3. scan \in Scan
    BY DEF Inv, TypeOK
<1>4. PICK mt \in [Paths -> Content \cup {NoMeta}] : mt = [scan.meta EXCEPT ![p] = c]
    BY <1>3 DEF Scan
<1>5. mt[p] = c /\ \A q \in Paths \ {p} : mt[q] = scan.meta[q]
    BY <1>3, <1>4 DEF Scan
<1>6. /\ scan' \in Scan
      /\ scan'.phase = "reconciling" /\ scan'.todo = scan.todo \ {p}
      /\ scan'.found = scan.found /\ scan'.extracted = x /\ scan'.meta = mt
    BY <1>1, <1>2, <1>3, <1>4 DEF Scan
<1>7. \A q \in scan'.extracted : scan'.meta[q] \in Content
    <2>1. \A q \in scan.extracted : q \in Paths /\ scan.meta[q] \in Content
        BY <1>3 DEF Inv, TypeOK, Scan
    <2> QED
        BY <1>2, <1>5, <1>6, <2>1
<1>8. UNCHANGED <<rows, cache, index, root>>
    BY DEF ReconcileFile, durable
<1>9. Found' = Found /\ Found \subseteq Paths
    BY <1>6 DEF Found
<1>10. ASSUME NEW q \in Paths
       PROVE  Reusable(q)' = Reusable(q)
    BY <1>6, <1>8 DEF Reusable, Unchanged, KnownAt, IsRow
<1>11. PlanInv'
    <2>1. /\ scan.todo \subseteq Found
          /\ scan.extracted \subseteq Found \ scan.todo
          /\ \A q \in Found \ scan.todo :
                \/ q \in scan.extracted
                \/ Reusable(q) /\ scan.meta[q] = index[<<root, q>>]
        BY <1>1 DEF Inv, PlanInv, Collected
    <2>2. scan'.todo \subseteq Found /\ scan'.extracted \subseteq Found \ scan'.todo
        BY <1>1, <1>2, <1>6, <2>1
    <2>3. ASSUME NEW q \in Found \ scan'.todo
          PROVE  \/ q \in scan'.extracted
                 \/ Reusable(q)' /\ scan'.meta[q] = index[<<root, q>>]
        <3>1. CASE q = p
            BY <1>2, <1>5, <1>6, <1>9, <1>10, <3>1
        <3>2. CASE q # p
            BY <1>2, <1>5, <1>6, <1>9, <1>10, <2>1, <2>3, <3>2
        <3> QED
            BY <3>1, <3>2
    <2> QED
        BY <1>6, <1>8, <1>9, <2>2, <2>3 DEF PlanInv, Collected
<1>12. LostInv'
    BY <1>6 DEF LostInv
<1> QED
    BY <1>6, <1>7, <1>11, <1>12, WorkerKeeps DEF WorkerNext

LEMMA LostMetaType ==
    ASSUME TypeOK, NEW m \in Media, IsRow(m)
    PROVE  LostMeta(m) \in Content \cup {NoMeta}
<1> DEFINE ix   == index[<<rows[m].root, rows[m].path>>]
           file == FileAt(rows[m].root, rows[m].path)
<1>1. <<rows[m].root, rows[m].path>> \in Roots \X Paths
    BY RowTypes
<1>2. ix \in Content \cup {NoMeta}
    BY <1>1 DEF TypeOK
<1>3. file \in File \cup {NoFile}
    BY RowTypes DEF TypeOK, FileAt
<1>4. file # NoFile => file.content \in Content
    BY <1>3 DEF File
<1>5. LostMeta(m) = CASE ix # NoMeta                  -> ix
                      [] ix = NoMeta /\ file # NoFile -> file.content
                      [] ix = NoMeta /\ file = NoFile -> NoMeta
    BY DEF LostMeta
<1> HIDE DEF ix, file
<1> QED
    BY <1>2, <1>4, <1>5

LEMMA MarkMissingKeepsInv ==
    ASSUME Inv, MarkMissing
    PROVE  Inv'
<1> DEFINE ref(m) == [media |-> m, path |-> rows[m].path, root |-> rows[m].root,
                      availability |-> "MISSING", meta |-> LostMeta(m)]
           lost   == {ref(m) : m \in Missing}
<1>1. /\ scan.phase = "reconciling" /\ scan.todo = {}
      /\ scan' = [scan EXCEPT !.phase = "planned", !.lost = lost]
      /\ UNCHANGED <<rows, cache, index, root>>
    BY DEF MarkMissing, durable
<1>2. scan \in Scan /\ TypeOK
    BY DEF Inv, TypeOK
<1>3. ASSUME NEW m \in Missing
      PROVE  ref(m) \in Ref
    <2>1. m \in Media /\ IsRow(m)
        BY <1>3 DEF Missing, Gone
    <2>2. LostMeta(m) \in Content \cup {NoMeta}
        BY <1>2, <2>1, LostMetaType
    <2>3. rows[m].path \in Paths /\ rows[m].root \in Roots
        BY <1>2, <2>1, RowTypes
    <2> QED
        BY <2>1, <2>2, <2>3 DEF Ref, Availability
<1>4. lost \in SUBSET Ref
    BY <1>3
<1>5. \A m \in Missing : ref(m).media = m /\ ref(m).path = rows[m].path /\ ref(m).availability = "MISSING"
    OBVIOUS
<1>6. /\ \A r \in lost : r.media \in Missing /\ r = ref(r.media)
      /\ \A m \in Missing : ref(m) \in lost
    BY <1>5
<1> HIDE DEF ref
<1> HIDE DEF lost
<1>7. /\ scan' \in Scan
      /\ scan'.phase = "planned" /\ scan'.todo = {} /\ scan'.found = scan.found
      /\ scan'.meta = scan.meta /\ scan'.extracted = scan.extracted /\ scan'.lost = lost
    BY <1>1, <1>2, <1>4 DEF Scan
<1>8. Found' = Found
    BY <1>7 DEF Found
<1>9. \A p \in Found : Reusable(p)' = Reusable(p)
    BY <1>1, <1>7 DEF Reusable, Unchanged, KnownAt, IsRow, Found
<1>10. Missing' = Missing
    BY <1>1, <1>7, <1>8 DEF Missing, Gone, Relinked, Relinkable, Candidates, KnownAt, IsRow
<1>11. PlanInv'
    BY <1>1, <1>7, <1>8, <1>9 DEF Inv, PlanInv, Collected
<1>12. LostInv'
    <2>1. \A r \in lost : /\ r.media \in Missing
                          /\ r.path = rows[r.media].path
                          /\ r.availability = "MISSING"
        BY <1>5, <1>6
    <2>2. \A a, b \in lost : a.media = b.media => a = b
        BY <1>6
    <2>3. \A m \in Missing : \E r \in lost : r.media = m
        BY <1>5, <1>6
    <2> QED
        BY <1>1, <1>7, <1>10, <2>1, <2>2, <2>3 DEF LostInv
<1>13. \A p \in scan'.extracted : scan'.meta[p] \in Content
    BY <1>2, <1>7 DEF TypeOK
<1> QED
    BY <1>7, <1>11, <1>12, <1>13, WorkerKeeps DEF WorkerNext

-----------------------------------------------------------------------------
(* The owner                                                               *)

LEMMA HydratedType ==
    ASSUME NEW rs \in [Media -> Row \cup {NoRow}],
           NEW ix \in [Roots \X Paths -> Content \cup {NoMeta}]
    PROVE  /\ Hydrated(rs, ix) \subseteq Ref
           /\ \A ref \in Hydrated(rs, ix) : rs[ref.media] # NoRow
<1> DEFINE ref(m) == [media |-> m, path |-> rs[m].path, root |-> rs[m].root,
                      availability |-> rs[m].availability, meta |-> ix[<<rs[m].root, rs[m].path>>]]
<1>1. ASSUME NEW m \in Media, rs[m] # NoRow
      PROVE  ref(m) \in Ref /\ ref(m).media = m
    <2>1. rs[m] \in Row
        BY <1>1
    <2>2. rs[m].path \in Paths /\ rs[m].root \in Roots /\ rs[m].availability \in Availability
        BY <2>1 DEF Row
    <2>3. ix[<<rs[m].root, rs[m].path>>] \in Content \cup {NoMeta}
        BY <2>2
    <2> QED
        BY <2>2, <2>3 DEF Ref
<1> QED
    BY <1>1 DEF Hydrated

LEMMA RelocateKeepsInv ==
    ASSUME Inv, NEW r \in Roots, Relocate(r)
    PROVE  Inv'
<1>1. /\ root' = r /\ scan' = NoScan
      /\ UNCHANGED <<mounted, disk, clock, rows, cache, index, visible>>
    BY DEF Relocate, files
<1>2. history' \in History
    <2>1. history \in History
        BY DEF Inv, TypeOK
    <2>2. history' = [history EXCEPT !.settled = FALSE, !.roots = history.roots \cup {r},
                                     !.returned = history.returned \/ r \in history.roots]
        BY <2>1 DEF Relocate, History
    <2> QED
        BY <2>1, <2>2 DEF History
<1>3. TypeOK'
    BY <1>1, <1>2, NoScanType DEF Inv, TypeOK
<1>4. OneIdentityPerPath' /\ RowsInv'
    BY <1>1 DEF Inv, OneIdentityPerPath, RowsInv, IsRow
<1> QED
    BY <1>1, <1>3, <1>4, ScanEnds DEF Inv

LEMMA RestartKeepsInv ==
    ASSUME Inv, Restart
    PROVE  Inv'
<1>1. /\ scan' = NoScan
      /\ visible' = Hydrated(rows, index)
      /\ UNCHANGED <<mounted, disk, clock, root, rows, cache, index>>
    BY DEF Restart, files, durable
<1>2. history' \in History
    BY DEF Restart, Inv, TypeOK, History
<1>3. visible' \subseteq Ref /\ \A ref \in visible' : IsRow(ref.media)
    BY <1>1, HydratedType DEF Inv, TypeOK, IsRow
<1>4. TypeOK'
    BY <1>1, <1>2, <1>3, NoScanType DEF Inv, TypeOK
<1>5. OneIdentityPerPath' /\ RowsInv'
    BY <1>1, <1>3 DEF Inv, OneIdentityPerPath, RowsInv, IsRow
<1> QED
    BY <1>1, <1>4, <1>5, ScanEnds DEF Inv

(* Only an availability changes.                                           *)
LEMMA PlayMissingIs ==
    ASSUME Inv, NEW ref \in visible, PlayMissing(ref)
    PROVE  /\ rows' \in [Media -> Row \cup {NoRow}]
           /\ SamePaths(rows')
           /\ \A m \in Media : IsRow(m) => rows'[m].root = rows[m].root
           /\ visible' = (visible \ {ref}) \cup {[ref EXCEPT !.availability = "MISSING"]}
           /\ [ref EXCEPT !.availability = "MISSING"] \in Ref
           /\ UNCHANGED <<mounted, disk, clock, root, cache, index, scan, history>>
<1>1. ref \in Ref /\ ref.media \in Media /\ IsRow(ref.media)
    BY DEF Inv, TypeOK, RowsInv, Ref
<1>2. rows[ref.media] \in Row
    BY <1>1, RowTypes DEF Inv
<1>3. rows \in [Media -> Row \cup {NoRow}]
    BY DEF Inv, TypeOK
<1>4. rows' = rows \/ rows' = [rows EXCEPT ![ref.media].availability = "MISSING"]
    BY DEF PlayMissing
<1>5. CASE rows' = rows
    BY <1>1, <1>3, <1>5 DEF PlayMissing, SamePaths, IsRow, files, Ref, Availability
<1>6. CASE rows' = [rows EXCEPT ![ref.media].availability = "MISSING"]
    <2>1. PICK row \in Row : row = [rows[ref.media] EXCEPT !.availability = "MISSING"]
        BY <1>2 DEF Row, Availability
    <2>2. rows' = [rows EXCEPT ![ref.media] = row]
        BY <1>3, <1>1, <1>6, <2>1
    <2>3. row.path = rows[ref.media].path /\ row.root = rows[ref.media].root /\ row # NoRow
        BY <1>2, <2>1, NoneAssumption DEF Row
    <2>4. /\ rows' \in [Media -> Row \cup {NoRow}]
          /\ rows'[ref.media] = row
          /\ \A m \in Media \ {ref.media} : rows'[m] = rows[m]
        BY <1>1, <1>3, <2>2
    <2>5. SamePaths(rows') /\ \A m \in Media : IsRow(m) => rows'[m].root = rows[m].root
        BY <1>1, <2>3, <2>4 DEF SamePaths, IsRow
    <2> QED
        BY <1>1, <2>4, <2>5 DEF PlayMissing, files, Ref, Availability
<1> QED
    BY <1>4, <1>5, <1>6

(* The plan of a scan depends on which rows there are, and on their paths. *)
LEMMA PlanOfSamePaths ==
    ASSUME SamePaths(rows'), UNCHANGED <<root, cache, index, scan>>
    PROVE  /\ Found' = Found
           /\ Missing' = Missing
           /\ \A p \in Found : Reusable(p)' = Reusable(p)
           /\ \A m \in Media : IsRow(m)' <=> IsRow(m)
<1>1. \A m \in Media : IsRow(m)' <=> IsRow(m)
    BY DEF SamePaths, IsRow
<1>2. \A m \in Media : IsRow(m) => rows'[m].path = rows[m].path
    BY DEF SamePaths
<1>3. Found' = Found
    BY DEF Found
<1>4. ASSUME NEW p \in Found
      PROVE  KnownAt(p)' = KnownAt(p)
    BY <1>1, <1>2 DEF KnownAt
<1>5. \A p \in Found : Reusable(p)' = Reusable(p)
    BY <1>4 DEF Reusable, Unchanged
<1>6. Gone' = Gone
    BY <1>1, <1>2, <1>3 DEF Gone
<1>7. \A p \in Found : Candidates(p)' = Candidates(p)
    BY <1>6 DEF Candidates
<1>8. Relinked' = Relinked
    BY <1>3, <1>4, <1>7 DEF Relinked, Relinkable
<1>9. Missing' = Missing
    BY <1>6, <1>7, <1>8 DEF Missing, Relinked
<1> QED
    BY <1>1, <1>3, <1>5, <1>9

LEMMA PlayMissingKeepsInv ==
    ASSUME Inv, NEW ref \in visible, PlayMissing(ref)
    PROVE  Inv'
<1> DEFINE new == [ref EXCEPT !.availability = "MISSING"]
<1>1. /\ rows' \in [Media -> Row \cup {NoRow}]
      /\ SamePaths(rows')
      /\ visible' = (visible \ {ref}) \cup {new}
      /\ new \in Ref
      /\ UNCHANGED <<mounted, disk, clock, root, cache, index, scan, history>>
    BY PlayMissingIs
<1>2. new.media = ref.media /\ IsRow(ref.media)
    BY DEF Inv, TypeOK, RowsInv, Ref
<1>3. /\ Found' = Found
      /\ Missing' = Missing
      /\ \A p \in Found : Reusable(p)' = Reusable(p)
      /\ \A m \in Media : IsRow(m)' <=> IsRow(m)
    BY <1>1, PlanOfSamePaths
<1>4. TypeOK'
    BY <1>1 DEF Inv, TypeOK
<1>5. OneIdentityPerPath'
    BY <1>1, <1>3 DEF Inv, OneIdentityPerPath, SamePaths
<1>6. RowsInv'
    <2>1. \A r \in visible' : r.media \in Media /\ IsRow(r.media)
        BY <1>1, <1>2 DEF Inv, TypeOK, RowsInv, Ref
    <2> QED
        BY <1>1, <1>3, <2>1 DEF Inv, RowsInv
<1>7. PlanInv'
    BY <1>1, <1>3 DEF Inv, PlanInv, Collected
<1>8. LostInv'
    <2>1. \A m \in Missing : m \in Media /\ IsRow(m)
        BY DEF Missing, Gone
    <2>2. \A m \in Missing : rows'[m].path = rows[m].path
        BY <1>1, <2>1 DEF SamePaths
    <2> QED
        BY <1>1, <1>3, <2>2 DEF Inv, LostInv
<1> QED
    BY <1>4, <1>5, <1>6, <1>7, <1>8 DEF Inv

(* The commit of a plan                                                    *)

(* The rows of a plan that were not in the Library before come first.      *)
Refs(fresh) == {[media |-> MediaOf(p, fresh), path |-> p, root |-> root,
                 availability |-> "AVAILABLE", meta |-> scan.meta[p]] : p \in Found}

Committed(fresh, o, published) ==
    /\ rows' = RowsAfter(fresh)
    /\ index' = IF o.indexed THEN IndexAfter ELSE index
    /\ cache' = FilesAfter(cache, o.cached, fresh)
    /\ o.crashed => visible' = Hydrated(rows', index')
    /\ ~o.crashed /\ published => visible' = Refs(fresh) \cup scan.lost
    /\ ~o.crashed /\ ~published => visible' = visible
    /\ history' = [history EXCEPT !.settled = history.quiet /\ published /\ ~o.crashed,
                                  !.seen = FilesAfter(@, Found, fresh)]

LEMMA CommitIs ==
    ASSUME CommitPlan
    PROVE  /\ scan.phase = "planned" /\ scan' = NoScan
           /\ UNCHANGED <<mounted, disk, clock, root>>
           /\ \E fresh \in Fresh, o \in Outcomes, published \in BOOLEAN :
                  Committed(fresh, o, published)
<1>1. PICK fresh \in Fresh, o \in Outcomes, published \in BOOLEAN :
          /\ rows' = RowsAfter(fresh)
          /\ index' = IF o.indexed THEN IndexAfter ELSE index
          /\ cache' = FilesAfter(cache, o.cached, fresh)
          /\ visible' = CASE o.crashed               -> Hydrated(rows', index')
                          [] ~o.crashed /\ published  -> PlannedRefs(fresh)
                          [] ~o.crashed /\ ~published -> visible
          /\ history' = [history EXCEPT
                 !.settled = history.quiet /\ published /\ ~o.crashed,
                 !.seen = FilesAfter(@, Found, fresh)]
    BY DEF CommitPlan, Fresh
<1>2. Committed(fresh, o, published)
    BY <1>1 DEF Committed, PlannedRefs, Refs
<1> QED
    BY <1>2 DEF CommitPlan, files

LEMMA OutcomesAre ==
    ASSUME NEW o \in Outcomes
    PROVE  /\ o.indexed \in BOOLEAN /\ o.crashed \in BOOLEAN
           /\ o.cached \in SUBSET Found
           /\ "media" \notin Faults /\ "crash" \notin Faults => o.cached = Found
           /\ "index" \notin Faults /\ "crash" \notin Faults => o.indexed
           /\ "index" \notin Faults /\ ~o.indexed => o.cached = {} /\ "crash" \in Faults
BY DEF Outcomes

LEMMA IndexAfterIs ==
    ASSUME TypeOK
    PROVE  /\ IndexAfter \in [Roots \X Paths -> Content \cup {NoMeta}]
           /\ \A p \in scan.extracted : IndexAfter[<<root, p>>] = scan.meta[p] /\ scan.meta[p] \in Content
           /\ \A r \in Roots, p \in Paths : r # root \/ p \notin scan.extracted
                    => IndexAfter[<<r, p>>] = index[<<r, p>>]
<1>1. \A p \in scan.extracted : p \in Paths /\ scan.meta[p] \in Content
    BY DEF TypeOK, Scan
<1>2. root \in Roots /\ index \in [Roots \X Paths -> Content \cup {NoMeta}]
    BY DEF TypeOK
<1>3. ASSUME NEW k \in Roots \X Paths
      PROVE  /\ IndexAfter[k] = IF k[1] = root /\ k[2] \in scan.extracted
                                THEN scan.meta[k[2]] ELSE index[k]
             /\ IndexAfter[k] \in Content \cup {NoMeta}
    BY <1>1, <1>2 DEF IndexAfter
<1>4. IndexAfter = [k \in Roots \X Paths |-> IndexAfter[k]]
    BY DEF IndexAfter
<1>5. IndexAfter \in [Roots \X Paths -> Content \cup {NoMeta}]
    BY <1>3, <1>4
<1>6. ASSUME NEW r \in Roots, NEW p \in Paths
      PROVE  IndexAfter[<<r, p>>] = IF r = root /\ p \in scan.extracted
                                    THEN scan.meta[p] ELSE index[<<r, p>>]
    <2>1. <<r, p>> \in Roots \X Paths
        OBVIOUS
    <2> QED
        BY <1>3, <2>1
<1> QED
    BY <1>1, <1>2, <1>5, <1>6

LEMMA FilesAfterType ==
    ASSUME TypeOK, NEW fresh \in Fresh, NEW old \in [Media -> File \cup {NoFile}],
           NEW ps \in SUBSET Found
    PROVE  FilesAfter(old, ps, fresh) \in [Media -> File \cup {NoFile}]
<1>1. ASSUME NEW m \in Media
      PROVE  FilesAfter(old, ps, fresh)[m] \in File \cup {NoFile}
    <2>1. CASE \E p \in ps : MediaOf(p, fresh) = m
        BY <2>1, FilesAfterFound, FoundTypes
    <2>2. CASE \A p \in ps : MediaOf(p, fresh) # m
        BY <2>2, FilesAfterOther
    <2> QED
        BY <2>1, <2>2
<1>2. FilesAfter(old, ps, fresh) = [m \in Media |-> FilesAfter(old, ps, fresh)[m]]
    BY DEF FilesAfter
<1> QED
    BY <1>1, <1>2

(* Where each row of the catalog is afterwards.                            *)
LEMMA RowsAfterAre ==
    ASSUME TypeOK, NEW fresh \in Fresh, NEW m \in Media, RowsAfter(fresh)[m] # NoRow
    PROVE  \/ \E p \in Placed : /\ MediaOf(p, fresh) = m
                                /\ RowsAfter(fresh)[m].path = p
                                /\ RowsAfter(fresh)[m].root = root
           \/ /\ Untouched(m, fresh) /\ IsRow(m)
              /\ RowsAfter(fresh)[m].path = rows[m].path
              /\ RowsAfter(fresh)[m].root = rows[m].root
<1>1. ASSUME NEW p \in Placed, MediaOf(p, fresh) = m
      PROVE  RowsAfter(fresh)[m].path = p /\ RowsAfter(fresh)[m].root = root
    <2>1. RowsAfter(fresh)[m] = [path |-> p, root |-> root, availability |-> "AVAILABLE"]
        BY <1>1, RowsAfterPlaced
    <2> QED
        BY <2>1
<1>2. CASE Untouched(m, fresh)
    BY <1>2, RowsAfterType
<1> QED
    BY <1>1, <1>2 DEF Untouched

LEMMA CommitKeepsIdentity ==
    ASSUME TypeOK, OneIdentityPerPath, NEW fresh \in Fresh,
           NEW m \in Media, NEW n \in Media,
           RowsAfter(fresh)[m] # NoRow, RowsAfter(fresh)[n] # NoRow,
           RowsAfter(fresh)[m].path = RowsAfter(fresh)[n].path
    PROVE  m = n
<1>1. ASSUME NEW x \in Media, NEW p \in Placed, IsRow(x)
      PROVE  rows[x].path # p
    BY <1>1, PlacedIsUnknown DEF KnownAt
<1> QED
    BY <1>1, RowsAfterAre DEF OneIdentityPerPath

LEMMA RefsAre ==
    ASSUME TypeOK, NEW fresh \in Fresh
    PROVE  /\ Refs(fresh) \subseteq Ref
           /\ \A ref \in Refs(fresh) :
                 /\ ref.path \in Found /\ ref.media = MediaOf(ref.path, fresh)
                 /\ ref.root = root /\ ref.availability = "AVAILABLE"
                 /\ ref.meta = scan.meta[ref.path]
                 /\ RowsAfter(fresh)[ref.media] # NoRow
           /\ \A p \in Found : \E ref \in Refs(fresh) : ref.path = p
           /\ \A a, b \in Refs(fresh) : a.path = b.path => a = b
<1> DEFINE ref(p) == [media |-> MediaOf(p, fresh), path |-> p, root |-> root,
                      availability |-> "AVAILABLE", meta |-> scan.meta[p]]
<1>1. ASSUME NEW p \in Found
      PROVE  /\ ref(p) \in Ref
             /\ ref(p).path = p /\ ref(p).media = MediaOf(p, fresh) /\ ref(p).root = root
             /\ ref(p).availability = "AVAILABLE" /\ ref(p).meta = scan.meta[p]
    <2>1. p \in Paths /\ root \in Roots /\ MediaOf(p, fresh) \in Media
        BY FoundTypes, MediaOfType DEF TypeOK
    <2>2. scan.meta[p] \in Content \cup {NoMeta}
        BY <2>1 DEF TypeOK, Scan
    <2> QED
        BY <2>1, <2>2 DEF Ref, Availability
<1>2. ASSUME NEW p \in Found
      PROVE  RowsAfter(fresh)[MediaOf(p, fresh)] # NoRow
    <2>1. CASE p \in Placed
        <3>1. RowsAfter(fresh)[MediaOf(p, fresh)]
                  = [path |-> p, root |-> root, availability |-> "AVAILABLE"]
            BY <2>1, RowsAfterPlaced
        <3>2. p \in Paths /\ root \in Roots
            BY FoundTypes DEF TypeOK
        <3>3. [path |-> p, root |-> root, availability |-> "AVAILABLE"] \in Row
            BY <3>2 DEF Row, Availability
        <3> QED
            BY <3>1, <3>3, NoneAssumption
    <2>2. CASE p \notin Placed
        BY <2>2, MediaOfKnown, RowsAfterType
    <2> QED
        BY <2>1, <2>2
<1>3. Refs(fresh) = {ref(p) : p \in Found}
    BY DEF Refs
<1> HIDE DEF ref
<1> QED
    BY <1>1, <1>2, <1>3

LEMMA CommitKeepsInv ==
    ASSUME Inv, CommitPlan
    PROVE  Inv'
<1>1. PICK fresh \in Fresh, o \in Outcomes, published \in BOOLEAN :
          Committed(fresh, o, published)
    BY CommitIs
<1>2. scan.phase = "planned" /\ scan' = NoScan /\ UNCHANGED <<mounted, disk, clock, root>>
    BY CommitIs
<1>3. TypeOK
    BY DEF Inv
<1>4. rows' = RowsAfter(fresh) /\ rows' \in [Media -> Row \cup {NoRow}]
    BY <1>1, <1>3, RowsAfterType DEF Committed
<1>5. index' \in [Roots \X Paths -> Content \cup {NoMeta}]
    BY <1>1, <1>3, IndexAfterIs DEF Committed, TypeOK
<1>6. cache' = FilesAfter(cache, o.cached, fresh) /\ cache' \in [Media -> File \cup {NoFile}]
    BY <1>1, <1>3, OutcomesAre, FilesAfterType DEF Committed, TypeOK
<1>7. history' \in History
    <2>1. history \in History /\ history.seen \in [Media -> File \cup {NoFile}]
        BY <1>3 DEF TypeOK, History
    <2>2. PICK seen \in [Media -> File \cup {NoFile}] : seen = FilesAfter(history.seen, Found, fresh)
        BY <1>3, <2>1, FilesAfterType
    <2>3. PICK st \in BOOLEAN : st = (history.quiet /\ published /\ ~o.crashed)
        OBVIOUS
    <2>4. history' = [history EXCEPT !.settled = st, !.seen = seen]
        BY <1>1, <2>1, <2>2, <2>3 DEF Committed, History
    <2> QED
        BY <2>1, <2>4 DEF History
<1>8. visible' \subseteq Ref /\ \A ref \in visible' : rows'[ref.media] # NoRow
    <2>1. CASE o.crashed
        BY <1>1, <1>4, <1>5, <2>1, HydratedType DEF Committed
    <2>2. CASE ~o.crashed /\ published
        <3>1. scan.lost \subseteq Ref
            BY <1>3 DEF TypeOK, Scan
        <3>2. \A ref \in scan.lost : ref.media \in Media /\ IsRow(ref.media)
            BY <1>2 DEF Inv, LostInv, Missing, Gone
        <3> QED
            BY <1>1, <1>3, <1>4, <2>2, <3>1, <3>2, RefsAre, RowsAfterType DEF Committed
    <2>3. CASE ~o.crashed /\ ~published
        <3>1. visible' = visible
            BY <1>1, <2>3 DEF Committed
        <3>2. \A ref \in visible : ref \in Ref /\ ref.media \in Media /\ IsRow(ref.media)
            BY DEF Inv, TypeOK, RowsInv, Ref
        <3> QED
            BY <1>3, <1>4, <3>1, <3>2, RowsAfterType
    <2> QED
        BY <2>1, <2>2, <2>3
<1>9. TypeOK'
    BY <1>2, <1>4, <1>5, <1>6, <1>7, <1>8, <1>3, NoScanType DEF TypeOK
<1>10. OneIdentityPerPath'
    BY <1>3, <1>4, CommitKeepsIdentity DEF Inv, OneIdentityPerPath, IsRow
<1>11. RowsInv'
    <2>1. ASSUME NEW m \in Media, RowsAfter(fresh)[m] = NoRow
          PROVE  cache'[m] = NoFile
        <3>1. ~IsRow(m) /\ \A p \in Found : MediaOf(p, fresh) # m
            <4>1. ~IsRow(m)
                BY <1>3, <2>1, RowsAfterType
            <4>2. \A p \in Found : MediaOf(p, fresh) = m => FALSE
                BY <1>3, <2>1, RefsAre
            <4> QED
                BY <4>1, <4>2
        <3>2. o.cached \subseteq Found
            BY OutcomesAre
        <3>3. cache'[m] = cache[m]
            BY <1>6, <3>1, <3>2, FilesAfterOther
        <3> QED
            BY <3>1, <3>3 DEF Inv, RowsInv
    <2> QED
        BY <1>4, <1>8, <2>1 DEF RowsInv, IsRow
<1> QED
    BY <1>2, <1>9, <1>10, <1>11, ScanEnds DEF Inv

(* The rows of a migrated catalog are of different paths of the root, and  *)
(* what the index has is of one of them.                                   *)
LEMMA LegacyTypes ==
    ASSUME Init
    PROVE  /\ rows \in [Media -> Row \cup {NoRow}]
           /\ index \in [Roots \X Paths -> Content \cup {NoMeta}]
           /\ root \in Roots
           /\ \A m \in Media : IsRow(m) => \E p \in Paths : rows[m] = LegacyRow(p)
           /\ \A m, n \in Media : IsRow(m) /\ rows[m] = rows[n] => m = n
           /\ \A r \in Roots, p \in Paths : index[<<r, p>>] # NoMeta => r = root
<1>1. root \in Roots /\ \A p \in Paths : LegacyRow(p) \in Row
    BY DEF Init, LegacyRow, Row, Availability
<1>2. /\ rows \in [Media -> Row \cup {NoRow}]
      /\ \A m \in Media : rows[m] # NoRow => \E p \in Paths : rows[m] = LegacyRow(p)
      /\ \A m, n \in Media : rows[m] # NoRow /\ rows[m] = rows[n] => m = n
    BY <1>1 DEF Init, LegacyRows
<1>3. 0 \in Content
    BY ChangesAssumption DEF Content
<1>4. /\ index \in [Roots \X Paths -> {0, NoMeta}]
      /\ \A k \in Roots \X Paths : index[k] # NoMeta => k[1] = root
    BY DEF Init, LegacyIndexes
<1> QED
    BY <1>1, <1>2, <1>3, <1>4 DEF IsRow

LEMMA InitIsInv ==
    ASSUME Init
    PROVE  Inv
<1>1. /\ scan = NoScan /\ visible = Hydrated(rows, index)
      /\ \A m \in Media : cache[m] = NoFile
    BY DEF Init
<1>2. visible \subseteq Ref /\ \A ref \in visible : ref.media \in Media /\ IsRow(ref.media)
    BY <1>1, LegacyTypes, HydratedType DEF Ref, IsRow
<1>3. history \in History
    BY DEF Init, History
<1>4. clock \in 0 .. MaxChanges
    BY ChangesAssumption DEF Init
<1>5. TypeOK
    BY <1>1, <1>2, <1>3, <1>4, LegacyTypes, NoScanType DEF Init, TypeOK
<1>6. OneIdentityPerPath
    <2>1. SUFFICES ASSUME NEW m \in Media, NEW n \in Media, IsRow(m), IsRow(n),
                          rows[m].path = rows[n].path
                   PROVE  m = n
        BY DEF OneIdentityPerPath
    <2>2. PICK p \in Paths, q \in Paths : rows[m] = LegacyRow(p) /\ rows[n] = LegacyRow(q)
        BY <2>1, LegacyTypes
    <2>3. p = q
        BY <2>1, <2>2 DEF LegacyRow
    <2> QED
        BY <2>1, <2>2, <2>3, LegacyTypes
<1> QED
    BY <1>1, <1>2, <1>5, <1>6, NoScanType
       DEF Inv, RowsInv, PlanInv, LostInv, Collected

LEMMA StepKeepsInv ==
    ASSUME Inv, [Next]_vars
    PROVE  Inv'
<1>1. CASE FilesNext
    BY <1>1, FilesKeepInv
<1>2. CASE WorkerNext
    BY <1>2, StartWalkKeepsInv, EndWalkKeepsInv, MarkMissingKeepsInv, AbandonKeepsInv,
       StatFileKeepsInv, ReconcileFileKeepsInv DEF WorkerNext
<1>3. CASE OwnerNext
    BY <1>3, CommitKeepsInv, RestartKeepsInv, RelocateKeepsInv, PlayMissingKeepsInv DEF OwnerNext
<1>4. CASE UNCHANGED vars
    <2>1. UNCHANGED <<mounted, disk, root, rows, cache, index, visible, scan, clock, history>>
        BY <1>4 DEF vars
    <2>2. TypeOK'
        BY <2>1 DEF Inv, TypeOK
    <2> QED
        BY <2>1, <2>2, PlanUnchanged DEF Inv
<1> QED
    BY <1>1, <1>2, <1>3, <1>4 DEF Next

(* Rows, caches, index, Library and plan agree in every reachable state,   *)
(* whatever fails and whatever happens to the files meanwhile.             *)
THEOREM Inductive == Spec => []Inv
<1> QED
    BY InitIsInv, StepKeepsInv, PTL DEF Spec

(* However files are moved, replaced or linked while they are walked, and  *)
(* however a commit is cut short, no two rows of the catalog share a path: *)
(* apply_source_reconciliation never breaks its UNIQUE constraint.         *)
THEOREM CatalogConsistent == Spec => []Consistent
<1>1. Inv => Consistent
    BY DEF Inv, Consistent
<1> QED
    BY <1>1, Inductive, PTL

-----------------------------------------------------------------------------
(* A scan reaches its plan                                                 *)

(* A path is given to a row only after its metadata was read.              *)
LEMMA PlacedIsExtracted ==
    ASSUME Inv, scan.phase = "planned", NEW p \in Placed
    PROVE  p \in scan.extracted
<1>1. p \in Found /\ scan.todo = {} /\ KnownAt(p) = {}
    BY PlacedIsUnknown DEF Inv, LostInv
<1>2. ~Reusable(p)
    BY <1>1 DEF Reusable, Unchanged
<1> QED
    BY <1>1, <1>2 DEF Inv, PlanInv, Collected

LEMMA CommitKeepsIndexed ==
    ASSUME Inv, RowsAreIndexed, Faults \cap {"index", "crash"} = {}, CommitPlan
    PROVE  RowsAreIndexed'
<1>1. PICK fresh \in Fresh, o \in Outcomes, published \in BOOLEAN :
          Committed(fresh, o, published)
    BY CommitIs
<1>2. TypeOK /\ scan.phase = "planned"
    BY CommitIs DEF Inv
<1>3. rows' = RowsAfter(fresh) /\ index' = IndexAfter
    BY <1>1, OutcomesAre DEF Committed
<1>4. SUFFICES ASSUME NEW m \in Media, RowsAfter(fresh)[m] # NoRow
               PROVE  IndexAfter[<<RowsAfter(fresh)[m].root, RowsAfter(fresh)[m].path>>] # NoMeta
    BY <1>3 DEF RowsAreIndexed, IsRow
<1>5. CASE \E p \in Placed : /\ MediaOf(p, fresh) = m
                             /\ RowsAfter(fresh)[m].path = p
                             /\ RowsAfter(fresh)[m].root = root
    BY <1>2, <1>5, PlacedIsExtracted, IndexAfterIs, NoneAssumption
<1>6. CASE /\ Untouched(m, fresh) /\ IsRow(m)
           /\ RowsAfter(fresh)[m].path = rows[m].path
           /\ RowsAfter(fresh)[m].root = rows[m].root
    <2>1. /\ rows[m].path \in Paths /\ rows[m].root \in Roots
          /\ index[<<rows[m].root, rows[m].path>>] # NoMeta
        BY <1>2, <1>6, RowTypes DEF RowsAreIndexed
    <2>2. CASE rows[m].root = root /\ rows[m].path \in scan.extracted
        <3>1. IndexAfter[<<root, rows[m].path>>] \in Content
            BY <1>2, <2>2, IndexAfterIs
        <3> QED
            BY <1>6, <2>2, <3>1, NoneAssumption
    <2>3. CASE rows[m].root # root \/ rows[m].path \notin scan.extracted
        <3>1. IndexAfter[<<rows[m].root, rows[m].path>>] = index[<<rows[m].root, rows[m].path>>]
            BY <1>2, <2>1, <2>3, IndexAfterIs
        <3> QED
            BY <1>6, <2>1, <3>1
    <2> QED
        BY <2>2, <2>3
<1> QED
    BY <1>2, <1>4, <1>5, <1>6, RowsAfterAre

LEMMA StepKeepsIndexed ==
    ASSUME Inv, RowsAreIndexed, Faults \cap {"index", "crash"} = {}, [Next]_vars
    PROVE  RowsAreIndexed'
<1>1. CASE UNCHANGED <<rows, index>>
    BY <1>1 DEF RowsAreIndexed, IsRow
<1>2. CASE FilesNext
    BY <1>1, <1>2, FilesStep, ChangeIs DEF Inv
<1>3. CASE WorkerNext
    BY <1>1, <1>3, WorkerLeaves
<1>4. CASE CommitPlan
    BY <1>4, CommitKeepsIndexed
<1>5. ASSUME NEW ref \in visible, PlayMissing(ref)
      PROVE  RowsAreIndexed'
    BY <1>5, PlayMissingIs DEF RowsAreIndexed, SamePaths, IsRow
<1>6. CASE Restart \/ \E r \in Roots : Relocate(r)
    BY <1>1, <1>6 DEF Restart, Relocate, durable
<1>7. CASE UNCHANGED vars
    BY <1>1, <1>7 DEF vars
<1> QED
    BY <1>2, <1>3, <1>4, <1>5, <1>6, <1>7 DEF Next, OwnerNext

(* Every scan that has looked at its files reaches its plan, for the index *)
(* knows the metadata of whatever is missing, as long as no commit is cut  *)
(* short before the index is written: compute_source_reconciliation does   *)
(* not fail at _build_ref.  A catalog that was migrated must have had an   *)
(* index entry for each of its tracks.                                     *)
THEOREM ScanReachesPlan ==
    ASSUME Faults \cap {"index", "crash"} = {}, "referenced" \notin Legacy
    PROVE  Spec => []QuietScanSucceeds
<1>1. Init => Inv /\ RowsAreIndexed
    <2>1. SUFFICES ASSUME Init, NEW m \in Media, IsRow(m)
                   PROVE  index[<<rows[m].root, rows[m].path>>] # NoMeta
        BY InitIsInv DEF RowsAreIndexed
    <2>2. PICK p \in Paths : rows[m] = LegacyRow(p)
        BY <2>1, LegacyTypes
    <2>3. rows[m].root = root /\ rows[m].path = p /\ <<root, p>> \in Roots \X Paths
        BY <2>1, <2>2, LegacyTypes DEF LegacyRow
    <2>4. index[<<root, p>>] = NoMeta => "referenced" \in Legacy
        BY <2>1, <2>2, <2>3 DEF Init, LegacyIndexes
    <2> QED
        BY <2>3, <2>4
<1>2. Inv /\ RowsAreIndexed /\ [Next]_vars => (Inv /\ RowsAreIndexed)'
    BY StepKeepsInv, StepKeepsIndexed
<1>3. Inv /\ RowsAreIndexed => QuietScanSucceeds
    <2>1. ASSUME RowsAreIndexed, NEW m \in Missing
          PROVE  LostMeta(m) # NoMeta
        BY <2>1 DEF RowsAreIndexed, Missing, Gone, LostMeta
    <2> QED
        BY <2>1 DEF QuietScanSucceeds, Projectable
<1> QED
    BY <1>1, <1>2, <1>3, PTL DEF Spec

-----------------------------------------------------------------------------
(* A row follows its file                                                  *)

LEMMA StepKeepsSeen ==
    ASSUME Inv, CacheIsSeen, Faults \subseteq {"index"}, [Next]_vars
    PROVE  CacheIsSeen'
<1>1. CASE cache' = cache /\ history'.seen = history.seen
    BY <1>1 DEF CacheIsSeen
<1>2. history \in History
    BY DEF Inv, TypeOK
<1>3. CASE FilesNext
    <2>1. PICK kind \in ChangeKinds : Change(kind, disk')
        BY <1>3, FilesStep DEF Inv
    <2> QED
        BY <1>1, <1>2, <2>1, ChangeIs DEF History
<1>4. CASE WorkerNext
    <2>1. cache' = cache /\ (history' = history \/ StartWalk)
        BY <1>4, WorkerLeaves
    <2> QED
        BY <1>1, <1>2, <2>1 DEF StartWalk, History
<1>5. CASE CommitPlan
    <2>1. PICK fresh \in Fresh, o \in Outcomes, published \in BOOLEAN :
              Committed(fresh, o, published)
        BY <1>5, CommitIs
    <2>2. cache' = FilesAfter(cache, Found, fresh)
        BY <2>1, OutcomesAre DEF Committed
    <2>3. history'.seen = FilesAfter(history.seen, Found, fresh)
        BY <1>2, <2>1 DEF Committed, History
    <2> QED
        BY <2>2, <2>3 DEF CacheIsSeen
<1>6. CASE OwnerNext /\ ~CommitPlan
    BY <1>1, <1>2, <1>6 DEF OwnerNext, PlayMissing, Restart, Relocate, durable, History
<1>7. CASE UNCHANGED vars
    BY <1>1, <1>7 DEF vars
<1> QED
    BY <1>3, <1>4, <1>5, <1>6, <1>7 DEF Next

(* A row changes its path only to follow the very file it was last seen as *)
(* to the only path that leads there, provided that the media cache is     *)
(* always written after the catalog (after a failure the evidence is old,  *)
(* and a row can follow another file): CASE B of _reconcile_available.     *)
THEOREM RelinkFollowsTheFile ==
    ASSUME Faults \subseteq {"index"}
    PROVE  Spec => RelinkIsTheSameFile
<1> DEFINE Follows == \A m \in Media :
               IsRow(m) /\ rows'[m].path # rows[m].path =>
                   {p \in Found : scan.found[p] = history.seen[m]} = {rows'[m].path}
<1>1. Init => Inv /\ CacheIsSeen
    BY InitIsInv DEF Init, CacheIsSeen
<1>2. Inv /\ CacheIsSeen /\ [Next]_vars => (Inv /\ CacheIsSeen)'
    BY StepKeepsInv, StepKeepsSeen
<1>3. Inv /\ CacheIsSeen /\ [Next]_vars => [Follows]_vars
    <2>1. SUFFICES ASSUME Inv, CacheIsSeen, Next
                   PROVE  Follows
        OBVIOUS
    <2>2. CASE rows' = rows
        BY <2>2
    <2>3. CASE FilesNext
        BY <2>1, <2>2, <2>3, FilesStep, ChangeIs DEF Inv
    <2>4. CASE WorkerNext
        BY <2>1, <2>2, <2>4, WorkerLeaves
    <2>5. CASE CommitPlan
        <3>1. PICK fresh \in Fresh, o \in Outcomes, published \in BOOLEAN :
                  Committed(fresh, o, published)
            BY <2>5, CommitIs
        <3>2. rows' = RowsAfter(fresh)
            BY <3>1 DEF Committed
        <3>3. SUFFICES ASSUME NEW m \in Media, IsRow(m), rows'[m].path # rows[m].path
                       PROVE  {p \in Found : scan.found[p] = history.seen[m]} = {rows'[m].path}
            OBVIOUS
        <3>4. RowsAfter(fresh)[m] # NoRow
            BY <2>1, <3>3, RowsAfterType DEF Inv
        <3>5. PICK p \in Placed : MediaOf(p, fresh) = m /\ RowsAfter(fresh)[m].path = p
            BY <2>1, <3>2, <3>3, <3>4, RowsAfterAre DEF Inv
        <3>6. p \in Relinked
            BY <3>3, <3>5, MediaOfAdded DEF Placed
        <3>7. history.seen[m] = scan.found[p] /\ scan.found[p] # NoFile
            BY <2>1, <3>5, <3>6, MediaOfRelinked DEF CacheIsSeen
        <3>8. {q \in Found : SameEvidence(scan.found[q], scan.found[p])} = {p}
            BY <3>6 DEF Relinked, Relinkable
        <3> QED
            BY <3>2, <3>5, <3>7, <3>8 DEF SameEvidence, Found
    <2>6. ASSUME NEW ref \in visible, PlayMissing(ref)
          PROVE  Follows
        BY <2>1, <2>6, PlayMissingIs DEF SamePaths
    <2>7. CASE Restart \/ \E r \in Roots : Relocate(r)
        BY <2>2, <2>7 DEF Restart, Relocate, durable
    <2> QED
        BY <2>1, <2>3, <2>4, <2>5, <2>6, <2>7 DEF Next, OwnerNext
<1> QED
    BY <1>1, <1>2, <1>3, PTL DEF Spec, RelinkIsTheSameFile

-----------------------------------------------------------------------------
(* What an undisturbed scan leaves behind: the files change                *)

LEMMA HistoryTypes ==
    ASSUME TypeOK
    PROVE  /\ history \in History
           /\ history.quiet \in BOOLEAN /\ history.settled \in BOOLEAN
           /\ history.returned \in BOOLEAN
BY DEF TypeOK, History

LEMMA ChangeHistory ==
    ASSUME TypeOK, NEW kind, NEW new, Change(kind, new)
    PROVE  /\ ~history'.quiet /\ ~history'.settled
           /\ history'.past = history.past \cup PlacedAt(new)
           /\ history'.roots = history.roots
           /\ ~history'.returned => ~history.returned /\ PlacedAt(new) \cap history.past = {}
<1> DEFINE rt == history.returned \/ PlacedAt(new) \cap history.past # {}
           pt == history.past \cup PlacedAt(new)
<1>1. history \in History /\ rt \in BOOLEAN
    BY HistoryTypes
<1>2. history' = [history EXCEPT !.quiet = FALSE, !.settled = FALSE, !.past = pt, !.returned = rt]
    BY <1>1, ChangeIs DEF History
<1> HIDE DEF rt, pt
<1>3. /\ history'.quiet = FALSE /\ history'.settled = FALSE
      /\ history'.past = pt /\ history'.roots = history.roots /\ history'.returned = rt
    BY <1>1, <1>2 DEF History
<1> QED
    BY <1>3 DEF rt, pt

(* As long as nothing returns, what is there with a past was there before. *)
LEMMA HeldBefore ==
    ASSUME PlacedAt(disk') \cap history.past = {},
           NEW p \in Paths, NEW c, <<p, c>> \in history.past, Holds(p, c)'
    PROVE  Holds(p, c)
<1>1. disk'[p] # NoFile /\ disk'[p].content = c
    BY DEF Holds
<1>2. disk'[p] = disk[p]
    <2>1. SUFFICES ASSUME disk'[p] # disk[p]
                   PROVE  FALSE
        OBVIOUS
    <2>2. <<p, disk'[p].content>> \in PlacedAt(disk')
        BY <1>1, <2>1 DEF PlacedAt
    <2> QED
        BY <1>1, <2>2
<1> QED
    BY <1>1, <1>2 DEF Holds

LEMMA FilesKeepPast ==
    ASSUME Inv, PastInv, FilesNext
    PROVE  PastInv'
<1>1. PICK kind \in ChangeKinds : Change(kind, disk')
    BY FilesStep DEF Inv
<1>2. /\ history'.past = history.past \cup PlacedAt(disk')
      /\ history'.roots = history.roots
    BY <1>1, ChangeHistory DEF Inv
<1>3. UNCHANGED <<root, rows, cache, index, scan>> /\ Found' = Found
    BY <1>1, ChangeIs DEF Found
<1>4. ASSUME NEW p \in Paths, disk'[p] # NoFile
      PROVE  <<p, disk'[p].content>> \in history'.past
    BY <1>2, <1>4 DEF PlacedAt, PastInv
<1> QED
    BY <1>2, <1>3, <1>4 DEF PastInv, IsRow

LEMMA FilesKeepFresh ==
    ASSUME Inv, PastInv, FreshInv, FilesNext
    PROVE  FreshInv'
<1>1. PICK kind \in ChangeKinds : Change(kind, disk')
    BY FilesStep DEF Inv
<1>2. SUFFICES ASSUME ~history'.returned
               PROVE  IndexIsFresh' /\ MetaIsFresh' /\ FoundIsFresh'
    BY DEF FreshInv
<1>3. PlacedAt(disk') \cap history.past = {} /\ IndexIsFresh /\ MetaIsFresh /\ FoundIsFresh
    BY <1>1, <1>2, ChangeHistory DEF Inv, FreshInv
<1>4. UNCHANGED <<root, rows, cache, index, scan>> /\ Found' = Found /\ (Collected' <=> Collected)
    BY <1>1, ChangeIs DEF Found, Collected
<1>5. \A m \in Media : IsRow(m)' <=> IsRow(m)
    BY <1>4 DEF IsRow
<1>6. ASSUME NEW m \in Media, IsRow(m), cache[m] # NoFile, Holds(rows[m].path, cache[m].content)'
      PROVE  Holds(rows[m].path, cache[m].content)
    <2>1. PICK p, c : p \in Paths /\ p = rows[m].path /\ c = cache[m].content
        BY <1>6, RowTypes DEF Inv
    <2>2. Holds(p, c)'
        BY <1>4, <1>6, <2>1 DEF Holds
    <2>3. <<p, c>> \in history.past
        BY <1>6, <2>1 DEF PastInv
    <2> QED
        BY <1>3, <2>1, <2>2, <2>3, HeldBefore
<1>7. ASSUME NEW p \in Found, Holds(p, scan.found[p].content)'
      PROVE  Holds(p, scan.found[p].content)
    <2>1. PICK c : c = scan.found[p].content
        OBVIOUS
    <2>2. Holds(p, c)'
        BY <1>4, <1>7, <2>1 DEF Holds
    <2>3. <<p, c>> \in history.past /\ p \in Paths
        BY <2>1 DEF PastInv, Found
    <2> QED
        BY <1>3, <2>1, <2>2, <2>3, HeldBefore
<1>8. IndexIsFresh'
    BY <1>3, <1>4, <1>5, <1>6 DEF IndexIsFresh
<1>9. MetaIsFresh'
    BY <1>3, <1>4, <1>7 DEF MetaIsFresh
<1>10. FoundIsFresh'
    BY <1>3, <1>4, <1>5, <1>6 DEF FoundIsFresh
<1> QED
    BY <1>8, <1>9, <1>10

(* What is written gets a content of its own, at one path.                 *)
LEMMA ImmobileChange ==
    ASSUME Inv, OnePlaceInv, Immobile, FilesNext
    PROVE  /\ \A x \in PlacedAt(disk') : x[2] = clock
           /\ \A x, y \in PlacedAt(disk') : x = y
           /\ \A p, q \in Paths : disk'[p] # NoFile /\ disk'[q] # NoFile /\ disk'[p].node = disk'[q].node
                                   => p = q
<1>1. disk \in [Paths -> File \cup {NoFile}] /\ clock \in Content
    BY ChangesAssumption DEF Inv, TypeOK, Content
<1>2. \A p, q \in Paths : disk[p] # NoFile /\ disk[q] # NoFile /\ disk[p].node = disk[q].node
                           => p = q
    BY DEF OnePlaceInv
<1>3. ASSUME NEW p \in Paths, NEW n \in Nodes, CreateFile(p, n)
      PROVE  /\ \A x \in PlacedAt(disk') : x = <<p, clock>>
             /\ \A a, b \in Paths : disk'[a] # NoFile /\ disk'[b] # NoFile /\ disk'[a].node = disk'[b].node
                                     => a = b
    <2>1. disk' = [disk EXCEPT ![p] = [node |-> n, content |-> clock]]
        BY <1>3 DEF CreateFile, Change
    <2>2. disk'[p] = [node |-> n, content |-> clock] /\ \A q \in Paths \ {p} : disk'[q] = disk[q]
        BY <1>1, <2>1
    <2>3. \A q \in Paths : disk[q] # NoFile => disk[q].node # n
        BY <1>3 DEF CreateFile, InUse
    <2>4. disk'[p].node = n /\ disk'[p].content = clock
        BY <2>2
    <2> QED
        BY <1>2, <2>2, <2>3, <2>4 DEF PlacedAt
<1>4. ASSUME NEW n \in Nodes, EditFile(n)
      PROVE  \E p \in Paths :
             /\ \A x \in PlacedAt(disk') : x = <<p, clock>>
             /\ \A a, b \in Paths : disk'[a] # NoFile /\ disk'[b] # NoFile /\ disk'[a].node = disk'[b].node
                                     => a = b
    <2>1. PICK p \in Paths : disk[p] # NoFile /\ disk[p].node = n
        BY <1>4 DEF EditFile, InUse
    <2>2. disk' = [q \in Paths |-> IF disk[q] # NoFile /\ disk[q].node = n
                                   THEN [node |-> n, content |-> clock] ELSE disk[q]]
        BY <1>4 DEF EditFile, Change
    <2>3. \A q \in Paths \ {p} : disk'[q] = disk[q]
        BY <1>2, <2>1, <2>2
    <2>4. disk'[p] = [node |-> n, content |-> clock]
        BY <2>1, <2>2
    <2>5. disk'[p].node = n /\ disk'[p].content = clock
        BY <2>4
    <2>6. \A x \in PlacedAt(disk') : x = <<p, clock>>
        BY <2>3, <2>5 DEF PlacedAt
    <2>7. \A a, b \in Paths : disk'[a] # NoFile /\ disk'[b] # NoFile /\ disk'[a].node = disk'[b].node
                               => a = b
        BY <1>2, <2>1, <2>3, <2>5
    <2> QED
        BY <2>6, <2>7
<1>5. ASSUME NEW p \in Paths, DeleteFile(p)
      PROVE  /\ PlacedAt(disk') = {}
             /\ \A a, b \in Paths : disk'[a] # NoFile /\ disk'[b] # NoFile /\ disk'[a].node = disk'[b].node
                                     => a = b
    <2>1. disk' = [disk EXCEPT ![p] = NoFile]
        BY <1>5 DEF DeleteFile, Change
    <2>2. \A q \in Paths : disk'[q] # NoFile => disk'[q] = disk[q]
        BY <1>1, <2>1
    <2> QED
        BY <1>2, <2>2 DEF PlacedAt
<1>6. ASSUME NEW r \in Roots, Remount(r)
      PROVE  disk' = disk /\ PlacedAt(disk') = {}
    BY <1>6 DEF Remount, Change, PlacedAt
<1>7. ASSUME NEW p \in Paths, NEW q \in Paths, MoveFile(p, q) \/ LinkFile(p, q)
      PROVE  FALSE
    BY <1>7 DEF MoveFile, LinkFile, Change, Immobile
<1>8. CASE \E p \in Paths :
             /\ \A x \in PlacedAt(disk') : x = <<p, clock>>
             /\ \A a, b \in Paths : disk'[a] # NoFile /\ disk'[b] # NoFile /\ disk'[a].node = disk'[b].node
                                     => a = b
    BY <1>8
<1>9. CASE /\ PlacedAt(disk') = {}
           /\ \A a, b \in Paths : disk'[a] # NoFile /\ disk'[b] # NoFile /\ disk'[a].node = disk'[b].node
                                   => a = b
    BY <1>9
<1>10. CASE \E p \in Paths, n \in Nodes : CreateFile(p, n)
    BY <1>3, <1>8, <1>10
<1>11. CASE \E n \in Nodes : EditFile(n)
    BY <1>4, <1>8, <1>11
<1>12. CASE \E p \in Paths : DeleteFile(p)
    BY <1>5, <1>9, <1>12
<1>13. CASE \E r \in Roots : Remount(r)
    BY <1>2, <1>6, <1>9, <1>13
<1> QED
    BY <1>7, <1>10, <1>11, <1>12, <1>13 DEF FilesNext

LEMMA FilesKeepOnePlace ==
    ASSUME Inv, OnePlaceInv, FilesNext
    PROVE  OnePlaceInv'
<1>1. SUFFICES ASSUME Immobile
               PROVE  OnePlaceInv'
    BY DEF OnePlaceInv
<1>2. PICK kind \in ChangeKinds : Change(kind, disk')
    BY FilesStep DEF Inv
<1>3. history'.past = history.past \cup PlacedAt(disk') /\ clock' = clock + 1
    BY <1>2, ChangeHistory, ChangeIs DEF Inv
<1>4. /\ \A x \in PlacedAt(disk') : x[2] = clock
      /\ \A x, y \in PlacedAt(disk') : x = y
      /\ \A p, q \in Paths : disk'[p] # NoFile /\ disk'[q] # NoFile /\ disk'[p].node = disk'[q].node
                              => p = q
    BY <1>1, ImmobileChange
<1>5. /\ \A x \in history.past : x[2] < clock /\ x[2] \in Nat
      /\ \A x, y \in history.past : x[2] = y[2] => x = y
    BY <1>1, HistoryTypes DEF Inv, OnePlaceInv, History, Content
<1>6. clock \in Nat
    BY ChangesAssumption DEF Inv, TypeOK
<1>7. \A x \in history'.past : x[2] < clock'
    BY <1>3, <1>4, <1>5, <1>6
<1>8. \A x \in PlacedAt(disk'), y \in history.past : x[2] # y[2]
    BY <1>4, <1>5, <1>6
<1>9. \A x, y \in history'.past : x[2] = y[2] => x = y
    BY <1>3, <1>4, <1>5, <1>8
<1> QED
    BY <1>4, <1>7, <1>9 DEF OnePlaceInv

(* and the worker looks                                                    *)

LEMMA WorkerLeavesThese ==
    ASSUME Inv, WorkerNext
    PROVE  /\ OnePlaceInv => OnePlaceInv'
           /\ ShowsTheDisk => ShowsTheDisk'
           /\ IndexIsFresh => IndexIsFresh'
           /\ \A m \in Media : IsRow(m)' <=> IsRow(m)
           /\ \A p, c : Holds(p, c)' <=> Holds(p, c)
           /\ history'.past = history.past /\ history'.roots = history.roots
           /\ history'.returned = history.returned
           /\ history'.settled = history.settled
<1>1. UNCHANGED <<mounted, disk, clock, root, rows, cache, index, visible>>
    BY WorkerLeaves
<1>2. /\ history'.past = history.past /\ history'.roots = history.roots
      /\ history'.returned = history.returned
      /\ history'.settled = history.settled
    BY WorkerLeaves, HistoryTypes DEF Inv, StartWalk, History
<1> QED
    BY <1>1, <1>2 DEF OnePlaceInv, ShowsTheDisk, IndexIsFresh, IsRow, Holds

LEMMA NothingFound ==
    ASSUME \A p \in Paths : scan'.found[p] = NoFile, scan'.phase \in {"idle", "walking"}
    PROVE  Found' = {} /\ MetaIsFresh' /\ FoundIsFresh'
<1>1. Found' = {}
    BY DEF Found
<1> QED
    BY <1>1 DEF MetaIsFresh, FoundIsFresh, Collected

(* The conjuncts that only the step of the worker can tell.                *)
LEMMA WorkerKeepsThese ==
    ASSUME Inv, PastInv, WorkerNext,
           \A p \in Found' : <<p, scan'.found[p].content>> \in history.past,
           FreshInv,
           ~history.returned => MetaIsFresh' /\ FoundIsFresh'
    PROVE  PastInv' /\ FreshInv'
<1>1. UNCHANGED <<mounted, disk, clock, root, rows, cache, index, visible>>
    BY WorkerLeaves
<1>2. /\ IndexIsFresh => IndexIsFresh'
      /\ history'.past = history.past /\ history'.roots = history.roots
      /\ history'.returned = history.returned
    BY WorkerLeavesThese
<1> QED
    BY <1>1, <1>2 DEF PastInv, FreshInv, IsRow

LEMMA StartWalkShows ==
    ASSUME Inv, QuietInv, PastInv, FreshInv, StartWalk
    PROVE  QuietInv' /\ PastInv' /\ FreshInv'
<1>1. /\ scan' = [NoScan EXCEPT !.phase = "walking", !.todo = Paths]
      /\ UNCHANGED <<mounted, disk, root>>
    BY DEF StartWalk, files, durable
<1>2. /\ scan'.phase = "walking" /\ scan'.todo = Paths
      /\ \A p \in Paths : scan'.found[p] = NoFile
    BY <1>1, NoScanType DEF Scan
<1>3. QuietInv'
    BY <1>1, <1>2 DEF StartWalk, QuietInv
<1> QED
    BY <1>2, <1>3, NothingFound, WorkerKeepsThese DEF WorkerNext

LEMMA AbandonShows ==
    ASSUME Inv, QuietInv, PastInv, FreshInv, AbandonScan
    PROVE  QuietInv' /\ PastInv' /\ FreshInv'
<1>1. scan' = NoScan /\ UNCHANGED <<mounted, disk, root, history>>
    BY DEF AbandonScan, files, durable
<1>2. QuietInv'
    BY <1>1, NoScanType DEF QuietInv
<1> QED
    BY <1>1, <1>2, NoScanType, NothingFound, WorkerKeepsThese DEF WorkerNext

LEMMA StatFileShows ==
    ASSUME Inv, QuietInv, PastInv, FreshInv, NEW p \in Paths, StatFile(p)
    PROVE  QuietInv' /\ PastInv' /\ FreshInv'
<1>1. /\ scan.phase = "walking"
      /\ scan' = [scan EXCEPT !.todo = @ \ {p}, !.found[p] = FileAt(root, p)]
      /\ UNCHANGED <<mounted, disk, root, history, rows, cache>>
    BY DEF StatFile, files, durable
<1>2. scan \in Scan
    BY DEF Inv, TypeOK
<1>3. /\ scan'.phase = "walking" /\ scan'.todo = scan.todo \ {p}
      /\ scan'.found[p] = FileAt(root, p)
      /\ \A q \in Paths \ {p} : scan'.found[q] = scan.found[q]
    BY <1>1, <1>2 DEF Scan
<1>4. root = mounted => FileAt(root, p) = disk[p]
    BY DEF FileAt
<1>5. FileAt(root, p) # NoFile => FileAt(root, p) = disk[p]
    BY DEF FileAt
<1>6. QuietInv'
    BY <1>1, <1>3, <1>4 DEF QuietInv
<1>7. ASSUME NEW q \in Found'
      PROVE  /\ q \in Paths
             /\ q # p => q \in Found /\ scan'.found[q] = scan.found[q]
             /\ q = p => scan'.found[q] = disk[q] /\ disk[q] # NoFile
    BY <1>3, <1>5, <1>7 DEF Found
<1>8. \A q \in Found' : <<q, scan'.found[q].content>> \in history.past
    BY <1>7 DEF PastInv
<1>9. MetaIsFresh'
    BY <1>3 DEF MetaIsFresh, Collected
<1>10. ASSUME FoundIsFresh
       PROVE  FoundIsFresh'
    BY <1>1, <1>7, <1>10 DEF FoundIsFresh, IsRow, Holds
<1> QED
    BY <1>6, <1>8, <1>9, <1>10, WorkerKeepsThese DEF WorkerNext, FreshInv

LEMMA EndWalkShows ==
    ASSUME Inv, QuietInv, PastInv, FreshInv, EndWalk
    PROVE  QuietInv' /\ PastInv' /\ FreshInv'
<1>1. /\ scan.phase = "walking" /\ scan.todo = {}
      /\ scan' = [scan EXCEPT !.phase = "reconciling", !.todo = Found]
      /\ UNCHANGED <<mounted, disk, root, history, rows, cache>>
    BY DEF EndWalk, files, durable
<1>2. /\ scan'.phase = "reconciling" /\ scan'.todo = Found /\ scan'.found = scan.found
    BY <1>1 DEF Inv, TypeOK, Scan
<1>3. QuietInv'
    BY <1>1, <1>2 DEF QuietInv
<1>4. Found' = Found
    BY <1>2 DEF Found
<1>5. MetaIsFresh'
    BY <1>2, <1>4 DEF MetaIsFresh
<1>6. FoundIsFresh => FoundIsFresh'
    BY <1>1, <1>2, <1>4 DEF FoundIsFresh, IsRow, Holds
<1>7. \A q \in Found' : <<q, scan'.found[q].content>> \in history.past
    BY <1>2, <1>4 DEF PastInv
<1> QED
    BY <1>3, <1>5, <1>6, <1>7, WorkerKeepsThese DEF WorkerNext, FreshInv

LEMMA ReconcileFileShows ==
    ASSUME Inv, QuietInv, PastInv, FreshInv, NEW p \in Paths, ReconcileFile(p)
    PROVE  QuietInv' /\ PastInv' /\ FreshInv'
<1>1. scan.phase = "reconciling" /\ p \in scan.todo /\ p \in Found
    BY Reconciled
<1>2. PICK c \in Content, x \in {scan.extracted, scan.extracted \cup {p}} :
          /\ scan' = [scan EXCEPT !.todo = scan.todo \ {p}, !.extracted = x,
                                  !.meta = [scan.meta EXCEPT ![p] = c]]
          /\ x = scan.extracted => Reusable(p) /\ c = index[<<root, p>>]
          /\ x # scan.extracted => FileAt(root, p) # NoFile /\ c = FileAt(root, p).content
    BY Reconciled
<1>3. UNCHANGED <<mounted, disk, root, history, rows, cache>>
    BY DEF ReconcileFile, files, durable
<1>4. scan \in Scan
    BY DEF Inv, TypeOK
<1>5. /\ scan'.phase = "reconciling" /\ scan'.todo = scan.todo \ {p} /\ scan'.found = scan.found
      /\ scan'.meta[p] = c /\ \A q \in Paths \ {p} : scan'.meta[q] = scan.meta[q]
    BY <1>1, <1>2, <1>4 DEF Scan
<1>6. QuietInv'
    BY <1>1, <1>3, <1>5 DEF QuietInv
<1>7. Found' = Found /\ Found \subseteq Paths
    BY <1>5 DEF Found
<1>8. ASSUME IndexIsFresh, Holds(p, scan.found[p].content)
      PROVE  c = scan.found[p].content
    <2>1. CASE x # scan.extracted
        BY <1>2, <1>8, <2>1 DEF FileAt, Holds
    <2>2. CASE x = scan.extracted
        <3>1. Reusable(p) /\ c = index[<<root, p>>]
            BY <1>2, <2>2
        <3>2. PICK m \in Media : /\ IsRow(m) /\ rows[m].path = p
                                 /\ cache[m] # NoFile /\ cache[m].content = scan.found[p].content
                                 /\ index[<<root, p>>] # NoMeta
            BY <3>1 DEF Reusable, Unchanged, KnownAt
        <3> QED
            BY <1>8, <3>1, <3>2 DEF IndexIsFresh
    <2> QED
        BY <2>1, <2>2
<1>9. ASSUME IndexIsFresh, MetaIsFresh
      PROVE  MetaIsFresh'
    BY <1>1, <1>3, <1>5, <1>7, <1>8, <1>9 DEF MetaIsFresh, Collected, Holds
<1>10. FoundIsFresh => FoundIsFresh'
    BY <1>3, <1>5, <1>7 DEF FoundIsFresh, IsRow, Holds
<1>11. \A q \in Found' : <<q, scan'.found[q].content>> \in history.past
    BY <1>5, <1>7 DEF PastInv
<1> QED
    BY <1>6, <1>9, <1>10, <1>11, WorkerKeepsThese DEF WorkerNext, FreshInv

LEMMA MarkMissingShows ==
    ASSUME Inv, QuietInv, PastInv, FreshInv, MarkMissing
    PROVE  QuietInv' /\ PastInv' /\ FreshInv'
<1>1. PICK l : scan' = [scan EXCEPT !.phase = "planned", !.lost = l]
    BY DEF MarkMissing
<1>2. scan.phase = "reconciling" /\ UNCHANGED <<mounted, disk, root, history, rows, cache>>
    BY DEF MarkMissing, files, durable
<1>3. /\ scan'.phase = "planned" /\ scan'.todo = scan.todo /\ scan'.found = scan.found
      /\ scan'.meta = scan.meta
    BY <1>1 DEF Inv, TypeOK, Scan
<1>4. QuietInv'
    BY <1>2, <1>3 DEF QuietInv
<1>5. Found' = Found
    BY <1>3 DEF Found
<1>6. MetaIsFresh => MetaIsFresh'
    BY <1>2, <1>3, <1>5 DEF MetaIsFresh, Collected, Holds
<1>7. FoundIsFresh => FoundIsFresh'
    BY <1>2, <1>3, <1>5 DEF FoundIsFresh, IsRow, Holds
<1>8. \A q \in Found' : <<q, scan'.found[q].content>> \in history.past
    BY <1>3, <1>5 DEF PastInv
<1> QED
    BY <1>4, <1>6, <1>7, <1>8, WorkerKeepsThese DEF WorkerNext, FreshInv

(* The owner                                                               *)

LEMMA RelocateShows ==
    ASSUME Inv, QuietInv, PastInv, OnePlaceInv, FreshInv, NEW r \in Roots, Relocate(r)
    PROVE  QuietInv' /\ PastInv' /\ OnePlaceInv' /\ FreshInv' /\ ShowsTheDisk'
<1>1. /\ root' = r /\ r = mounted /\ scan' = NoScan
      /\ UNCHANGED <<mounted, disk, clock, rows, cache, index, visible>>
    BY DEF Relocate, files
<1>2. history' = [history EXCEPT !.settled = FALSE, !.roots = history.roots \cup {r},
                                 !.returned = history.returned \/ r \in history.roots]
    BY HistoryTypes DEF Inv, Relocate, History
<1>3. /\ ~history'.settled
      /\ history'.past = history.past /\ history'.roots = history.roots \cup {r}
      /\ ~history'.returned => ~history.returned /\ r \notin history.roots
    BY <1>2, HistoryTypes DEF Inv, History
<1>4. Found' = {} /\ MetaIsFresh' /\ FoundIsFresh'
    BY <1>1, NoScanType, NothingFound
<1>5. QuietInv'
    BY <1>1, <1>3, NoScanType DEF QuietInv
<1>6. PastInv'
    BY <1>1, <1>3, <1>4 DEF PastInv, IsRow
<1>7. OnePlaceInv'
    BY <1>1, <1>3 DEF OnePlaceInv
<1>8. ASSUME ~history'.returned
      PROVE  IndexIsFresh'
    <2>1. ASSUME NEW m \in Media, IsRow(m)
          PROVE  index[<<r, rows[m].path>>] = NoMeta
        BY <1>3, <1>8, <2>1, RowTypes DEF Inv, PastInv
    <2> QED
        BY <1>1, <2>1 DEF IndexIsFresh, IsRow
<1> QED
    BY <1>3, <1>4, <1>5, <1>6, <1>7, <1>8 DEF FreshInv, ShowsTheDisk

LEMMA RestartShows ==
    ASSUME Inv, QuietInv, PastInv, OnePlaceInv, FreshInv, Restart
    PROVE  QuietInv' /\ PastInv' /\ OnePlaceInv' /\ FreshInv' /\ ShowsTheDisk'
<1>1. scan' = NoScan /\ UNCHANGED <<mounted, disk, clock, root, rows, cache, index>>
    BY DEF Restart, files, durable
<1>2. /\ ~history'.settled
      /\ history'.past = history.past /\ history'.roots = history.roots
      /\ history'.returned = history.returned
    BY HistoryTypes DEF Inv, Restart, History
<1>3. Found' = {} /\ MetaIsFresh' /\ FoundIsFresh'
    BY <1>1, NoScanType, NothingFound
<1>4. QuietInv'
    BY <1>1, <1>2, NoScanType DEF QuietInv
<1>5. PastInv'
    BY <1>1, <1>2, <1>3 DEF PastInv, IsRow
<1>6. OnePlaceInv'
    BY <1>1, <1>2 DEF OnePlaceInv
<1>7. IndexIsFresh => IndexIsFresh'
    BY <1>1 DEF IndexIsFresh, IsRow, Holds
<1> QED
    BY <1>2, <1>3, <1>4, <1>5, <1>6, <1>7 DEF FreshInv, ShowsTheDisk

LEMMA PlayMissingShows ==
    ASSUME Inv, QuietInv, PastInv, OnePlaceInv, FreshInv, ShowsTheDisk,
           NEW ref \in visible, PlayMissing(ref)
    PROVE  QuietInv' /\ PastInv' /\ OnePlaceInv' /\ FreshInv' /\ ShowsTheDisk'
<1> DEFINE new == [ref EXCEPT !.availability = "MISSING"]
<1>1. /\ SamePaths(rows')
      /\ visible' = (visible \ {ref}) \cup {new}
      /\ UNCHANGED <<mounted, disk, clock, root, cache, index, scan, history>>
    BY PlayMissingIs
<1>2. /\ Found' = Found
      /\ \A m \in Media : IsRow(m)' <=> IsRow(m)
    BY <1>1, PlanOfSamePaths
<1>3. \A m \in Media : IsRow(m) => rows'[m].path = rows[m].path
    BY <1>1 DEF SamePaths
<1>4. QuietInv'
    BY <1>1 DEF QuietInv
<1>5. PastInv'
    BY <1>1, <1>2, <1>3 DEF PastInv
<1>6. OnePlaceInv'
    BY <1>1 DEF OnePlaceInv
<1>7. IndexIsFresh => IndexIsFresh'
    BY <1>1, <1>2, <1>3 DEF IndexIsFresh, Holds
<1>8. MetaIsFresh => MetaIsFresh'
    BY <1>1, <1>2 DEF MetaIsFresh, Collected, Holds
<1>9. FoundIsFresh => FoundIsFresh'
    BY <1>1, <1>2, <1>3 DEF FoundIsFresh, Holds
<1>10. ShowsTheDisk'
    <2>1. SUFFICES ASSUME history.settled, ~history.returned
                   PROVE  ShowsTheDisk'
        BY <1>1 DEF ShowsTheDisk
    <2>2. root = mounted
        BY <2>1 DEF QuietInv
    <2>3. FileAt(ref.root, ref.path) = NoFile /\ ref \in Ref
        BY DEF PlayMissing, Inv, TypeOK
    <2>4. new.media = ref.media /\ new.path = ref.path /\ new.availability = "MISSING"
        BY <2>3 DEF Ref
    <2>5. /\ \A p \in Paths :
                 disk[p] # NoFile =>
                     \E r \in visible : /\ r.path = p /\ r.root = root
                                        /\ r.availability = "AVAILABLE"
                                        /\ r.meta = disk[p].content
          /\ \A r \in visible : r.availability = "AVAILABLE" => disk[r.path] # NoFile
          /\ \A a, b \in visible : a.media = b.media \/ a.path = b.path => a = b
          /\ {r.media : r \in visible} = {m \in Media : IsRow(m)}
        BY <2>1 DEF ShowsTheDisk
    <2> HIDE DEF new
    <2>6. ASSUME NEW p \in Paths, disk[p] # NoFile
          PROVE  \E r \in visible' : /\ r.path = p /\ r.root = root
                                     /\ r.availability = "AVAILABLE"
                                     /\ r.meta = disk[p].content
        <3>1. PICK r \in visible : /\ r.path = p /\ r.root = root
                                   /\ r.availability = "AVAILABLE"
                                   /\ r.meta = disk[p].content
            BY <2>5, <2>6
        <3>2. r # ref
            BY <2>2, <2>3, <2>6, <3>1 DEF FileAt
        <3> QED
            BY <1>1, <3>1, <3>2
    <2>7. \A r \in visible' : r.availability = "AVAILABLE" => disk[r.path] # NoFile
        BY <1>1, <2>4, <2>5
    <2>8. \A a, b \in visible' : a.media = b.media \/ a.path = b.path => a = b
        BY <1>1, <2>4, <2>5
    <2>9. {r.media : r \in visible'} = {r.media : r \in visible}
        BY <1>1, <2>4
    <2>10. {m \in Media : IsRow(m)}' = {m \in Media : IsRow(m)}
        BY <1>2
    <2> QED
        BY <1>1, <2>5, <2>6, <2>7, <2>8, <2>9, <2>10 DEF ShowsTheDisk
<1> QED
    BY <1>1, <1>4, <1>5, <1>6, <1>7, <1>8, <1>9, <1>10 DEF FreshInv

(* The evidence of a row after the commit is either what was found at its  *)
(* path, or what it was before, at the path it had.                        *)
LEMMA CommittedEvidence ==
    ASSUME Inv, NEW fresh \in Fresh, NEW ps \in SUBSET Found, NEW m \in Media,
           RowsAfter(fresh)[m] # NoRow,
           FilesAfter(cache, ps, fresh)[m] # NoFile
    PROVE  \/ /\ RowsAfter(fresh)[m].path \in Found
              /\ FilesAfter(cache, ps, fresh)[m] = scan.found[RowsAfter(fresh)[m].path]
              /\ RowsAfter(fresh)[m].path \in ps \cup Relinked
           \/ /\ IsRow(m)
              /\ rows[m].path = RowsAfter(fresh)[m].path
              /\ FilesAfter(cache, ps, fresh)[m] = cache[m]
              /\ cache[m] # NoFile
<1>1. TypeOK
    BY DEF Inv
<1>2. CASE \E p \in Placed : MediaOf(p, fresh) = m /\ RowsAfter(fresh)[m].path = p
    <2>1. PICK p \in Placed : MediaOf(p, fresh) = m /\ RowsAfter(fresh)[m].path = p
        BY <1>2
    <2>2. p \in Found
        BY PlacedIsUnknown
    <2>3. CASE p \in ps
        BY <2>1, <2>2, <2>3, FilesAfterFound
    <2>4. CASE p \notin ps
        <3>1. \A q \in ps : MediaOf(q, fresh) # m
            BY <2>1, <2>2, <2>4, MediaOfInjective
        <3>2. FilesAfter(cache, ps, fresh)[m] = cache[m]
            BY <3>1, FilesAfterOther
        <3>3. p \notin Added
            BY <2>1, <3>2, MediaOfAdded DEF Inv, RowsInv
        <3> QED
            BY <2>1, <2>2, <3>2, <3>3, MediaOfRelinked DEF Placed
    <2> QED
        BY <2>3, <2>4
<1>3. CASE /\ Untouched(m, fresh) /\ IsRow(m)
           /\ RowsAfter(fresh)[m].path = rows[m].path
    <2>1. CASE \E q \in ps : MediaOf(q, fresh) = m
        <3>1. PICK q \in ps : MediaOf(q, fresh) = m
            BY <2>1
        <3>2. q \in Found \ Placed
            BY <1>3, <3>1 DEF Untouched
        <3> QED
            BY <1>3, <3>1, <3>2, MediaOfKnown, FilesAfterFound
    <2>2. CASE \A q \in ps : MediaOf(q, fresh) # m
        BY <1>3, <2>2, FilesAfterOther
    <2> QED
        BY <2>1, <2>2
<1> QED
    BY <1>1, <1>2, <1>3, RowsAfterAre

(* Without moves no row can be taken for another file's.                   *)
LEMMA ImmobileNeverRelinks ==
    ASSUME Inv, PastInv, OnePlaceInv, Immobile
    PROVE  Relinked = {}
<1>1. SUFFICES ASSUME NEW p \in Relinked
               PROVE  FALSE
    OBVIOUS
<1>2. PICK m \in Media : /\ IsRow(m)
                         /\ rows[m].path \notin Found
                         /\ cache[m] # NoFile
                         /\ cache[m] = scan.found[p]
    BY RelinkedFrom
<1>3. p \in Found
    BY DEF Relinked
<1>4. <<rows[m].path, cache[m].content>> \in history.past /\ <<p, cache[m].content>> \in history.past
    BY <1>2, <1>3 DEF PastInv
<1>5. <<rows[m].path, cache[m].content>> = <<p, cache[m].content>>
    <2>1. \A x, y \in history.past : x[2] = y[2] => x = y
        BY DEF OnePlaceInv
    <2> QED
        BY <1>4, <2>1
<1> QED
    BY <1>2, <1>3, <1>5

(* What the index then has for a path that was found is what was found.    *)
LEMMA CommittedIndex ==
    ASSUME Inv, scan.phase = "planned", MetaIsFresh,
           NEW p \in Found, Holds(p, scan.found[p].content)
    PROVE  /\ scan.meta[p] = scan.found[p].content
           /\ IndexAfter[<<root, p>>] = scan.found[p].content
<1>1. TypeOK /\ scan.todo = {} /\ Collected
    BY DEF Inv, LostInv, Collected
<1>2. scan.meta[p] = scan.found[p].content
    BY <1>1 DEF MetaIsFresh
<1>3. CASE p \in scan.extracted
    BY <1>1, <1>2, <1>3, IndexAfterIs
<1>4. CASE p \notin scan.extracted
    <2>1. scan.meta[p] = index[<<root, p>>]
        BY <1>1, <1>4 DEF Inv, PlanInv
    <2>2. p \in Paths /\ root \in Roots
        BY <1>1, FoundTypes DEF TypeOK
    <2> QED
        BY <1>1, <1>2, <1>4, <2>1, <2>2, IndexAfterIs
<1> QED
    BY <1>2, <1>3, <1>4

LEMMA CommitKeepsFresh ==
    ASSUME Inv, PastInv, OnePlaceInv, scan.phase = "planned",
           IndexIsFresh, MetaIsFresh, FoundIsFresh,
           NEW fresh \in Fresh, NEW o \in Outcomes,
           "index" \notin Faults, "crash" \in Faults => Immobile,
           NEW m \in Media,
           RowsAfter(fresh)[m] # NoRow,
           FilesAfter(cache, o.cached, fresh)[m] # NoFile,
           Holds(RowsAfter(fresh)[m].path, FilesAfter(cache, o.cached, fresh)[m].content),
           (IF o.indexed THEN IndexAfter ELSE index)[<<root, RowsAfter(fresh)[m].path>>] # NoMeta
    PROVE  (IF o.indexed THEN IndexAfter ELSE index)[<<root, RowsAfter(fresh)[m].path>>]
               = FilesAfter(cache, o.cached, fresh)[m].content
<1>1. TypeOK
    BY DEF Inv
<1>2. PICK p, f : p = RowsAfter(fresh)[m].path /\ f = FilesAfter(cache, o.cached, fresh)[m]
    OBVIOUS
<1>3. \/ p \in Found /\ f = scan.found[p] /\ p \in o.cached \cup Relinked
      \/ IsRow(m) /\ rows[m].path = p /\ f = cache[m] /\ cache[m] # NoFile
    BY <1>2, OutcomesAre, CommittedEvidence
<1>4. CASE ~o.indexed
    <2>1. o.cached = {} /\ Relinked = {}
        BY <1>4, OutcomesAre, ImmobileNeverRelinks
    <2>2. IsRow(m) /\ rows[m].path = p /\ f = cache[m] /\ cache[m] # NoFile
        BY <1>3, <2>1
    <2> QED
        BY <1>2, <1>4, <2>2 DEF IndexIsFresh
<1>5. CASE o.indexed /\ p \in Found /\ f = scan.found[p]
    BY <1>2, <1>5, CommittedIndex
<1>6. CASE o.indexed /\ IsRow(m) /\ rows[m].path = p /\ f = cache[m] /\ cache[m] # NoFile
    <2>1. p \in Paths /\ root \in Roots
        BY <1>1, <1>6, RowTypes DEF TypeOK
    <2>2. CASE p \in scan.extracted
        <3>1. p \in Found
            BY <2>2 DEF Inv, PlanInv, Collected
        <3>2. scan.found[p].content = f.content
            BY <1>2, <1>6, <3>1 DEF FoundIsFresh
        <3> QED
            BY <1>2, <1>6, <3>1, <3>2, CommittedIndex
    <2>3. CASE p \notin scan.extracted
        <3>1. IndexAfter[<<root, p>>] = index[<<root, p>>]
            BY <1>1, <2>1, <2>3, IndexAfterIs
        <3> QED
            BY <1>2, <1>6, <3>1 DEF IndexIsFresh
    <2> QED
        BY <2>2, <2>3
<1> QED
    BY <1>3, <1>4, <1>5, <1>6 DEF Outcomes

LEMMA CommitKeepsPast ==
    ASSUME Inv, PastInv, CommitPlan
    PROVE  PastInv'
<1>1. PICK fresh \in Fresh, o \in Outcomes, published \in BOOLEAN :
          Committed(fresh, o, published)
    BY CommitIs
<1>2. scan' = NoScan /\ UNCHANGED <<disk, root>> /\ TypeOK
    BY CommitIs DEF Inv
<1>3. /\ rows' = RowsAfter(fresh) /\ cache' = FilesAfter(cache, o.cached, fresh)
      /\ index' = IF o.indexed THEN IndexAfter ELSE index
    BY <1>1 DEF Committed
<1>4. history'.past = history.past /\ history'.roots = history.roots
    BY <1>1, HistoryTypes DEF Inv, Committed, History
<1>5. Found' = {}
    BY <1>2, NoScanType, NothingFound
<1>6. ASSUME NEW m \in Media, rows'[m] # NoRow, cache'[m] # NoFile
      PROVE  <<rows'[m].path, cache'[m].content>> \in history.past
    BY <1>3, <1>6, OutcomesAre, CommittedEvidence DEF PastInv
<1>7. ASSUME NEW r \in Roots, NEW p \in Paths, index'[<<r, p>>] # NoMeta
      PROVE  r \in history.roots
    BY <1>2, <1>3, <1>7, IndexAfterIs DEF PastInv
<1> QED
    BY <1>2, <1>4, <1>5, <1>6, <1>7 DEF PastInv, IsRow

(* What was found is not missing.                                          *)
LEMMA MissingIsNotFound ==
    ASSUME NEW fresh \in Fresh, NEW m \in Missing
    PROVE  /\ m \in Media /\ IsRow(m) /\ rows[m].path \notin Found
           /\ \A p \in Found : MediaOf(p, fresh) # m
<1>1. m \in Media /\ IsRow(m) /\ rows[m].path \notin Found
    BY DEF Missing, Gone
<1>2. ASSUME NEW p \in Found, MediaOf(p, fresh) = m
      PROVE  FALSE
    <2>1. CASE p \in Added
        BY <1>1, <1>2, <2>1, MediaOfAdded
    <2>2. CASE p \in Relinked
        BY <1>2, <2>2, MediaOfRelinked DEF Missing
    <2>3. CASE p \notin Placed
        BY <1>1, <1>2, <2>3, MediaOfKnown
    <2> QED
        BY <2>1, <2>2, <2>3 DEF Placed
<1> QED
    BY <1>1, <1>2

(* Every row is either found or missing.                                   *)
LEMMA FoundOrMissing ==
    ASSUME Inv, NEW fresh \in Fresh, NEW m \in Media, RowsAfter(fresh)[m] # NoRow
    PROVE  m \in Missing \/ \E p \in Found : MediaOf(p, fresh) = m
<1>1. CASE \E p \in Placed : MediaOf(p, fresh) = m
    BY <1>1, PlacedIsUnknown
<1>2. CASE Untouched(m, fresh) /\ IsRow(m)
    <2>1. CASE rows[m].path \in Found
        <3>1. PICK p \in Found : p = rows[m].path
            BY <2>1
        <3>2. p \notin Placed
            BY <1>2, <3>1, PlacedIsUnknown DEF KnownAt
        <3>3. /\ MediaOf(p, fresh) \in Media /\ IsRow(MediaOf(p, fresh))
              /\ rows[MediaOf(p, fresh)].path = p
            BY <3>2, MediaOfKnown
        <3> QED
            BY <1>2, <3>1, <3>3 DEF Inv, OneIdentityPerPath
    <2>2. CASE rows[m].path \notin Found /\ m \notin Missing
        <3>1. PICK p \in Relinked : m \in Candidates(p)
            BY <1>2, <2>2 DEF Missing, Gone
        <3> QED
            BY <1>2, <3>1, MediaOfRelinked DEF Untouched, Placed
    <2> QED
        BY <2>1, <2>2
<1> QED
    BY <1>1, <1>2, RowsAfterAre DEF Inv

(* What a quiet plan shows is what is there.                               *)
LEMMA QuietPlanShows ==
    ASSUME Inv, QuietInv, MetaIsFresh, scan.phase = "planned", history.quiet,
           NEW fresh \in Fresh
    PROVE  /\ \A p \in Paths :
                  disk[p] # NoFile =>
                      \E ref \in Refs(fresh) \cup scan.lost :
                          /\ ref.path = p /\ ref.root = root
                          /\ ref.availability = "AVAILABLE"
                          /\ ref.meta = disk[p].content
           /\ \A ref \in Refs(fresh) \cup scan.lost :
                  ref.availability = "AVAILABLE" => disk[ref.path] # NoFile
           /\ \A a, b \in Refs(fresh) \cup scan.lost : a.media = b.media \/ a.path = b.path => a = b
           /\ {ref.media : ref \in Refs(fresh) \cup scan.lost}
                  = {m \in Media : RowsAfter(fresh)[m] # NoRow}
<1>1. TypeOK
    BY DEF Inv
<1>2. \A p \in Paths : scan.found[p] = disk[p]
    BY DEF QuietInv
<1>3. /\ Refs(fresh) \subseteq Ref
      /\ \A ref \in Refs(fresh) :
            /\ ref.path \in Found /\ ref.media = MediaOf(ref.path, fresh)
            /\ ref.root = root /\ ref.availability = "AVAILABLE"
            /\ ref.meta = scan.meta[ref.path]
            /\ RowsAfter(fresh)[ref.media] # NoRow
      /\ \A p \in Found : \E ref \in Refs(fresh) : ref.path = p
      /\ \A a, b \in Refs(fresh) : a.path = b.path => a = b
    BY <1>1, RefsAre
<1>4. /\ \A ref \in scan.lost : /\ ref.media \in Missing
                                /\ ref.path = rows[ref.media].path
                                /\ ref.availability = "MISSING"
      /\ \A a, b \in scan.lost : a.media = b.media => a = b
      /\ \A m \in Missing : \E ref \in scan.lost : ref.media = m
    BY DEF Inv, LostInv
<1>5. \A ref \in scan.lost : /\ ref.media \in Media /\ IsRow(ref.media)
                             /\ ref.path \notin Found
                             /\ \A p \in Found : MediaOf(p, fresh) # ref.media
    BY <1>4, MissingIsNotFound
<1>6. ASSUME NEW p \in Paths, disk[p] # NoFile
      PROVE  \E ref \in Refs(fresh) : /\ ref.path = p /\ ref.root = root
                                      /\ ref.availability = "AVAILABLE"
                                      /\ ref.meta = disk[p].content
    <2>1. p \in Found
        BY <1>2, <1>6 DEF Found
    <2>2. Holds(p, scan.found[p].content)
        BY <1>2, <1>6 DEF Holds
    <2>3. scan.meta[p] = disk[p].content
        BY <1>2, <2>1, <2>2, CommittedIndex
    <2> QED
        BY <1>3, <2>1, <2>3
<1>7. \A ref \in Refs(fresh) \cup scan.lost : ref.availability = "AVAILABLE" => disk[ref.path] # NoFile
    BY <1>2, <1>3, <1>4 DEF Found
<1>8. \A a, b \in Refs(fresh) : a.media = b.media => a = b
    BY <1>3, MediaOfInjective
<1>9. \A a, b \in scan.lost : a.path = b.path => a = b
    BY <1>4, <1>5 DEF Inv, OneIdentityPerPath
<1>10. \A a \in Refs(fresh), b \in scan.lost : a.media # b.media /\ a.path # b.path
    BY <1>3, <1>5
<1>11. \A a, b \in Refs(fresh) \cup scan.lost : a.media = b.media \/ a.path = b.path => a = b
    BY <1>3, <1>4, <1>8, <1>9, <1>10
<1>12. \A ref \in Refs(fresh) \cup scan.lost : ref.media \in Media /\ RowsAfter(fresh)[ref.media] # NoRow
    <2>1. \A ref \in Refs(fresh) : ref.media \in Media
        BY <1>3, MediaOfType
    <2> QED
        BY <1>1, <1>3, <1>5, <2>1, RowsAfterType
<1>13. ASSUME NEW m \in Media, RowsAfter(fresh)[m] # NoRow
       PROVE  \E ref \in Refs(fresh) \cup scan.lost : ref.media = m
    BY <1>3, <1>4, <1>13, FoundOrMissing
<1>14. {ref.media : ref \in Refs(fresh) \cup scan.lost}
           = {m \in Media : RowsAfter(fresh)[m] # NoRow}
    BY <1>12, <1>13
<1> QED
    BY <1>6, <1>7, <1>11, <1>14

LEMMA CommitShows ==
    ASSUME Inv, QuietInv, PastInv, OnePlaceInv, FreshInv, ShowsTheDisk, CommitPlan,
           "index" \notin Faults, "crash" \in Faults => Immobile
    PROVE  QuietInv' /\ PastInv' /\ OnePlaceInv' /\ FreshInv' /\ ShowsTheDisk'
<1>1. PICK fresh \in Fresh, o \in Outcomes, published \in BOOLEAN :
          Committed(fresh, o, published)
    BY CommitIs
<1>2. /\ scan.phase = "planned" /\ scan' = NoScan /\ TypeOK
      /\ UNCHANGED <<mounted, disk, clock, root>>
    BY CommitIs DEF Inv
<1>3. /\ rows' = RowsAfter(fresh) /\ cache' = FilesAfter(cache, o.cached, fresh)
      /\ index' = IF o.indexed THEN IndexAfter ELSE index
    BY <1>1 DEF Committed
<1>4. /\ history'.past = history.past
      /\ history'.returned = history.returned
      /\ history'.settled => history.quiet /\ published /\ ~o.crashed
    <2>1. PICK st, seen : /\ history' = [history EXCEPT !.settled = st, !.seen = seen]
                          /\ st => history.quiet /\ published /\ ~o.crashed
        BY <1>1, HistoryTypes DEF Inv, Committed, History
    <2> QED
        BY <2>1, HistoryTypes DEF Inv, History
<1>5. Found' = {} /\ MetaIsFresh' /\ FoundIsFresh'
    BY <1>2, NoScanType, NothingFound
<1>6. QuietInv'
    BY <1>2, <1>4, NoScanType DEF QuietInv
<1>7. PastInv'
    BY CommitKeepsPast
<1>8. OnePlaceInv'
    BY <1>2, <1>4 DEF OnePlaceInv
<1>9. ASSUME ~history.returned
      PROVE  IndexIsFresh'
    <2>1. IndexIsFresh /\ MetaIsFresh /\ FoundIsFresh
        BY <1>9 DEF FreshInv
    <2>2. ASSUME NEW m \in Media, rows'[m] # NoRow, cache'[m] # NoFile,
                 index'[<<root, rows'[m].path>>] # NoMeta,
                 Holds(rows'[m].path, cache'[m].content)
          PROVE  index'[<<root, rows'[m].path>>] = cache'[m].content
        BY <1>2, <1>3, <2>1, <2>2, CommitKeepsFresh
    <2> QED
        BY <1>2, <2>2 DEF IndexIsFresh, IsRow, Holds
<1>10. ASSUME history'.settled, ~history.returned
       PROVE  ShowsTheDisk'
    <2>1. visible' = Refs(fresh) \cup scan.lost
        BY <1>1, <1>4, <1>10 DEF Committed
    <2>2. MetaIsFresh /\ history.quiet
        BY <1>4, <1>10 DEF FreshInv
    <2>3. {m \in Media : RowsAfter(fresh)[m] # NoRow} = {m \in Media : IsRow(m)}'
        BY <1>3 DEF IsRow
    <2> QED
        BY <1>2, <2>1, <2>2, <2>3, QuietPlanShows DEF ShowsTheDisk
<1>11. ShowsTheDisk'
    BY <1>4, <1>10 DEF ShowsTheDisk
<1> QED
    BY <1>4, <1>5, <1>6, <1>7, <1>8, <1>9, <1>11 DEF FreshInv

(* After an undisturbed scan the Library shows exactly what is on disk,    *)
(* whatever earlier scans were disturbed, degraded or cut short: for any   *)
(* changes to the files when a commit is never cut short before the index  *)
(* is written, and without moves and links when it may be by a crash.      *)
THEOREM LibraryShowsTheDisk ==
    ASSUME "index" \notin Faults, "crash" \in Faults => Immobile
    PROVE  Spec => []ShowsTheDisk
<1> DEFINE All == Inv /\ QuietInv /\ PastInv /\ OnePlaceInv /\ FreshInv /\ ShowsTheDisk
<1>1. Init => All
    <2>1. SUFFICES ASSUME Init
                   PROVE  All
        OBVIOUS
    <2>2. /\ scan = NoScan /\ Found = {} /\ history.past = {} /\ history.roots = {root}
          /\ history.settled = FALSE
        BY <2>1, NoScanType DEF Init, Found
    <2>3. /\ \A p \in Paths : disk[p] = NoFile
          /\ \A m \in Media : cache[m] = NoFile
          /\ \A r \in Roots, p \in Paths : index[<<r, p>>] # NoMeta => r = root
        BY <2>1, LegacyTypes DEF Init
    <2> QED
        BY <2>1, <2>2, <2>3, InitIsInv, NoScanType
           DEF QuietInv, PastInv, OnePlaceInv, FreshInv, IndexIsFresh, MetaIsFresh,
               FoundIsFresh, Collected, ShowsTheDisk
<1>2. All /\ [Next]_vars => All'
    <2>1. SUFFICES ASSUME All, [Next]_vars
                   PROVE  All'
        OBVIOUS
    <2>2. Inv'
        BY <2>1, StepKeepsInv
    <2>3. CASE FilesNext
        <3>1. PICK kind \in ChangeKinds : Change(kind, disk')
            BY <2>1, <2>3, FilesStep DEF Inv
        <3>2. ~history'.quiet /\ ~history'.settled
            BY <2>1, <3>1, ChangeHistory DEF Inv
        <3> QED
            BY <2>1, <2>2, <2>3, <3>2, FilesKeepPast, FilesKeepFresh, FilesKeepOnePlace
               DEF QuietInv, ShowsTheDisk
    <2>4. CASE WorkerNext
        <3>1. OnePlaceInv' /\ ShowsTheDisk'
            BY <2>1, <2>4, WorkerLeavesThese
        <3>2. QuietInv' /\ PastInv' /\ FreshInv'
            BY <2>1, <2>4, StartWalkShows, StatFileShows, EndWalkShows, ReconcileFileShows,
               MarkMissingShows, AbandonShows DEF WorkerNext
        <3> QED
            BY <2>2, <3>1, <3>2
    <2>5. CASE OwnerNext
        BY <2>1, <2>2, <2>5, CommitShows, RestartShows, RelocateShows, PlayMissingShows DEF OwnerNext
    <2>6. CASE UNCHANGED vars
        <3>1. UNCHANGED <<mounted, disk, root, rows, cache, index, visible, scan, clock, history>>
            BY <2>6 DEF vars
        <3>2. Found' = Found
            BY <3>1 DEF Found
        <3>3. QuietInv' /\ PastInv' /\ OnePlaceInv' /\ ShowsTheDisk'
            BY <2>1, <3>1, <3>2 DEF QuietInv, PastInv, OnePlaceInv, ShowsTheDisk, IsRow
        <3>4. FreshInv'
            BY <2>1, <3>1, <3>2 DEF FreshInv, IndexIsFresh, MetaIsFresh, FoundIsFresh, Collected,
                                    IsRow, Holds
        <3> QED
            BY <2>2, <3>3, <3>4
    <2> QED
        BY <2>1, <2>3, <2>4, <2>5, <2>6 DEF Next
<1>3. All => ShowsTheDisk
    OBVIOUS
<1> QED
    BY <1>1, <1>2, <1>3, PTL DEF Spec

=============================================================================
