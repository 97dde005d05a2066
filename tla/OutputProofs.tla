----------------------------- MODULE OutputProofs -----------------------------
(***************************************************************************)
(* Proofs about OutputSession, for any families, requests and bounds.      *)
(***************************************************************************)
EXTENDS OutputSession, OutputHost, FiniteSetTheorems, SequenceTheorems, TLAPS

-----------------------------------------------------------------------------
(* What the operators of the session keep.  s is a session, q the requests *)
(* and ep the epoch, of before the step or after it.                       *)

Maybe       == Requests \cup {None}
SessionType == [state : States, mode : Families \cup {"shared", "lost"}, prepared : Maybe,
                token : Maybe, cleanup : Maybe, lost : BOOLEAN, forgotten : BOOLEAN]
HostType    == [holds : Maybe, receipt : Maybe]
World       == [s : SessionType, h : HostType]
RequestType == [Requests -> [phase : Phases, kind : Families \cup {"shared", None},
                             gen : Nat, pred : Maybe, outdated : BOOLEAN, ok : BOOLEAN,
                             result : Cleanups \cup {None}]]
Replies     == {"truth", "silent", "unheard"}

Over            == {"answered", "superseded"}
Execution(e, q) == q[e].phase \in Over /\ q[e].kind \in Families

(* A session that is lost holds nothing; a prepared execution is in its    *)
(* own mode, or in the shared one that another preparation has set.        *)
Good(s, q, ep) ==
    /\ s \in SessionType
    /\ s.state = "LOST" <=> s.lost
    /\ s.mode = "lost" <=> s.lost
    /\ s.lost => s.prepared = None /\ s.token = None
    /\ s.prepared # None => Execution(s.prepared, q) /\ s.mode \in {"shared", q[s.prepared].kind}
    /\ s.state \in Live => s.prepared # None /\ s.mode = q[s.prepared].kind
    /\ s.token # None => q[s.token].phase \in Over
    /\ s.token # None /\ s.mode # "shared" /\ s.state # "RELEASING" => s.token = s.prepared
    /\ s.state = "RELEASING" => s.token = None \/ s.token # ep

SameKinds(q) == /\ q \in RequestType
                /\ \A e \in Requests : q[e].kind = request[e].kind

LEMMA FamilyType ==
    ASSUME request \in RequestType, NEW e \in Maybe
    PROVE  Family(e) \in Families \cup {"shared", None}
BY OutputAssumption DEF Family, Maybe, RequestType

LEMMA FreedType ==
    ASSUME NEW h \in HostType
    PROVE  Freed(h) \in HostType
BY DEF Freed, HostType, Maybe

(* An abort touches the session's uncertain cleanup only.                  *)
Cleanup(s, c, f) == [s EXCEPT !.cleanup = c, !.forgotten = f]

LEMMA CleanupIs ==
    ASSUME NEW s \in SessionType, NEW e
    PROVE  /\ s = Cleanup(s, s.cleanup, s.forgotten)
           /\ Retained(s, e) = Cleanup(s, IF s.cleanup = None THEN e ELSE s.cleanup, Taken(s, e))
           /\ Settled(s, e) = Cleanup(s, IF s.cleanup = e THEN None ELSE s.cleanup, s.forgotten)
           /\ Uncertain(s, e) \in {Retained(s, e), Cleanup(s, e, Taken(s, e))}
           /\ Taken(s, e) \in BOOLEAN /\ s.forgotten \in BOOLEAN
BY DEF Cleanup, Retained, Settled, Uncertain, Taken, SessionType

(* A change of the cleanup does not touch what makes a session good.       *)
LEMMA GoodWhateverCleanup ==
    ASSUME NEW s \in SessionType, NEW c \in Maybe, NEW f \in BOOLEAN
    PROVE  /\ \A q, ep : Good(Cleanup(s, c, f), q, ep) <=> Good(s, q, ep)
           /\ Cleanup(s, c, f) \in SessionType
           /\ Cleanup(s, c, f).cleanup = c /\ Cleanup(s, c, f).forgotten = f
           /\ Cleanup(s, c, f).state = s.state /\ Cleanup(s, c, f).token = s.token
           /\ Cleanup(s, c, f).mode = s.mode /\ Cleanup(s, c, f).prepared = s.prepared
           /\ Cleanup(s, c, f).lost = s.lost
<1> DEFINE y == Cleanup(s, c, f)
<1>1. /\ y \in SessionType /\ y.cleanup = c /\ y.forgotten = f
      /\ y.state = s.state /\ y.token = s.token
      /\ y.mode = s.mode /\ y.prepared = s.prepared /\ y.lost = s.lost
    BY DEF Cleanup, SessionType, Maybe
<1> HIDE DEF y
<1>2. \A q, ep : Good(y, q, ep) <=> Good(s, q, ep)
    BY <1>1 DEF Good
<1> QED
    BY <1>1, <1>2 DEF y

LEMMA AbortedIs ==
    ASSUME NEW w \in World, NEW e \in Maybe, NEW a
    PROVE  /\ Aborted(w, e, a) \in World
           /\ \E c \in {w.s.cleanup, e, None}, f \in BOOLEAN :
                 Aborted(w, e, a).s = Cleanup(w.s, c, f)
           /\ Aborted(w, e, a).h \in {w.h, Freed(w.h)}
<1>1. w.s \in SessionType /\ w.h \in HostType /\ Freed(w.h) \in HostType /\ w = [s |-> w.s, h |-> w.h]
    BY FreedType DEF World
<1>2. w.s = Cleanup(w.s, w.s.cleanup, w.s.forgotten) /\ w.s.forgotten \in BOOLEAN
    BY <1>1, CleanupIs
<1>3. CASE e = None
    BY <1>1, <1>2, <1>3 DEF Aborted
<1>4. CASE e # None
    <2>1. /\ Settled(w.s, e) = Cleanup(w.s, IF w.s.cleanup = e THEN None ELSE w.s.cleanup, w.s.forgotten)
          /\ Retained(w.s, e) = Cleanup(w.s, IF w.s.cleanup = None THEN e ELSE w.s.cleanup, Taken(w.s, e))
          /\ Uncertain(w.s, e) \in {Retained(w.s, e), Cleanup(w.s, e, Taken(w.s, e))}
          /\ Taken(w.s, e) \in BOOLEAN
        BY <1>1, CleanupIs
    <2>2. \A c \in {w.s.cleanup, e, None}, f \in BOOLEAN : Cleanup(w.s, c, f) \in SessionType
        <3>1. w.s.cleanup \in Maybe /\ None \in Maybe
            BY <1>1 DEF SessionType, Maybe
        <3> QED
            BY <1>1, <3>1, GoodWhateverCleanup
    <2>4. Released(w.h, e, a) \in {w.h, Freed(w.h)}
        BY DEF Released
    <2>5. /\ Aborted(w, e, a).s \in {Settled(w.s, e), Uncertain(w.s, e)}
          /\ Aborted(w, e, a).h = Released(w.h, e, a)
          /\ Aborted(w, e, a) = [s |-> Aborted(w, e, a).s, h |-> Aborted(w, e, a).h]
        BY <1>4 DEF Aborted
    <2>6. \E c \in {w.s.cleanup, e, None}, f \in BOOLEAN : Aborted(w, e, a).s = Cleanup(w.s, c, f)
        BY <1>2, <2>1, <2>5, Zenon
    <2>7. Aborted(w, e, a).s \in SessionType /\ Aborted(w, e, a).h \in HostType
        <3>1. Aborted(w, e, a).s \in SessionType
            BY <2>2, <2>6, Zenon
        <3> QED
            BY <1>1, <2>4, <2>5, <3>1, Zenon
    <2> QED
        BY <2>4, <2>5, <2>6, <2>7 DEF World
<1> QED
    BY <1>3, <1>4

LEMMA AbortedGood ==
    ASSUME NEW w \in World, NEW e \in Maybe, NEW a, NEW q, NEW ep, Good(w.s, q, ep)
    PROVE  /\ Aborted(w, e, a) \in World
           /\ Good(Aborted(w, e, a).s, q, ep)
           /\ Aborted(w, e, a).s.state = w.s.state /\ Aborted(w, e, a).s.token = w.s.token
           /\ Aborted(w, e, a).s.mode = w.s.mode /\ Aborted(w, e, a).s.prepared = w.s.prepared
           /\ Aborted(w, e, a).s.lost = w.s.lost
<1>1. PICK c \in {w.s.cleanup, e, None}, f \in BOOLEAN : Aborted(w, e, a).s = Cleanup(w.s, c, f)
    BY AbortedIs
<1>2. w.s \in SessionType /\ c \in Maybe
    BY DEF World, SessionType, Maybe
<1> QED
    BY <1>1, <1>2, AbortedIs, GoodWhateverCleanup

(* Given up: nothing is prepared, and no token stands for anything.        *)
LEMMA ClearedGood ==
    ASSUME NEW s \in SessionType, NEW q, NEW ep
    PROVE  /\ s.state \notin Live \cup {"LOST"} => Good(Cleared(s), q, ep)
           /\ Good(Idle(Cleared(s)), q, ep)
           /\ Cleared(s) \in SessionType /\ Idle(Cleared(s)) \in SessionType
           /\ Cleared(s).prepared = None /\ Cleared(s).token = None
           /\ Cleared(s).state = s.state /\ Cleared(s).cleanup = s.cleanup
           /\ Cleared(s).forgotten = s.forgotten /\ Idle(Cleared(s)).forgotten = s.forgotten
           /\ Idle(Cleared(s)).prepared = None /\ Idle(Cleared(s)).token = None
           /\ Idle(Cleared(s)).state = "IDLE" /\ Idle(Cleared(s)).cleanup = s.cleanup
BY DEF Good, Cleared, Idle, SessionType, Maybe, States, Live

LEMMA AbortMediaGood ==
    ASSUME NEW w \in World, NEW r, NEW a, NEW q \in RequestType, NEW ep, Good(w.s, q, ep)
    PROVE  /\ AbortMedia(w, r, a) \in World
           /\ Good(AbortMedia(w, r, a).s, q, ep)
           /\ AbortMedia(w, r, a).s.token \in {w.s.token, None}
           /\ AbortMedia(w, r, a).s.state \in {w.s.state, "IDLE"}
<1> DEFINE e == w.s.prepared
           aborted == Aborted(w, e, a)
           cleared == [w EXCEPT !.s = Cleared(@)]
           over == [aborted EXCEPT !.s = Idle(Cleared(@))]
<1>1. /\ w.s \in SessionType /\ w.h \in HostType /\ e \in Maybe
      /\ w = [s |-> w.s, h |-> w.h]
    BY DEF World, SessionType
<1>2. /\ aborted \in World /\ Good(aborted.s, q, ep) /\ aborted.s \in SessionType
      /\ aborted.h \in HostType
      /\ aborted.s.token = w.s.token /\ aborted.s.state = w.s.state
    BY <1>1, AbortedGood DEF World
<1>3. over \in World /\ Good(over.s, q, ep) /\ over.s.token = None /\ over.s.state = "IDLE"
    <2>1. over = [s |-> Idle(Cleared(aborted.s)), h |-> aborted.h]
        BY <1>2 DEF World
    <2> QED
        BY <1>2, <2>1, ClearedGood DEF World
<1>4. CASE w.s.token # r
    BY <1>1, <1>4 DEF AbortMedia
<1>5. CASE w.s.token = r /\ w.s.mode = "shared"
    <2>1. AbortMedia(w, r, a) = [s |-> Cleared(w.s), h |-> w.h]
        BY <1>1, <1>5 DEF AbortMedia
    <2>2. Good(Cleared(w.s), q, ep) /\ Cleared(w.s).token = None /\ Cleared(w.s).state = w.s.state
        BY <1>1, <1>5, OutputAssumption DEF Good, Cleared, SessionType, Live, Maybe, Execution, ExclusiveFamilies
    <2> QED
        BY <1>1, <2>1, <2>2, ClearedGood DEF World
<1>6. CASE w.s.token = r /\ w.s.mode # "shared"
    <2>1. AbortMedia(w, r, a) \in {aborted, over}
        <3> HIDE DEF over, aborted
        <3>1. AbortMedia(w, r, a) =
                 IF w.s.mode = "dop"
                 THEN IF Result(w.h, e, a) \in Enough(e) THEN over ELSE aborted
                 ELSE over
            BY <1>6 DEF AbortMedia, over, aborted
        <3> QED
            BY <3>1
    <2> QED
        BY <1>2, <1>3, <2>1
<1> QED
    BY <1>4, <1>5, <1>6

LEMMA ReleaseActiveGood ==
    ASSUME NEW w \in World, NEW a, NEW q \in RequestType, NEW ep, Good(w.s, q, ep)
    PROVE  /\ ReleaseActive(w, a) \in World
           /\ Good(ReleaseActive(w, a).s, q, None)
<1> DEFINE e == w.s.prepared
           aborted == Aborted(w, e, a)
           over == [aborted EXCEPT !.s = Idle(Cleared(@))]
<1>1. /\ w.s \in SessionType /\ w.h \in HostType /\ e \in Maybe
      /\ w = [s |-> w.s, h |-> w.h] /\ Freed(w.h) \in HostType
    BY FreedType DEF World, SessionType
<1>2. /\ aborted \in World /\ Good(aborted.s, q, ep) /\ aborted.s \in SessionType
      /\ aborted.h \in HostType /\ aborted = [s |-> aborted.s, h |-> aborted.h]
      /\ aborted.s.mode = w.s.mode
    BY <1>1, AbortedGood DEF World
<1>3. over \in World /\ Good(over.s, q, None)
    <2>1. over = [s |-> Idle(Cleared(aborted.s)), h |-> aborted.h]
        BY <1>2
    <2> QED
        BY <1>2, <2>1, ClearedGood DEF World
<1>4. ASSUME NEW s \in SessionType, Good(s, q, ep), s.mode # "lost"
      PROVE  Releasing(s) \in SessionType /\ Good(Releasing(s), q, None)
    BY <1>4 DEF Good, Releasing, SessionType, States, Live, Maybe
<1>5. Released(w.h, e, a) \in HostType /\ Released(w.h, e, "truth") \in HostType
    BY <1>1 DEF Released
<1>6. w.s.mode \in Families \cup {"shared", "lost"}
    BY <1>1 DEF SessionType
<1> HIDE DEF aborted, over
<1>7. CASE w.s.mode = "shared"
    <2>1. ReleaseActive(w, a) = [s |-> Cleared(w.s), h |-> w.h]
        BY <1>1, <1>7 DEF ReleaseActive
    <2>2. w.s.state \notin Live \cup {"LOST"}
        BY <1>7, OutputAssumption DEF Good, Execution, ExclusiveFamilies
    <2> QED
        BY <1>1, <2>1, <2>2, ClearedGood DEF World
<1>8. CASE w.s.mode = "lost"
    <2>1. ReleaseActive(w, a) \in {w, [s |-> Idle(Cleared(w.s)), h |-> w.h]}
        BY <1>1, <1>8 DEF ReleaseActive
    <2>2. Good(w.s, q, None)
        BY <1>8 DEF Good
    <2> QED
        BY <1>1, <2>1, <2>2, ClearedGood DEF World
<1>9. CASE w.s.mode = "managed"
    <2>1. ReleaseActive(w, a) = over
        BY <1>9 DEF ReleaseActive, over, aborted
    <2> QED
        BY <1>3, <2>1
<1>10. CASE w.s.mode = "native_dsd"
    <2>1. ReleaseActive(w, a) \in {[s |-> Releasing(w.s), h |-> Released(w.h, e, a)],
                                   [s |-> Idle(Cleared(w.s)), h |-> Released(w.h, e, "truth")]}
        BY <1>1, <1>10 DEF ReleaseActive
    <2>2. Idle(Cleared(w.s)) \in SessionType /\ Good(Idle(Cleared(w.s)), q, None)
        BY <1>1, ClearedGood
    <2>3. Releasing(w.s) \in SessionType /\ Good(Releasing(w.s), q, None)
        BY <1>1, <1>4, <1>10
    <2> QED
        BY <1>5, <2>1, <2>2, <2>3 DEF World
<1>11. CASE w.s.mode = "dop"
    <2>1. ReleaseActive(w, a) \in {[aborted EXCEPT !.s = Releasing(@)], over}
        BY <1>11 DEF ReleaseActive, over, aborted
    <2>2. [aborted EXCEPT !.s = Releasing(@)] = [s |-> Releasing(aborted.s), h |-> aborted.h]
        BY <1>2
    <2> QED
        BY <1>2, <1>3, <1>4, <1>11, <2>1, <2>2 DEF World
<1> QED
    BY <1>6, <1>7, <1>8, <1>9, <1>10, <1>11, OutputAssumption DEF ExclusiveFamilies

(* What another execution holds is aborted, and dropped if that did.       *)
LEMMA YieldedIs ==
    ASSUME NEW w \in World, NEW a, NEW q \in RequestType, NEW ep, Good(w.s, q, ep)
    PROVE  LET y == Yielded(w, w.s.prepared, a)
               aborted == Aborted(w, w.s.prepared, a)
           IN  /\ y \in World
               /\ y.h = aborted.h
               /\ y.s.cleanup = aborted.s.cleanup
               /\ y.s.forgotten = aborted.s.forgotten
               /\ y.s.state = w.s.state /\ y.s.token = w.s.token /\ y.s.mode = w.s.mode
               /\ y.s.lost = w.s.lost
               /\ y.s.prepared \in {w.s.prepared, None}
               /\ y.s.prepared # None => y.s = aborted.s
<1> DEFINE e == w.s.prepared
           aborted == Aborted(w, e, a)
<1>1. e \in Maybe
    BY DEF World, SessionType
<1>2. /\ aborted \in World /\ aborted.s \in SessionType /\ aborted.h \in HostType
      /\ aborted = [s |-> aborted.s, h |-> aborted.h]
      /\ aborted.s.token = w.s.token /\ aborted.s.state = w.s.state
      /\ aborted.s.mode = w.s.mode /\ aborted.s.prepared = e /\ aborted.s.lost = w.s.lost
    BY <1>1, AbortedGood DEF World
<1> HIDE DEF aborted
<1>3. Yielded(w, e, a) \in {aborted, [s |-> Dropped(aborted.s), h |-> aborted.h]}
    BY <1>2 DEF Yielded, aborted
<1>4. [s |-> Dropped(aborted.s), h |-> aborted.h] \in World
    BY <1>2 DEF World, Dropped, SessionType, Maybe
<1>5. Dropped(aborted.s) = [aborted.s EXCEPT !.prepared = None]
    BY DEF Dropped
<1> QED
    BY <1>2, <1>3, <1>4, <1>5 DEF aborted, SessionType

LEMMA BegunGood ==
    ASSUME NEW w \in World, NEW r \in Requests, NEW a, NEW ep, NEW q \in RequestType,
           SameKinds(q), Execution(r, q), Good(w.s, q, ep)
    PROVE  /\ Begun(w, r, a) \in World
           /\ Good(Begun(w, r, a).s, q, ep)
<1> DEFINE y == Yielded(w, w.s.prepared, a)
           begun == [y.s EXCEPT !.state = "READY", !.mode = Family(r), !.prepared = r, !.token = r]
<1>0. w.s \in SessionType /\ w.s.prepared \in Maybe
    BY DEF World, SessionType
<1>1. /\ y \in World /\ y.s \in SessionType /\ y.h \in HostType
      /\ y = [s |-> y.s, h |-> y.h]
      /\ y.s.state = w.s.state /\ y.s.token = w.s.token /\ y.s.mode = w.s.mode
      /\ y.s.lost = w.s.lost
      /\ y.s.prepared \in {w.s.prepared, None}
      /\ y.s.prepared # None => y.s = Aborted(w, w.s.prepared, a).s
    BY YieldedIs DEF World
<1>2. Family(r) = q[r].kind /\ q[r].kind \in Families /\ r # None
    BY OutputAssumption DEF Family, SameKinds, Execution
<1>3. Good(Aborted(w, w.s.prepared, a).s, q, ep)
    BY <1>0, AbortedGood
<1> HIDE DEF y
<1>4. CASE Begins(w, r, a)
    <2>1. Begun(w, r, a) = [s |-> begun, h |-> y.h]
        BY <1>1, <1>4 DEF Begun, y
    <2>2. y.s.state \in Live \cup {"IDLE"}
        BY <1>4 DEF Begins, y
    <2>3. begun \in SessionType /\ Good(begun, q, ep)
        BY <1>1, <1>2, <2>2, OutputAssumption
        DEF Good, SessionType, Maybe, States, Live, ExclusiveFamilies, Execution
    <2> QED
        BY <1>1, <2>1, <2>3 DEF World
<1>5. CASE ~Begins(w, r, a)
    <2>1. Begun(w, r, a) = y
        BY <1>5 DEF Begun, y
    <2>2. CASE y.s.prepared # None
        BY <1>1, <1>3, <2>1, <2>2
    <2>3. CASE y.s.prepared = None
        <3>1. y.s.state \notin Live \cup {"IDLE"}
            BY <1>5, <2>3 DEF Begins, y
        <3> QED
            BY <1>1, <2>1, <2>3, <3>1 DEF Good, SessionType, States, Live
    <2> QED
        BY <2>2, <2>3
<1> QED
    BY <1>4, <1>5

LEMMA SharedBegunGood ==
    ASSUME NEW w \in World, NEW r \in Requests, NEW a, NEW ep, NEW q \in RequestType,
           q[r].phase \in Over, Good(w.s, q, ep), SharedBegins(w.s)
    PROVE  /\ SharedBegun(w, r, a) \in World
           /\ Good(SharedBegun(w, r, a).s, q, ep)
<1> DEFINE e == w.s.prepared
           aborted == Aborted(w, e, a)
           over(s) == [s EXCEPT !.mode = "shared", !.token = r, !.state = "IDLE"]
<1>1. /\ w.s \in SessionType /\ w.h \in HostType /\ e \in Maybe
      /\ w = [s |-> w.s, h |-> w.h]
    BY DEF World, SessionType
<1>2. /\ aborted \in World /\ Good(aborted.s, q, ep) /\ aborted.s \in SessionType
      /\ aborted.h \in HostType /\ aborted = [s |-> aborted.s, h |-> aborted.h]
      /\ aborted.s.state = w.s.state
    BY <1>1, AbortedGood DEF World
<1> HIDE DEF aborted
<1>3. SharedBegun(w, r, a) \in {[s |-> over(w.s), h |-> w.h], [s |-> over(aborted.s), h |-> aborted.h],
                                [s |-> over(Dropped(aborted.s)), h |-> aborted.h]}
    <2> DEFINE released == IF w.s.mode = "managed" /\ e # None
                           THEN [aborted EXCEPT !.s = Dropped(@)] ELSE w
    <2>1. released \in {w, [s |-> Dropped(aborted.s), h |-> aborted.h]}
        BY <1>2
    <2>2. SharedBegun(w, r, a) = [released EXCEPT !.s = over(@)]
        BY DEF SharedBegun, aborted
    <2> HIDE DEF released, over
    <2> QED
        BY <1>1, <2>1, <2>2
<1>4. ASSUME NEW s \in SessionType, Good(s, q, ep), s.state \in Live \cup {"IDLE"}
      PROVE  /\ over(s) \in SessionType /\ Good(over(s), q, ep)
             /\ over(Dropped(s)) \in SessionType /\ Good(over(Dropped(s)), q, ep)
    <2>1. ~s.lost
        BY <1>4 DEF Good, Live
    <2>2. over(s) \in SessionType /\ Dropped(s) \in SessionType
        BY DEF SessionType, Dropped, Maybe, States
    <2>3. Good(over(s), q, ep)
        BY <1>4, <2>1, <2>2 DEF Good, Live, SessionType
    <2>4. /\ over(Dropped(s)).state = "IDLE" /\ over(Dropped(s)).mode = "shared"
          /\ over(Dropped(s)).prepared = None /\ over(Dropped(s)).token = r
          /\ over(Dropped(s)).lost = s.lost /\ over(Dropped(s)) \in SessionType
        BY <2>2 DEF SessionType, Dropped, Maybe, States
    <2>5. Good(over(Dropped(s)), q, ep)
        BY <2>1, <2>4 DEF Good, Live
    <2> QED
        BY <2>2, <2>3, <2>4, <2>5
<1>5. w.s.state \in Live \cup {"IDLE"}
    BY DEF SharedBegins
<1> HIDE DEF over
<1> QED
    BY <1>1, <1>2, <1>3, <1>4, <1>5 DEF World

LEMMA ReconciledGood ==
    ASSUME NEW s \in SessionType, NEW e \in Maybe, NEW ep, NEW q \in RequestType,
           Good(s, q, ep)
    PROVE  /\ Reconciled(s, e) \in SessionType
           /\ Good(Reconciled(s, e), q, ep)
<1> DEFINE left == [s EXCEPT !.prepared = IF @ = e THEN None ELSE @, !.token = None,
                             !.state = IF @ \in Live THEN "IDLE" ELSE @]
           lost == [left EXCEPT !.mode = "lost", !.state = s.state]
           shared == [left EXCEPT !.mode = "shared"]
<1>1. CASE Family(e) # "dop"
    <2>1. Reconciled(s, e) = IF s.prepared = e THEN left ELSE s
        BY <1>1 DEF Reconciled
    <2>2. s.prepared = e => left \in SessionType /\ Good(left, q, ep)
        <3>1. left \in SessionType
            BY DEF SessionType, Maybe, States, Live
        <3>2. ASSUME s.prepared = e
              PROVE  /\ left.state \notin Live /\ left.prepared = None /\ left.token = None
                     /\ left.mode = s.mode /\ left.lost = s.lost
                     /\ left.state = "LOST" <=> s.state = "LOST"
            BY <3>2 DEF SessionType, Maybe, States, Live
        <3> QED
            BY <3>1, <3>2 DEF Good
    <2> QED
        BY <2>1, <2>2
<1>2. CASE Family(e) = "dop"
    <2>1. Reconciled(s, e) \in {s, IF s.lost THEN lost ELSE shared}
        BY <1>2 DEF Reconciled
    <2>2. s.lost => Good(lost, q, ep) /\ lost \in SessionType
        BY OutputAssumption DEF Good, SessionType, Maybe, States, Live, ExclusiveFamilies
    <2>3. ~s.lost => Good(shared, q, ep) /\ shared \in SessionType
        BY OutputAssumption DEF Good, SessionType, Maybe, States, Live, ExclusiveFamilies, Execution
    <2> QED
        BY <2>1, <2>2, <2>3
<1> QED
    BY <1>1, <1>2

LEMMA LostGood ==
    ASSUME NEW w \in World, NEW a, NEW q \in RequestType, NEW ep, Good(w.s, q, ep)
    PROVE  /\ Lost(w, a) \in World
           /\ Good(Lost(w, a).s, q, None)
<1> DEFINE e == w.s.prepared
           aborted == Aborted(w, e, a)
           lost(s) == [s EXCEPT !.state = "LOST", !.mode = "lost", !.prepared = None,
                                !.token = None, !.lost = TRUE]
<1>1. w.s \in SessionType /\ e \in Maybe
    BY DEF World, SessionType
<1>2. /\ aborted \in World /\ aborted.s \in SessionType /\ aborted.h \in HostType
      /\ aborted = [s |-> aborted.s, h |-> aborted.h]
    BY <1>1, AbortedGood DEF World
<1>3. Lost(w, a) \in {w, [s |-> lost(aborted.s), h |-> aborted.h]}
    <2> HIDE DEF aborted, lost
    <2>1. [aborted EXCEPT !.s = lost(@)] = [s |-> lost(aborted.s), h |-> aborted.h]
        BY <1>2
    <2>2. Lost(w, a) \in {w, [aborted EXCEPT !.s = lost(@)]}
        BY DEF Lost, aborted, lost
    <2> QED
        BY <2>1, <2>2
<1>4. \A s \in SessionType : lost(s) \in SessionType /\ Good(lost(s), q, None)
    BY OutputAssumption DEF Good, SessionType, Maybe, States, Live
<1>5. Good(w.s, q, None)
    BY DEF Good
<1> HIDE DEF aborted, lost
<1> QED
    BY <1>2, <1>3, <1>4, <1>5 DEF World

-----------------------------------------------------------------------------
(* The requests.  A preparation that is over stays over, with its kind.    *)

Attempted == {"releasing", "released", "preparing", "prepared"}

Phased(q) ==
    \A r \in Requests :
        /\ q[r].phase \in {"unasked", "working"} => q[r].kind = None
        /\ q[r].phase = "planned" /\ q[r].kind # "shared" =>
              q[r].kind \in Families /\ q[r].pred # None
        /\ q[r].phase \in Attempted => q[r].kind \in Families /\ q[r].pred # None
        /\ q[r].phase = "acquiring" => q[r].kind \in Families
        /\ q[r].phase \in {"acquiring", "acquired"} => q[r].pred = None \/ q[r].kind = None
        /\ q[r].ok => q[r].kind \in Families /\ q[r].phase \in {"acquired", "prepared"}
        /\ q[r].phase \in {"unasked"} \cup Over => q[r].pred = None

Referred(q) == \A r \in Requests : q[r].pred # None => Execution(q[r].pred, q)

Kept(q) == \A e \in Requests : request[e].phase \in Over =>
                q[e].phase = request[e].phase /\ q[e].kind = request[e].kind

Planned(q) == q \in RequestType /\ Phased(q) /\ Referred(q)

BaseInv == /\ TypeOK
           /\ Phased(request) /\ Referred(request)
           /\ Good(session, request, epoch)

LEMMA BaseTypes ==
    ASSUME TypeOK
    PROVE  /\ session \in SessionType /\ request \in RequestType /\ host \in HostType
           /\ epoch \in Maybe /\ Now \in World /\ Now.s = session /\ Now.h = host
           /\ Freed(host) \in HostType /\ [Now EXCEPT !.h = Freed(@)] \in World
           /\ [Now EXCEPT !.h = Freed(@)].s = session
           /\ [Now EXCEPT !.h = Freed(@)].h = Freed(host)
BY FreedType DEF TypeOK, SessionType, RequestType, HostType, World, Now, Maybe

LEMMA GoodKept ==
    ASSUME NEW s, NEW q \in RequestType, NEW ep, request \in RequestType,
           Good(s, request, ep), Kept(q)
    PROVE  Good(s, q, ep)
BY DEF Good, Kept, Execution, SessionType, Maybe

LEMMA KeepsReferences ==
    ASSUME NEW q \in RequestType, request \in RequestType, Kept(q), Referred(request),
           \A r \in Requests : q[r].pred \in {request[r].pred, None}
    PROVE  Referred(q)
BY DEF Referred, Kept, Execution, RequestType, Maybe

(* A preparation that ends.                                                *)
LEMMA EndsPlanned ==
    ASSUME BaseInv, NEW r \in Requests, request[r].phase \notin Over,
           NEW q \in {Answered(r), Superseded(r)}
    PROVE  /\ Planned(q) /\ SameKinds(q) /\ Kept(q)
           /\ q[r].phase \in Over /\ q[r].kind = request[r].kind
           /\ q[r].phase = "superseded" <=> q = Superseded(r)
           /\ \A e \in Requests \ {r} : q[e] = request[e]
<1>1. request \in RequestType /\ Phased(request) /\ Referred(request)
    BY BaseTypes DEF BaseInv
<1>2. PICK p \in Over : q = [request EXCEPT ![r] = [Unasked EXCEPT !.phase = p, !.kind = request[r].kind]]
    BY OutputAssumption DEF Answered, Superseded, Over, Family
<1>3. /\ q \in RequestType /\ q[r].phase = p /\ q[r].kind = request[r].kind
      /\ q[r].pred = None /\ q[r].ok = FALSE
      /\ \A e \in Requests \ {r} : q[e] = request[e]
    BY <1>1, <1>2 DEF RequestType, Unasked, Over, Phases, Maybe
<1>4. Kept(q) /\ SameKinds(q)
    BY <1>1, <1>3 DEF Kept, SameKinds
<1>5. Phased(q)
    BY <1>1, <1>3 DEF Phased, Over, Attempted
<1>6. Referred(q)
    BY <1>1, <1>3, <1>4, KeepsReferences
<1>7. q[r].phase = "superseded" <=> q = Superseded(r)
    <2>1. Answered(r)[r].phase = "answered" /\ Superseded(r)[r].phase = "superseded"
        BY <1>1 DEF Answered, Superseded, RequestType, Unasked
    <2> QED
        BY <2>1
<1> QED
    BY <1>3, <1>4, <1>5, <1>6, <1>7 DEF Planned

(* A preparation that goes on.                                             *)
LEMMA StepsPlanned ==
    ASSUME BaseInv, NEW r \in Requests, request[r].phase \notin {"unasked"} \cup Over,
           NEW x, request' = [request EXCEPT ![r] = x],
           request' \in RequestType,
           x.pred = request[r].pred, Phased(request')
    PROVE  Planned(request') /\ Kept(request')
<1>1. request \in RequestType /\ Referred(request)
    BY BaseTypes DEF BaseInv
<1>2. request'[r] = x /\ \A e \in Requests \ {r} : request'[e] = request[e]
    BY <1>1 DEF RequestType
<1>3. Kept(request')
    BY <1>1, <1>2 DEF Kept
<1>4. Referred(request')
    BY <1>1, <1>2, <1>3, KeepsReferences
<1> QED
    BY <1>3, <1>4 DEF Planned

(* Counting a command that raised stays within the bound.                  *)
LEMMA HeardType ==
    ASSUME TypeOK, NEW e, NEW a \in Answers(e)
    PROVE  /\ Heard(a) \in [present : BOOLEAN, events : 0 .. MaxEvents, faults : 0 .. MaxFaults]
           /\ Heard(a).present = world.present /\ Heard(a).events = world.events
           /\ Heard(a).faults = IF a = "truth" THEN world.faults ELSE world.faults + 1
           /\ MoreEvents => Happens(a) \in [present : BOOLEAN, events : 0 .. MaxEvents,
                                            faults : 0 .. MaxFaults]
<1>1. /\ world \in [present : BOOLEAN, events : 0 .. MaxEvents, faults : 0 .. MaxFaults]
      /\ MaxEvents \in Nat /\ MaxFaults \in Nat
    BY OutputAssumption DEF TypeOK
<1> DEFINE n == IF a = "truth" THEN world.faults ELSE world.faults + 1
<1>2. n \in 0 .. MaxFaults
    BY <1>1 DEF Answers
<1>3. Heard(a) = [world EXCEPT !.faults = n]
    BY DEF Heard
<1> HIDE DEF n
<1>4. /\ Heard(a) \in [present : BOOLEAN, events : 0 .. MaxEvents, faults : 0 .. MaxFaults]
      /\ Heard(a).present = world.present /\ Heard(a).events = world.events
      /\ Heard(a).faults = n
    BY <1>1, <1>2, <1>3
<1>5. MoreEvents => world.events + 1 \in 0 .. MaxEvents
    BY <1>1 DEF MoreEvents
<1>6. Happens(a) = [Heard(a) EXCEPT !.events = world.events + 1]
    BY <1>4 DEF Happens
<1> QED
    BY <1>4, <1>5, <1>6 DEF n

-----------------------------------------------------------------------------
(* Every step keeps BaseInv.                                               *)

PrepType  == [generation : Nat, attempt : Maybe, reservation : Maybe, pending : BOOLEAN,
              repeated : BOOLEAN]
WorldType == [present : BOOLEAN, events : 0 .. MaxEvents, faults : 0 .. MaxFaults]

LEMMA BaseStep ==
    ASSUME Planned(request'), Good(session', request', epoch'), host' \in HostType,
           epoch' \in Maybe, prep' \in PrepType, world' \in WorldType
    PROVE  BaseInv'
BY DEF BaseInv, TypeOK, Planned, Good, SessionType, HostType, RequestType, PrepType,
       WorldType, Maybe, Phased, Referred, Execution

LEMMA BaseNow ==
    ASSUME BaseInv
    PROVE  /\ Planned(request) /\ Kept(request) /\ SameKinds(request)
           /\ Good(session, request, epoch) /\ Good(session, request, None)
           /\ host \in HostType /\ epoch \in Maybe
           /\ prep \in PrepType /\ world \in WorldType
<1>1. Good(session, request, None)
    BY DEF BaseInv, Good
<1> QED
    BY <1>1, BaseTypes
    DEF BaseInv, Planned, Kept, SameKinds, TypeOK, PrepType, WorldType, Maybe

(* The clock advances by one, and touches nothing else that is reserved.   *)
LEMMA AdvancedIs ==
    ASSUME prep \in PrepType
    PROVE  /\ Advanced \in PrepType /\ Cancelled \in PrepType
           /\ prep.generation \in Nat /\ prep.reservation \in Maybe
           /\ \A p \in {Advanced, Cancelled} :
                 /\ p.generation = prep.generation + 1 /\ p.reservation = prep.reservation
                 /\ p.attempt = prep.attempt /\ (p.repeated <=> prep.repeated \/ Repeats)
<1> DEFINE x == prep.repeated \/ Repeats
<1>1. x \in BOOLEAN /\ Advanced = [prep EXCEPT !.generation = @ + 1, !.repeated = x]
    BY DEF Advanced
<1> HIDE DEF x
<1>2. /\ Advanced \in PrepType /\ Advanced.generation = prep.generation + 1
      /\ Advanced.reservation = prep.reservation /\ Advanced.attempt = prep.attempt
      /\ Advanced.repeated = x
      /\ prep.generation \in Nat /\ prep.reservation \in Maybe
    <2>1. prep.generation + 1 \in Nat /\ prep.reservation \in Maybe /\ prep.generation \in Nat
        BY DEF PrepType
    <2>2. Advanced.repeated = x
        BY <1>1 DEF PrepType
    <2>3. /\ Advanced.generation = prep.generation + 1
          /\ Advanced.reservation = prep.reservation /\ Advanced.attempt = prep.attempt
        BY <1>1 DEF PrepType
    <2>4. Advanced \in PrepType
        BY <1>1, <2>1 DEF PrepType
    <2> QED
        BY <2>1, <2>2, <2>3, <2>4
<1>3. /\ Cancelled \in PrepType /\ Cancelled.generation = Advanced.generation
      /\ Cancelled.reservation = Advanced.reservation /\ Cancelled.attempt = Advanced.attempt
      /\ Cancelled.repeated = Advanced.repeated
    BY <1>2 DEF Cancelled, PrepType
<1> QED
    BY <1>2, <1>3 DEF x

LEMMA AskedPrep ==
    ASSUME BaseInv, NEW r \in Requests, Ask(r)
    PROVE  /\ prep' \in PrepType /\ prep.generation \in Nat
           /\ prep'.generation = prep.generation + 1 /\ prep'.generation > prep.generation
           /\ prep'.reservation = prep.reservation
           /\ prep'.repeated <=> prep.repeated \/ Repeats
<1>1. prep \in PrepType
    BY BaseNow
<1>2. /\ Advanced \in PrepType /\ Advanced.generation = prep.generation + 1
      /\ Advanced.reservation = prep.reservation /\ prep.generation \in Nat
      /\ Advanced.repeated <=> prep.repeated \/ Repeats
    BY <1>1, AdvancedIs
<1> DEFINE asked == Advanced.pending \/ session.cleanup = None
<1>3. prep' = [Advanced EXCEPT !.attempt = None, !.pending = asked]
    BY DEF Ask
<1>4. asked \in BOOLEAN
    OBVIOUS
<1> HIDE DEF asked
<1>5. /\ prep' \in PrepType /\ prep'.generation = Advanced.generation
      /\ prep'.reservation = Advanced.reservation /\ prep'.repeated = Advanced.repeated
    BY <1>2, <1>3, <1>4 DEF PrepType, Maybe
<1> QED
    BY <1>2, <1>5

LEMMA AskBase ==
    ASSUME BaseInv, NEW r \in Requests, Ask(r)
    PROVE  BaseInv'
<1>1. request[r].phase = "unasked" /\ request[r].phase \notin Over
    BY DEF Ask, Over
<1>2. /\ request \in RequestType /\ Referred(request) /\ Phased(request)
      /\ session \in SessionType
    BY BaseTypes DEF BaseInv
<1>3. Planned(request') /\ Kept(request')
    <2>1. CASE session.cleanup # None
        BY <1>1, <2>1, EndsPlanned DEF Ask
    <2>2. CASE session.cleanup = None
        <3> DEFINE x == [request[r] EXCEPT !.phase = "working", !.gen = prep.generation + 1,
                                           !.pred = session.prepared]
        <3>1. request' = [request EXCEPT ![r] = x]
            BY <2>2 DEF Ask
        <3> prep.generation + 1 \in Nat /\ session.prepared \in Maybe
            BY <1>2, BaseNow DEF PrepType, SessionType
        <3>2. /\ request' \in RequestType /\ request'[r] = x
              /\ \A e \in Requests \ {r} : request'[e] = request[e]
            BY <1>2, <3>1 DEF RequestType, Phases
        <3>3. x.phase = "working" /\ x.kind = request[r].kind /\ x.pred = session.prepared
              /\ x.ok = request[r].ok
            BY <1>2 DEF RequestType
        <3> HIDE DEF x
        <3>4. Phased(request')
            BY <1>1, <1>2, <3>2, <3>3 DEF Phased, Over, Attempted
        <3>5. Kept(request')
            BY <1>1, <1>2, <3>2 DEF Kept
        <3>6. session.prepared # None => Execution(session.prepared, request)
            BY DEF BaseInv, Good
        <3>7. Referred(request')
            <4>1. ASSUME NEW d \in Requests, request'[d].pred # None
                  PROVE  request'[d].pred \in Requests /\ Execution(request'[d].pred, request)
                BY <1>2, <3>2, <3>3, <3>6, <4>1 DEF Referred, RequestType, Maybe
            <4>2. ASSUME NEW e \in Requests, Execution(e, request)
                  PROVE  Execution(e, request')
                BY <3>5, <4>2 DEF Kept, Execution
            <4> QED
                BY <4>1, <4>2 DEF Referred
        <3> QED
            BY <3>2, <3>4, <3>5, <3>7 DEF Planned
    <2> QED
        BY <2>1, <2>2
<1>4. Good(session, request, r)
    BY <1>1 DEF BaseInv, Good
<1>5. Good(session', request', epoch')
    BY <1>2, <1>3, <1>4, GoodKept DEF Ask, Planned
<1>6. prep' \in PrepType /\ epoch' \in Maybe
    BY AskedPrep DEF Ask, Maybe
<1> QED
    BY <1>3, <1>5, <1>6, BaseNow, BaseStep DEF Ask

(* The steps of the workers touch their own preparation only.              *)
LEMMA WorkerBase ==
    ASSUME BaseInv, NEW r \in Requests, Planned(request'), Kept(request'),
           UNCHANGED <<session, prep, epoch>>, host' \in HostType, world' \in WorldType
    PROVE  BaseInv'
BY BaseNow, BaseStep, GoodKept DEF Planned

LEMMA CharacterizeBase ==
    ASSUME BaseInv, NEW r \in Requests, NEW kind \in Families \cup {"shared"},
           Characterize(r, kind)
    PROVE  BaseInv'
<1> DEFINE x == [request[r] EXCEPT !.kind = kind,
                    !.phase = IF kind = "shared" \/ request[r].pred # None THEN "planned" ELSE "acquiring"]
<1>1. /\ request \in RequestType /\ Phased(request)
      /\ request[r].phase = "working" /\ request' = [request EXCEPT ![r] = x]
    BY BaseTypes DEF BaseInv, Characterize
<1> DEFINE phase == IF kind = "shared" \/ request[r].pred # None THEN "planned" ELSE "acquiring"
<1> phase \in Phases /\ x = [request[r] EXCEPT !.kind = kind, !.phase = phase]
    BY DEF Phases
<1> HIDE DEF phase, x
<1>2. /\ request' \in RequestType /\ request'[r] = x
      /\ \A e \in Requests \ {r} : request'[e] = request[e]
    BY <1>1 DEF RequestType
<1>3. /\ x.kind = kind /\ x.pred = request[r].pred /\ x.ok = request[r].ok
      /\ x.phase = IF kind = "shared" \/ x.pred # None THEN "planned" ELSE "acquiring"
    BY <1>1 DEF RequestType, phase
<1>4. Phased(request')
    BY <1>1, <1>2, <1>3 DEF Phased, Over, Attempted
<1>5. Planned(request') /\ Kept(request')
    BY <1>1, <1>2, <1>3, <1>4, StepsPlanned DEF Over
<1> QED
    BY <1>5, BaseNow, WorkerBase DEF Characterize

LEMMA CannotPlanBase ==
    ASSUME BaseInv, NEW r \in Requests, CannotPlan(r)
    PROVE  BaseInv'
<1> DEFINE x == [request[r] EXCEPT !.phase = "acquired"]
<1>1. /\ request \in RequestType /\ Phased(request)
      /\ request[r].phase = "working" /\ request' = [request EXCEPT ![r] = x]
    BY BaseTypes DEF BaseInv, CannotPlan
<1>2. /\ request' \in RequestType /\ request'[r] = x
      /\ \A e \in Requests \ {r} : request'[e] = request[e]
      /\ x.kind = request[r].kind /\ x.pred = request[r].pred /\ x.ok = request[r].ok
      /\ x.phase = "acquired"
    BY <1>1 DEF RequestType, Phases
<1>3. Phased(request')
    BY <1>1, <1>2 DEF Phased, Over, Attempted
<1>4. Planned(request') /\ Kept(request')
    BY <1>1, <1>2, <1>3, StepsPlanned DEF Over
<1> QED
    BY <1>4, BaseNow, WorkerBase DEF CannotPlan

LEMMA LoadedType ==
    ASSUME NEW h \in HostType, NEW e \in Requests, NEW ok
    PROVE  Loaded(h, e, ok) \in HostType
BY FreedType DEF Loaded, HostType, Maybe

LEMMA AcquireBase ==
    ASSUME BaseInv, NEW r \in Requests, NEW ok \in BOOLEAN, Acquire(r, ok)
    PROVE  BaseInv'
<1> DEFINE x == [request[r] EXCEPT !.ok = ok,
                    !.phase = IF @ = "acquiring" THEN "acquired" ELSE "prepared"]
<1>1. /\ request \in RequestType /\ Phased(request)
      /\ request[r].phase \in {"acquiring", "preparing"} /\ request' = [request EXCEPT ![r] = x]
    BY BaseTypes DEF BaseInv, Acquire, RequestType
<1> DEFINE phase == IF request[r].phase = "acquiring" THEN "acquired" ELSE "prepared"
<1> phase \in Phases /\ x = [request[r] EXCEPT !.ok = ok, !.phase = phase]
    BY <1>1 DEF Phases, RequestType
<1> HIDE DEF phase
<1>2. /\ request' \in RequestType /\ request'[r] = x
      /\ \A e \in Requests \ {r} : request'[e] = request[e]
      /\ x.kind = request[r].kind /\ x.pred = request[r].pred /\ x.ok = ok
      /\ x.phase = IF request[r].phase = "acquiring" THEN "acquired" ELSE "prepared"
    <2>1. /\ x \in [phase : Phases, kind : Families \cup {"shared", None}, gen : Nat,
                   pred : Maybe, outdated : BOOLEAN, ok : BOOLEAN,
                   result : Cleanups \cup {None}]
          /\ x.kind = request[r].kind /\ x.pred = request[r].pred /\ x.ok = ok
          /\ x.phase = phase
        <3>1. /\ request[r] \in [phase : Phases, kind : Families \cup {"shared", None}, gen : Nat,
                                  pred : Maybe, outdated : BOOLEAN, ok : BOOLEAN,
                                  result : Cleanups \cup {None}]
              /\ x = [request[r] EXCEPT !.ok = ok, !.phase = phase]
            BY <1>1 DEF RequestType
        <3> HIDE DEF x
        <3> QED
            BY <3>1
    <2> HIDE DEF x
    <2>2. /\ request' \in RequestType /\ request'[r] = x
          /\ \A e \in Requests \ {r} : request'[e] = request[e]
        BY <1>1, <2>1 DEF RequestType
    <2> QED
        BY <2>1, <2>2 DEF phase
<1> HIDE DEF x
<1>3. Phased(request')
    BY <1>1, <1>2 DEF Phased, Over, Attempted
<1>4. Planned(request') /\ Kept(request')
    BY <1>1, <1>2, <1>3, StepsPlanned DEF Over
<1> QED
    BY <1>4, BaseNow, WorkerBase, LoadedType DEF Acquire

LEMMA ReleaseBase ==
    ASSUME BaseInv, NEW r \in Requests, NEW a, Release(r, a)
    PROVE  BaseInv'
<1> DEFINE e == request[r].pred
           x == [request[r] EXCEPT !.phase = "released", !.result = Result(host, e, a)]
<1>1. /\ request \in RequestType /\ Phased(request)
      /\ request[r].phase = "releasing"
      /\ request' = [request EXCEPT ![r] = x] /\ e \in Maybe /\ a \in Answers(e)
    BY BaseTypes DEF BaseInv, Release, RequestType
<1>2. Result(host, e, a) \in Cleanups
    BY DEF Result, Cleanups
<1>3. /\ request' \in RequestType /\ request'[r] = x
      /\ \A d \in Requests \ {r} : request'[d] = request[d]
      /\ x.kind = request[r].kind /\ x.pred = request[r].pred /\ x.ok = request[r].ok
      /\ x.phase = "released"
    BY <1>1, <1>2 DEF RequestType, Phases
<1>4. Phased(request')
    BY <1>1, <1>3 DEF Phased, Over, Attempted
<1>5. Planned(request') /\ Kept(request')
    BY <1>1, <1>3, <1>4, StepsPlanned DEF Over
<1>6. host' \in HostType
    BY BaseTypes DEF BaseInv, Release, Released
<1>7. world' \in WorldType
    BY <1>1, HeardType DEF BaseInv, Release, WorldType
<1> QED
    BY <1>5, <1>6, <1>7, WorkerBase DEF Release

(* A preparation ends at the owner, and the session is as good as before.  *)
LEMMA EndsBase ==
    ASSUME BaseInv, NEW r \in Requests, request[r].phase \notin Over,
           request' \in {Answered(r), Superseded(r)},
           Good(session', request', epoch), host' \in HostType,
           epoch' = epoch, prep' \in PrepType, world' \in WorldType
    PROVE  BaseInv'
BY BaseNow, BaseStep, EndsPlanned

LEMMA NotPendingType ==
    ASSUME BaseInv
    PROVE  /\ [prep EXCEPT !.pending = FALSE] \in PrepType
           /\ \A r : [prep EXCEPT !.pending = @ /\ ~Current(r)] \in PrepType
           /\ Cancelled \in PrepType
<1>1. prep \in PrepType
    BY BaseNow
<1>2. \A r : (prep.pending /\ ~Current(r)) \in BOOLEAN
    BY <1>1 DEF PrepType
<1>3. Cancelled \in PrepType
    BY <1>1, AdvancedIs
<1> QED
    BY <1>1, <1>2, <1>3 DEF PrepType

LEMMA CompleteSupersededBase ==
    ASSUME BaseInv, NEW r \in Requests, NEW a, CompleteSuperseded(r, a)
    PROVE  BaseInv'
<1>1. /\ request[r].phase \notin Over /\ Candidate(r) \in Maybe
      /\ a \in Answers(Candidate(r))
      /\ request' = Superseded(r) /\ Becomes(Aborted(Now, Candidate(r), a))
      /\ world' = Heard(a)
    BY DEF CompleteSuperseded, Returned, Candidate, Maybe, Over
<1>2. Planned(request') /\ Kept(request') /\ request' \in RequestType
    BY <1>1, EndsPlanned DEF Planned
<1>3. Now \in World /\ Now.s = session /\ request \in RequestType
    BY BaseTypes DEF BaseInv
<1>4. Good(Now.s, request', epoch)
    BY <1>2, <1>3, BaseNow, GoodKept
<1>5. Aborted(Now, Candidate(r), a) \in World /\ Good(Aborted(Now, Candidate(r), a).s, request', epoch)
    BY <1>1, <1>3, <1>4, AbortedGood
<1>6. Good(session', request', epoch) /\ host' \in HostType
    BY <1>1, <1>5 DEF Becomes, World
<1>7. prep' \in PrepType /\ world' \in WorldType /\ epoch' = epoch
    BY <1>1, NotPendingType, HeardType DEF BaseInv, CompleteSuperseded, WorldType
<1> QED
    BY <1>1, <1>6, <1>7, EndsBase

LEMMA CompleteFailedBase ==
    ASSUME BaseInv, NEW r \in Requests, CompleteFailed(r)
    PROVE  BaseInv'
<1>1. request[r].phase \notin Over /\ request' = Answered(r)
    BY DEF CompleteFailed, Over
<1>2. Planned(request') /\ Kept(request') /\ request \in RequestType
    BY <1>1, EndsPlanned, BaseTypes DEF BaseInv
<1>3. Good(session, request', epoch)
    BY <1>2, BaseNow, GoodKept DEF Planned
<1> QED
    BY <1>1, <1>3, BaseNow, NotPendingType, EndsBase DEF CompleteFailed

LEMMA DeliveredGood ==
    ASSUME NEW w \in World, NEW r, NEW q \in RequestType, NEW ep, Good(w.s, q, ep)
    PROVE  Delivered(w, r) \in World /\ Good(Delivered(w, r).s, q, ep)
BY AbortMediaGood DEF Delivered

LEMMA CompleteSharedBase ==
    ASSUME BaseInv, NEW r \in Requests, NEW a, CompleteShared(r, a)
    PROVE  BaseInv'
<1> DEFINE begun == SharedBegun(Now, r, a)
           e == IF session.mode = "managed" THEN session.prepared ELSE None
<1>1. /\ request[r].phase \notin Over /\ request' = Answered(r)
      /\ a \in Answers(e)
      /\ epoch' = epoch /\ prep' = [prep EXCEPT !.pending = FALSE]
    BY DEF CompleteShared, Over
<1>2. /\ Planned(request') /\ Kept(request') /\ request' \in RequestType
      /\ request'[r].phase \in Over
    BY <1>1, EndsPlanned DEF Planned
<1>3. Now \in World /\ Now.s = session /\ request \in RequestType
    BY BaseTypes DEF BaseInv
<1>4. Good(Now.s, request', epoch)
    BY <1>2, <1>3, BaseNow, GoodKept
<1>5. CASE SharedBegins(session)
    <2>1. Becomes(Delivered(begun, r)) /\ world' = Heard(a)
        BY <1>5 DEF CompleteShared
    <2>2. begun \in World /\ Good(begun.s, request', epoch)
        BY <1>2, <1>3, <1>4, <1>5, SharedBegunGood
    <2> HIDE DEF begun
    <2>3. Delivered(begun, r) \in World /\ Good(Delivered(begun, r).s, request', epoch)
        BY <1>2, <2>2, DeliveredGood
    <2>4. Good(session', request', epoch) /\ host' \in HostType
        BY <2>1, <2>3 DEF Becomes, World
    <2>5. world' \in WorldType
        BY <1>1, <2>1, HeardType DEF BaseInv, WorldType
    <2> QED
        BY <1>1, <2>4, <2>5, NotPendingType, EndsBase
<1>6. CASE ~SharedBegins(session)
    <2>1. UNCHANGED <<session, host, world>>
        BY <1>6 DEF CompleteShared
    <2> QED
        BY <1>1, <1>3, <1>4, <2>1, BaseNow, NotPendingType, EndsBase
<1> QED
    BY <1>5, <1>6

LEMMA CompleteFastBase ==
    ASSUME BaseInv, NEW r \in Requests, NEW a, CompleteFast(r, a)
    PROVE  BaseInv'
<1> DEFINE begun == Begun(Now, r, a)
           stale == BindingStale(r) /\ Family(r) # "native_dsd"
           e == IF stale THEN r ELSE session.prepared
<1>1. /\ request[r].phase \notin Over /\ request' = Answered(r) /\ request[r].ok
      /\ a \in Answers(e) /\ world' = Heard(a)
      /\ epoch' = epoch /\ prep' = [prep EXCEPT !.pending = FALSE]
    BY DEF CompleteFast, Over
<1>2. /\ Planned(request') /\ Kept(request') /\ request' \in RequestType
      /\ request'[r].phase \in Over /\ SameKinds(request')
      /\ request'[r].kind = request[r].kind
    BY <1>1, EndsPlanned DEF Planned
<1>3. Now \in World /\ Now.s = session /\ request \in RequestType /\ r \in Maybe
    BY BaseTypes DEF BaseInv, Maybe
<1>4. Good(Now.s, request', epoch)
    BY <1>2, <1>3, BaseNow, GoodKept
<1>5. Execution(r, request')
    BY <1>1, <1>2 DEF BaseInv, Phased, Execution
<1>6. Good(session', request', epoch) /\ host' \in HostType
    <2>1. CASE stale
        <3>1. Aborted(Now, r, a) \in World /\ Good(Aborted(Now, r, a).s, request', epoch)
            BY <1>3, <1>4, AbortedGood
        <3>2. Becomes(Aborted(Now, r, a))
            BY <2>1 DEF CompleteFast
        <3> QED
            BY <3>1, <3>2 DEF Becomes, World
    <2>2. CASE ~stale
        <3>1. Becomes(Delivered(begun, r))
            BY <2>2 DEF CompleteFast
        <3>2. begun \in World /\ Good(begun.s, request', epoch)
            BY <1>2, <1>3, <1>4, <1>5, BegunGood
        <3> HIDE DEF begun
        <3>3. Delivered(begun, r) \in World /\ Good(Delivered(begun, r).s, request', epoch)
            BY <1>2, <3>2, DeliveredGood
        <3> QED
            BY <3>1, <3>3 DEF Becomes, World
    <2> QED
        BY <2>1, <2>2
<1>7. world' \in WorldType
    BY <1>1, HeardType DEF BaseInv, WorldType
<1> QED
    BY <1>1, <1>6, <1>7, NotPendingType, EndsBase

(* The step that a handover takes.                                         *)
LEMMA PhaseSteps ==
    ASSUME BaseInv, NEW r \in Requests, NEW from, NEW to \in Attempted,
           request[r].phase \notin {"unasked"} \cup Over,
           request[r].kind \in Families, request[r].pred # None, ~request[r].ok,
           request' = [request EXCEPT ![r].phase = to]
    PROVE  Planned(request') /\ Kept(request')
<1> DEFINE x == [request[r] EXCEPT !.phase = to]
<1>1. /\ request \in RequestType /\ Phased(request) /\ request' = [request EXCEPT ![r] = x]
    BY BaseTypes DEF BaseInv
<1>2. /\ request' \in RequestType /\ request'[r] = x
      /\ \A e \in Requests \ {r} : request'[e] = request[e]
      /\ x.kind = request[r].kind /\ x.pred = request[r].pred /\ x.ok = request[r].ok
      /\ x.phase = to
    BY <1>1 DEF RequestType, Phases, Attempted
<1> HIDE DEF x
<1>3. Phased(request')
    BY <1>1, <1>2 DEF Phased, Over, Attempted
<1> QED
    BY <1>1, <1>2, <1>3, StepsPlanned

LEMMA BeginHandoverBase ==
    ASSUME BaseInv, NEW r \in Requests, BeginHandover(r)
    PROVE  BaseInv'
<1>1. /\ request[r].phase = "planned" /\ r # None /\ Family(r) = request[r].kind
      /\ UNCHANGED <<session, host, epoch, world>>
    BY OutputAssumption DEF BeginHandover, Family
<1>2. request \in RequestType /\ Phased(request) /\ prep \in PrepType /\ r \in Maybe
    BY BaseNow DEF Planned, Maybe
<1>3. request[r].kind \in Families /\ request[r].pred # None /\ ~request[r].ok
    BY <1>1, <1>2 DEF BeginHandover, Phased, RequestType
<1>4. Planned(request') /\ Kept(request') /\ prep' \in PrepType
    <2>1. CASE InFlight(r)
        <3>1. request' = Answered(r) /\ prep.reservation \in Requests
            BY <1>2, <2>1 DEF BeginHandover, RefuseHandover, InFlight, PrepType, Maybe
        <3>2. prep' = [prep EXCEPT !.generation = request[prep.reservation].gen,
                                   !.attempt = prep.reservation, !.pending = FALSE]
            BY <2>1 DEF BeginHandover, RefuseHandover
        <3>3. prep' \in PrepType
            BY <1>2, <3>1, <3>2 DEF PrepType, RequestType, Maybe
        <3> QED
            BY <1>1, <3>1, <3>3, EndsPlanned DEF Over
    <2>2. CASE ~InFlight(r) /\ PreflightFails(r)
        <3>1. request' = Answered(r) /\ prep' = [prep EXCEPT !.attempt = r, !.pending = FALSE]
            BY <2>2 DEF BeginHandover
        <3> QED
            BY <1>1, <1>2, <3>1, EndsPlanned DEF Over, PrepType
    <2>3. CASE ~InFlight(r) /\ ~PreflightFails(r)
        <3>1. /\ request' = [request EXCEPT ![r].phase = "releasing"]
              /\ prep' = [prep EXCEPT !.attempt = r, !.reservation = r, !.pending = FALSE]
            BY <2>3 DEF BeginHandover
        <3>2. Planned(request') /\ Kept(request')
            BY <1>1, <1>3, <3>1, PhaseSteps DEF Over, Attempted
        <3> QED
            BY <1>2, <3>1, <3>2 DEF PrepType
    <2> QED
        BY <2>1, <2>2, <2>3
<1>5. Good(session', request', epoch')
    BY <1>1, <1>2, <1>4, BaseNow, GoodKept DEF Planned
<1> QED
    BY <1>1, <1>4, <1>5, BaseNow, BaseStep

LEMMA RetainedGood ==
    ASSUME NEW s, NEW e \in Maybe, NEW q, NEW ep, Good(s, q, ep)
    PROVE  Good(Retained(s, e), q, ep)
<1> DEFINE c == IF s.cleanup = None THEN e ELSE s.cleanup
<1>1. s \in SessionType /\ c \in Maybe
    BY DEF Good, SessionType
<1>2. Retained(s, e) = Cleanup(s, c, Taken(s, e)) /\ Taken(s, e) \in BOOLEAN
    BY <1>1, CleanupIs
<1> HIDE DEF c
<1> QED
    BY <1>1, <1>2, GoodWhateverCleanup

LEMMA CompleteReleaseBase ==
    ASSUME BaseInv, NEW r \in Requests, CompleteRelease(r)
    PROVE  BaseInv'
<1> DEFINE e == request[r].pred
           s == IF Confirms(r) THEN Reconciled(session, e) ELSE session
<1>1. /\ request[r].phase = "released"
      /\ prep' = [prep EXCEPT !.reservation = IF @ = r THEN None ELSE @]
      /\ UNCHANGED <<host, epoch, world>>
    BY DEF CompleteRelease
<1>2. /\ request \in RequestType /\ Phased(request) /\ prep \in PrepType /\ e \in Maybe
      /\ session \in SessionType
    BY BaseTypes, BaseNow DEF Planned, RequestType, BaseInv
<1>3. request[r].kind \in Families /\ request[r].pred # None /\ ~request[r].ok
    BY <1>1, <1>2 DEF Phased, RequestType, Attempted
<1>4. Planned(request') /\ Kept(request') /\ session' \in {s, Retained(s, e)}
    <2>1. CASE StaleAttempt(r)
        BY <1>1, <2>1, EndsPlanned DEF CompleteRelease, Over
    <2>2. CASE ~StaleAttempt(r) /\ ~Confirms(r)
        BY <1>1, <2>2, EndsPlanned DEF CompleteRelease, Over
    <2>3. CASE ~StaleAttempt(r) /\ Confirms(r)
        <3>1. session' = s /\ request' = [request EXCEPT ![r].phase = "preparing"]
            BY <2>3 DEF CompleteRelease
        <3> QED
            BY <1>1, <1>3, <3>1, PhaseSteps DEF Over, Attempted
    <2> QED
        BY <2>1, <2>2, <2>3
<1>5. Good(session, request', epoch)
    BY <1>2, <1>4, BaseNow, GoodKept DEF Planned
<1>6. Good(s, request', epoch)
    BY <1>2, <1>4, <1>5, ReconciledGood DEF Planned
<1> HIDE DEF s
<1>7. Good(session', request', epoch')
    BY <1>1, <1>2, <1>4, <1>6, RetainedGood
<1>8. prep' \in PrepType
    BY <1>1, <1>2, OutputAssumption DEF PrepType, Maybe
<1> QED
    BY <1>1, <1>4, <1>7, <1>8, BaseNow, BaseStep

LEMMA CompletePrepareBase ==
    ASSUME BaseInv, NEW r \in Requests, NEW a \in Replies, CompletePrepare(r, a)
    PROVE  BaseInv'
<1> DEFINE over    == StaleAttempt(r) \/ (request[r].ok /\ request[r].outdated)
           unbound == BindingStale(r) /\ Family(r) # "native_dsd"
           commits == request[r].ok /\ ~over /\ ~unbound /\ Begins(Now, r, "truth")
           e == Candidate(r)
           aborted == Aborted(Now, e, a)
           begun == Begun(Now, r, a)
<1>1. /\ request[r].phase = "prepared" /\ world' = Heard(a) /\ UNCHANGED <<prep, epoch>>
      /\ request[r].phase \notin Over
      /\ a \in (IF commits THEN {"truth"} ELSE Answers(e))
    BY DEF CompletePrepare, Over
<1>2. /\ request' \in {Answered(r), Superseded(r)} /\ e \in Maybe
      /\ \/ commits /\ Becomes(Delivered(begun, r))
         \/ Becomes(Aborted(aborted, e, "truth"))
         \/ Becomes(aborted)
    <2> HIDE DEF aborted, begun
    <2> QED
        BY DEF CompletePrepare, Candidate, Maybe, aborted, begun
<1>3. /\ Planned(request') /\ Kept(request') /\ request' \in RequestType
      /\ request'[r].phase \in Over /\ SameKinds(request')
      /\ request'[r].kind = request[r].kind
    BY <1>1, <1>2, EndsPlanned DEF Planned
<1>4. Now \in World /\ Now.s = session /\ request \in RequestType
    BY BaseTypes DEF BaseInv
<1>5. Good(Now.s, request', epoch)
    BY <1>3, <1>4, BaseNow, GoodKept
<1>6. aborted \in World /\ Good(aborted.s, request', epoch)
    BY <1>2, <1>4, <1>5, AbortedGood
<1>7. Aborted(aborted, e, "truth") \in World /\ Good(Aborted(aborted, e, "truth").s, request', epoch)
    <2> HIDE DEF aborted, e
    <2> QED
        BY <1>2, <1>6, AbortedGood
<1>8. ASSUME commits
      PROVE  Delivered(begun, r) \in World /\ Good(Delivered(begun, r).s, request', epoch)
    <2>1. Execution(r, request')
        BY <1>1, <1>3, <1>8 DEF BaseInv, Phased, Execution
    <2>2. begun \in World /\ Good(begun.s, request', epoch)
        BY <1>3, <1>4, <1>5, <2>1, BegunGood
    <2> HIDE DEF begun
    <2> QED
        BY <1>3, <2>2, DeliveredGood
<1> HIDE DEF aborted, begun
<1>9. Good(session', request', epoch) /\ host' \in HostType
    BY <1>2, <1>6, <1>7, <1>8 DEF Becomes, World
<1>10. world' \in WorldType
    <2>1. a \in Answers(e) \/ a \in Answers(None)
        BY <1>1 DEF Answers
    <2> QED
        BY <1>1, <2>1, HeardType DEF BaseInv, WorldType
<1> QED
    BY <1>1, <1>2, <1>9, <1>10, BaseNow, EndsBase

LEMMA CommitBase ==
    ASSUME BaseInv, Commit
    PROVE  BaseInv'
<1>1. /\ session.token # None /\ session.token = epoch
      /\ session' = [session EXCEPT !.state = IF session.mode = "shared" THEN @ ELSE "RUNNING"]
      /\ epoch' = None /\ UNCHANGED <<prep, request, host, world>>
    BY DEF Commit, Awaited
<1>2. Good(session, request, epoch) /\ session \in SessionType
    BY BaseTypes DEF BaseInv
<1>3. Good(session', request, None)
    <2>1. CASE session.mode = "shared"
        <3>1. session' = session
            BY <1>1, <1>2, <2>1 DEF SessionType
        <3> QED
            BY <3>1, BaseNow
    <2>2. CASE session.mode # "shared"
        <3>1. session' = [session EXCEPT !.state = "RUNNING"]
            BY <1>1, <2>2
        <3>2. session.state # "RELEASING" /\ ~session.lost
            BY <1>1, <1>2 DEF Good
        <3>3. session.token = session.prepared
            BY <1>1, <1>2, <2>2, <3>2 DEF Good
        <3> QED
            BY <1>1, <1>2, <2>2, <3>1, <3>2, <3>3 DEF Good, SessionType, States, Live
    <2> QED
        BY <2>1, <2>2
<1> QED
    BY <1>1, <1>3, BaseNow, BaseStep DEF Maybe

(* The owner gives the output up, or loses it: nobody waits any more.      *)
LEMMA OwnerBase ==
    ASSUME BaseInv, UNCHANGED request, epoch' = None, Good(session', request, None),
           host' \in HostType, prep' \in PrepType, world' \in WorldType
    PROVE  BaseInv'
BY BaseNow, BaseStep DEF Maybe

LEMMA CommitFailsBase ==
    ASSUME BaseInv, NEW a, CommitFails(a)
    PROVE  BaseInv'
<1> DEFINE aborted == AbortMedia(Now, epoch, a)
<1>1. /\ Becomes([aborted EXCEPT !.h = Freed(@)]) /\ a \in Answers(session.prepared)
      /\ epoch' = None /\ world' = Heard(a) /\ UNCHANGED <<prep, request>>
    BY DEF CommitFails
<1>2. aborted \in World /\ Good(aborted.s, request, None)
    BY BaseNow, BaseTypes, AbortMediaGood DEF BaseInv, Planned
<1> HIDE DEF aborted
<1>3. session' = aborted.s /\ host' = Freed(aborted.h)
    BY <1>1, <1>2 DEF Becomes, World
<1>4. host' \in HostType
    BY <1>2, <1>3, FreedType DEF World
<1>5. world' \in WorldType
    BY <1>1, HeardType DEF BaseInv, WorldType
<1> QED
    BY <1>1, <1>2, <1>3, <1>4, <1>5, BaseNow, OwnerBase

LEMMA LoadFailsBase ==
    ASSUME BaseInv, NEW a, LoadFails(a)
    PROVE  BaseInv'
<1>1. /\ Becomes(AbortMedia(Now, epoch, a)) /\ MoreEvents
      /\ a \in Answers(IF session.mode = "shared" THEN None ELSE session.prepared)
      /\ epoch' = None /\ world' = Happens(a) /\ UNCHANGED <<prep, request>>
    BY DEF LoadFails
<1>2. AbortMedia(Now, epoch, a) \in World /\ Good(AbortMedia(Now, epoch, a).s, request, None)
    BY BaseNow, BaseTypes, AbortMediaGood DEF BaseInv, Planned
<1>3. Good(session', request, None) /\ host' \in HostType
    BY <1>1, <1>2 DEF Becomes, World
<1>4. world' \in WorldType
    BY <1>1, HeardType DEF BaseInv, WorldType
<1> QED
    BY <1>1, <1>3, <1>4, BaseNow, OwnerBase

LEMMA StopBase ==
    ASSUME BaseInv, NEW a, Stop(a)
    PROVE  BaseInv'
<1> DEFINE w == [Now EXCEPT !.h = Freed(@)]
<1>1. /\ Becomes(ReleaseActive(w, a)) /\ MoreEvents /\ a \in Answers(Given(session))
      /\ epoch' = None /\ prep' = Cancelled /\ world' = Happens(a) /\ UNCHANGED request
    BY DEF Stop
<1>2. w \in World /\ Good(w.s, request, epoch)
    BY BaseNow, BaseTypes DEF BaseInv
<1> HIDE DEF w
<1>3. ReleaseActive(w, a) \in World /\ Good(ReleaseActive(w, a).s, request, None)
    BY <1>2, BaseNow, ReleaseActiveGood DEF Planned
<1>4. Good(session', request, None) /\ host' \in HostType
    BY <1>1, <1>3 DEF Becomes, World
<1>5. world' \in WorldType
    BY <1>1, HeardType DEF BaseInv, WorldType
<1> QED
    BY <1>1, <1>4, <1>5, NotPendingType, OwnerBase

LEMMA EngineLostBase ==
    ASSUME BaseInv, EngineLost
    PROVE  BaseInv'
<1> DEFINE w == [Now EXCEPT !.h = [holds |-> None, receipt |-> None]]
<1>1. /\ Becomes(ReleaseActive(w, "truth")) /\ MoreEvents
      /\ epoch' = None /\ prep' = Cancelled /\ world' = Happens("truth") /\ UNCHANGED request
    BY DEF EngineLost
<1>2. w \in World /\ Good(w.s, request, epoch)
    BY BaseNow, BaseTypes DEF BaseInv, World, HostType, Maybe
<1> HIDE DEF w
<1>3. ReleaseActive(w, "truth") \in World /\ Good(ReleaseActive(w, "truth").s, request, None)
    BY <1>2, BaseNow, ReleaseActiveGood DEF Planned
<1>4. Good(session', request, None) /\ host' \in HostType
    BY <1>1, <1>3 DEF Becomes, World
<1>5. world' \in WorldType
    BY <1>1, HeardType DEF BaseInv, WorldType, Answers
<1> QED
    BY <1>1, <1>4, <1>5, NotPendingType, OwnerBase

LEMMA ReselectBase ==
    ASSUME BaseInv, Reselect
    PROVE  BaseInv'
<1>1. /\ prep' = Cancelled /\ world' = Happens("truth") /\ MoreEvents
      /\ request' = [r \in Requests |-> [request[r] EXCEPT !.outdated =
                        request[r].phase \notin {"unasked", "answered", "superseded"}]]
      /\ UNCHANGED <<session, host, epoch>>
    BY DEF Reselect
<1>2. request \in RequestType /\ Phased(request) /\ Referred(request)
    BY BaseTypes DEF BaseInv
<1>3. request' \in RequestType
    <2>1. \A r \in Requests : (request[r].phase \notin {"unasked", "answered", "superseded"}) \in BOOLEAN
        OBVIOUS
    <2> QED
        BY <1>1, <1>2, <2>1 DEF RequestType
<1>4. \A r \in Requests : /\ request'[r].phase = request[r].phase
                          /\ request'[r].kind = request[r].kind
                          /\ request'[r].pred = request[r].pred
                          /\ request'[r].ok = request[r].ok
    BY <1>1, <1>2 DEF RequestType
<1>5. Phased(request') /\ Kept(request')
    BY <1>2, <1>4 DEF Phased, Kept
<1>6. Referred(request')
    BY <1>2, <1>3, <1>4, <1>5, KeepsReferences
<1>7. Good(session', request', epoch')
    BY <1>1, <1>2, <1>3, <1>5, BaseNow, GoodKept
<1>8. world' \in WorldType
    BY <1>1, HeardType DEF BaseInv, WorldType, Answers
<1> QED
    BY <1>1, <1>3, <1>5, <1>6, <1>7, <1>8, BaseNow, NotPendingType, BaseStep DEF Planned

LEMMA DeviceGoesBase ==
    ASSUME BaseInv, DeviceGoes
    PROVE  BaseInv'
<1>1. /\ world' = [Happens("truth") EXCEPT !.present = FALSE] /\ MoreEvents
      /\ UNCHANGED <<session, prep, request, host, epoch>>
    BY DEF DeviceGoes
<1>2. world' \in WorldType
    BY <1>1, HeardType DEF BaseInv, WorldType, Answers
<1> QED
    BY <1>1, <1>2, BaseNow, BaseStep

LEMMA DeviceLostBase ==
    ASSUME BaseInv, NEW a, DeviceLost(a)
    PROVE  BaseInv'
<1> DEFINE w == [Now EXCEPT !.h = Freed(@)]
<1>1. /\ Becomes(Lost(w, a)) /\ MoreEvents /\ a \in Answers(Given(session))
      /\ epoch' = None /\ prep' = Cancelled /\ UNCHANGED request
      /\ world' = [Happens(a) EXCEPT !.present = FALSE]
    BY DEF DeviceLost
<1>2. w \in World /\ Good(w.s, request, epoch)
    BY BaseNow, BaseTypes DEF BaseInv
<1> HIDE DEF w
<1>3. Lost(w, a) \in World /\ Good(Lost(w, a).s, request, None)
    BY <1>2, BaseNow, LostGood DEF Planned
<1>4. Good(session', request, None) /\ host' \in HostType
    BY <1>1, <1>3 DEF Becomes, World
<1>5. world' \in WorldType
    BY <1>1, HeardType DEF BaseInv, WorldType
<1> QED
    BY <1>1, <1>4, <1>5, NotPendingType, OwnerBase

LEMMA DeviceReturnsBase ==
    ASSUME BaseInv, DeviceReturns
    PROVE  BaseInv'
<1> DEFINE found == [session EXCEPT !.state = "IDLE", !.mode = "shared", !.lost = FALSE]
<1>1. /\ world' = [world EXCEPT !.present = TRUE]
      /\ UNCHANGED <<prep, request, host, epoch>>
      /\ session' = session \/ (session.lost /\ session' = found)
    BY DEF DeviceReturns
<1>2. Good(session, request, epoch) /\ session \in SessionType
    BY BaseTypes DEF BaseInv
<1>3. session.lost => Good(found, request, epoch)
    BY <1>2, OutputAssumption DEF Good, SessionType, States, Live
<1>4. world' \in WorldType
    BY <1>1, BaseNow DEF WorldType
<1> HIDE DEF found
<1> QED
    BY <1>1, <1>2, <1>3, <1>4, BaseNow, BaseStep

LEMMA InitBase == Init => BaseInv
<1> SUFFICES ASSUME Init PROVE BaseInv
    OBVIOUS
<1>1. TypeOK
    BY OutputAssumption DEF Init, TypeOK, Unasked, States, Phases
<1>2. Phased(request) /\ Referred(request)
    BY DEF Init, Unasked, Phased, Referred, Over, Attempted
<1>3. Good(session, request, epoch)
    BY <1>1, BaseTypes, OutputAssumption DEF Init, Good, Live
<1> QED
    BY <1>1, <1>2, <1>3 DEF BaseInv

LEMMA BaseInductive == BaseInv /\ [Next]_vars => BaseInv'
<1> SUFFICES ASSUME BaseInv, [Next]_vars PROVE BaseInv'
    OBVIOUS
<1>1. ASSUME NEW r \in Requests, Ask(r) PROVE BaseInv'
    BY <1>1, AskBase
<1>2. ASSUME NEW r \in Requests, Steps(r) PROVE BaseInv'
    <2>1. ASSUME NEW kind \in Families \cup {"shared"}, Characterize(r, kind) PROVE BaseInv'
        BY <2>1, CharacterizeBase
    <2>2. CASE CannotPlan(r)
        BY <2>2, CannotPlanBase
    <2>3. ASSUME NEW ok \in BOOLEAN, Acquire(r, ok) PROVE BaseInv'
        BY <2>3, AcquireBase
    <2>4. CASE CompleteFailed(r)
        BY <2>4, CompleteFailedBase
    <2>5. CASE BeginHandover(r)
        BY <2>5, BeginHandoverBase
    <2>6. CASE CompleteRelease(r)
        BY <2>6, CompleteReleaseBase
    <2>7. ASSUME NEW a \in Replies,
                 \/ Release(r, a) \/ CompleteSuperseded(r, a) \/ CompleteShared(r, a)
                 \/ CompleteFast(r, a) \/ CompletePrepare(r, a)
          PROVE  BaseInv'
        BY <2>7, ReleaseBase, CompleteSupersededBase, CompleteSharedBase, CompleteFastBase,
           CompletePrepareBase
    <2> QED
        BY <1>2, <2>1, <2>2, <2>3, <2>4, <2>5, <2>6, <2>7 DEF Steps, Replies
<1>3. CASE Commit \/ EngineLost \/ Reselect \/ DeviceGoes \/ DeviceReturns
    BY <1>3, CommitBase, EngineLostBase, ReselectBase, DeviceGoesBase, DeviceReturnsBase
<1>4. ASSUME NEW a \in Replies, CommitFails(a) \/ LoadFails(a) \/ Stop(a) \/ DeviceLost(a)
      PROVE  BaseInv'
    BY <1>4, CommitFailsBase, LoadFailsBase, StopBase, DeviceLostBase
<1>5. CASE UNCHANGED vars
    BY <1>5, BaseNow, BaseStep DEF vars, BaseInv
<1> QED
    BY <1>1, <1>2, <1>3, <1>4, <1>5 DEF Next, Replies

LEMMA BaseInvariant == Spec => []BaseInv
BY InitBase, BaseInductive, PTL DEF Spec

LEMMA BaseConsistent == BaseInv => Consistent
<1> SUFFICES ASSUME BaseInv PROVE Consistent
    OBVIOUS
<1>1. TypeOK /\ Good(session, request, epoch) /\ session \in SessionType
    BY BaseTypes DEF BaseInv
<1>2. \A e \in Requests : Family(e) = request[e].kind
    BY OutputAssumption DEF Family
<1> QED
    BY <1>1, <1>2 DEF Consistent, Good, SessionType, Maybe

(* Whatever is asked, lost, stopped and answered, in whatever order: the   *)
(* session is READY or RUNNING only for the execution it has prepared, in  *)
(* its mode, and a LOST session holds nothing.                             *)
THEOREM SessionIsConsistent == Spec => []Consistent
BY BaseInvariant, BaseConsistent, PTL

-----------------------------------------------------------------------------
(* The clock of the preparations.  That it is fresh when it advances makes *)
(* the generation of a preparation its own, and the preparation that is    *)
(* current the last one that was asked for, unless a handover was refused: *)
(* then it is the handover under way.                                      *)

Unreserved  == {"working", "planned", "acquiring", "acquired"}
NoneCurrent == \A r \in Requests : UnderWay(r) => ~Current(r)

Clocked ==
    /\ \A r, q \in Requests :
          UnderWay(r) /\ UnderWay(q) /\ request[r].gen = request[q].gen => r = q
    /\ \A r, q \in Requests :
          request[q].phase \in Unreserved /\ Current(q) /\ UnderWay(r)
          => request[r].gen <= request[q].gen
    /\ prep.reservation # None => request[prep.reservation].phase \in {"releasing", "released"}

(* An execution that is prepared no more never is again: preparations that *)
(* observed another one later know that it is not.                         *)
Successive ==
    \A r, q \in Requests :
        /\ UnderWay(r) /\ UnderWay(q) /\ request[r].gen < request[q].gen
        /\ request[r].pred # None /\ request[r].pred # request[q].pred
        => session.prepared # request[r].pred

(* A handover that lost the reservation to a later one releases what is    *)
(* prepared no more, and none of those that would release it is current.   *)
Unrepeated ==
    \A r \in Requests :
        request[r].phase = "releasing" /\ prep.reservation # r =>
            /\ session.prepared # request[r].pred
            /\ \A q \in Requests :
                  request[q].phase \in Unreserved /\ request[q].pred = request[r].pred
                  => ~Current(q)

OneRelease ==
    \A r, q \in Requests : r # q =>
        ~(/\ request[r].phase = "releasing" /\ request[q].phase = "releasing"
          /\ request[r].pred = request[q].pred)

(* Playback has what it waits for: the preparation that was current ended. *)
LastAwaited == session.token # None /\ session.token = epoch => NoneCurrent

ClockInv == BaseInv /\ Clocked /\ Successive /\ Unrepeated /\ OneRelease /\ LastAwaited

Fresh == prep'.generation > prep.generation =>
             \A r \in Requests : UnderWay(r) => request[r].gen < prep'.generation

(* Steps that begin no handover: a preparation moves on, or ends.          *)
Moves(q) ==
    /\ UnderWay(q)' => /\ UnderWay(q) /\ request'[q].gen = request[q].gen
                       /\ request'[q].pred = request[q].pred
    /\ request'[q].phase \in Unreserved => request[q].phase \in Unreserved
    /\ request'[q].phase = "releasing" => request[q].phase = "releasing"

Stays(q) == request[q].phase \in {"releasing", "released"} =>
                request'[q].phase \in {"releasing", "released"}

(* What was released is reserved no more.                                  *)
Reserves ==
    \/ prep'.reservation = prep.reservation /\ \A q \in Requests : Stays(q)
    \/ \E r \in Requests :
          /\ request[r].phase = "released" /\ \A q \in Requests \ {r} : Stays(q)
          /\ prep'.reservation = IF prep.reservation = r THEN None ELSE prep.reservation

NewlyPrepared == \/ session'.prepared \in {session.prepared, None}
                 \/ ~Execution(session'.prepared, request)

Quiet ==
    /\ \A q \in Requests : Moves(q)
    /\ Reserves
    /\ prep'.generation = prep.generation \/ NoneCurrent'
    /\ NewlyPrepared
    /\ (session'.token \in {session.token, None} /\ epoch' \in {epoch, None}) \/ NoneCurrent'

LEMMA ClockTypes ==
    ASSUME BaseInv
    PROVE  /\ request \in RequestType
           /\ \A r \in Requests : request[r].gen \in Nat /\ request[r].pred \in Maybe
           /\ prep.generation \in Nat /\ prep.reservation \in Maybe
           /\ session.prepared \in Maybe
           /\ \A r \in Requests : request[r].pred # None => Execution(request[r].pred, request)
           /\ \A r \in Requests : request[r].phase \in Attempted => request[r].pred # None
           /\ session.prepared # None => Execution(session.prepared, request)
BY BaseNow, BaseTypes
DEF BaseInv, RequestType, PrepType, SessionType, Phased, Referred, Good

LEMMA QuietKeepsClock ==
    ASSUME ClockInv, BaseInv', Quiet
    PROVE  ClockInv'
<1> USE ClockTypes DEF ClockInv
<1>1. \A r \in Requests :
         /\ Execution(request[r].pred, request) /\ NewlyPrepared
         /\ session'.prepared = request[r].pred /\ request[r].pred # None
         => session.prepared = request[r].pred
    BY DEF NewlyPrepared
<1>2. \A r \in Requests : UnderWay(r)' /\ Current(r)' => Current(r)
    BY DEF Quiet, NoneCurrent, Moves, Current
<1>3. \A r \in Requests : UnderWay(r)' => /\ UnderWay(r) /\ request'[r].gen = request[r].gen
                                          /\ request'[r].pred = request[r].pred
    BY DEF Quiet, Moves
<1>4. \A r \in Requests : /\ request'[r].phase \in Unreserved => UnderWay(r)' /\ request[r].phase \in Unreserved
                          /\ request'[r].phase = "releasing" => UnderWay(r)' /\ request[r].phase = "releasing"
    BY DEF Quiet, Moves, UnderWay, Unreserved
<1>5. Clocked'
    <2>1. \A r, q \in Requests :
             UnderWay(r)' /\ UnderWay(q)' /\ request'[r].gen = request'[q].gen => r = q
        BY <1>3 DEF Clocked
    <2>2. \A r, q \in Requests :
             request'[q].phase \in Unreserved /\ Current(q)' /\ UnderWay(r)'
             => request'[r].gen <= request'[q].gen
        BY <1>2, <1>3, <1>4 DEF Clocked
    <2>3. prep'.reservation # None => request'[prep'.reservation].phase \in {"releasing", "released"}
        BY DEF Clocked, Quiet, Reserves, Stays, Maybe
    <2> QED
        BY <2>1, <2>2, <2>3 DEF Clocked
<1>6. Successive'
    BY <1>1, <1>3 DEF Successive, Quiet
<1>7. Unrepeated'
    <2>1. ASSUME NEW r \in Requests, request'[r].phase = "releasing", prep'.reservation # r
          PROVE  prep.reservation # r
        BY <1>4, <2>1 DEF Quiet, Reserves
    <2> QED
        BY <1>1, <1>2, <1>3, <1>4, <2>1 DEF Unrepeated, Quiet, Attempted
<1>8. OneRelease'
    BY <1>3, <1>4 DEF OneRelease
<1>9. LastAwaited'
    <2>1. NoneCurrent => NoneCurrent'
        BY <1>2, <1>3 DEF NoneCurrent
    <2> QED
        BY <2>1 DEF LastAwaited, Quiet
<1> QED
    BY <1>5, <1>6, <1>7, <1>8, <1>9

-----------------------------------------------------------------------------
(* What the operators of the session do to what is prepared and held.      *)

LEMMA AbortedEffect ==
    ASSUME NEW w \in World, NEW e \in Maybe, NEW a
    PROVE  /\ Aborted(w, e, a) \in World
           /\ Aborted(w, e, a).s.prepared = w.s.prepared
           /\ Aborted(w, e, a).s.token = w.s.token
           /\ Aborted(w, e, a).s.mode = w.s.mode
           /\ Aborted(w, e, a).s.cleanup \in {w.s.cleanup, e, None}
           /\ Aborted(w, e, a).h.holds \in {w.h.holds, None}
<1>1. PICK c \in {w.s.cleanup, e, None}, f \in BOOLEAN : Aborted(w, e, a).s = Cleanup(w.s, c, f)
    BY AbortedIs
<1>2. w.s \in SessionType /\ Freed(w.h).holds = None /\ c \in Maybe
    BY DEF World, Freed, SessionType, Maybe
<1>3. Aborted(w, e, a) \in World /\ Aborted(w, e, a).h \in {w.h, Freed(w.h)}
    BY AbortedIs
<1> QED
    BY <1>1, <1>2, <1>3, GoodWhateverCleanup

LEMMA AbortMediaEffect ==
    ASSUME NEW w \in World, NEW r, NEW a
    PROVE  /\ AbortMedia(w, r, a) \in World
           /\ AbortMedia(w, r, a).s.prepared \in {w.s.prepared, None}
           /\ AbortMedia(w, r, a).s.token \in {w.s.token, None}
           /\ AbortMedia(w, r, a).h.holds \in {w.h.holds, None}
           /\ AbortMedia(w, r, a).s.cleanup \in {w.s.cleanup, Aborted(w, w.s.prepared, a).s.cleanup}
           /\ AbortMedia(w, r, a).s.token # w.s.token => w.s.token = r
           /\ \/ /\ AbortMedia(w, r, a).s.cleanup = w.s.cleanup
                 /\ AbortMedia(w, r, a).s.forgotten = w.s.forgotten
                 /\ AbortMedia(w, r, a).h = w.h
              \/ /\ AbortMedia(w, r, a).s.cleanup = Aborted(w, w.s.prepared, a).s.cleanup
                 /\ AbortMedia(w, r, a).s.forgotten = Aborted(w, w.s.prepared, a).s.forgotten
                 /\ AbortMedia(w, r, a).h = Aborted(w, w.s.prepared, a).h
<1> DEFINE e == w.s.prepared
           aborted == Aborted(w, e, a)
           over == [s |-> Idle(Cleared(aborted.s)), h |-> aborted.h]
           cleared == [s |-> Cleared(w.s), h |-> w.h]
<1>1. /\ w.s \in SessionType /\ w.h \in HostType /\ e \in Maybe
      /\ w = [s |-> w.s, h |-> w.h]
    BY DEF World, SessionType
<1>2. /\ aborted \in World /\ aborted.s \in SessionType /\ aborted.h \in HostType
      /\ aborted = [s |-> aborted.s, h |-> aborted.h]
      /\ aborted.s.prepared = e /\ aborted.s.token = w.s.token
      /\ aborted.h.holds \in {w.h.holds, None}
    BY <1>1, AbortedEffect DEF World
<1>3. /\ over \in World /\ over.s.prepared = None /\ over.s.token = None
      /\ over.s.cleanup = aborted.s.cleanup /\ over.h = aborted.h
      /\ over.s.forgotten = aborted.s.forgotten
    BY <1>2, ClearedGood DEF World
<1>4. /\ cleared \in World /\ cleared.s.prepared = None /\ cleared.s.token = None
      /\ cleared.s.cleanup = w.s.cleanup /\ cleared.h = w.h
      /\ cleared.s.forgotten = w.s.forgotten
    BY <1>1, ClearedGood DEF World
<1> HIDE DEF over, cleared, aborted
<1>5. AbortMedia(w, r, a) \in {w, over, cleared, aborted}
    <2>1. [w EXCEPT !.s = Cleared(@)] = cleared
        BY <1>1 DEF cleared
    <2>2. [aborted EXCEPT !.s = Idle(Cleared(@))] = over
        BY <1>2 DEF over
    <2> DEFINE enough == Result(w.h, e, a) \in Enough(e)
    <2>3. AbortMedia(w, r, a) =
             CASE w.s.token # r -> w
               [] w.s.token = r /\ w.s.mode = "shared" -> cleared
               [] w.s.token = r /\ w.s.mode = "dop" ->
                    IF enough THEN [aborted EXCEPT !.s = Idle(Cleared(@))] ELSE aborted
               [] OTHER -> [aborted EXCEPT !.s = Idle(Cleared(@))]
        BY <2>1 DEF AbortMedia, aborted
    <2> HIDE DEF enough
    <2> QED
        BY <2>2, <2>3
<1>6. w.s.token # r => AbortMedia(w, r, a) = w
    BY DEF AbortMedia
<1>7. CASE AbortMedia(w, r, a) = w
    BY <1>1, <1>7
<1>8. CASE AbortMedia(w, r, a) = over
    BY <1>2, <1>3, <1>6, <1>8 DEF aborted
<1>9. CASE AbortMedia(w, r, a) = cleared
    BY <1>4, <1>6, <1>9
<1>10. CASE AbortMedia(w, r, a) = aborted
    BY <1>2, <1>6, <1>10 DEF aborted
<1> QED
    BY <1>5, <1>7, <1>8, <1>9, <1>10

LEMMA ReleaseActiveEffect ==
    ASSUME NEW w \in World, NEW a
    PROVE  /\ ReleaseActive(w, a).s.prepared \in {w.s.prepared, None}
           /\ ReleaseActive(w, a).s.cleanup \in {w.s.cleanup, w.s.prepared, None}
           /\ ReleaseActive(w, a).h.holds \in {w.h.holds, None}
<1> DEFINE e == w.s.prepared
           aborted == Aborted(w, e, a)
           over == [s |-> Idle(Cleared(aborted.s)), h |-> aborted.h]
<1>1. /\ w.s \in SessionType /\ w.h \in HostType /\ e \in Maybe
      /\ w = [s |-> w.s, h |-> w.h]
    BY DEF World, SessionType
<1>2. /\ aborted \in World /\ aborted.s \in SessionType /\ aborted.h \in HostType
      /\ aborted = [s |-> aborted.s, h |-> aborted.h]
      /\ aborted.s.prepared = e
      /\ aborted.s.cleanup \in {w.s.cleanup, e, None}
      /\ aborted.h.holds \in {w.h.holds, None}
    BY <1>1, AbortedEffect DEF World
<1>3. /\ over.s.prepared = None /\ over.s.cleanup = aborted.s.cleanup /\ over.h = aborted.h
    BY <1>2, ClearedGood DEF World
<1>4. \A x : Released(w.h, e, x).holds \in {w.h.holds, None}
    BY DEF Released, Freed
<1>5. \A s \in SessionType : Releasing(s).prepared = s.prepared /\ Releasing(s).cleanup = s.cleanup
    BY DEF Releasing, SessionType
<1> HIDE DEF over, aborted
<1>6. CASE w.s.mode = "shared"
    <2>1. ReleaseActive(w, a) = [s |-> Cleared(w.s), h |-> w.h]
        BY <1>1, <1>6 DEF ReleaseActive
    <2> QED
        BY <1>1, <2>1, ClearedGood
<1>7. CASE w.s.mode = "lost"
    <2>1. ReleaseActive(w, a) \in {w, [s |-> Idle(Cleared(w.s)), h |-> w.h]}
        BY <1>1, <1>7 DEF ReleaseActive
    <2> QED
        BY <1>1, <2>1, ClearedGood
<1>8. CASE w.s.mode = "managed"
    <2>1. ReleaseActive(w, a) = [aborted EXCEPT !.s = Idle(Cleared(@))]
        BY <1>8 DEF ReleaseActive, aborted
    <2> QED
        BY <1>2, <1>3, <2>1 DEF over
<1>9. CASE w.s.mode = "native_dsd"
    <2>1. ReleaseActive(w, a) \in {[s |-> Releasing(w.s), h |-> Released(w.h, e, a)],
                                   [s |-> Idle(Cleared(w.s)), h |-> Released(w.h, e, "truth")]}
        BY <1>1, <1>9 DEF ReleaseActive
    <2> QED
        BY <1>1, <1>4, <1>5, <2>1, ClearedGood
<1>10. CASE w.s.mode \notin {"shared", "lost", "managed", "native_dsd"}
    <2>1. ReleaseActive(w, a) \in {[aborted EXCEPT !.s = Releasing(@)], [aborted EXCEPT !.s = Idle(Cleared(@))]}
        BY <1>10 DEF ReleaseActive, aborted
    <2>2. [aborted EXCEPT !.s = Releasing(@)] = [s |-> Releasing(aborted.s), h |-> aborted.h]
        BY <1>2
    <2>3. [aborted EXCEPT !.s = Idle(Cleared(@))] = over
        BY <1>2 DEF over
    <2> QED
        BY <1>2, <1>3, <1>5, <2>1, <2>2, <2>3
<1> QED
    BY <1>6, <1>7, <1>8, <1>9, <1>10

LEMMA LostEffect ==
    ASSUME NEW w \in World, NEW a
    PROVE  /\ Lost(w, a).s.prepared \in {w.s.prepared, None}
           /\ Lost(w, a).s.cleanup \in {w.s.cleanup, w.s.prepared, None}
           /\ Lost(w, a).h.holds \in {w.h.holds, None}
<1> DEFINE e == w.s.prepared
           aborted == Aborted(w, e, a)
           lost(s) == [s EXCEPT !.state = "LOST", !.mode = "lost", !.prepared = None,
                                !.token = None, !.lost = TRUE]
<1>1. w.s \in SessionType /\ e \in Maybe
    BY DEF World, SessionType
<1>2. /\ aborted.s \in SessionType /\ aborted = [s |-> aborted.s, h |-> aborted.h]
      /\ aborted.s.cleanup \in {w.s.cleanup, e, None}
      /\ aborted.h.holds \in {w.h.holds, None}
    BY <1>1, AbortedEffect DEF World
<1>3. Lost(w, a) \in {w, [s |-> lost(aborted.s), h |-> aborted.h]}
    <2> HIDE DEF aborted, lost
    <2>1. [aborted EXCEPT !.s = lost(@)] = [s |-> lost(aborted.s), h |-> aborted.h]
        BY <1>2
    <2>2. Lost(w, a) \in {w, [aborted EXCEPT !.s = lost(@)]}
        BY DEF Lost, aborted, lost
    <2> QED
        BY <2>1, <2>2
<1>4. lost(aborted.s).prepared = None /\ lost(aborted.s).cleanup = aborted.s.cleanup
    BY <1>2 DEF SessionType
<1> HIDE DEF aborted, lost
<1> QED
    BY <1>2, <1>3, <1>4

LEMMA BegunEffect ==
    ASSUME NEW w \in World, NEW r \in Requests, NEW a, NEW q \in RequestType, NEW ep,
           Good(w.s, q, ep), Family(r) \in Families
    PROVE  /\ Begun(w, r, a) \in World
           /\ Begun(w, r, a).s.prepared \in {w.s.prepared, None, r}
           /\ Begun(w, r, a).s.token \in {w.s.token, r}
           /\ Begun(w, r, a).s.cleanup = Aborted(w, w.s.prepared, a).s.cleanup
           /\ Begun(w, r, a).s.forgotten = Aborted(w, w.s.prepared, a).s.forgotten
           /\ Begun(w, r, a).h = Aborted(w, w.s.prepared, a).h
           /\ Begun(w, r, a).s.token = r /\ w.s.token # r => Begun(w, r, a).s.prepared = r
<1> DEFINE y == Yielded(w, w.s.prepared, a)
           begun == [y.s EXCEPT !.state = "READY", !.mode = Family(r), !.prepared = r, !.token = r]
<1>1. /\ y \in World /\ y.s \in SessionType /\ y = [s |-> y.s, h |-> y.h]
      /\ y.h = Aborted(w, w.s.prepared, a).h
      /\ y.s.cleanup = Aborted(w, w.s.prepared, a).s.cleanup
      /\ y.s.forgotten = Aborted(w, w.s.prepared, a).s.forgotten
      /\ y.s.token = w.s.token
      /\ y.s.prepared \in {w.s.prepared, None}
    BY YieldedIs DEF World
<1> HIDE DEF y
<1>2. Begun(w, r, a) \in {y, [s |-> begun, h |-> y.h]}
    BY <1>1 DEF Begun, y
<1>3. /\ begun \in SessionType /\ begun.prepared = r /\ begun.token = r
      /\ begun.cleanup = y.s.cleanup /\ begun.forgotten = y.s.forgotten
    BY <1>1 DEF SessionType, Maybe, States
<1> HIDE DEF begun
<1> QED
    BY <1>1, <1>2, <1>3 DEF World

LEMMA SharedBegunEffect ==
    ASSUME NEW w \in World, NEW r \in Requests, NEW a
    PROVE  /\ SharedBegun(w, r, a) \in World
           /\ SharedBegun(w, r, a).s.prepared \in {w.s.prepared, None}
           /\ SharedBegun(w, r, a).s.token = r
           /\ SharedBegun(w, r, a).s.mode = "shared"
           /\ \/ /\ SharedBegun(w, r, a).s.cleanup = w.s.cleanup
                 /\ SharedBegun(w, r, a).s.forgotten = w.s.forgotten
                 /\ SharedBegun(w, r, a).h = w.h
              \/ /\ SharedBegun(w, r, a).s.prepared = None
                 /\ SharedBegun(w, r, a).s.cleanup = Aborted(w, w.s.prepared, a).s.cleanup
                 /\ SharedBegun(w, r, a).s.forgotten = Aborted(w, w.s.prepared, a).s.forgotten
                 /\ SharedBegun(w, r, a).h = Aborted(w, w.s.prepared, a).h
<1> DEFINE e == w.s.prepared
           aborted == Aborted(w, e, a)
           over(s) == [s EXCEPT !.mode = "shared", !.token = r, !.state = "IDLE"]
<1>1. /\ w.s \in SessionType /\ w.h \in HostType /\ e \in Maybe
      /\ w = [s |-> w.s, h |-> w.h]
    BY DEF World, SessionType
<1>2. /\ aborted \in World /\ aborted.s \in SessionType /\ aborted.h \in HostType
      /\ aborted = [s |-> aborted.s, h |-> aborted.h]
    BY <1>1, AbortedEffect DEF World
<1> HIDE DEF aborted
<1>3. SharedBegun(w, r, a) \in {[s |-> over(w.s), h |-> w.h], [s |-> over(Dropped(aborted.s)), h |-> aborted.h]}
    <2> DEFINE released == IF w.s.mode = "managed" /\ e # None
                           THEN [aborted EXCEPT !.s = Dropped(@)] ELSE w
    <2>1. released \in {w, [s |-> Dropped(aborted.s), h |-> aborted.h]}
        BY <1>2
    <2>2. SharedBegun(w, r, a) = [released EXCEPT !.s = over(@)]
        BY DEF SharedBegun, aborted
    <2> HIDE DEF released, over
    <2> QED
        BY <1>1, <2>1, <2>2
<1>4. /\ over(w.s).prepared = e /\ over(w.s).token = r /\ over(w.s).cleanup = w.s.cleanup
      /\ over(w.s).forgotten = w.s.forgotten
      /\ over(w.s).mode = "shared" /\ over(w.s) \in SessionType
    BY <1>1 DEF SessionType, Maybe, States
<1>5. Dropped(aborted.s) = [aborted.s EXCEPT !.prepared = None]
    BY DEF Dropped
<1>6. /\ over(Dropped(aborted.s)).prepared = None /\ over(Dropped(aborted.s)).token = r
      /\ over(Dropped(aborted.s)).cleanup = aborted.s.cleanup
      /\ over(Dropped(aborted.s)).forgotten = aborted.s.forgotten
      /\ over(Dropped(aborted.s)).mode = "shared" /\ over(Dropped(aborted.s)) \in SessionType
    BY <1>2, <1>5 DEF SessionType, Maybe, States
<1> HIDE DEF over
<1> QED
    BY <1>1, <1>2, <1>3, <1>4, <1>6 DEF aborted, World

LEMMA ReconciledEffect ==
    ASSUME NEW s \in SessionType, NEW e \in Requests
    PROVE  /\ Reconciled(s, e) \in SessionType
           /\ Reconciled(s, e).prepared = IF s.prepared = e THEN None ELSE s.prepared
           /\ Reconciled(s, e).token \in {s.token, None}
           /\ Reconciled(s, e).cleanup = s.cleanup /\ Reconciled(s, e).forgotten = s.forgotten
<1> DEFINE left == [s EXCEPT !.prepared = IF @ = e THEN None ELSE @, !.token = None,
                             !.state = IF @ \in Live THEN "IDLE" ELSE @]
           lost == [left EXCEPT !.mode = "lost", !.state = s.state]
           shared == [left EXCEPT !.mode = "shared"]
<1>1. left \in SessionType /\ lost \in SessionType /\ shared \in SessionType
    BY DEF SessionType, Maybe, States, Live
<1>2. \A x \in {left, lost, shared} :
          /\ x.prepared = IF s.prepared = e THEN None ELSE s.prepared
          /\ x.token = None /\ x.cleanup = s.cleanup /\ x.forgotten = s.forgotten
    <2>1. /\ left.prepared = IF s.prepared = e THEN None ELSE s.prepared
          /\ left.token = None /\ left.cleanup = s.cleanup /\ left.forgotten = s.forgotten
        BY DEF SessionType
    <2> HIDE DEF left
    <2>2. /\ lost.prepared = left.prepared /\ lost.token = left.token
          /\ lost.cleanup = left.cleanup /\ lost.forgotten = left.forgotten
        BY <1>1 DEF SessionType
    <2>3. /\ shared.prepared = left.prepared /\ shared.token = left.token
          /\ shared.cleanup = left.cleanup /\ shared.forgotten = left.forgotten
        BY <1>1 DEF SessionType
    <2> HIDE DEF lost, shared
    <2> QED
        BY <2>1, <2>2, <2>3
<1>3. Reconciled(s, e) \in {s, left, lost, shared}
    BY DEF Reconciled
<1>4. Reconciled(s, e) = s => s.prepared # e \/ Reconciled(s, e) \in {left, lost, shared}
    BY DEF Reconciled
<1> HIDE DEF left, lost, shared
<1> QED
    BY <1>1, <1>2, <1>3, <1>4

-----------------------------------------------------------------------------
(* The quiet steps: what they do to what is prepared, held and awaited.    *)

Onwards(q) == Moves(q) /\ Stays(q)

HandedBefore(q) ==
    /\ request'[q].phase \in {"preparing", "prepared"} =>
          request[q].phase \in {"preparing", "prepared"}
    /\ request'[q].phase = "released" =>
          \/ request[q].phase = "released" /\ request'[q].result = request[q].result
          \/ /\ request[q].phase = "releasing"
             /\ host'.holds = request[q].pred /\ request'[q].result # "error"
                => request'[q].result = "stale" /\ world'.faults > world.faults

HeldQuiet ==
    /\ host'.holds \in {host.holds, None} \/ ~Execution(host'.holds, request)
    /\ world'.faults >= world.faults
    /\ session'.prepared = session.prepared \/ host'.holds = None \/ NoneCurrent'
    /\ \A q \in Requests : HandedBefore(q)

(* When the preparation that is current ends, none is.                     *)
LEMMA LastEnds ==
    ASSUME ClockInv, NEW r \in Requests, Current(r), UnderWay(r),
           request' \in {Answered(r), Superseded(r)}, prep'.generation = prep.generation
    PROVE  NoneCurrent'
<1>1. request'[r].phase \in Over /\ \A q \in Requests \ {r} : request'[q] = request[q]
    BY EndsPlanned DEF ClockInv, UnderWay, Over
<1>2. ASSUME NEW q \in Requests, UnderWay(q)', Current(q)'
      PROVE  FALSE
    <2>1. q # r /\ UnderWay(q) /\ request[q].gen = request[r].gen
        BY <1>1, <1>2 DEF UnderWay, Over, Current
    <2> QED
        BY <2>1 DEF ClockInv, Clocked
<1> QED
    BY <1>2 DEF NoneCurrent

(* When the clock advances on its own, none is current.                    *)
LEMMA CancelledEnds ==
    ASSUME BaseInv, Fresh, prep' = Cancelled,
           \A q \in Requests : UnderWay(q)' => UnderWay(q) /\ request'[q].gen = request[q].gen
    PROVE  NoneCurrent'
<1>1. prep.generation \in Nat /\ prep'.generation = prep.generation + 1
    BY BaseNow, AdvancedIs
<1> QED
    BY <1>1, ClockTypes DEF Fresh, NoneCurrent, Current

LEMMA EndsOnwards ==
    ASSUME BaseInv, NEW r \in Requests,
           request[r].phase \notin {"releasing", "released"} \cup Over,
           request' \in {Answered(r), Superseded(r)}
    PROVE  \A q \in Requests : Onwards(q) /\ HandedBefore(q)
<1>1. request'[r].phase \in Over /\ \A q \in Requests \ {r} : request'[q] = request[q]
    BY EndsPlanned
<1> QED
    BY <1>1 DEF Onwards, Moves, Stays, HandedBefore, UnderWay, Unreserved, Over

LEMMA UnchangedOnwards ==
    ASSUME UNCHANGED request
    PROVE  \A q \in Requests : Onwards(q) /\ HandedBefore(q)
BY DEF Onwards, Moves, Stays, HandedBefore, UnderWay

LEMMA WorkerQuiet ==
    ASSUME BaseInv, NEW r \in Requests,
           \/ \E kind \in Families \cup {"shared"} : Characterize(r, kind)
           \/ CannotPlan(r)
           \/ \E ok \in BOOLEAN : Acquire(r, ok)
    PROVE  /\ Quiet /\ HeldQuiet
<1>1. request \in RequestType /\ world.faults \in Nat /\ Phased(request)
    BY BaseNow, BaseTypes, OutputAssumption DEF BaseInv, WorldType
<1>2. /\ \A q \in Requests : Onwards(q) /\ HandedBefore(q)
      /\ UNCHANGED <<session, prep, epoch, world>>
    <2>1. ASSUME NEW kind \in Families \cup {"shared"}, Characterize(r, kind)
          PROVE  /\ request[r].phase = "working"
                 /\ request'[r].phase \in {"planned", "acquiring"}
                 /\ request'[r].gen = request[r].gen /\ request'[r].pred = request[r].pred
                 /\ \A q \in Requests \ {r} : request'[q] = request[q]
                 /\ UNCHANGED <<session, prep, epoch, world>>
        BY <1>1, <2>1 DEF Characterize, RequestType
    <2>2. ASSUME CannotPlan(r)
          PROVE  /\ request[r].phase = "working" /\ request'[r].phase = "acquired"
                 /\ request'[r].gen = request[r].gen /\ request'[r].pred = request[r].pred
                 /\ \A q \in Requests \ {r} : request'[q] = request[q]
                 /\ UNCHANGED <<session, prep, epoch, world>>
        BY <1>1, <2>2 DEF CannotPlan, RequestType
    <2>3. ASSUME NEW ok \in BOOLEAN, Acquire(r, ok)
          PROVE  /\ \/ request[r].phase = "acquiring" /\ request'[r].phase = "acquired"
                    \/ request[r].phase = "preparing" /\ request'[r].phase = "prepared"
                 /\ request'[r].gen = request[r].gen /\ request'[r].pred = request[r].pred
                 /\ \A q \in Requests \ {r} : request'[q] = request[q]
                 /\ UNCHANGED <<session, prep, epoch, world>>
        <3> DEFINE phase == IF request[r].phase = "acquiring" THEN "acquired" ELSE "prepared"
        <3>1. request' = [request EXCEPT ![r] = [@ EXCEPT !.ok = ok, !.phase = phase]]
            BY <1>1, <2>3 DEF Acquire, RequestType
        <3>2. request[r].phase \in {"acquiring", "preparing"}
            BY <2>3 DEF Acquire
        <3>3. \/ phase = "acquired" /\ request[r].phase = "acquiring"
              \/ phase = "prepared" /\ request[r].phase = "preparing"
            BY <1>1, <3>2 DEF RequestType
        <3> HIDE DEF phase
        <3>4. /\ request'[r].phase = phase
              /\ request'[r].gen = request[r].gen /\ request'[r].pred = request[r].pred
              /\ \A q \in Requests \ {r} : request'[q] = request[q]
            BY <1>1, <3>1 DEF RequestType
        <3> QED
            BY <2>3, <3>3, <3>4 DEF Acquire
    <2> QED
        BY <2>1, <2>2, <2>3 DEF Onwards, Moves, Stays, HandedBefore, UnderWay, Unreserved
<1>3. host'.holds \in {host.holds, None} \/ ~Execution(host'.holds, request)
    <2>1. ASSUME NEW ok \in BOOLEAN, Acquire(r, ok)
          PROVE  host'.holds \in {host.holds, None, r} /\ request[r].phase \notin Over
        BY <2>1 DEF Acquire, Loaded, Freed, Over
    <2> QED
        BY <2>1 DEF Characterize, CannotPlan, Execution
<1> QED
    BY <1>1, <1>2, <1>3 DEF Quiet, Reserves, Onwards, HeldQuiet, NewlyPrepared

LEMMA ResultOfFailure ==
    ASSUME NEW h, NEW e, NEW a, a # "truth"
    PROVE  Result(h, e, a) = IF Family(e) = "native_dsd" THEN "stale" ELSE "error"
BY DEF Result

LEMMA ReleaseQuiet ==
    ASSUME BaseInv, NEW r \in Requests, NEW a \in Replies, Release(r, a)
    PROVE  Quiet /\ HeldQuiet
<1> DEFINE e == request[r].pred
<1>1. /\ request \in RequestType /\ Phased(request)
      /\ request[r].phase = "releasing" /\ a \in Answers(e)
      /\ host' = Released(host, e, a) /\ world' = Heard(a)
      /\ UNCHANGED <<session, prep, epoch>>
    BY BaseTypes DEF BaseInv, Release
<1>2. e \in Requests /\ Family(e) # None
    BY <1>1, ClockTypes, OutputAssumption
    DEF Phased, Attempted, RequestType, Maybe, Execution, Family
<1>3. /\ request'[r].phase = "released" /\ request'[r].result = Result(host, e, a)
      /\ request'[r].gen = request[r].gen /\ request'[r].pred = e
      /\ \A q \in Requests \ {r} : request'[q] = request[q]
    BY <1>1 DEF Release, RequestType
<1>4. /\ world.faults \in Nat
      /\ world'.faults = IF a = "truth" THEN world.faults ELSE world.faults + 1
    BY <1>1, BaseNow, HeardType, OutputAssumption DEF BaseInv, WorldType
<1>5. host'.holds \in {host.holds, None}
    BY <1>1 DEF Released, Freed
<1>6. ASSUME host'.holds = e, Result(host, e, a) # "error"
      PROVE  Result(host, e, a) = "stale" /\ world'.faults > world.faults
    <2>1. a # "truth"
        BY <1>1, <1>2, <1>6, OutputAssumption DEF Released, Freed
    <2>2. Result(host, e, a) \in {"stale", "error"}
        BY <2>1, ResultOfFailure
    <2>3. world'.faults > world.faults
        BY <1>4, <2>1
    <2> QED
        BY <1>6, <2>2, <2>3
<1>7. \A q \in Requests : Onwards(q)
    BY <1>1, <1>3 DEF Onwards, Moves, Stays, UnderWay, Unreserved
<1>8. \A q \in Requests : HandedBefore(q)
    BY <1>1, <1>3, <1>6 DEF HandedBefore
<1> QED
    BY <1>1, <1>4, <1>5, <1>7, <1>8 DEF Quiet, Reserves, Onwards, HeldQuiet, NewlyPrepared

LEMMA FaultsGrow ==
    ASSUME BaseInv, NEW e, NEW a \in Answers(e)
    PROVE  Heard(a).faults >= world.faults /\ Happens(a).faults >= world.faults
<1>1. world.faults \in Nat /\ world \in WorldType
    BY BaseNow, OutputAssumption DEF WorldType
<1>2. Heard(a).faults >= world.faults
    BY <1>1, HeardType DEF BaseInv
<1>3. Happens(a).faults = Heard(a).faults
    BY <1>1 DEF Happens, Heard, WorldType
<1> QED
    BY <1>2, <1>3

LEMMA CompleteSupersededQuiet ==
    ASSUME BaseInv, NEW r \in Requests, NEW a, CompleteSuperseded(r, a)
    PROVE  Quiet /\ HeldQuiet
<1>1. /\ request[r].phase \notin {"releasing", "released"} \cup Over
      /\ Candidate(r) \in Maybe /\ a \in Answers(Candidate(r))
      /\ request' = Superseded(r) /\ Becomes(Aborted(Now, Candidate(r), a))
      /\ world' = Heard(a) /\ epoch' = epoch
      /\ prep' = [prep EXCEPT !.pending = @ /\ ~Current(r)]
    BY DEF CompleteSuperseded, Returned, Candidate, Maybe, Over
<1>2. \A q \in Requests : Onwards(q) /\ HandedBefore(q)
    BY <1>1, EndsOnwards
<1>3. /\ session'.prepared = session.prepared /\ session'.token = session.token
      /\ host'.holds \in {host.holds, None}
    BY <1>1, BaseTypes, AbortedEffect DEF BaseInv, Becomes
<1>4. prep'.generation = prep.generation /\ prep'.reservation = prep.reservation
    BY <1>1, BaseNow DEF PrepType
<1>5. world'.faults >= world.faults
    BY <1>1, FaultsGrow
<1> QED
    BY <1>1, <1>2, <1>3, <1>4, <1>5 DEF Quiet, Reserves, Onwards, HeldQuiet, NewlyPrepared

LEMMA CompleteFailedQuiet ==
    ASSUME ClockInv, NEW r \in Requests, CompleteFailed(r)
    PROVE  Quiet /\ HeldQuiet /\ NoneCurrent'
<1>1. /\ request[r].phase \notin {"releasing", "released"} \cup Over
      /\ UnderWay(r) /\ Current(r)
      /\ request' = Answered(r) /\ UNCHANGED <<session, host, epoch, world>>
      /\ prep' = [prep EXCEPT !.pending = FALSE]
    BY DEF CompleteFailed, Over, UnderWay
<1>2. \A q \in Requests : Onwards(q) /\ HandedBefore(q)
    BY <1>1, EndsOnwards DEF ClockInv
<1>3. /\ prep'.generation = prep.generation /\ prep'.reservation = prep.reservation
      /\ world.faults \in Nat
    BY <1>1, BaseNow, OutputAssumption DEF PrepType, WorldType, ClockInv
<1>4. NoneCurrent'
    BY <1>1, <1>3, LastEnds
<1> QED
    BY <1>1, <1>2, <1>3, <1>4 DEF Quiet, Reserves, Onwards, HeldQuiet, NewlyPrepared

(* The owner completes the preparation that is current.                    *)
LEMMA LastQuiet ==
    ASSUME ClockInv, NEW r \in Requests, UnderWay(r), Current(r),
           request[r].phase \notin {"releasing", "released"},
           request' \in {Answered(r), Superseded(r)},
           prep'.generation = prep.generation, prep'.reservation = prep.reservation,
           session'.prepared \in {session.prepared, None, r},
           host'.holds \in {host.holds, None}, world'.faults >= world.faults
    PROVE  Quiet /\ HeldQuiet /\ NoneCurrent'
<1>1. request[r].phase \notin Over
    BY DEF UnderWay, Over
<1>2. \A q \in Requests : Onwards(q) /\ HandedBefore(q)
    BY <1>1, EndsOnwards DEF ClockInv
<1>3. NoneCurrent'
    BY LastEnds
<1>4. NewlyPrepared
    BY <1>1 DEF NewlyPrepared, Execution
<1> QED
    BY <1>2, <1>3, <1>4 DEF Quiet, Reserves, Onwards, HeldQuiet

LEMMA DeliveredEffect ==
    ASSUME NEW w \in World, NEW r
    PROVE  /\ Delivered(w, r).s.prepared \in {w.s.prepared, None}
           /\ Delivered(w, r).s.token \in {w.s.token, None}
           /\ Delivered(w, r).h.holds \in {w.h.holds, None}
BY AbortMediaEffect DEF Delivered

LEMMA CompleteSharedQuiet ==
    ASSUME ClockInv, NEW r \in Requests, NEW a, CompleteShared(r, a)
    PROVE  Quiet /\ HeldQuiet /\ NoneCurrent'
<1> DEFINE begun == SharedBegun(Now, r, a)
           e == IF session.mode = "managed" THEN session.prepared ELSE None
<1>1. /\ request[r].phase = "planned" /\ Current(r) /\ request' = Answered(r) /\ a \in Answers(e)
      /\ prep' = [prep EXCEPT !.pending = FALSE]
      /\ \/ Becomes(Delivered(begun, r)) /\ world' = Heard(a)
         \/ UNCHANGED <<session, host, world>>
    BY DEF CompleteShared
<1>2. Now \in World /\ Now.s = session /\ Now.h = host
    BY BaseTypes DEF ClockInv, BaseInv
<1>3. /\ begun \in World /\ begun.s.prepared \in {session.prepared, None}
      /\ begun.h.holds \in {host.holds, None}
    BY <1>2, SharedBegunEffect, AbortedEffect DEF World, SessionType
<1> HIDE DEF begun
<1>4. /\ Delivered(begun, r).s.prepared \in {session.prepared, None}
      /\ Delivered(begun, r).h.holds \in {host.holds, None}
    BY <1>3, DeliveredEffect
<1>5. session'.prepared \in {session.prepared, None} /\ host'.holds \in {host.holds, None}
    BY <1>1, <1>4 DEF Becomes
<1>6. /\ prep'.generation = prep.generation /\ prep'.reservation = prep.reservation
      /\ world.faults \in Nat
    BY <1>1, BaseNow, OutputAssumption DEF PrepType, WorldType, ClockInv
<1>7. world'.faults >= world.faults
    BY <1>1, <1>6, FaultsGrow DEF ClockInv
<1> QED
    BY <1>1, <1>5, <1>6, <1>7, LastQuiet DEF UnderWay

LEMMA CompleteFastQuiet ==
    ASSUME ClockInv, NEW r \in Requests, NEW a, CompleteFast(r, a)
    PROVE  Quiet /\ HeldQuiet /\ NoneCurrent'
<1> DEFINE begun == Begun(Now, r, a)
           stale == BindingStale(r) /\ Family(r) # "native_dsd"
           e == IF stale THEN r ELSE session.prepared
<1>1. /\ request[r].phase = "acquired" /\ request[r].ok
      /\ Current(r) /\ request' = Answered(r)
      /\ a \in Answers(e) /\ world' = Heard(a)
      /\ prep' = [prep EXCEPT !.pending = FALSE]
      /\ Becomes(Aborted(Now, r, a)) \/ Becomes(Delivered(begun, r))
    BY DEF CompleteFast
<1>2. Now \in World /\ Now.s = session /\ Now.h = host /\ r \in Maybe
    BY BaseTypes DEF ClockInv, BaseInv, Maybe
<1>3. /\ Aborted(Now, r, a).s.prepared = session.prepared
      /\ Aborted(Now, r, a).h.holds \in {host.holds, None}
    BY <1>2, AbortedEffect
<1>4. Family(r) \in Families
    BY <1>1, OutputAssumption DEF ClockInv, BaseInv, Phased, Family
<1>5. /\ begun \in World /\ begun.s.prepared \in {session.prepared, None, r}
      /\ begun.h.holds \in {host.holds, None}
    <2>1. Aborted(Now, session.prepared, a).h.holds \in {host.holds, None}
        BY <1>2, ClockTypes, AbortedEffect DEF ClockInv
    <2> QED
        BY <1>2, <1>4, <2>1, BaseNow, BegunEffect DEF ClockInv, Planned
<1> HIDE DEF begun
<1>6. /\ Delivered(begun, r).s.prepared \in {session.prepared, None, r}
      /\ Delivered(begun, r).h.holds \in {host.holds, None}
    BY <1>5, DeliveredEffect
<1>7. session'.prepared \in {session.prepared, None, r} /\ host'.holds \in {host.holds, None}
    BY <1>1, <1>3, <1>6 DEF Becomes
<1>8. /\ prep'.generation = prep.generation /\ prep'.reservation = prep.reservation
    BY <1>1, BaseNow DEF PrepType, ClockInv
<1>9. world'.faults >= world.faults
    BY <1>1, FaultsGrow DEF ClockInv
<1> QED
    BY <1>1, <1>7, <1>8, <1>9, LastQuiet DEF UnderWay

LEMMA CompletePrepareQuiet ==
    ASSUME ClockInv, NEW r \in Requests, NEW a, CompletePrepare(r, a)
    PROVE  Quiet /\ HeldQuiet
<1> DEFINE over    == StaleAttempt(r) \/ (request[r].ok /\ request[r].outdated)
           unbound == BindingStale(r) /\ Family(r) # "native_dsd"
           commits == request[r].ok /\ ~over /\ ~unbound /\ Begins(Now, r, "truth")
           e == Candidate(r)
           aborted == Aborted(Now, e, a)
           begun == Begun(Now, r, a)
<1>1. /\ request[r].phase = "prepared" /\ world' = Heard(a) /\ UNCHANGED <<prep, epoch>>
      /\ a \in Answers(None) \cup Answers(e)
      /\ request' \in {Answered(r), Superseded(r)} /\ e \in Maybe
      /\ \/ commits /\ Becomes(Delivered(begun, r))
         \/ Becomes(Aborted(aborted, e, "truth"))
         \/ Becomes(aborted)
    <2> HIDE DEF aborted, begun
    <2> QED
        BY DEF CompletePrepare, Candidate, Maybe, Answers, aborted, begun
<1>2. Now \in World /\ Now.s = session /\ Now.h = host
    BY BaseTypes DEF ClockInv, BaseInv
<1>3. world'.faults >= world.faults
    BY <1>1, FaultsGrow DEF ClockInv
<1>4. /\ aborted \in World /\ aborted.s.prepared = session.prepared
      /\ aborted.s.token = session.token /\ aborted.h.holds \in {host.holds, None}
    BY <1>1, <1>2, AbortedEffect
<1> HIDE DEF aborted
<1>5. /\ Aborted(aborted, e, "truth").s.prepared = session.prepared
      /\ Aborted(aborted, e, "truth").s.token = session.token
      /\ Aborted(aborted, e, "truth").h.holds \in {host.holds, None}
    BY <1>1, <1>4, AbortedEffect
<1>6. CASE commits /\ Becomes(Delivered(begun, r))
    <2>1. Current(r) /\ request[r].ok
        BY <1>6 DEF StaleAttempt
    <2>2. Family(r) \in Families
        BY <2>1, OutputAssumption DEF ClockInv, BaseInv, Phased, Family
    <2>3. /\ begun \in World /\ begun.s.prepared \in {session.prepared, None, r}
          /\ begun.h.holds \in {host.holds, None}
        <3>1. Aborted(Now, session.prepared, a).h.holds \in {host.holds, None}
            BY <1>2, ClockTypes, AbortedEffect DEF ClockInv
        <3> QED
            BY <1>2, <2>2, <3>1, BaseNow, BegunEffect DEF ClockInv, Planned
    <2> HIDE DEF begun
    <2>4. /\ Delivered(begun, r).s.prepared \in {session.prepared, None, r}
          /\ Delivered(begun, r).h.holds \in {host.holds, None}
        BY <2>3, DeliveredEffect
    <2>5. session'.prepared \in {session.prepared, None, r} /\ host'.holds \in {host.holds, None}
        BY <1>6, <2>4 DEF Becomes
    <2> QED
        BY <1>1, <1>3, <2>1, <2>5, LastQuiet DEF UnderWay
<1>7. CASE Becomes(Aborted(aborted, e, "truth")) \/ Becomes(aborted)
    <2>1. /\ session'.prepared = session.prepared /\ session'.token = session.token
          /\ host'.holds \in {host.holds, None}
        BY <1>4, <1>5, <1>7 DEF Becomes
    <2>2. \A q \in Requests : Onwards(q) /\ HandedBefore(q)
        BY <1>1, EndsOnwards DEF ClockInv, Over
    <2> QED
        BY <1>1, <1>3, <2>1, <2>2 DEF Quiet, Reserves, Onwards, HeldQuiet, NewlyPrepared
<1> QED
    BY <1>1, <1>6, <1>7

LEMMA CommitQuiet ==
    ASSUME ClockInv, Commit
    PROVE  Quiet /\ HeldQuiet
<1>1. /\ session' = [session EXCEPT !.state = IF session.mode = "shared" THEN @ ELSE "RUNNING"]
      /\ epoch' = None /\ UNCHANGED <<prep, request, host, world>>
    BY DEF Commit
<1>2. session \in SessionType /\ world.faults \in Nat
    BY BaseTypes, BaseNow, OutputAssumption DEF ClockInv, BaseInv, WorldType
<1>3. session'.prepared = session.prepared /\ session'.token = session.token
    BY <1>1, <1>2 DEF SessionType
<1> QED
    BY <1>1, <1>2, <1>3, UnchangedOnwards DEF Quiet, Reserves, Onwards, HeldQuiet, NewlyPrepared

(* The media that Playback waits for is given up.                          *)
LEMMA AwaitedQuiet ==
    ASSUME ClockInv, NEW a, CommitFails(a) \/ LoadFails(a)
    PROVE  Quiet /\ HeldQuiet /\ NoneCurrent'
<1> DEFINE aborted == AbortMedia(Now, epoch, a)
           over    == [aborted EXCEPT !.h = Freed(@)]
<1>1. /\ Becomes(over) \/ Becomes(aborted)
      /\ epoch' = None /\ UNCHANGED <<prep, request>>
      /\ world' = Heard(a) \/ world' = Happens(a)
      /\ \E e : a \in Answers(e)
      /\ session.token # None /\ session.token = epoch
    BY DEF CommitFails, LoadFails, Awaited
<1>2. /\ aborted \in World /\ aborted.s.prepared \in {session.prepared, None}
      /\ aborted.s.token \in {session.token, None} /\ aborted.h.holds \in {host.holds, None}
    BY BaseTypes, AbortMediaEffect DEF ClockInv, BaseInv
<1> HIDE DEF aborted
<1>3. over.s = aborted.s /\ over.h.holds = None
    BY <1>2 DEF World, Freed
<1> HIDE DEF over
<1>4. /\ session'.prepared \in {session.prepared, None}
      /\ session'.token \in {session.token, None} /\ host'.holds \in {host.holds, None}
    BY <1>1, <1>2, <1>3 DEF Becomes
<1>5. world'.faults >= world.faults
    BY <1>1, FaultsGrow DEF ClockInv
<1>6. NoneCurrent
    BY <1>1 DEF ClockInv, LastAwaited
<1>7. NoneCurrent'
    BY <1>1, <1>6 DEF NoneCurrent, UnderWay, Current
<1> QED
    BY <1>1, <1>4, <1>5, <1>7, UnchangedOnwards DEF Quiet, Reserves, Onwards, HeldQuiet, NewlyPrepared

(* The owner gives the output up, and what was under way with it.          *)
LEMMA GivenUpEffect ==
    ASSUME BaseInv, NEW a, Stop(a) \/ EngineLost \/ DeviceLost(a)
    PROVE  /\ session'.prepared \in {session.prepared, None} /\ host'.holds = None
           /\ epoch' = None /\ prep' = Cancelled /\ UNCHANGED request
           /\ world'.faults >= world.faults
<1> DEFINE w == [Now EXCEPT !.h = Freed(@)]
           l == [Now EXCEPT !.h = [holds |-> None, receipt |-> None]]
<1>1. /\ \/ Becomes(ReleaseActive(w, a)) \/ Becomes(Lost(w, a))
         \/ Becomes(ReleaseActive(l, "truth"))
      /\ epoch' = None /\ prep' = Cancelled /\ UNCHANGED request
      /\ \E e, b : b \in Answers(e) /\ world'.faults = Happens(b).faults
    <2>1. [Happens(a) EXCEPT !.present = FALSE].faults = Happens(a).faults
        BY DEF Happens, Heard
    <2>2. "truth" \in Answers(None)
        BY DEF Answers
    <2>3. CASE Stop(a)
        BY <2>3 DEF Stop
    <2>4. CASE EngineLost
        BY <2>2, <2>4 DEF EngineLost
    <2>5. CASE DeviceLost(a)
        BY <2>1, <2>5 DEF DeviceLost
    <2> QED
        BY <2>3, <2>4, <2>5
<1>2. /\ w \in World /\ w.s = session /\ w.h.holds = None
      /\ l \in World /\ l.s = session /\ l.h.holds = None
    <2>1. Now = [s |-> session, h |-> host] /\ Now \in World /\ w \in World
        BY BaseTypes DEF BaseInv, Now
    <2>2. l = [s |-> session, h |-> [holds |-> None, receipt |-> None]]
        BY <2>1
    <2>3. w = [s |-> session, h |-> Freed(host)]
        BY <2>1
    <2> QED
        BY <2>1, <2>2, <2>3 DEF World, HostType, Maybe, Freed
<1> HIDE DEF w, l
<1>3. session'.prepared \in {session.prepared, None} /\ host'.holds = None
    BY <1>1, <1>2, ReleaseActiveEffect, LostEffect DEF Becomes
<1>4. world'.faults >= world.faults
    BY <1>1, FaultsGrow
<1> QED
    BY <1>1, <1>3, <1>4

LEMMA GivenUpQuiet ==
    ASSUME ClockInv, Fresh, NEW a, Stop(a) \/ EngineLost \/ DeviceLost(a)
    PROVE  Quiet /\ HeldQuiet /\ NoneCurrent' /\ host'.holds = None
<1>1. /\ session'.prepared \in {session.prepared, None} /\ host'.holds = None
      /\ epoch' = None /\ prep' = Cancelled /\ UNCHANGED request
      /\ world'.faults >= world.faults
    BY GivenUpEffect DEF ClockInv
<1>2. \A q \in Requests : Onwards(q) /\ HandedBefore(q)
    BY <1>1, UnchangedOnwards
<1>3. prep'.reservation = prep.reservation
    BY <1>1, BaseNow, AdvancedIs DEF ClockInv
<1>4. NoneCurrent'
    BY <1>1, CancelledEnds DEF ClockInv, UnderWay
<1> QED
    BY <1>1, <1>2, <1>3, <1>4 DEF Quiet, Reserves, Onwards, HeldQuiet, NewlyPrepared

LEMMA ReselectQuiet ==
    ASSUME ClockInv, Fresh, Reselect
    PROVE  Quiet /\ HeldQuiet /\ NoneCurrent'
<1>1. /\ prep' = Cancelled /\ world' = Happens("truth")
      /\ request' = [r \in Requests |-> [request[r] EXCEPT !.outdated =
                        request[r].phase \notin {"unasked", "answered", "superseded"}]]
      /\ UNCHANGED <<session, host, epoch>>
    BY DEF Reselect
<1>2. \A r \in Requests : /\ request'[r].phase = request[r].phase
                          /\ request'[r].gen = request[r].gen
                          /\ request'[r].pred = request[r].pred
                          /\ request'[r].result = request[r].result
    BY <1>1, ClockTypes DEF ClockInv, RequestType
<1>3. \A q \in Requests : Onwards(q) /\ HandedBefore(q)
    BY <1>2 DEF Onwards, Moves, Stays, HandedBefore, UnderWay
<1>4. NoneCurrent'
    BY <1>1, <1>2, CancelledEnds DEF ClockInv, UnderWay
<1>5. world'.faults >= world.faults
    BY <1>1, FaultsGrow DEF ClockInv, Answers
<1>6. prep'.reservation = prep.reservation
    BY <1>1, BaseNow, AdvancedIs DEF ClockInv
<1> QED
    BY <1>1, <1>3, <1>4, <1>5, <1>6 DEF Quiet, Reserves, Onwards, HeldQuiet, NewlyPrepared

LEMMA DeviceQuiet ==
    ASSUME ClockInv, DeviceGoes \/ DeviceReturns \/ UNCHANGED vars
    PROVE  Quiet /\ HeldQuiet /\ session'.cleanup = session.cleanup
           /\ session'.prepared = session.prepared /\ session'.token = session.token
           /\ UNCHANGED <<request, prep, epoch, host>>
<1>1. /\ UNCHANGED <<request, prep, epoch, host>>
      /\ \/ session' = session
         \/ session' = [session EXCEPT !.state = "IDLE", !.mode = "shared", !.lost = FALSE]
    BY DEF DeviceGoes, DeviceReturns, vars
<1>2. session \in SessionType /\ world \in WorldType /\ world.faults \in Nat
    BY BaseTypes, BaseNow, OutputAssumption DEF ClockInv, BaseInv, WorldType
<1>3. /\ session'.prepared = session.prepared /\ session'.token = session.token
      /\ session'.cleanup = session.cleanup
    BY <1>1, <1>2 DEF SessionType
<1>4. world'.faults >= world.faults
    <2>1. CASE DeviceGoes
        <3>1. Happens("truth").faults >= world.faults
            BY <1>2, FaultsGrow DEF ClockInv, Answers
        <3>2. [Happens("truth") EXCEPT !.present = FALSE].faults = Happens("truth").faults
            BY DEF Happens, Heard
        <3> QED
            BY <2>1, <3>1, <3>2 DEF DeviceGoes
    <2>2. CASE DeviceReturns \/ UNCHANGED vars
        BY <1>2, <2>2 DEF DeviceReturns, vars, WorldType
    <2> QED
        BY <2>1, <2>2
<1> QED
    BY <1>1, <1>3, <1>4, UnchangedOnwards DEF Quiet, Reserves, Onwards, HeldQuiet, NewlyPrepared

(* A handover was released: its preparation goes on to acquire, or ends.   *)
LEMMA CompleteReleaseQuiet ==
    ASSUME BaseInv, NEW r \in Requests, CompleteRelease(r)
    PROVE  /\ Quiet
           /\ request[r].phase = "released" /\ request[r].pred \in Requests
           /\ \A q \in Requests \ {r} : request'[q] = request[q]
           /\ \/ /\ request' = Superseded(r) /\ request'[r].phase = "superseded"
                 /\ session'.cleanup = session.cleanup
              \/ /\ request' = Answered(r) /\ request'[r].phase = "answered"
                 /\ session'.cleanup = Retained(session, request[r].pred).cleanup
                 /\ session'.prepared = session.prepared /\ ~StaleAttempt(r)
              \/ /\ Confirms(r) /\ ~StaleAttempt(r)
                 /\ request'[r].phase = "preparing" /\ request'[r].pred = request[r].pred
                 /\ request'[r].gen = request[r].gen
                 /\ session'.cleanup = session.cleanup
           /\ \/ session'.prepared = session.prepared
              \/ /\ session'.prepared = None /\ Confirms(r)
                 /\ session.prepared = request[r].pred
           /\ session'.token \in {session.token, None}
           /\ session.cleanup # None => session'.cleanup = session.cleanup
           /\ session.forgotten => session'.forgotten
           /\ prep'.generation = prep.generation
           /\ UNCHANGED <<host, epoch, world>>
<1> DEFINE e == request[r].pred
           s == IF Confirms(r) THEN Reconciled(session, e) ELSE session
<1>1. /\ request[r].phase = "released"
      /\ prep' = [prep EXCEPT !.reservation = IF @ = r THEN None ELSE @]
      /\ UNCHANGED <<host, epoch, world>>
    BY DEF CompleteRelease
<1>2. request \in RequestType /\ prep \in PrepType /\ session \in SessionType
    BY BaseTypes, BaseNow DEF BaseInv
<1>3. e \in Requests
    BY <1>1, ClockTypes DEF Attempted, Maybe
<1>4. /\ s \in SessionType /\ s.cleanup = session.cleanup /\ s.token \in {session.token, None}
      /\ s.forgotten = session.forgotten
      /\ \/ s.prepared = session.prepared
         \/ s.prepared = None /\ Confirms(r) /\ session.prepared = e
    BY <1>2, <1>3, ReconciledEffect
<1> HIDE DEF s
<1>5. /\ Retained(s, e).prepared = s.prepared /\ Retained(s, e).token = s.token
      /\ Retained(s, e).cleanup = IF s.cleanup = None THEN e ELSE s.cleanup
      /\ s.forgotten => Retained(s, e).forgotten
      /\ Retained(session, e).cleanup = IF session.cleanup = None THEN e ELSE session.cleanup
    BY <1>2, <1>4 DEF Retained, SessionType, Taken
<1>6. \/ session' = s /\ request' = Superseded(r)
      \/ ~Confirms(r) /\ ~StaleAttempt(r) /\ session' = Retained(s, e) /\ request' = Answered(r)
      \/ /\ session' = s /\ request' = [request EXCEPT ![r].phase = "preparing"]
         /\ Confirms(r) /\ ~StaleAttempt(r)
    BY DEF CompleteRelease, s
<1>7. /\ request' \in {Answered(r), Superseded(r)} =>
             /\ request'[r].phase \in Over
             /\ request'[r].phase = "superseded" <=> request' = Superseded(r)
             /\ \A q \in Requests \ {r} : request'[q] = request[q]
      /\ request' = [request EXCEPT ![r].phase = "preparing"] =>
             /\ request'[r].phase = "preparing" /\ request'[r].pred = e
             /\ request'[r].gen = request[r].gen
             /\ \A q \in Requests \ {r} : request'[q] = request[q]
    BY <1>1, <1>2, EndsPlanned DEF Over, RequestType
<1>8. /\ \A q \in Requests \ {r} : request'[q] = request[q]
      /\ \/ request'[r].phase \in Over
         \/ /\ request'[r].phase = "preparing" /\ request'[r].pred = e
            /\ request'[r].gen = request[r].gen
    BY <1>6, <1>7
<1>9. session'.prepared \in {session.prepared, None} /\ session'.token \in {session.token, None}
    BY <1>4, <1>5, <1>6
<1>10. /\ prep'.generation = prep.generation
       /\ prep'.reservation = IF prep.reservation = r THEN None ELSE prep.reservation
    BY <1>1, <1>2 DEF PrepType
<1>11. Quiet
    <2>1. \A q \in Requests : Moves(q)
        BY <1>1, <1>8 DEF Moves, UnderWay, Unreserved, Over
    <2>2. Reserves
        BY <1>1, <1>8, <1>10 DEF Reserves, Stays
    <2> QED
        BY <1>1, <1>9, <1>10, <2>1, <2>2 DEF Quiet, NewlyPrepared
<1>12. request' = Answered(r) => request' # Superseded(r) /\ request'[r].phase = "answered"
    <2>1. Answered(r)[r].phase = "answered" /\ Superseded(r)[r].phase = "superseded"
        BY <1>2 DEF Answered, Superseded, RequestType, Unasked
    <2> QED
        BY <2>1
<1>13. \/ /\ request' = Superseded(r) /\ request'[r].phase = "superseded"
          /\ session'.cleanup = session.cleanup
       \/ /\ request' = Answered(r) /\ request'[r].phase = "answered"
          /\ session'.cleanup = Retained(session, e).cleanup
          /\ session'.prepared = session.prepared /\ ~StaleAttempt(r)
       \/ /\ Confirms(r) /\ ~StaleAttempt(r)
          /\ request'[r].phase = "preparing" /\ request'[r].pred = e
          /\ request'[r].gen = request[r].gen
          /\ session'.cleanup = session.cleanup
    BY <1>4, <1>5, <1>6, <1>7, <1>12
<1>14. \/ session'.prepared = session.prepared
       \/ /\ session'.prepared = None /\ Confirms(r)
          /\ session.prepared = e
    BY <1>4, <1>5, <1>6
<1>15. /\ session.cleanup # None => session'.cleanup = session.cleanup
       /\ session.forgotten => session'.forgotten
    BY <1>4, <1>5, <1>6
<1> QED
    BY <1>1, <1>3, <1>8, <1>9, <1>10, <1>11, <1>13, <1>14, <1>15

(* Playback asks for an output while a cleanup is not confirmed.           *)
LEMMA AskedInVain ==
    ASSUME ClockInv, Fresh, NEW r \in Requests, Ask(r), session.cleanup # None
    PROVE  Quiet /\ HeldQuiet /\ NoneCurrent'
<1>1. /\ request[r].phase = "unasked" /\ request' = Answered(r)
      /\ prep' = [Advanced EXCEPT !.attempt = None, !.pending = @ \/ session.cleanup = None]
      /\ UNCHANGED <<session, host, world>>
    BY DEF Ask
<1>2. \A q \in Requests : Onwards(q) /\ HandedBefore(q)
    BY <1>1, EndsOnwards DEF ClockInv, Over
<1>3. /\ prep'.generation > prep.generation /\ prep'.reservation = prep.reservation
      /\ world.faults \in Nat /\ prep'.generation \in Nat
    BY <1>1, AskedPrep, BaseNow, OutputAssumption DEF ClockInv, WorldType
<1>4. NoneCurrent'
    BY <1>2, <1>3, ClockTypes DEF ClockInv, Fresh, NoneCurrent, Current, Onwards, Moves
<1> QED
    BY <1>1, <1>2, <1>3, <1>4 DEF Quiet, Reserves, Onwards, HeldQuiet, NewlyPrepared

(* A preparation is asked for: the newest, and the one that is current.    *)
LEMMA AskedEffect ==
    ASSUME BaseInv, NEW r \in Requests, Ask(r), session.cleanup = None
    PROVE  /\ request[r].phase = "unasked" /\ ~UnderWay(r)
           /\ request'[r].phase = "working" /\ request'[r].gen = prep'.generation
           /\ request'[r].pred = session.prepared
           /\ \A q \in Requests \ {r} : request'[q] = request[q]
           /\ prep'.generation > prep.generation /\ prep'.reservation = prep.reservation
           /\ prep'.generation \in Nat /\ epoch' = r /\ UNCHANGED <<session, host, world>>
<1>1. /\ request[r].phase = "unasked"
      /\ request' = [request EXCEPT ![r] = [@ EXCEPT !.phase = "working",
                                   !.gen = prep.generation + 1, !.pred = session.prepared]]
      /\ prep' = [Advanced EXCEPT !.attempt = None, !.pending = @ \/ session.cleanup = None]
      /\ epoch' = r /\ UNCHANGED <<session, host, world>>
    BY DEF Ask
<1>2. request \in RequestType /\ prep \in PrepType
    BY BaseTypes, BaseNow DEF BaseInv
<1>3. /\ request'[r].phase = "working" /\ request'[r].gen = prep.generation + 1
      /\ request'[r].pred = session.prepared
      /\ \A q \in Requests \ {r} : request'[q] = request[q]
    BY <1>1, <1>2 DEF RequestType
<1>4. /\ prep'.generation = prep.generation + 1 /\ prep'.reservation = prep.reservation
      /\ prep.generation \in Nat
    BY AskedPrep
<1> QED
    BY <1>1, <1>3, <1>4 DEF UnderWay

LEMMA AskClock ==
    ASSUME ClockInv, BaseInv', Fresh, NEW r \in Requests, Ask(r)
    PROVE  ClockInv'
<1>1. CASE session.cleanup # None
    BY <1>1, AskedInVain, QuietKeepsClock
<1>2. CASE session.cleanup = None
    <2> USE ClockTypes DEF ClockInv
    <2>1. /\ ~UnderWay(r) /\ request[r].phase = "unasked"
          /\ request'[r].phase = "working" /\ request'[r].gen = prep'.generation
          /\ request'[r].pred = session.prepared
          /\ \A q \in Requests \ {r} : request'[q] = request[q]
          /\ prep'.generation > prep.generation /\ prep'.reservation = prep.reservation
          /\ prep'.generation \in Nat /\ epoch' = r /\ UNCHANGED <<session, host, world>>
        BY <1>2, AskedEffect
    <2>2. \A q \in Requests : UnderWay(q) => q # r /\ UnderWay(q)' /\ request[q].gen < request'[r].gen
        BY <2>1 DEF Fresh, UnderWay
    <2>3. \A q \in Requests : UnderWay(q)' => q = r \/ UnderWay(q)
        BY <2>1 DEF UnderWay
    <2>4. \A q \in Requests : UnderWay(q)' /\ Current(q)' => q = r
        BY <2>1, <2>2, <2>3 DEF Current
    <2>5. UnderWay(r)' /\ request'[r].gen \in Nat
        BY <2>1 DEF UnderWay
    <2>6. Clocked'
        <3>1. \A p, q \in Requests :
                 UnderWay(p)' /\ UnderWay(q)' /\ request'[p].gen = request'[q].gen => p = q
            BY <2>1, <2>2, <2>3 DEF Clocked
        <3>2. \A p \in Requests : UnderWay(p)' => request'[p].gen <= request'[r].gen
            BY <2>1, <2>2, <2>3, <2>5
        <3>3. \A q \in Requests : request'[q].phase \in Unreserved => UnderWay(q)'
            BY DEF Unreserved, UnderWay
        <3>4. prep'.reservation # None => request'[prep'.reservation].phase \in {"releasing", "released"}
            BY <2>1 DEF Clocked, Maybe
        <3> QED
            BY <2>4, <3>1, <3>2, <3>3, <3>4 DEF Clocked
    <2>7. Successive'
        <3>1. \A p, q \in Requests :
                 UnderWay(p)' /\ UnderWay(q)' /\ request'[p].gen < request'[q].gen =>
                    /\ p # r /\ UnderWay(p)
                    /\ q = r \/ (UnderWay(q) /\ request'[q] = request[q])
            <4>1. \A q \in Requests : UnderWay(q)' /\ q # r =>
                     /\ request'[q] = request[q] /\ request[q].gen \in Nat
                     /\ request'[q].gen < request'[r].gen
                BY <2>1, <2>2, <2>3
            <4>2. \A q \in Requests : UnderWay(q)' /\ q # r => ~(request'[r].gen < request'[q].gen)
                BY <2>5, <4>1
            <4>3. ~(request'[r].gen < request'[r].gen)
                BY <2>5
            <4> QED
                BY <2>1, <2>3, <4>2, <4>3
        <3> QED
            BY <2>1, <3>1 DEF Successive
    <2>8. Unrepeated'
        <3>1. \A p \in Requests : request'[p].phase = "releasing" /\ prep'.reservation # p =>
                 /\ p # r /\ request[p].phase = "releasing" /\ prep.reservation # p
                 /\ request'[p].pred = request[p].pred /\ session.prepared # request[p].pred
            BY <2>1 DEF Unrepeated
        <3>2. \A q \in Requests : request'[q].phase \in Unreserved /\ Current(q)' => q = r
            BY <2>4 DEF Unreserved, UnderWay
        <3> QED
            BY <2>1, <3>1, <3>2 DEF Unrepeated
    <2>9. OneRelease'
        <3>1. \A q \in Requests : request'[q].phase = "releasing" =>
                 request[q].phase = "releasing" /\ request'[q].pred = request[q].pred
            BY <2>1
        <3> QED
            BY <3>1 DEF OneRelease
    <2>10. LastAwaited'
        BY <2>1 DEF LastAwaited, BaseInv, Good, Over
    <2> QED
        BY <2>6, <2>7, <2>8, <2>9, <2>10
<1> QED
    BY <1>1, <1>2

LEMMA BeginHandoverEffect ==
    ASSUME BaseInv, NEW r \in Requests, BeginHandover(r)
    PROVE  /\ request[r].phase = "planned" /\ Current(r) /\ UNCHANGED <<session, host, epoch, world>>
           /\ \A q \in Requests \ {r} : request'[q] = request[q]
           /\ \/ /\ InFlight(r) /\ request' = Answered(r) /\ request'[r].phase = "answered"
                 /\ prep.reservation \in Requests
                 /\ prep'.generation = request[prep.reservation].gen
                 /\ prep'.reservation = prep.reservation
              \/ /\ request' = Answered(r) /\ request'[r].phase = "answered"
                 /\ prep'.generation = prep.generation
                 /\ prep'.reservation = prep.reservation
              \/ /\ ~InFlight(r)
                 /\ request'[r].phase = "releasing" /\ request'[r].gen = request[r].gen
                 /\ request'[r].pred = request[r].pred
                 /\ prep'.generation = prep.generation /\ prep'.reservation = r
<1>1. /\ request[r].phase = "planned" /\ Current(r) /\ UNCHANGED <<session, host, epoch, world>>
    BY DEF BeginHandover
<1>2. request \in RequestType /\ prep \in PrepType
    BY BaseTypes, BaseNow DEF BaseInv
<1>3. /\ Answered(r)[r].phase = "answered"
      /\ \A q \in Requests \ {r} : Answered(r)[q] = request[q]
    BY <1>2 DEF Answered, RequestType, Unasked
<1>4. CASE InFlight(r)
    <2>1. /\ request' = Answered(r) /\ prep.reservation \in Requests
          /\ prep' = [prep EXCEPT !.generation = request[prep.reservation].gen,
                                  !.attempt = prep.reservation, !.pending = FALSE]
        BY <1>2, <1>4 DEF BeginHandover, RefuseHandover, InFlight, PrepType, Maybe
    <2>2. /\ prep'.generation = request[prep.reservation].gen
          /\ prep'.reservation = prep.reservation
        BY <1>2, <2>1 DEF PrepType
    <2> QED
        BY <1>1, <1>3, <1>4, <2>1, <2>2
<1>5. CASE ~InFlight(r) /\ PreflightFails(r)
    <2>1. request' = Answered(r) /\ prep' = [prep EXCEPT !.attempt = r, !.pending = FALSE]
        BY <1>5 DEF BeginHandover
    <2>2. prep'.generation = prep.generation /\ prep'.reservation = prep.reservation
        BY <1>2, <2>1 DEF PrepType
    <2> QED
        BY <1>1, <1>3, <2>1, <2>2
<1>6. CASE ~InFlight(r) /\ ~PreflightFails(r)
    <2>1. /\ request' = [request EXCEPT ![r].phase = "releasing"]
          /\ prep' = [prep EXCEPT !.attempt = r, !.reservation = r, !.pending = FALSE]
        BY <1>6 DEF BeginHandover
    <2>2. /\ request'[r].phase = "releasing" /\ request'[r].gen = request[r].gen
          /\ request'[r].pred = request[r].pred
          /\ \A q \in Requests \ {r} : request'[q] = request[q]
        BY <1>2, <2>1 DEF RequestType
    <2>3. prep'.generation = prep.generation /\ prep'.reservation = r
        BY <1>2, <2>1 DEF PrepType
    <2> QED
        BY <1>1, <1>6, <2>2, <2>3
<1> QED
    BY <1>4, <1>5, <1>6

(* A handover is refused: the one under way is current again.              *)
LEMMA RefusedClock ==
    ASSUME ClockInv, BaseInv', NEW r \in Requests,
           request[r].phase = "planned", Current(r), UNCHANGED <<session, host, epoch, world>>,
           request' = Answered(r), prep.reservation \in Requests,
           prep'.generation = request[prep.reservation].gen,
           prep'.reservation = prep.reservation
    PROVE  /\ ClockInv'
           /\ \A q \in Requests : UnderWay(q)' /\ Current(q)' => q = prep.reservation
<1> USE ClockTypes DEF ClockInv
<1> DEFINE v == prep.reservation
<1>1. request'[r].phase \in Over /\ \A q \in Requests \ {r} : request'[q] = request[q]
    BY EndsPlanned DEF Over
<1>2. v \in Requests /\ request[v].phase \in {"releasing", "released"} /\ UnderWay(v) /\ v # r /\ v # None
    BY OutputAssumption DEF Clocked, UnderWay
<1>3. \A q \in Requests : UnderWay(q)' => q # r /\ UnderWay(q) /\ request'[q] = request[q]
    BY <1>1 DEF UnderWay, Over
<1>4. \A q \in Requests : UnderWay(q)' /\ Current(q)' => q = v
    BY <1>2, <1>3 DEF Clocked, Current
<1>5. \A q \in Requests : /\ request'[q].phase \in Unreserved => UnderWay(q)' /\ ~Current(q)'
                          /\ request'[q].phase = "releasing" => UnderWay(q)'
    BY <1>1, <1>2, <1>3, <1>4 DEF Unreserved, UnderWay
<1>6. Clocked'
    <2>1. \A p, q \in Requests :
             UnderWay(p)' /\ UnderWay(q)' /\ request'[p].gen = request'[q].gen => p = q
        BY <1>3 DEF Clocked
    <2>2. \A p, q \in Requests :
             request'[q].phase \in Unreserved /\ Current(q)' /\ UnderWay(p)'
             => request'[p].gen <= request'[q].gen
        BY <1>5
    <2>3. request'[v].phase \in {"releasing", "released"}
        BY <1>1, <1>2
    <2> QED
        BY <2>1, <2>2, <2>3 DEF Clocked
<1>7. Successive'
    BY <1>3 DEF Successive
<1>8. Unrepeated'
    BY <1>3, <1>5 DEF Unrepeated
<1>9. OneRelease'
    BY <1>3, <1>5 DEF OneRelease
<1>10. LastAwaited'
    BY DEF LastAwaited, NoneCurrent, UnderWay
<1> QED
    BY <1>4, <1>6, <1>7, <1>8, <1>9, <1>10

(* A handover begins: none that is under way releases the same execution.  *)
LEMMA BegunClock ==
    ASSUME ClockInv, BaseInv', NEW r \in Requests, ~InFlight(r),
           request[r].phase = "planned", Current(r), UNCHANGED <<session, host, epoch, world>>,
           \A q \in Requests \ {r} : request'[q] = request[q],
           request'[r].phase = "releasing", request'[r].gen = request[r].gen,
           request'[r].pred = request[r].pred,
           prep'.generation = prep.generation, prep'.reservation = r
    PROVE  ClockInv'
<1> USE ClockTypes DEF ClockInv
<1>1. UnderWay(r) /\ request[r].phase \in Unreserved
    BY DEF UnderWay, Unreserved
<1>2. \A q \in Requests : /\ UnderWay(q)' <=> UnderWay(q)
                          /\ request'[q].gen = request[q].gen /\ request'[q].pred = request[q].pred
                          /\ Current(q)' <=> Current(q)
                          /\ request'[q].phase \in Unreserved => q # r /\ request[q].phase \in Unreserved
    BY DEF UnderWay, Unreserved, Current
<1>3. \A q \in Requests : UnderWay(q) /\ Current(q) => q = r
    BY <1>1 DEF Clocked, Current
<1>4. \A q \in Requests : request'[q].phase \in Unreserved => ~Current(q)'
    BY <1>2, <1>3 DEF Unreserved, UnderWay
<1>5. ASSUME NEW p \in Requests, request[p].phase = "releasing"
      PROVE  request[p].pred # request[r].pred /\ session.prepared # request[p].pred
    <2>1. UnderWay(p) /\ p # r /\ request[p].pred # None
        BY <1>5 DEF UnderWay, Attempted
    <2>2. CASE prep.reservation = p
        <3>1. request[p].pred # request[r].pred
            BY <2>2, OutputAssumption DEF InFlight
        <3>2. request[p].gen < request[r].gen
            BY <1>1, <2>1 DEF Clocked
        <3> QED
            BY <1>1, <2>1, <3>1, <3>2 DEF Successive
    <2>3. CASE prep.reservation # p
        BY <1>1, <1>5, <2>3 DEF Unrepeated
    <2> QED
        BY <2>2, <2>3
<1>6. Clocked'
    <2>1. \A p, q \in Requests :
             UnderWay(p)' /\ UnderWay(q)' /\ request'[p].gen = request'[q].gen => p = q
        BY <1>2 DEF Clocked
    <2> QED
        BY <1>4, <2>1 DEF Clocked
<1>7. Successive'
    BY <1>2 DEF Successive
<1>8. Unrepeated'
    <2>1. \A p \in Requests : request'[p].phase = "releasing" /\ prep'.reservation # p =>
             request[p].phase = "releasing"
        OBVIOUS
    <2> QED
        BY <1>2, <1>4, <1>5, <2>1 DEF Unrepeated
<1>9. OneRelease'
    BY <1>2, <1>5 DEF OneRelease
<1>10. LastAwaited'
    BY <1>2 DEF LastAwaited, NoneCurrent
<1> QED
    BY <1>6, <1>7, <1>8, <1>9, <1>10

LEMMA BeginHandoverClock ==
    ASSUME ClockInv, BaseInv', NEW r \in Requests, BeginHandover(r)
    PROVE  ClockInv'
<1>1. /\ request[r].phase = "planned" /\ Current(r) /\ UNCHANGED <<session, host, epoch, world>>
      /\ \A q \in Requests \ {r} : request'[q] = request[q]
    BY BeginHandoverEffect DEF ClockInv
<1>2. CASE /\ InFlight(r) /\ request' = Answered(r) /\ prep.reservation \in Requests
           /\ prep'.generation = request[prep.reservation].gen
           /\ prep'.reservation = prep.reservation
    BY <1>1, <1>2, RefusedClock
<1>3. CASE /\ request' = Answered(r) /\ prep'.generation = prep.generation
           /\ prep'.reservation = prep.reservation
    <2>1. world.faults \in Nat
        BY BaseNow, OutputAssumption DEF ClockInv, WorldType
    <2>2. Quiet
        BY <1>1, <1>3, <2>1, LastQuiet DEF UnderWay
    <2> QED
        BY <2>2, QuietKeepsClock
<1>4. CASE /\ ~InFlight(r)
           /\ request'[r].phase = "releasing" /\ request'[r].gen = request[r].gen
           /\ request'[r].pred = request[r].pred
           /\ prep'.generation = prep.generation /\ prep'.reservation = r
    BY <1>1, <1>4, BegunClock
<1> QED
    BY <1>2, <1>3, <1>4, BeginHandoverEffect DEF ClockInv

LEMMA ClockInductive == ClockInv /\ [Next]_vars /\ [Fresh]_vars => ClockInv'
<1> SUFFICES ASSUME ClockInv, [Next]_vars, [Fresh]_vars PROVE ClockInv'
    OBVIOUS
<1>1. BaseInv'
    BY BaseInductive DEF ClockInv
<1>2. Fresh
    BY ClockTypes DEF ClockInv, Fresh, vars
<1>3. ASSUME NEW r \in Requests, Ask(r) PROVE ClockInv'
    BY <1>1, <1>2, <1>3, AskClock
<1>4. ASSUME NEW r \in Requests, Steps(r) PROVE ClockInv'
    <2>1. CASE BeginHandover(r)
        BY <1>1, <2>1, BeginHandoverClock
    <2>2. CASE CompleteRelease(r)
        BY <1>1, <2>2, CompleteReleaseQuiet, QuietKeepsClock DEF ClockInv
    <2>3. CASE \/ \E kind \in Families \cup {"shared"} : Characterize(r, kind)
               \/ CannotPlan(r)
               \/ \E ok \in BOOLEAN : Acquire(r, ok)
        BY <1>1, <2>3, WorkerQuiet, QuietKeepsClock DEF ClockInv
    <2>4. CASE CompleteFailed(r)
        BY <1>1, <2>4, CompleteFailedQuiet, QuietKeepsClock
    <2>5. ASSUME NEW a \in Replies,
                 \/ Release(r, a) \/ CompleteSuperseded(r, a) \/ CompleteShared(r, a)
                 \/ CompleteFast(r, a) \/ CompletePrepare(r, a)
          PROVE  Quiet
        BY <2>5, ReleaseQuiet, CompleteSupersededQuiet, CompleteSharedQuiet,
           CompleteFastQuiet, CompletePrepareQuiet DEF ClockInv
    <2> QED
        BY <1>1, <1>4, <2>1, <2>2, <2>3, <2>4, <2>5, QuietKeepsClock DEF Steps, Replies
<1>5. CASE Commit
    BY <1>1, <1>5, CommitQuiet, QuietKeepsClock
<1>6. ASSUME NEW a \in Replies, CommitFails(a) \/ LoadFails(a) PROVE ClockInv'
    BY <1>1, <1>6, AwaitedQuiet, QuietKeepsClock
<1>7. ASSUME NEW a \in Replies, Stop(a) \/ EngineLost \/ DeviceLost(a) PROVE ClockInv'
    BY <1>1, <1>2, <1>7, GivenUpQuiet, QuietKeepsClock
<1>8. CASE Reselect
    BY <1>1, <1>2, <1>8, ReselectQuiet, QuietKeepsClock
<1>9. CASE DeviceGoes \/ DeviceReturns \/ UNCHANGED vars
    BY <1>1, <1>9, DeviceQuiet, QuietKeepsClock
<1> QED
    BY <1>3, <1>4, <1>5, <1>6, <1>7, <1>8, <1>9 DEF Next, Replies

LEMMA InitClock == Init => ClockInv
<1> SUFFICES ASSUME Init PROVE ClockInv
    OBVIOUS
<1>1. BaseInv
    BY InitBase
<1>2. /\ \A r \in Requests : request[r].phase = "unasked" /\ ~UnderWay(r)
      /\ prep.reservation = None /\ session.token = None
    BY DEF Init, Unasked, UnderWay
<1> QED
    BY <1>1, <1>2
    DEF ClockInv, Clocked, Successive, Unrepeated, OneRelease, LastAwaited, Unreserved

(* The clock stays, advances by one, or is put back to the handover that   *)
(* is under way.                                                           *)
LEMMA ClockSteps ==
    ASSUME BaseInv, [Next]_vars
    PROVE  \/ prep'.generation = prep.generation /\ prep'.repeated = prep.repeated
           \/ /\ prep'.generation = prep.generation + 1
              /\ prep'.repeated <=> prep.repeated \/ Repeats
           \/ /\ \E r \in Requests : /\ BeginHandover(r) /\ request[r].phase = "planned"
                                    /\ Current(r) /\ InFlight(r)
              /\ prep'.generation = request[prep.reservation].gen
              /\ prep'.repeated = prep.repeated
<1> DEFINE Stays0 == prep'.generation = prep.generation /\ prep'.repeated = prep.repeated
           Steps1 == /\ prep'.generation = prep.generation + 1
                     /\ prep'.repeated <=> prep.repeated \/ Repeats
           Back   == /\ \E r \in Requests : /\ BeginHandover(r) /\ request[r].phase = "planned"
                                           /\ Current(r) /\ InFlight(r)
                     /\ prep'.generation = request[prep.reservation].gen
                     /\ prep'.repeated = prep.repeated
<1>1. prep \in PrepType
    BY BaseNow
<1>2. UNCHANGED prep => Stays0
    OBVIOUS
<1>3. prep' = Cancelled => Steps1
    BY <1>1, AdvancedIs
<1>4. ASSUME NEW p, prep' = [prep EXCEPT !.pending = p] PROVE Stays0
    BY <1>1, <1>4 DEF PrepType
<1>5. ASSUME NEW r \in Requests, Ask(r) PROVE Steps1
    BY <1>5, AskedPrep
<1>6. ASSUME NEW r \in Requests, BeginHandover(r) PROVE Stays0 \/ Back
    <2>1. CASE InFlight(r)
        <3>1. prep' = [prep EXCEPT !.generation = request[prep.reservation].gen,
                                   !.attempt = prep.reservation, !.pending = FALSE]
            BY <1>6, <2>1 DEF BeginHandover, RefuseHandover
        <3>2. /\ prep'.generation = request[prep.reservation].gen
              /\ prep'.repeated = prep.repeated
            BY <1>1, <3>1 DEF PrepType
        <3> QED
            BY <1>6, <2>1, <3>2 DEF BeginHandover
    <2>2. CASE ~InFlight(r)
        BY <1>1, <1>6, <2>2 DEF BeginHandover, PrepType
    <2> QED
        BY <2>1, <2>2
<1>7. ASSUME NEW r \in Requests, CompleteRelease(r) PROVE Stays0
    BY <1>1, <1>7 DEF CompleteRelease, PrepType
<1> HIDE DEF Stays0, Steps1, Back
<1>8. ASSUME NEW r \in Requests, Steps(r) PROVE Stays0 \/ Back
    <2>1. CASE \/ \E kind \in Families \cup {"shared"} : Characterize(r, kind)
               \/ CannotPlan(r)
               \/ \E ok \in BOOLEAN : Acquire(r, ok)
        BY <1>2, <2>1 DEF Characterize, CannotPlan, Acquire
    <2>2. CASE CompleteFailed(r)
        BY <1>4, <2>2 DEF CompleteFailed
    <2>3. ASSUME NEW a \in Replies,
                 \/ Release(r, a) \/ CompleteSuperseded(r, a) \/ CompleteShared(r, a)
                 \/ CompleteFast(r, a) \/ CompletePrepare(r, a)
          PROVE  Stays0
        BY <1>2, <1>4, <2>3
        DEF Release, CompleteSuperseded, CompleteShared, CompleteFast, CompletePrepare
    <2> QED
        BY <1>6, <1>7, <1>8, <2>1, <2>2, <2>3 DEF Steps, Replies
<1>9. Commit \/ DeviceGoes \/ DeviceReturns \/ UNCHANGED vars => Stays0
    BY <1>2 DEF Commit, DeviceGoes, DeviceReturns, vars
<1>10. EngineLost \/ Reselect => Steps1
    BY <1>3 DEF EngineLost, Reselect
<1>11. ASSUME NEW a \in Replies, CommitFails(a) \/ LoadFails(a) \/ Stop(a) \/ DeviceLost(a)
       PROVE  Stays0 \/ Steps1
    BY <1>2, <1>3, <1>11 DEF CommitFails, LoadFails, Stop, DeviceLost
<1>12. Stays0 \/ Steps1 \/ Back
    BY <1>5, <1>8, <1>9, <1>10, <1>11 DEF Next, Replies
<1> QED
    BY <1>12 DEF Stays0, Steps1, Back

LEMMA RepeatedStays ==
    ASSUME BaseInv, [Next]_vars
    PROVE  prep.repeated => prep'.repeated
BY ClockSteps

(* A clock that has repeated no number was fresh when it advanced: a       *)
(* handover that is refused puts it back, never forth.                     *)
LEMMA StaysFresh ==
    ASSUME ClockInv, [Next]_vars, ~prep'.repeated
    PROVE  Fresh
<1>1. /\ BaseInv /\ prep \in PrepType /\ prep.generation \in Nat
      /\ \A r \in Requests : request[r].gen \in Nat
    BY BaseNow, ClockTypes DEF ClockInv
<1>2. CASE prep'.generation = prep.generation
    BY <1>1, <1>2 DEF Fresh
<1>3. CASE /\ prep'.generation = prep.generation + 1
           /\ prep'.repeated <=> prep.repeated \/ Repeats
    <2>1. \A r \in Requests : UnderWay(r) => ~(request[r].gen > prep.generation)
        BY <1>3 DEF Repeats
    <2> QED
        BY <1>1, <1>3, <2>1 DEF Fresh
<1>4. ASSUME NEW r \in Requests, request[r].phase = "planned", Current(r), InFlight(r),
             prep'.generation = request[prep.reservation].gen
      PROVE  Fresh
    <2>1. prep.reservation \in Requests /\ UnderWay(prep.reservation)
        BY <1>1, <1>4 DEF InFlight, PrepType, Maybe, ClockInv, Clocked, UnderWay
    <2>2. request[prep.reservation].gen <= prep.generation
        BY <1>4, <2>1 DEF ClockInv, Clocked, Unreserved, Current
    <2> QED
        BY <1>1, <1>4, <2>1, <2>2 DEF Fresh
<1> QED
    BY <1>1, <1>2, <1>3, <1>4, ClockSteps

-----------------------------------------------------------------------------
(* The clock falls behind a preparation under way when a handover is       *)
(* refused.  That takes four requests: the refused one, the handover that  *)
(* has the reservation, the execution both release, and a preparation that *)
(* was asked for between the two.                                          *)

Asked(r) == request[r].phase # "unasked"

FourAsked == \E q, r, e, x \in Requests :
    /\ q # r /\ q # e /\ q # x /\ r # e /\ r # x /\ e # x
    /\ Asked(q) /\ Asked(r) /\ Asked(e) /\ Asked(x)

FreshInv == /\ BaseInv
            /\ ~prep.repeated => ClockInv
            /\ prep.repeated \/ Repeats => FourAsked

LEMMA AskedStays ==
    ASSUME BaseInv, [Next]_vars
    PROVE  FourAsked => FourAsked'
<1>1. request \in RequestType
    BY BaseTypes DEF BaseInv
<1> DEFINE Keeps == \A q \in Requests : Asked(q) => Asked(q)'
<1>2. UNCHANGED request => Keeps
    BY DEF Asked
<1>3. ASSUME NEW r \in Requests, NEW new, new.phase # "unasked",
             request' = [request EXCEPT ![r] = new]
      PROVE  Keeps
    BY <1>1, <1>3 DEF Asked, RequestType
<1>4. ASSUME NEW r \in Requests, request' \in {Answered(r), Superseded(r)} PROVE Keeps
    BY <1>3, <1>4 DEF Answered, Superseded, Unasked
<1>5. ASSUME NEW r \in Requests, Ask(r) PROVE Keeps
    <2>1. CASE session.cleanup # None
        BY <1>4, <1>5, <2>1 DEF Ask
    <2>2. CASE session.cleanup = None
        BY <1>5, <2>2, AskedEffect DEF Asked
    <2> QED
        BY <2>1, <2>2
<1>6. ASSUME NEW r \in Requests, Steps(r) PROVE Keeps
    <2>1. ASSUME NEW kind \in Families \cup {"shared"}, Characterize(r, kind) PROVE Keeps
        BY <1>1, <2>1 DEF Characterize, Asked, RequestType
    <2>2. CASE CannotPlan(r)
        BY <1>1, <2>2 DEF CannotPlan, Asked, RequestType
    <2>3. ASSUME NEW ok \in BOOLEAN, Acquire(r, ok) PROVE Keeps
        BY <1>1, <2>3 DEF Acquire, Asked, RequestType
    <2>4. CASE CompleteFailed(r)
        BY <1>4, <2>4 DEF CompleteFailed
    <2>5. CASE BeginHandover(r)
        BY <2>5, BeginHandoverEffect DEF Asked
    <2>6. CASE CompleteRelease(r)
        BY <1>1, <1>4, <2>6 DEF CompleteRelease, Asked, RequestType
    <2>7. ASSUME NEW a \in Replies, Release(r, a) PROVE Keeps
        BY <1>1, <2>7 DEF Release, Asked, RequestType
    <2>8. ASSUME NEW a \in Replies,
                 \/ CompleteSuperseded(r, a) \/ CompleteShared(r, a)
                 \/ CompleteFast(r, a) \/ CompletePrepare(r, a)
          PROVE  Keeps
        BY <1>4, <2>8 DEF CompleteSuperseded, CompleteShared, CompleteFast, CompletePrepare
    <2> HIDE DEF Keeps
    <2> QED
        BY <1>6, <2>1, <2>2, <2>3, <2>4, <2>5, <2>6, <2>7, <2>8 DEF Steps, Replies
<1>7. ASSUME Reselect PROVE Keeps
    <2>1. ASSUME NEW q \in Requests PROVE request'[q].phase = request[q].phase
        <3> DEFINE over == request[q].phase \notin {"unasked", "answered", "superseded"}
        <3>1. request'[q] = [request[q] EXCEPT !.outdated = over]
            BY <1>7 DEF Reselect
        <3> QED
            BY <1>1, <3>1 DEF RequestType
    <2> QED
        BY <2>1 DEF Asked
<1>8. Commit \/ EngineLost \/ DeviceGoes \/ DeviceReturns \/ UNCHANGED vars => Keeps
    BY <1>2 DEF Commit, EngineLost, DeviceGoes, DeviceReturns, vars
<1>9. ASSUME NEW a \in Replies, CommitFails(a) \/ LoadFails(a) \/ Stop(a) \/ DeviceLost(a)
      PROVE  Keeps
    BY <1>2, <1>9 DEF CommitFails, LoadFails, Stop, DeviceLost
<1> HIDE DEF Keeps
<1>10. Keeps
    BY <1>5, <1>6, <1>7, <1>8, <1>9 DEF Next, Replies
<1> QED
    BY <1>10 DEF Keeps, FourAsked

(* What the refusal needs: the reservation is of a handover that is under  *)
(* way, and what it releases is over.                                      *)
LEMMA RefusedIsFourth ==
    ASSUME ClockInv, NEW r \in Requests, request[r].phase = "planned", InFlight(r),
           NEW x \in Requests, x # r, UnderWay(x), request[x].gen > request[prep.reservation].gen
    PROVE  FourAsked
<1> DEFINE p == prep.reservation
           e == request[p].pred
<1>1. p \in Requests /\ request[p].phase \in {"releasing", "released"}
    BY ClockTypes DEF InFlight, Maybe, ClockInv, Clocked
<1>2. e # None /\ Execution(e, request)
    BY <1>1, ClockTypes DEF ClockInv, Attempted
<1>3. e \in Requests /\ request[e].phase \in Over
    BY <1>1, <1>2, ClockTypes DEF Execution, ClockInv, Maybe
<1>4. request[x].gen \in Nat /\ request[p].gen \in Nat
    BY <1>1, ClockTypes DEF ClockInv
<1>5. x # p
    BY <1>4
<1>6. r # p /\ r # e /\ p # e /\ x # e
    BY <1>1, <1>3 DEF Over, UnderWay
<1> QED
    BY <1>1, <1>3, <1>5, <1>6 DEF FourAsked, Asked, Over, UnderWay

(* The other steps leave no preparation ahead of the clock.                *)
LEMMA BehindOnRefusal ==
    ASSUME ClockInv, [Next]_vars, ~prep'.repeated, ~Repeats, Repeats'
    PROVE  FourAsked
<1>1. BaseInv /\ prep.generation \in Nat /\ \A r \in Requests : request[r].gen \in Nat
    BY ClockTypes DEF ClockInv
<1>2. \A r \in Requests : UnderWay(r) => request[r].gen <= prep.generation
    BY <1>1 DEF Repeats
<1>3. Fresh
    BY StaysFresh
<1>4. PICK x \in Requests : UnderWay(x)' /\ request'[x].gen > prep'.generation
    BY DEF Repeats, UnderWay
<1> DEFINE Before == UnderWay(x) /\ request'[x].gen = request[x].gen
<1>5. ASSUME Quiet PROVE Before
    BY <1>4, <1>5 DEF Quiet, Moves
<1>6. ASSUME NEW r \in Requests, Ask(r) PROVE Before
    <2>1. CASE session.cleanup # None
        BY <1>3, <1>5, <1>6, <2>1, AskedInVain
    <2>2. CASE session.cleanup = None
        BY <1>1, <1>4, <1>6, <2>2, AskedEffect DEF UnderWay
    <2> QED
        BY <2>1, <2>2
<1>7. ASSUME NEW r \in Requests, BeginHandover(r) PROVE FourAsked
    <2>1. /\ request[r].phase = "planned" /\ UnderWay(r) /\ Current(r)
          /\ \A q \in Requests \ {r} : request'[q] = request[q]
        BY <1>1, <1>7, BeginHandoverEffect DEF UnderWay
    <2>2. CASE /\ InFlight(r) /\ request'[r].phase = "answered"
               /\ prep'.generation = request[prep.reservation].gen
        <3>1. x # r /\ UnderWay(x) /\ request[x].gen > request[prep.reservation].gen
            BY <1>4, <2>1, <2>2 DEF UnderWay
        <3> QED
            BY <2>1, <2>2, <3>1, RefusedIsFourth
    <2>3. CASE /\ prep'.generation = prep.generation
               /\ request'[r].phase = "answered" \/ request'[r].gen = request[r].gen
        <3>1. UnderWay(x) /\ request'[x].gen = request[x].gen
            BY <1>4, <2>1, <2>3 DEF UnderWay
        <3> QED
            BY <1>1, <1>2, <1>4, <2>3, <3>1
    <2> QED
        BY <1>1, <1>7, <2>2, <2>3, BeginHandoverEffect
<1>8. Before \/ FourAsked
    <2>1. ASSUME NEW r \in Requests, Steps(r) PROVE Before \/ FourAsked
        <3>1. CASE CompleteRelease(r)
            BY <1>1, <1>5, <3>1, CompleteReleaseQuiet
        <3>2. CASE \/ \E kind \in Families \cup {"shared"} : Characterize(r, kind)
                   \/ CannotPlan(r)
                   \/ \E ok \in BOOLEAN : Acquire(r, ok)
            BY <1>1, <1>5, <3>2, WorkerQuiet
        <3>3. CASE CompleteFailed(r)
            BY <1>5, <3>3, CompleteFailedQuiet
        <3>4. ASSUME NEW a \in Replies,
                     \/ Release(r, a) \/ CompleteSuperseded(r, a) \/ CompleteShared(r, a)
                     \/ CompleteFast(r, a) \/ CompletePrepare(r, a)
              PROVE  Quiet
            BY <1>1, <3>4, ReleaseQuiet, CompleteSupersededQuiet, CompleteSharedQuiet,
               CompleteFastQuiet, CompletePrepareQuiet
        <3> HIDE DEF Before
        <3> QED
            BY <1>5, <1>7, <2>1, <3>1, <3>2, <3>3, <3>4 DEF Steps, Replies
    <2>2. CASE Commit
        BY <1>5, <2>2, CommitQuiet
    <2>3. ASSUME NEW a \in Replies, CommitFails(a) \/ LoadFails(a) PROVE Before
        BY <1>5, <2>3, AwaitedQuiet
    <2>4. ASSUME NEW a \in Replies, Stop(a) \/ EngineLost \/ DeviceLost(a) PROVE Before
        BY <1>3, <1>5, <2>4, GivenUpQuiet
    <2>5. CASE Reselect
        BY <1>3, <1>5, <2>5, ReselectQuiet
    <2>6. CASE DeviceGoes \/ DeviceReturns \/ UNCHANGED vars
        BY <1>5, <2>6, DeviceQuiet
    <2> HIDE DEF Before
    <2> QED
        BY <1>6, <2>1, <2>2, <2>3, <2>4, <2>5, <2>6 DEF Next, Replies
<1>9. ASSUME Before PROVE FourAsked
    <2>1. request[x].gen <= prep.generation /\ request[x].gen > prep'.generation
        BY <1>2, <1>4, <1>9
    <2>2. prep'.generation \notin {prep.generation, prep.generation + 1}
        BY <1>1, <2>1
    <2>3. \E r \in Requests : BeginHandover(r)
        BY <1>1, <2>2, ClockSteps
    <2> QED
        BY <1>7, <2>3
<1> QED
    BY <1>8, <1>9

(* Until four requests were asked for, the clock that tells which          *)
(* preparation is current has come to no number that was taken, whatever   *)
(* fails and whatever happens: then nothing excuses HandoverIsExclusive.   *)
THEOREM ClockIsFreshForThree == Spec => [](FourAsked \/ ClockIsFresh)
<1>1. Init => FreshInv
    BY InitBase, InitClock, OutputAssumption DEF FreshInv, Init, Repeats, UnderWay, Unasked
<1>2. FreshInv /\ [Next]_vars => FreshInv'
    <2> SUFFICES ASSUME FreshInv, [Next]_vars PROVE FreshInv'
        OBVIOUS
    <2>1. BaseInv /\ BaseInv'
        BY BaseInductive DEF FreshInv
    <2>2. FourAsked => FourAsked'
        BY <2>1, AskedStays
    <2>3. CASE prep'.repeated
        BY <2>1, <2>2, <2>3, ClockSteps DEF FreshInv
    <2>4. CASE ~prep'.repeated
        <3>1. ClockInv
            BY <2>1, <2>4, RepeatedStays DEF FreshInv
        <3>2. ClockInv'
            BY <2>4, <3>1, StaysFresh, ClockInductive
        <3>3. Repeats' => FourAsked'
            BY <2>2, <2>4, <3>1, BehindOnRefusal DEF FreshInv
        <3> QED
            BY <2>1, <2>4, <3>2, <3>3 DEF FreshInv
    <2> QED
        BY <2>3, <2>4
<1>3. FreshInv => FourAsked \/ ClockIsFresh
    BY DEF FreshInv, ClockIsFresh
<1> QED
    BY <1>1, <1>2, <1>3, PTL DEF Spec

-----------------------------------------------------------------------------
(* What a handover acquires in place of.  A command that raises may leave  *)
(* the host with an execution that its release called stale; none of the   *)
(* preparations that would take its place is current then.                 *)

Unheld == \A r \in Requests :
    /\ request[r].phase = "released" /\ request[r].result # "error"
    /\ host.holds = request[r].pred
    => request[r].result = "stale"

DroppedIsStale == \A r \in Requests :
    /\ UnderWay(r) /\ request[r].pred # None /\ host.holds = request[r].pred
    /\ session.prepared # request[r].pred
    => ~Current(r)

NeverHeld == \A r \in Requests :
    request[r].phase \in {"preparing", "prepared"} => host.holds # request[r].pred

HeldInv == ClockInv /\ Unheld /\ DroppedIsStale /\ NeverHeld

LEMMA FaultsType ==
    ASSUME BaseInv
    PROVE  world.faults \in 0 .. MaxFaults /\ MaxFaults \in Nat /\ world.faults \in Nat
BY BaseNow, OutputAssumption DEF WorldType

LEMMA QuietKeepsHeld ==
    ASSUME HeldInv, ClockInv', Quiet, HeldQuiet
    PROVE  HeldInv'
<1> USE DEF HeldInv
<1>1. /\ \A r \in Requests : request[r].pred \in Maybe
      /\ \A r \in Requests : request[r].pred # None => Execution(request[r].pred, request)
      /\ \A r \in Requests : request[r].phase \in Attempted => request[r].pred # None
    BY ClockTypes DEF ClockInv
<1>3. \A r \in Requests : request[r].pred # None /\ host'.holds = request[r].pred =>
         host.holds = request[r].pred
    BY <1>1 DEF HeldQuiet
<1>4. \A r \in Requests : UnderWay(r)' => /\ UnderWay(r) /\ request'[r].gen = request[r].gen
                                          /\ request'[r].pred = request[r].pred
    BY DEF Quiet, Moves
<1>5. \A r \in Requests :
         /\ request'[r].phase = "released" =>
               UnderWay(r)' /\ request[r].phase \in Attempted
         /\ request'[r].phase \in {"preparing", "prepared"} =>
               UnderWay(r)' /\ request[r].phase \in {"preparing", "prepared"}
    BY DEF HeldQuiet, HandedBefore, UnderWay, Attempted
<1>6. Unheld'
    <2> SUFFICES ASSUME NEW r \in Requests, request'[r].phase = "released",
                        request'[r].result # "error", host'.holds = request'[r].pred
                 PROVE  request'[r].result = "stale"
        BY DEF Unheld
    <2>1. request'[r].pred = request[r].pred /\ host.holds = request[r].pred
        BY <1>1, <1>3, <1>4, <1>5
    <2>2. CASE request[r].phase = "released" /\ request'[r].result = request[r].result
        BY <2>1, <2>2 DEF Unheld
    <2> QED
        BY <2>1, <2>2 DEF HeldQuiet, HandedBefore
<1>7. DroppedIsStale'
    <2> SUFFICES ASSUME NEW r \in Requests, UnderWay(r)', request'[r].pred # None,
                        host'.holds = request'[r].pred, session'.prepared # request'[r].pred,
                        Current(r)'
                 PROVE  FALSE
        BY DEF DroppedIsStale
    <2>1. ~NoneCurrent'
        BY DEF NoneCurrent
    <2>2. /\ UnderWay(r) /\ request[r].pred # None /\ host.holds = request[r].pred
          /\ host'.holds # None /\ request'[r].pred = request[r].pred
        BY <1>3, <1>4
    <2>3. session'.prepared = session.prepared /\ prep'.generation = prep.generation
        BY <2>1, <2>2 DEF Quiet, HeldQuiet
    <2>4. Current(r)
        BY <1>4, <2>3 DEF Current
    <2> QED
        BY <2>2, <2>3, <2>4 DEF DroppedIsStale
<1>8. NeverHeld'
    BY <1>1, <1>3, <1>4, <1>5 DEF NeverHeld, Attempted
<1> QED
    BY <1>6, <1>7, <1>8

LEMMA AskHeld ==
    ASSUME HeldInv, ClockInv', Fresh, NEW r \in Requests, Ask(r)
    PROVE  HeldInv'
<1>1. CASE session.cleanup # None
    BY <1>1, AskedInVain, QuietKeepsHeld DEF HeldInv
<1>2. CASE session.cleanup = None
    <2>1. /\ ~UnderWay(r) /\ request'[r].phase = "working"
          /\ request'[r].pred = session.prepared
          /\ \A q \in Requests \ {r} : request'[q] = request[q]
          /\ prep'.generation > prep.generation
          /\ UNCHANGED <<session, host, world>>
        BY <1>2, AskedEffect DEF HeldInv, ClockInv
    <2>2. \A q \in Requests \ {r} : UnderWay(q)' => UnderWay(q) /\ ~Current(q)'
        BY <2>1, ClockTypes DEF HeldInv, ClockInv, UnderWay, Current, Fresh
    <2>3. Unheld'
        BY <2>1 DEF HeldInv, Unheld
    <2>4. DroppedIsStale'
        <3> SUFFICES ASSUME NEW q \in Requests, UnderWay(q)', Current(q)',
                            session'.prepared # request'[q].pred
                     PROVE  FALSE
            BY DEF DroppedIsStale
        <3>1. q = r
            BY <2>2
        <3> QED
            BY <2>1, <3>1
    <2>5. NeverHeld'
        BY <2>1 DEF HeldInv, NeverHeld
    <2> QED
        BY <2>3, <2>4, <2>5 DEF HeldInv
<1> QED
    BY <1>1, <1>2

LEMMA BeginHandoverHeld ==
    ASSUME HeldInv, ClockInv', NEW r \in Requests, BeginHandover(r)
    PROVE  HeldInv'
<1> USE DEF HeldInv
<1>1. /\ request[r].phase = "planned" /\ Current(r) /\ UNCHANGED <<session, host, epoch, world>>
      /\ \A q \in Requests \ {r} : request'[q] = request[q]
      /\ BaseInv /\ BaseInv' /\ UnderWay(r)
    BY BeginHandoverEffect DEF ClockInv, UnderWay
<1>2. CASE /\ InFlight(r) /\ request' = Answered(r) /\ request'[r].phase = "answered"
           /\ prep.reservation \in Requests
           /\ prep'.generation = request[prep.reservation].gen
           /\ prep'.reservation = prep.reservation
    <2> DEFINE v == prep.reservation
    <2>1. \A q \in Requests : UnderWay(q)' /\ Current(q)' => q = v
        BY <1>1, <1>2, RefusedClock
    <2>2. \A q \in Requests : UnderWay(q)' => UnderWay(q) /\ request'[q] = request[q]
        BY <1>1, <1>2 DEF UnderWay
    <2>3. request[v].pred = request[r].pred
        BY <1>2 DEF InFlight
    <2>4. Unheld' /\ NeverHeld'
        BY <1>1, <1>2 DEF Unheld, NeverHeld
    <2>5. DroppedIsStale'
        <3> SUFFICES ASSUME NEW q \in Requests, UnderWay(q)', Current(q)',
                            request'[q].pred # None, host'.holds = request'[q].pred,
                            session'.prepared # request'[q].pred
                     PROVE  FALSE
            BY DEF DroppedIsStale
        <3>1. q = v /\ request'[q] = request[q]
            BY <2>1, <2>2
        <3> QED
            BY <1>1, <2>3, <3>1 DEF DroppedIsStale
    <2> QED
        BY <2>4, <2>5
<1>3. CASE /\ request' = Answered(r) /\ prep'.generation = prep.generation
           /\ prep'.reservation = prep.reservation
    <2>1. world.faults \in Nat
        BY FaultsType, <1>1
    <2>2. Quiet /\ HeldQuiet
        BY <1>1, <1>3, <2>1, LastQuiet
    <2> QED
        BY <2>2, QuietKeepsHeld
<1>4. CASE /\ request'[r].phase = "releasing" /\ request'[r].gen = request[r].gen
           /\ request'[r].pred = request[r].pred
           /\ prep'.generation = prep.generation
    <2>1. \A q \in Requests : /\ UnderWay(q)' => UnderWay(q)
                              /\ request'[q].gen = request[q].gen
                              /\ request'[q].pred = request[q].pred
                              /\ Current(q)' => Current(q)
        BY <1>1, <1>4 DEF UnderWay, Current
    <2>2. Unheld' /\ NeverHeld'
        BY <1>1, <1>4 DEF Unheld, NeverHeld
    <2>3. DroppedIsStale'
        BY <1>1, <2>1 DEF DroppedIsStale
    <2> QED
        BY <2>2, <2>3
<1> QED
    BY <1>1, <1>2, <1>3, <1>4, BeginHandoverEffect

LEMMA CompleteReleaseHeld ==
    ASSUME HeldInv, ClockInv', NEW r \in Requests, CompleteRelease(r)
    PROVE  HeldInv'
<1> USE DEF HeldInv
<1> DEFINE e == request[r].pred
<1>1. BaseInv /\ request \in RequestType
    BY BaseTypes DEF ClockInv, BaseInv
<1>2. /\ request[r].phase = "released" /\ e \in Requests /\ e # None
      /\ \A q \in Requests \ {r} : request'[q] = request[q]
      /\ \/ request'[r].phase \in Over
         \/ /\ Confirms(r) /\ ~StaleAttempt(r)
            /\ request'[r].phase = "preparing" /\ request'[r].pred = e
            /\ request'[r].gen = request[r].gen
      /\ \/ session'.prepared = session.prepared
         \/ /\ session'.prepared = None /\ Confirms(r)
            /\ session.prepared = e
      /\ prep'.generation = prep.generation /\ UNCHANGED <<host, epoch, world>>
    BY <1>1, CompleteReleaseQuiet, OutputAssumption DEF Over
<1>3. \A q \in Requests : UnderWay(q)' => /\ UnderWay(q) /\ request'[q].gen = request[q].gen
                                          /\ request'[q].pred = request[q].pred
                                          /\ Current(q)' => Current(q)
    BY <1>2 DEF UnderWay, Over, Current
<1>4. ASSUME Confirms(r), host.holds = e
      PROVE  session.prepared # e
    BY <1>2, <1>4 DEF Confirms, Unheld
<1>5. Unheld'
    BY <1>2 DEF Unheld, Over
<1>6. DroppedIsStale'
    <2> SUFFICES ASSUME NEW q \in Requests, UnderWay(q)', Current(q)',
                        request'[q].pred # None, host'.holds = request'[q].pred,
                        session'.prepared # request'[q].pred
                 PROVE  FALSE
        BY DEF DroppedIsStale
    <2>1. session.prepared # request[q].pred
        BY <1>2, <1>3, <1>4
    <2> QED
        BY <1>2, <1>3, <2>1 DEF DroppedIsStale
<1>7. NeverHeld'
    <2>1. ASSUME Confirms(r), ~StaleAttempt(r)
          PROVE  host.holds # e
        <3>1. UnderWay(r) /\ Current(r)
            BY <1>2, <2>1 DEF UnderWay, StaleAttempt
        <3> QED
            BY <1>2, <1>4, <2>1, <3>1 DEF DroppedIsStale
    <2> QED
        BY <1>2, <2>1 DEF NeverHeld, Over
<1> QED
    BY <1>5, <1>6, <1>7

LEMMA HeldInductive == HeldInv /\ [Next]_vars /\ [Fresh]_vars => HeldInv'
<1> SUFFICES ASSUME HeldInv, [Next]_vars, [Fresh]_vars PROVE HeldInv'
    OBVIOUS
<1>1. ClockInv /\ ClockInv'
    BY ClockInductive DEF HeldInv
<1>2. Fresh
    BY <1>1, ClockTypes DEF ClockInv, Fresh, vars
<1>3. ASSUME NEW r \in Requests, Ask(r) PROVE HeldInv'
    BY <1>1, <1>2, <1>3, AskHeld
<1>4. ASSUME NEW r \in Requests, Steps(r) PROVE HeldInv'
    <2>1. CASE BeginHandover(r)
        BY <1>1, <2>1, BeginHandoverHeld
    <2>2. CASE CompleteRelease(r)
        BY <1>1, <2>2, CompleteReleaseHeld
    <2>3. CASE \/ \E kind \in Families \cup {"shared"} : Characterize(r, kind)
               \/ CannotPlan(r)
               \/ \E ok \in BOOLEAN : Acquire(r, ok)
        BY <1>1, <2>3, WorkerQuiet, QuietKeepsHeld DEF ClockInv
    <2>4. CASE CompleteFailed(r)
        BY <1>1, <2>4, CompleteFailedQuiet, QuietKeepsHeld
    <2>5. ASSUME NEW a \in Replies,
                 \/ Release(r, a) \/ CompleteSuperseded(r, a) \/ CompleteShared(r, a)
                 \/ CompleteFast(r, a) \/ CompletePrepare(r, a)
          PROVE  Quiet /\ HeldQuiet
        BY <1>1, <2>5, ReleaseQuiet, CompleteSupersededQuiet, CompleteSharedQuiet,
           CompleteFastQuiet, CompletePrepareQuiet DEF ClockInv
    <2> QED
        BY <1>1, <1>4, <2>1, <2>2, <2>3, <2>4, <2>5, QuietKeepsHeld DEF Steps, Replies
<1>5. CASE Commit
    BY <1>1, <1>5, CommitQuiet, QuietKeepsHeld
<1>6. ASSUME NEW a \in Replies, CommitFails(a) \/ LoadFails(a) PROVE HeldInv'
    BY <1>1, <1>6, AwaitedQuiet, QuietKeepsHeld
<1>7. ASSUME NEW a \in Replies, Stop(a) \/ EngineLost \/ DeviceLost(a) PROVE HeldInv'
    BY <1>1, <1>2, <1>7, GivenUpQuiet, QuietKeepsHeld
<1>8. CASE Reselect
    BY <1>1, <1>2, <1>8, ReselectQuiet, QuietKeepsHeld
<1>9. CASE DeviceGoes \/ DeviceReturns \/ UNCHANGED vars
    BY <1>1, <1>9, DeviceQuiet, QuietKeepsHeld
<1> QED
    BY <1>3, <1>4, <1>5, <1>6, <1>7, <1>8, <1>9 DEF Next, Replies

LEMMA InitHeld == Init => HeldInv
<1> SUFFICES ASSUME Init PROVE HeldInv
    OBVIOUS
<1>1. ClockInv
    BY InitClock
<1>2. \A r \in Requests : request[r].phase = "unasked" /\ ~UnderWay(r)
    BY DEF Init, Unasked, UnderWay
<1> QED
    BY <1>1, <1>2 DEF HeldInv, Unheld, DroppedIsStale, NeverHeld

(* Whatever the host answers: a handover acquires only once the host holds *)
(* what it takes the place of no more, and no two handovers release the    *)
(* same execution, unless the clock has repeated a number.                 *)
THEOREM HandoversAreExclusive == Spec => []HandoverIsExclusive
<1> DEFINE Inv == BaseInv /\ (~prep.repeated => HeldInv)
<1>1. Init => Inv
    BY InitBase, InitHeld
<1>2. Inv /\ [Next]_vars => Inv'
    <2> SUFFICES ASSUME Inv, [Next]_vars PROVE Inv'
        OBVIOUS
    <2>1. BaseInv'
        BY BaseInductive
    <2>2. ASSUME ~prep.repeated, ~prep'.repeated PROVE HeldInv'
        <3>1. HeldInv /\ ClockInv
            BY <2>2 DEF HeldInv
        <3> QED
            BY <2>2, <3>1, StaysFresh, HeldInductive
    <2>3. prep.repeated => prep'.repeated
        BY RepeatedStays
    <2> QED
        BY <2>1, <2>2, <2>3
<1>3. Inv => HandoverIsExclusive
    BY DEF HeldInv, NeverHeld, ClockInv, OneRelease, HandoverIsExclusive
<1> HIDE DEF Inv
<1> QED
    BY <1>1, <1>2, <1>3, PTL DEF Spec

-----------------------------------------------------------------------------
(* What a superseded preparation leaves behind.  The host holds executions *)
(* that were prepared, and a cleanup that is not confirmed is of one: of   *)
(* the one that is prepared only when no preparation is current, and never *)
(* of the one that Playback waits for.                                     *)

HeldIsKnown == host.holds # None =>
    /\ request[host.holds].kind \in Families
    /\ request[host.holds].phase \in Over \/ request[host.holds].ok

Unconfirmed == session.cleanup # None =>
    /\ Execution(session.cleanup, request)
    /\ session.cleanup = session.prepared => NoneCurrent

AwaitedIsSure == session.token # None /\ session.token = epoch /\ session.cleanup # None =>
    session.cleanup # session.prepared

Stopped == \A r \in Requests :
    request[r].phase = "superseded" /\ host.holds = r /\ request[r].kind # "native_dsd"
    => session.cleanup # None /\ world.faults > 0

StoppedInv == ClockInv /\ HeldIsKnown /\ Unconfirmed /\ AwaitedIsSure /\ Stopped

(* A preparation that was prepared keeps its kind.                         *)
Lasts == /\ Kept(request')
         /\ \A r \in Requests : request[r].ok =>
               /\ request'[r].kind = request[r].kind
               /\ request'[r].phase \in Over \/ request'[r].ok

LEMMA OneLasts ==
    ASSUME BaseInv, NEW r \in Requests, \A q \in Requests \ {r} : request'[q] = request[q],
           request[r].phase \notin {"acquired", "prepared"} \cup Over
    PROVE  Lasts
<1>1. Phased(request) /\ ~request[r].ok
    BY DEF BaseInv, Phased
<1> QED
    BY <1>1 DEF Lasts, Kept

LEMMA EndLasts ==
    ASSUME BaseInv, NEW r \in Requests, request[r].phase \notin Over,
           request' \in {Answered(r), Superseded(r)}
    PROVE  /\ Lasts /\ request'[r].kind = request[r].kind /\ request'[r].phase \in Over
           /\ request'[r].phase = "superseded" <=> request' = Superseded(r)
           /\ \A q \in Requests \ {r} : request'[q] = request[q]
BY EndsPlanned DEF Lasts, Kept

LEMMA SameLasts ==
    ASSUME \A r \in Requests : /\ request'[r].phase = request[r].phase
                               /\ request'[r].kind = request[r].kind
                               /\ request'[r].ok = request[r].ok
    PROVE  Lasts
BY DEF Lasts, Kept

LEMMA QuietEnds ==
    ASSUME Quiet, NoneCurrent
    PROVE  NoneCurrent'
BY DEF Quiet, Moves, NoneCurrent, Current

LEMMA StoppedTypes ==
    ASSUME StoppedInv
    PROVE  /\ ClockInv /\ BaseInv /\ request \in RequestType
           /\ session.prepared \in Maybe /\ session.cleanup \in Maybe /\ session.token \in Maybe
           /\ host.holds \in Maybe /\ epoch \in Maybe /\ None \notin Requests
           /\ session.prepared # None => Execution(session.prepared, request)
           /\ session.cleanup # None => Execution(session.cleanup, request)
           /\ session.token # None => request[session.token].phase \in Over
<1>1. BaseInv
    BY DEF StoppedInv, ClockInv
<1>2. session \in SessionType /\ host \in HostType /\ epoch \in Maybe /\ request \in RequestType
    BY <1>1, BaseTypes DEF BaseInv
<1> QED
    BY <1>1, <1>2, OutputAssumption
    DEF StoppedInv, BaseInv, Good, SessionType, HostType, Unconfirmed

LEMMA KeepsStopped ==
    ASSUME StoppedInv, ClockInv', Lasts, world'.faults >= world.faults,
           \/ host'.holds \in {host.holds, None}
           \/ /\ host'.holds \in Requests /\ request'[host'.holds].kind \in Families
              /\ request'[host'.holds].phase \notin Over /\ request'[host'.holds].ok,
           session'.cleanup \in {session.cleanup, None} \/ Execution(session'.cleanup, request'),
           session'.cleanup # None /\ session'.cleanup = session'.prepared => NoneCurrent',
           session'.token # None /\ session'.token = epoch' /\ session'.cleanup # None
           => session'.cleanup # session'.prepared,
           \A r \in Requests :
              /\ request'[r].phase = "superseded" /\ host'.holds = r
              /\ request'[r].kind # "native_dsd"
              => \/ /\ request[r].phase = "superseded"
                    /\ session.cleanup # None => session'.cleanup # None
                 \/ session'.cleanup # None /\ world'.faults > 0
    PROVE  StoppedInv'
<1>1. world.faults \in Nat /\ world'.faults \in Nat
    BY FaultsType, StoppedTypes, OutputAssumption DEF ClockInv, BaseInv, TypeOK
<1>2. HeldIsKnown'
    BY StoppedTypes DEF StoppedInv, HeldIsKnown, Lasts, Kept, Maybe
<1>3. Unconfirmed'
    <2>1. session.cleanup # None => Execution(session.cleanup, request')
        BY StoppedTypes DEF Lasts, Kept, Execution, Maybe
    <2> QED
        BY <2>1 DEF Unconfirmed
<1>4. AwaitedIsSure'
    BY DEF AwaitedIsSure
<1>5. Stopped'
    <2> SUFFICES ASSUME NEW r \in Requests, request'[r].phase = "superseded", host'.holds = r,
                        request'[r].kind # "native_dsd"
                 PROVE  session'.cleanup # None /\ world'.faults > 0
        BY DEF Stopped
    <2>1. CASE request[r].phase = "superseded" /\ (session.cleanup # None => session'.cleanup # None)
        <3>1. host.holds = r /\ request[r].kind = request'[r].kind
            BY <2>1, StoppedTypes DEF Lasts, Kept, Over
        <3> QED
            BY <1>1, <2>1, <3>1 DEF StoppedInv, Stopped
    <2> QED
        BY <2>1
<1> QED
    BY <1>2, <1>3, <1>4, <1>5 DEF StoppedInv

(* A step that leaves what the session is sure of as it is.                *)
LEMMA SessionStopped ==
    ASSUME StoppedInv, ClockInv', Lasts, world'.faults >= world.faults,
           \/ host'.holds \in {host.holds, None}
           \/ /\ host'.holds \in Requests /\ request'[host'.holds].kind \in Families
              /\ request'[host'.holds].phase \notin Over /\ request'[host'.holds].ok,
           session'.cleanup = session.cleanup, session'.prepared = session.prepared,
           session'.token = session.token,
           epoch' \in {epoch, None} \/ session.token # epoch',
           session.cleanup # None /\ NoneCurrent => NoneCurrent',
           \A r \in Requests : request'[r].phase = "superseded" => request[r].phase = "superseded"
    PROVE  StoppedInv'
<1>1. session'.cleanup # None /\ session'.cleanup = session'.prepared => NoneCurrent'
    BY DEF StoppedInv, Unconfirmed
<1>2. session'.token # None /\ session'.token = epoch' /\ session'.cleanup # None
      => session'.cleanup # session'.prepared
    BY DEF StoppedInv, AwaitedIsSure
<1> QED
    BY <1>1, <1>2, KeepsStopped

(* An abort that does not leave a cleanup to be confirmed stopped what it  *)
(* was to stop.                                                            *)
LEMMA AbortedSettles ==
    ASSUME NEW w \in World, NEW e \in Requests, NEW a, request \in RequestType
    PROVE  /\ Aborted(w, e, a).s.cleanup = None => w.s.cleanup \in {None, e}
           /\ Aborted(w, e, a).h.holds = e /\ request[e].kind # "native_dsd"
              => Aborted(w, e, a).s.cleanup # None /\ a # "truth"
           /\ a = "truth" /\ request[e].kind = "managed" => Aborted(w, e, a).s.cleanup # e
<1> DEFINE enough == Result(w.h, e, a) \in Enough(e)
<1>1. w.s \in SessionType /\ e # None /\ Family(e) = request[e].kind
    BY OutputAssumption DEF World, Family
<1>2. /\ Settled(w.s, e).cleanup = IF w.s.cleanup = e THEN None ELSE w.s.cleanup
      /\ Retained(w.s, e).cleanup = IF w.s.cleanup = None THEN e ELSE w.s.cleanup
      /\ [w.s EXCEPT !.cleanup = e].cleanup = e
    BY <1>1 DEF Settled, Retained, SessionType
<1>3. Uncertain(w.s, e).cleanup # None
    BY <1>1, <1>2 DEF Uncertain
<1>4. /\ Aborted(w, e, a).s.cleanup = IF enough THEN Settled(w.s, e).cleanup ELSE Uncertain(w.s, e).cleanup
      /\ Aborted(w, e, a).h = Released(w.h, e, a)
    BY <1>1 DEF Aborted
<1>5. ASSUME Released(w.h, e, a).holds = e, request[e].kind # "native_dsd"
      PROVE  ~enough /\ a # "truth"
    <2>1. a = "silent"
        BY <1>1, <1>5 DEF Released, Freed
    <2>2. Result(w.h, e, a) = "error"
        BY <1>1, <1>5, <2>1, ResultOfFailure
    <2> QED
        BY <2>1, <2>2 DEF Enough
<1>6. a = "truth" /\ request[e].kind = "managed" => enough
    BY <1>1 DEF Result, Enough
<1> HIDE DEF enough
<1> QED
    BY <1>1, <1>2, <1>3, <1>4, <1>5, <1>6

(* A candidate that is not committed is aborted.                           *)
LEMMA CandidateStopped ==
    ASSUME StoppedInv, ClockInv', NEW r \in Requests, request[r].phase \notin Over,
           request' \in {Answered(r), Superseded(r)}, NEW a \in Answers(Candidate(r)),
           Becomes(Aborted(Now, Candidate(r), a)), world' = Heard(a),
           NoneCurrent => NoneCurrent', epoch' = epoch
    PROVE  StoppedInv'
<1> DEFINE e == Candidate(r)
<1>1. /\ Now \in World /\ Now.s = session /\ Now.h = host /\ BaseInv /\ request \in RequestType
      /\ e \in {None, r} /\ (e = r <=> request[r].ok) /\ e \in Maybe
    BY StoppedTypes, BaseTypes DEF BaseInv, Candidate, Maybe
<1>2. /\ session'.prepared = session.prepared /\ session'.token = session.token
      /\ session'.cleanup \in {session.cleanup, e, None} /\ host'.holds \in {host.holds, None}
    BY <1>1, AbortedEffect DEF Becomes
<1>3. /\ Lasts /\ request'[r].kind = request[r].kind /\ request'[r].phase \in Over
      /\ \A q \in Requests \ {r} : request'[q] = request[q]
    BY <1>1, EndLasts
<1>4. /\ session.cleanup # r /\ session.prepared # r
      /\ request[r].ok => request[r].kind \in Families
    BY <1>1, StoppedTypes DEF Execution, BaseInv, Phased
<1>5. /\ world'.faults >= world.faults
      /\ a # "truth" => world'.faults > 0
    <2>1. world.faults \in Nat
        BY <1>1, FaultsType
    <2> QED
        BY <1>1, <2>1, HeardType DEF BaseInv
<1>6. session'.cleanup \in {session.cleanup, None} \/ Execution(session'.cleanup, request')
    BY <1>1, <1>2, <1>3, <1>4 DEF Execution
<1>7. session'.cleanup # None /\ session'.cleanup = session'.prepared =>
         session'.cleanup = session.cleanup /\ session.cleanup = session.prepared
    BY <1>1, <1>2, <1>4
<1>8. ASSUME NEW q \in Requests, request'[q].phase = "superseded", host'.holds = q,
             request'[q].kind # "native_dsd"
      PROVE  \/ /\ request[q].phase = "superseded"
                /\ session.cleanup # None => session'.cleanup # None
             \/ session'.cleanup # None /\ world'.faults > 0
    <2>1. CASE q # r
        <3>1. e = None => session'.cleanup = session.cleanup
            BY <1>1, <2>1 DEF Becomes, Aborted
        <3>2. e = r /\ session'.cleanup = None => session.cleanup \in {None, r}
            BY <1>1, AbortedSettles DEF Becomes
        <3>3. session.cleanup # None => session'.cleanup # None
            BY <1>1, <1>4, <3>1, <3>2
        <3> QED
            BY <1>3, <1>8, <2>1, <3>3
    <2>2. CASE q = r
        <3>1. host.holds = r
            BY <1>2, <1>8, <2>2, StoppedTypes
        <3>2. e = r
            BY <1>1, <3>1, StoppedTypes DEF StoppedInv, HeldIsKnown
        <3>3. session'.cleanup # None /\ a # "truth"
            BY <1>1, <1>3, <1>8, <2>2, <3>2, AbortedSettles DEF Becomes
        <3> QED
            BY <1>5, <3>3
    <2> QED
        BY <2>1, <2>2
<1>9. session'.cleanup # None /\ session'.cleanup = session'.prepared => NoneCurrent'
    BY <1>7 DEF StoppedInv, Unconfirmed
<1>10. session'.token # None /\ session'.token = epoch' /\ session'.cleanup # None
       => session'.cleanup # session'.prepared
    BY <1>2, <1>7 DEF StoppedInv, AwaitedIsSure
<1> QED
    BY <1>2, <1>3, <1>5, <1>6, <1>8, <1>9, <1>10, KeepsStopped

(* A candidate is committed.                                               *)
LEMMA CommittedStopped ==
    ASSUME StoppedInv, ClockInv', NEW r \in Requests, UnderWay(r), Current(r), request[r].ok,
           request' = Answered(r), NoneCurrent', NEW a,
           Becomes(Delivered(Begun(Now, r, a), r)), world'.faults >= world.faults,
           host'.holds \in {host.holds, None}, epoch' = epoch
    PROVE  StoppedInv'
<1> DEFINE p == session.prepared
           b == Begun(Now, r, a)
           x == AbortMedia(b, r, "truth")
<1>1. /\ Now \in World /\ Now.s = session /\ Now.h = host /\ BaseInv /\ request \in RequestType
      /\ request[r].phase \notin Over /\ p \in Maybe /\ session.token # r
    BY StoppedTypes, BaseTypes DEF BaseInv, UnderWay, Over
<1>2. Family(r) \in Families /\ request[r].kind \in Families
    BY <1>1, OutputAssumption DEF BaseInv, Phased, Family
<1>3. session.cleanup # None => session.cleanup \notin {p, r}
    BY <1>1, StoppedTypes DEF StoppedInv, Unconfirmed, NoneCurrent, Execution
<1>4. /\ b \in World /\ b.s.prepared \in {p, None, r} /\ b.s.token \in {session.token, r}
      /\ b.s.cleanup = Aborted(Now, p, a).s.cleanup
      /\ b.s.token = r => b.s.prepared = r
    BY <1>1, <1>2, BaseNow, BegunEffect DEF Planned
<1>5. /\ b.s.cleanup \in {session.cleanup, p, None}
      /\ session.cleanup # None => b.s.cleanup # None
    <2>1. Aborted(Now, p, a).s.cleanup \in {session.cleanup, p, None}
        BY <1>1, AbortedEffect
    <2>2. CASE p = None
        BY <1>1, <1>4, <2>1, <2>2 DEF Aborted
    <2>3. CASE p # None
        BY <1>1, <1>3, <1>4, <2>1, <2>3, AbortedSettles DEF Maybe
    <2> QED
        BY <2>2, <2>3
<1>6. b.s.cleanup # r
    BY <1>1, <1>3, <1>5, StoppedTypes DEF Execution
<1> HIDE DEF b
<1>7. /\ x.s.token \in {b.s.token, None}
      /\ x.s.cleanup \in {b.s.cleanup, Aborted(b, b.s.prepared, "truth").s.cleanup}
      /\ b.s.token # r => x = b
    <2>1. b.s.token # r => x = b
        BY DEF AbortMedia
    <2> QED
        BY <1>4, <2>1, AbortMediaEffect
<1>8. Aborted(b, b.s.prepared, "truth").s.cleanup \in {b.s.cleanup, b.s.prepared, None}
    BY <1>1, <1>4, AbortedEffect DEF Maybe
<1>9. x.s.cleanup \in {session.cleanup, p, r, None}
    BY <1>4, <1>5, <1>7, <1>8
<1>10. session.cleanup # None => x.s.cleanup # None
    <2>1. CASE b.s.token # r
        BY <1>5, <1>7, <2>1
    <2>2. CASE b.s.token = r
        <3>1. b.s.prepared = r
            BY <1>4, <2>2
        <3> QED
            BY <1>1, <1>4, <1>5, <1>6, <1>7, <3>1, AbortedSettles
    <2> QED
        BY <2>1, <2>2
<1> HIDE DEF x
<1>11. session' = IF epoch = r THEN b.s ELSE x.s
    BY DEF Becomes, Delivered, x, b
<1>12. /\ Lasts /\ Execution(r, request') /\ \A q \in Requests \ {r} : request'[q] = request[q]
       /\ request'[r].phase # "superseded"
    <2>1. Answered(r)[r].phase = "answered"
        BY <1>1 DEF Answered, Unasked, RequestType
    <2>2. Lasts /\ request'[r].kind = request[r].kind /\ request'[r].phase \in Over
          /\ \A q \in Requests \ {r} : request'[q] = request[q]
        BY <1>1, EndLasts
    <2> QED
        BY <1>2, <2>1, <2>2 DEF Execution
<1>13. session'.cleanup \in {session.cleanup, None} \/ Execution(session'.cleanup, request')
    <2>1. p # None => Execution(p, request')
        BY <1>1, <1>12, StoppedTypes DEF Lasts, Kept, Execution, Maybe
    <2> QED
        BY <1>5, <1>9, <1>11, <1>12, <2>1
<1>14. ASSUME session'.token # None, session'.token = epoch', session'.cleanup # None
       PROVE  session'.cleanup # session'.prepared
    <2>1. session.token # epoch
        BY <1>14, <1>4, <1>7, <1>11 DEF StoppedInv, ClockInv, LastAwaited, NoneCurrent
    <2>2. epoch = r /\ b.s.token = r
        BY <1>4, <1>7, <1>11, <1>14, <2>1
    <2> QED
        BY <1>4, <1>6, <1>11, <2>2
<1>15. \A q \in Requests : request'[q].phase = "superseded" =>
          request[q].phase = "superseded" /\ (session.cleanup # None => session'.cleanup # None)
    BY <1>5, <1>10, <1>11, <1>12
<1> QED
    BY <1>12, <1>13, <1>14, <1>15, KeepsStopped

(* A worker touches its own preparation, which is not over.                *)
LEMMA WorkerLasts ==
    ASSUME BaseInv, NEW r \in Requests,
           \/ \E kind \in Families \cup {"shared"} : Characterize(r, kind)
           \/ CannotPlan(r)
           \/ \E ok \in BOOLEAN : Acquire(r, ok)
           \/ \E a \in Replies : Release(r, a)
    PROVE  /\ Lasts /\ session' = session /\ epoch' = epoch
           /\ \/ host'.holds \in {host.holds, None}
              \/ /\ host'.holds \in Requests /\ request'[host'.holds].kind \in Families
                 /\ request'[host'.holds].phase \notin Over /\ request'[host'.holds].ok
           /\ \A q \in Requests : request'[q].phase = "superseded" => request[q].phase = "superseded"
<1>1. /\ request \in RequestType /\ Phased(request)
      /\ session' = session /\ epoch' = epoch
    BY BaseTypes DEF BaseInv, Characterize, CannotPlan, Acquire, Release
<1>3. /\ request[r].phase \notin {"acquired", "prepared"} \cup Over
      /\ request'[r].phase # "superseded"
      /\ \A q \in Requests \ {r} : request'[q] = request[q]
    <2>1. ASSUME NEW ok \in BOOLEAN, Acquire(r, ok)
          PROVE  /\ request[r].phase \in {"acquiring", "preparing"}
                 /\ request'[r].phase # "superseded"
                 /\ \A q \in Requests \ {r} : request'[q] = request[q]
        <3> DEFINE phase == IF request[r].phase = "acquiring" THEN "acquired" ELSE "prepared"
        <3>1. request' = [request EXCEPT ![r] = [@ EXCEPT !.ok = ok, !.phase = phase]]
            BY <1>1, <2>1 DEF Acquire, RequestType
        <3>2. phase # "superseded"
            OBVIOUS
        <3>3. request[r].phase \in {"acquiring", "preparing"}
            BY <2>1 DEF Acquire
        <3> HIDE DEF phase
        <3>4. request'[r].phase = phase /\ \A q \in Requests \ {r} : request'[q] = request[q]
            BY <1>1, <3>1 DEF RequestType
        <3> QED
            BY <3>2, <3>3, <3>4
    <2>2. ASSUME NEW kind \in Families \cup {"shared"}, Characterize(r, kind)
          PROVE  /\ request[r].phase = "working"
                 /\ request'[r].phase # "superseded"
                 /\ \A q \in Requests \ {r} : request'[q] = request[q]
        BY <1>1, <2>2 DEF Characterize, RequestType
    <2>3. CASE CannotPlan(r)
        BY <1>1, <2>3 DEF CannotPlan, RequestType, Over
    <2>4. ASSUME NEW a \in Replies, Release(r, a)
          PROVE  /\ request[r].phase = "releasing"
                 /\ request'[r].phase # "superseded"
                 /\ \A q \in Requests \ {r} : request'[q] = request[q]
        <3>1. /\ request[r].phase = "releasing"
              /\ request' = [request EXCEPT ![r] =
                    [@ EXCEPT !.phase = "released", !.result = Result(host, request[r].pred, a)]]
            BY <1>1, <2>4 DEF Release, RequestType
        <3> QED
            BY <1>1, <3>1 DEF RequestType
    <2> QED
        BY <2>1, <2>2, <2>3, <2>4 DEF Over
<1>4. Lasts
    BY <1>1, <1>3, OneLasts
<1>5. \/ host'.holds \in {host.holds, None}
      \/ /\ host'.holds \in Requests /\ request'[host'.holds].kind \in Families
         /\ request'[host'.holds].phase \notin Over /\ request'[host'.holds].ok
    <2>1. ASSUME NEW ok \in BOOLEAN, Acquire(r, ok)
          PROVE  \/ host'.holds \in {host.holds, None}
                 \/ /\ host'.holds = r /\ request'[r].kind = request[r].kind
                    /\ request[r].kind \in Families
                    /\ request'[r].phase \notin Over /\ request'[r].ok
        <3>1. host'.holds \in {host.holds, None} \/ (ok /\ host'.holds = r)
            BY <2>1 DEF Acquire, Loaded, Freed
        <3>2. request[r].kind \in Families
            BY <1>1, <2>1 DEF Acquire, Phased, Attempted
        <3> DEFINE phase == IF request[r].phase = "acquiring" THEN "acquired" ELSE "prepared"
        <3>3. request' = [request EXCEPT ![r] = [@ EXCEPT !.ok = ok, !.phase = phase]]
            BY <1>1, <2>1 DEF Acquire, RequestType
        <3>4. phase \notin Over
            BY DEF Over
        <3> HIDE DEF phase
        <3> QED
            BY <1>1, <3>1, <3>2, <3>3, <3>4 DEF RequestType
    <2>2. ASSUME NEW a \in Replies, Release(r, a)
          PROVE  host'.holds \in {host.holds, None}
        BY <2>2 DEF Release, Released, Freed
    <2> QED
        BY <2>1, <2>2 DEF Characterize, CannotPlan
<1>6. \A q \in Requests : request'[q].phase = "superseded" => request[q].phase = "superseded"
    BY <1>3
<1> QED
    BY <1>1, <1>4, <1>5, <1>6

LEMMA WorkerStopped ==
    ASSUME StoppedInv, ClockInv', NEW r \in Requests,
           \/ \E kind \in Families \cup {"shared"} : Characterize(r, kind)
           \/ CannotPlan(r)
           \/ \E ok \in BOOLEAN : Acquire(r, ok)
           \/ \E a \in Replies : Release(r, a)
    PROVE  StoppedInv'
<1>1. BaseInv /\ Quiet /\ HeldQuiet
    BY StoppedTypes, WorkerQuiet, ReleaseQuiet
<1> QED
    BY <1>1, WorkerLasts, QuietEnds, SessionStopped DEF HeldQuiet

LEMMA AskStopped ==
    ASSUME StoppedInv, ClockInv', Fresh, NEW r \in Requests, Ask(r)
    PROVE  StoppedInv'
<1>1. /\ ClockInv /\ BaseInv /\ request[r].phase = "unasked" /\ epoch' = r
      /\ session.token # r /\ UNCHANGED <<session, host, world>>
    BY StoppedTypes DEF Ask, Over
<1>2. world.faults \in Nat
    BY <1>1, FaultsType
<1>3. CASE session.cleanup # None
    <2>1. request' = Answered(r)
        BY <1>3 DEF Ask
    <2>2. /\ Lasts /\ request'[r].phase # "superseded"
          /\ \A q \in Requests \ {r} : request'[q] = request[q]
        <3>1. Answered(r)[r].phase = "answered"
            BY StoppedTypes DEF Answered, Unasked, RequestType
        <3> QED
            BY <1>1, <2>1, <3>1, EndLasts DEF Over
    <2>3. NoneCurrent'
        BY <1>1, <1>3, AskedInVain
    <2> QED
        BY <1>1, <1>2, <2>2, <2>3, SessionStopped
<1>4. CASE session.cleanup = None
    <2>1. /\ request'[r].phase = "working"
          /\ \A q \in Requests \ {r} : request'[q] = request[q]
        BY <1>1, <1>4, AskedEffect
    <2>2. Lasts
        BY <1>1, <2>1, OneLasts DEF Over
    <2> QED
        BY <1>1, <1>2, <1>4, <2>1, <2>2, SessionStopped
<1> QED
    BY <1>3, <1>4

LEMMA BeginHandoverStopped ==
    ASSUME StoppedInv, ClockInv', NEW r \in Requests, BeginHandover(r)
    PROVE  StoppedInv'
<1>1. /\ BaseInv /\ request[r].phase = "planned" /\ Current(r) /\ UnderWay(r)
      /\ UNCHANGED <<session, host, epoch, world>>
      /\ request'[r].phase \in {"answered", "releasing"}
      /\ \A q \in Requests \ {r} : request'[q] = request[q]
    BY StoppedTypes, BeginHandoverEffect DEF UnderWay
<1>2. Lasts
    BY <1>1, OneLasts DEF Over
<1>3. ~NoneCurrent
    BY <1>1 DEF NoneCurrent
<1>4. world.faults \in Nat
    BY <1>1, FaultsType
<1> QED
    BY <1>1, <1>2, <1>3, <1>4, SessionStopped

LEMMA CompleteReleaseStopped ==
    ASSUME StoppedInv, ClockInv', NEW r \in Requests, CompleteRelease(r)
    PROVE  StoppedInv'
<1> DEFINE e == request[r].pred
<1>1. /\ ClockInv /\ BaseInv /\ Quiet
      /\ request[r].phase = "released" /\ e \in Requests
      /\ \A q \in Requests \ {r} : request'[q] = request[q]
      /\ \/ /\ request' = Superseded(r) /\ request'[r].phase = "superseded"
            /\ session'.cleanup = session.cleanup
         \/ /\ request' = Answered(r) /\ request'[r].phase = "answered"
            /\ session'.cleanup = Retained(session, e).cleanup
            /\ session'.prepared = session.prepared /\ ~StaleAttempt(r)
         \/ /\ request'[r].phase = "preparing"
            /\ session'.cleanup = session.cleanup
      /\ session'.prepared \in {session.prepared, None}
      /\ session'.token \in {session.token, None}
      /\ prep'.generation = prep.generation
      /\ UNCHANGED <<host, epoch, world>>
    BY StoppedTypes, CompleteReleaseQuiet
<1>2. Retained(session, e).cleanup = IF session.cleanup = None THEN e ELSE session.cleanup
    BY <1>1, BaseTypes DEF BaseInv, Retained, SessionType
<1>3. Lasts
    BY <1>1, OneLasts DEF Over
<1>4. world.faults \in Nat
    BY <1>1, FaultsType
<1>5. Execution(e, request) /\ Execution(e, request')
    <2>1. Execution(e, request)
        BY <1>1, ClockTypes, OutputAssumption DEF Referred
    <2> QED
        BY <1>1, <1>3, <2>1 DEF Execution, Lasts, Kept
<1>6. host.holds # r
    BY <1>1, StoppedTypes, OutputAssumption
    DEF StoppedInv, HeldIsKnown, BaseInv, Phased, Over
<1>7. \A q \in Requests : request'[q].phase = "superseded" /\ host'.holds = q =>
         request[q].phase = "superseded" /\ (session.cleanup # None => session'.cleanup # None)
    BY <1>1, <1>2, <1>6
<1>8. CASE session'.cleanup = session.cleanup
    <2>1. session'.cleanup # None /\ session'.cleanup = session'.prepared => NoneCurrent'
        BY <1>1, <1>8, QuietEnds DEF StoppedInv, Unconfirmed
    <2>2. session'.token # None /\ session'.token = epoch' /\ session'.cleanup # None
          => session'.cleanup # session'.prepared
        BY <1>1, <1>8 DEF StoppedInv, AwaitedIsSure
    <2> QED
        BY <1>1, <1>3, <1>4, <1>7, <1>8, <2>1, <2>2, KeepsStopped
<1>9. CASE /\ request' = Answered(r) /\ ~StaleAttempt(r)
           /\ session'.cleanup = Retained(session, e).cleanup
    <2>1. UnderWay(r) /\ Current(r)
        BY <1>1, <1>9 DEF UnderWay, StaleAttempt
    <2>2. NoneCurrent'
        BY <1>1, <1>9, <2>1, LastEnds
    <2>3. ~(session'.token # None /\ session'.token = epoch')
        BY <1>1, <2>1 DEF ClockInv, LastAwaited, NoneCurrent
    <2>4. session'.cleanup \in {session.cleanup, None} \/ Execution(session'.cleanup, request')
        BY <1>2, <1>5, <1>9
    <2> QED
        BY <1>1, <1>3, <1>4, <1>7, <2>2, <2>3, <2>4, KeepsStopped
<1> QED
    BY <1>1, <1>8, <1>9

LEMMA CompleteSharedStopped ==
    ASSUME StoppedInv, ClockInv', NEW r \in Requests, NEW a, CompleteShared(r, a)
    PROVE  StoppedInv'
<1> DEFINE p == session.prepared
           b == SharedBegun(Now, r, a)
           x == AbortMedia(b, r, "truth")
<1>1. /\ ClockInv /\ BaseInv /\ request[r].phase = "planned" /\ Current(r) /\ UnderWay(r)
      /\ request' = Answered(r) /\ epoch' = epoch
      /\ Quiet /\ HeldQuiet /\ NoneCurrent'
    BY StoppedTypes, CompleteSharedQuiet DEF CompleteShared, UnderWay
<1>2. /\ Lasts /\ request'[r].phase # "superseded"
      /\ \A q \in Requests \ {r} : request'[q] = request[q]
    <2>1. Answered(r)[r].phase = "answered"
        BY StoppedTypes DEF Answered, Unasked, RequestType
    <2> QED
        BY <1>1, <2>1, EndLasts DEF Over
<1>3. CASE UNCHANGED <<session, host, world>>
    <2>1. world.faults \in Nat
        BY <1>1, FaultsType
    <2> QED
        BY <1>1, <1>2, <1>3, <2>1, SessionStopped
<1>4. CASE SharedBegins(session) /\ Becomes(Delivered(b, r)) /\ world' = Heard(a)
    <2>1. /\ Now \in World /\ Now.s = session /\ Now.h = host /\ p \in Maybe
          /\ session.cleanup = None
        BY <1>1, <1>4, BaseTypes, StoppedTypes DEF BaseInv, SharedBegins
    <2>2. Aborted(Now, p, a).s.cleanup \in {p, None} /\ Aborted(Now, p, a).h.holds \in {host.holds, None}
        BY <2>1, AbortedEffect
    <2>3. /\ b \in World /\ b.s.prepared \in {p, None} /\ b.s.token = r
          /\ b.s.cleanup \in {p, None} /\ b.h.holds \in {host.holds, None}
          /\ b.s.cleanup = None \/ b.s.prepared = None
        BY <2>1, <2>2, SharedBegunEffect
    <2> HIDE DEF b
    <2>4. Aborted(b, b.s.prepared, "truth").s.cleanup \in {p, None}
        BY <2>1, <2>3, AbortedEffect DEF Maybe
    <2>5. /\ x.s.token \in {r, None} /\ x.s.cleanup \in {p, None}
          /\ x.h.holds \in {host.holds, None}
        BY <2>3, <2>4, AbortMediaEffect
    <2> HIDE DEF x
    <2>6. /\ session' = IF epoch = r THEN b.s ELSE x.s
          /\ host' = IF epoch = r THEN b.h ELSE x.h
        BY <1>4 DEF Becomes, Delivered, x, b
    <2>7. session'.cleanup \in {p, None} /\ host'.holds \in {host.holds, None}
        BY <2>3, <2>5, <2>6
    <2>8. p # None => Execution(p, request')
        BY <1>1, <1>2, StoppedTypes DEF Lasts, Kept, Execution, Maybe
    <2>9. session'.token # None /\ session'.token = epoch' /\ session'.cleanup # None
          => session'.cleanup # session'.prepared
        BY <1>1, <2>3, <2>5, <2>6
    <2>10. \A q \in Requests : request'[q].phase = "superseded" => request[q].phase = "superseded"
        BY <1>2
    <2>11. session'.cleanup \in {session.cleanup, None} \/ Execution(session'.cleanup, request')
        BY <2>7, <2>8
    <2> QED
        BY <1>1, <1>2, <2>1, <2>7, <2>9, <2>10, <2>11, KeepsStopped DEF HeldQuiet
<1> QED
    BY <1>1, <1>3, <1>4 DEF CompleteShared

LEMMA CompleteSupersededStopped ==
    ASSUME StoppedInv, ClockInv', NEW r \in Requests, NEW a, CompleteSuperseded(r, a)
    PROVE  StoppedInv'
BY StoppedTypes, CompleteSupersededQuiet, QuietEnds, CandidateStopped
DEF CompleteSuperseded, Returned, Over

LEMMA CompleteFailedStopped ==
    ASSUME StoppedInv, ClockInv', NEW r \in Requests, CompleteFailed(r)
    PROVE  StoppedInv'
<1>1. /\ ClockInv /\ BaseInv /\ Quiet /\ NoneCurrent' /\ request[r].phase = "acquired"
      /\ request' = Answered(r) /\ UNCHANGED <<session, host, epoch, world>>
    BY StoppedTypes, CompleteFailedQuiet DEF CompleteFailed
<1>2. /\ Lasts /\ request'[r].phase # "superseded"
      /\ \A q \in Requests \ {r} : request'[q] = request[q]
    <2>1. Answered(r)[r].phase = "answered"
        BY StoppedTypes DEF Answered, Unasked, RequestType
    <2> QED
        BY <1>1, <2>1, EndLasts DEF Over
<1>3. world.faults \in Nat
    BY <1>1, FaultsType
<1> QED
    BY <1>1, <1>2, <1>3, SessionStopped

LEMMA CompleteFastStopped ==
    ASSUME StoppedInv, ClockInv', NEW r \in Requests, NEW a, CompleteFast(r, a)
    PROVE  StoppedInv'
<1>1. /\ ClockInv /\ BaseInv /\ Quiet /\ HeldQuiet /\ NoneCurrent'
      /\ request[r].phase = "acquired" /\ request[r].ok /\ Current(r) /\ UnderWay(r)
      /\ request[r].phase \notin Over /\ Candidate(r) = r
      /\ request' = Answered(r) /\ world' = Heard(a) /\ epoch' = epoch
    BY StoppedTypes, CompleteFastQuiet DEF CompleteFast, UnderWay, Over, Candidate
<1>2. \/ a \in Answers(r) /\ Becomes(Aborted(Now, r, a))
      \/ Becomes(Delivered(Begun(Now, r, a), r))
    BY DEF CompleteFast
<1>3. CASE a \in Answers(r) /\ Becomes(Aborted(Now, r, a))
    BY <1>1, <1>3, CandidateStopped
<1>4. CASE Becomes(Delivered(Begun(Now, r, a), r))
    <2>1. host'.holds \in {host.holds, None}
        <3>1. /\ Now \in World /\ Now.s = session /\ Now.h = host /\ session.prepared \in Maybe
            BY <1>1, BaseTypes, StoppedTypes DEF BaseInv
        <3>2. Family(r) \in Families
            BY <1>1, OutputAssumption DEF BaseInv, Phased, Family
        <3>3. Aborted(Now, session.prepared, a).h.holds \in {host.holds, None}
            BY <3>1, AbortedEffect
        <3>4. Begun(Now, r, a) \in World /\ Begun(Now, r, a).h.holds \in {host.holds, None}
            BY <1>1, <3>1, <3>2, <3>3, BaseNow, BegunEffect DEF Planned
        <3> QED
            BY <1>4, <3>4, DeliveredEffect DEF Becomes
    <2> QED
        BY <1>1, <1>4, <2>1, CommittedStopped DEF HeldQuiet
<1> QED
    BY <1>2, <1>3, <1>4

(* A managed candidate is aborted twice: what the first abort would leave  *)
(* to be confirmed, the second confirms, and an older cleanup with it.     *)
LEMMA CompletePrepareStopped ==
    ASSUME StoppedInv, ClockInv', NEW r \in Requests, NEW a \in Replies,
           CompletePrepare(r, a), ~(world'.faults > 1)
    PROVE  StoppedInv'
<1> DEFINE over    == StaleAttempt(r) \/ (request[r].ok /\ request[r].outdated)
           unbound == BindingStale(r) /\ Family(r) # "native_dsd"
           commits == request[r].ok /\ ~over /\ ~unbound /\ Begins(Now, r, "truth")
           e == Candidate(r)
           aborted == Aborted(Now, e, a)
           twice == Aborted(aborted, e, "truth")
<1>1. /\ ClockInv /\ BaseInv /\ Quiet /\ HeldQuiet
      /\ request[r].phase = "prepared" /\ request[r].phase \notin Over
      /\ request' \in {Answered(r), Superseded(r)} /\ world' = Heard(a)
      /\ UNCHANGED <<prep, epoch>>
    BY StoppedTypes, CompletePrepareQuiet DEF CompletePrepare, Over
<1>2. \/ /\ request[r].ok /\ ~StaleAttempt(r) /\ request' = Answered(r)
         /\ Becomes(Delivered(Begun(Now, r, a), r))
      \/ /\ a \in Answers(e) /\ Becomes(aborted)
      \/ /\ a \in Answers(e) /\ Becomes(twice) /\ Family(r) = "managed" /\ request' = Answered(r)
    <2> HIDE DEF aborted, e
    <2> QED
        BY DEF CompletePrepare, aborted, e
<1>3. /\ Now \in World /\ Now.s = session /\ Now.h = host /\ request \in RequestType
      /\ session.prepared \in Maybe /\ e \in Maybe /\ e \in {r, None}
    BY <1>1, BaseTypes, StoppedTypes DEF BaseInv, Candidate, Maybe
<1>4. CASE /\ request[r].ok /\ ~StaleAttempt(r) /\ request' = Answered(r)
           /\ Becomes(Delivered(Begun(Now, r, a), r))
    <2>1. Current(r) /\ UnderWay(r)
        BY <1>1, <1>4 DEF StaleAttempt, UnderWay
    <2>2. Family(r) \in Families
        BY <1>1, <1>4, OutputAssumption DEF BaseInv, Phased, Family
    <2>3. Begun(Now, r, a) \in World /\ Begun(Now, r, a).h.holds \in {host.holds, None}
        <3>1. Aborted(Now, session.prepared, a).h.holds \in {host.holds, None}
            BY <1>3, AbortedEffect
        <3> HIDE DEF aborted, twice, commits, unbound
        <3> QED
            BY <1>1, <1>3, <2>2, <3>1, BaseNow, BegunEffect DEF Planned
    <2>4. host'.holds \in {host.holds, None}
        BY <1>4, <2>3, DeliveredEffect DEF Becomes
    <2>5. NoneCurrent'
        BY <1>1, <1>4, <2>1, LastEnds
    <2> QED
        BY <1>1, <1>4, <2>1, <2>4, <2>5, CommittedStopped DEF HeldQuiet
<1>5. CASE a \in Answers(e) /\ Becomes(aborted)
    BY <1>1, <1>5, QuietEnds, CandidateStopped
<1>6. CASE /\ a \in Answers(e) /\ Becomes(twice) /\ Family(r) = "managed"
           /\ request' = Answered(r)
    <2>1. /\ Lasts /\ request'[r].phase \in Over /\ request'[r].phase # "superseded"
          /\ request'[r].kind = request[r].kind
          /\ \A q \in Requests \ {r} : request'[q] = request[q]
        <3>1. Answered(r)[r].phase = "answered"
            BY <1>3 DEF Answered, Unasked, RequestType
        <3> QED
            BY <1>1, <1>6, <3>1, EndLasts
    <2>2. /\ aborted \in World /\ aborted.s.prepared = session.prepared
          /\ aborted.s.token = session.token /\ aborted.h.holds \in {host.holds, None}
          /\ aborted.s.cleanup \in {session.cleanup, e, None}
        BY <1>3, AbortedEffect
    <2>3. ASSUME session.cleanup # None, world.faults > 0
          PROVE  session'.cleanup # None
        <3>1. CASE e = None
            BY <1>3, <1>6, <2>2, <3>1, <2>3 DEF Aborted, Becomes
        <3>2. CASE e = r
            <4>1. a # "truth" => world'.faults = world.faults + 1
                BY <1>1, BaseNow DEF Heard, WorldType
            <4>2. a = "truth"
                BY <1>1, <2>3, <4>1, FaultsType
            <4>3. request[r].kind = "managed" /\ session.cleanup # r
                BY <1>1, <1>6, <2>3, StoppedTypes, OutputAssumption DEF Family, Execution
            <4>4. aborted.s.cleanup \notin {None, r}
                BY <1>3, <2>3, <3>2, <4>2, <4>3, AbortedSettles
            <4> HIDE DEF aborted
            <4>5. twice.s.cleanup # None
                BY <1>3, <2>2, <3>2, <4>4, AbortedSettles
            <4> QED
                BY <1>6, <4>5 DEF Becomes
        <3> QED
            BY <1>3, <3>1, <3>2
    <2> HIDE DEF aborted
    <2>4. /\ session'.prepared = session.prepared /\ session'.token = session.token
          /\ session'.cleanup \in {session.cleanup, e, None}
          /\ host'.holds \in {host.holds, None}
        BY <1>3, <1>6, <2>2, AbortedEffect DEF Becomes
    <2>5. /\ e # None => Execution(e, request')
          /\ session.prepared # r /\ session.cleanup # r
        BY <1>1, <1>3, <2>1, StoppedTypes DEF Execution, Candidate, BaseInv, Phased
    <2>6. session'.cleanup \in {session.cleanup, None} \/ Execution(session'.cleanup, request')
        BY <2>4, <2>5
    <2>7. session'.cleanup # None /\ session'.cleanup = session'.prepared =>
             session'.cleanup = session.cleanup /\ session.cleanup = session.prepared
        BY <1>3, <2>4, <2>5
    <2>8. \A q \in Requests : request'[q].phase = "superseded" /\ host'.holds = q
                              /\ request'[q].kind # "native_dsd" =>
             request[q].phase = "superseded" /\ (session.cleanup # None => session'.cleanup # None)
        <3> SUFFICES ASSUME NEW q \in Requests, request'[q].phase = "superseded",
                            host'.holds = q, request'[q].kind # "native_dsd"
                     PROVE  request[q].phase = "superseded"
                            /\ (session.cleanup # None => session'.cleanup # None)
            OBVIOUS
        <3>1. request[q] = request'[q] /\ host.holds = q
            BY <2>1, <2>4, StoppedTypes
        <3>2. world.faults > 0
            BY <3>1 DEF StoppedInv, Stopped
        <3> QED
            BY <2>3, <3>1, <3>2
    <2>9. session'.cleanup # None /\ session'.cleanup = session'.prepared => NoneCurrent'
        BY <1>1, <2>7, QuietEnds DEF StoppedInv, Unconfirmed
    <2>10. session'.token # None /\ session'.token = epoch' /\ session'.cleanup # None
           => session'.cleanup # session'.prepared
        BY <1>1, <2>4, <2>7 DEF StoppedInv, AwaitedIsSure
    <2> QED
        BY <1>1, <2>1, <2>4, <2>6, <2>8, <2>9, <2>10, KeepsStopped DEF HeldQuiet
<1> QED
    BY <1>2, <1>4, <1>5, <1>6

LEMMA CommitStopped ==
    ASSUME StoppedInv, ClockInv', Commit
    PROVE  StoppedInv'
<1>1. /\ ClockInv /\ BaseInv /\ Quiet /\ HeldQuiet /\ epoch' = None
      /\ UNCHANGED <<prep, request, host, world>>
      /\ session' = [session EXCEPT !.state = IF session.mode = "shared" THEN @ ELSE "RUNNING"]
    BY StoppedTypes, CommitQuiet DEF Commit
<1>2. /\ session'.prepared = session.prepared /\ session'.token = session.token
      /\ session'.cleanup = session.cleanup
    BY <1>1, BaseTypes DEF BaseInv, SessionType
<1> QED
    BY <1>1, <1>2, SameLasts, QuietEnds, SessionStopped DEF HeldQuiet

LEMMA AwaitedStopped ==
    ASSUME StoppedInv, ClockInv', NEW a, CommitFails(a) \/ LoadFails(a)
    PROVE  StoppedInv'
<1> DEFINE aborted == AbortMedia(Now, epoch, a)
           over    == [aborted EXCEPT !.h = Freed(@)]
           p       == session.prepared
<1>1. /\ ClockInv /\ BaseInv /\ HeldQuiet /\ NoneCurrent'
      /\ Becomes(over) \/ Becomes(aborted)
      /\ epoch' = None /\ UNCHANGED <<prep, request>>
      /\ session.token # None /\ session.token = epoch
    BY StoppedTypes, AwaitedQuiet DEF CommitFails, LoadFails, Awaited
<1>2. /\ Now \in World /\ Now.s = session /\ Now.h = host /\ p \in Maybe
    BY <1>1, BaseTypes, StoppedTypes DEF BaseInv
<1>3. /\ aborted \in World /\ aborted.h.holds \in {host.holds, None}
      /\ aborted.s.cleanup \in {session.cleanup, Aborted(Now, p, a).s.cleanup}
    BY <1>2, AbortMediaEffect
<1>4. Aborted(Now, p, a).s.cleanup \in {session.cleanup, p, None}
    BY <1>2, AbortedEffect
<1>5. session.cleanup # None => aborted.s.cleanup # None
    <2>1. CASE p = None
        BY <1>2, <1>3, <2>1 DEF Aborted
    <2>2. CASE p # None
        BY <1>1, <1>2, <1>3, <2>2, StoppedTypes, AbortedSettles
        DEF StoppedInv, AwaitedIsSure, Maybe
    <2> QED
        BY <2>1, <2>2
<1> HIDE DEF aborted
<1>6. over.s = aborted.s /\ over.h.holds = None
    BY <1>3 DEF World, Freed
<1> HIDE DEF over
<1>7. /\ session'.cleanup \in {session.cleanup, p, None} /\ host'.holds \in {host.holds, None}
      /\ session.cleanup # None => session'.cleanup # None
    BY <1>1, <1>3, <1>4, <1>5, <1>6 DEF Becomes
<1>8. Lasts /\ (p # None => Execution(p, request'))
    BY <1>1, SameLasts, StoppedTypes
<1>9. session'.cleanup \in {session.cleanup, None} \/ Execution(session'.cleanup, request')
    BY <1>7, <1>8
<1> QED
    BY <1>1, <1>7, <1>8, <1>9, KeepsStopped DEF HeldQuiet

LEMMA GivenUpStopped ==
    ASSUME StoppedInv, ClockInv', Fresh, NEW a, Stop(a) \/ EngineLost \/ DeviceLost(a)
    PROVE  StoppedInv'
<1> DEFINE w == [Now EXCEPT !.h = Freed(@)]
           l == [Now EXCEPT !.h = [holds |-> None, receipt |-> None]]
           p == session.prepared
<1>1. /\ ClockInv /\ BaseInv /\ HeldQuiet /\ NoneCurrent' /\ host'.holds = None
      /\ epoch' = None /\ UNCHANGED request
      /\ \/ session' = ReleaseActive(w, a).s \/ session' = Lost(w, a).s
         \/ session' = ReleaseActive(l, "truth").s
    BY StoppedTypes, GivenUpQuiet DEF Stop, EngineLost, DeviceLost, Becomes
<1>2. w \in World /\ w.s = session /\ l \in World /\ l.s = session
    <2>1. Now = [s |-> session, h |-> host] /\ Now \in World /\ w \in World /\ w.s = session
        BY <1>1, BaseTypes DEF BaseInv, Now
    <2>2. l = [s |-> session, h |-> [holds |-> None, receipt |-> None]]
        BY <2>1
    <2> QED
        BY <2>1, <2>2 DEF World, HostType, Maybe
<1> HIDE DEF w, l
<1>3. session'.cleanup \in {session.cleanup, p, None}
    BY <1>1, <1>2, ReleaseActiveEffect, LostEffect
<1>4. Lasts /\ (p # None => Execution(p, request'))
    BY <1>1, SameLasts, StoppedTypes
<1>5. session'.cleanup \in {session.cleanup, None} \/ Execution(session'.cleanup, request')
    BY <1>3, <1>4
<1>6. \A q \in Requests : host'.holds # q
    BY <1>1, StoppedTypes
<1> QED
    BY <1>1, <1>4, <1>5, <1>6, KeepsStopped DEF HeldQuiet

LEMMA ReselectStopped ==
    ASSUME StoppedInv, ClockInv', Fresh, Reselect
    PROVE  StoppedInv'
<1>1. /\ ClockInv /\ HeldQuiet /\ NoneCurrent' /\ UNCHANGED <<session, host, epoch>>
      /\ request' = [r \in Requests |-> [request[r] EXCEPT !.outdated =
                        request[r].phase \notin {"unasked", "answered", "superseded"}]]
    BY StoppedTypes, ReselectQuiet DEF Reselect
<1>2. \A r \in Requests : /\ request'[r].phase = request[r].phase
                          /\ request'[r].kind = request[r].kind
                          /\ request'[r].ok = request[r].ok
    BY <1>1, StoppedTypes DEF RequestType
<1> QED
    BY <1>1, <1>2, SameLasts, SessionStopped DEF HeldQuiet

LEMMA DeviceStopped ==
    ASSUME StoppedInv, ClockInv', DeviceGoes \/ DeviceReturns \/ UNCHANGED vars
    PROVE  StoppedInv'
<1>1. /\ Quiet /\ HeldQuiet /\ session'.cleanup = session.cleanup
      /\ session'.prepared = session.prepared /\ session'.token = session.token
      /\ UNCHANGED <<request, prep, epoch, host>>
    BY StoppedTypes, DeviceQuiet
<1> QED
    BY <1>1, SameLasts, QuietEnds, SessionStopped DEF HeldQuiet

LEMMA StoppedInductive ==
    StoppedInv /\ [Next]_vars /\ [Fresh]_vars /\ ~(world'.faults > 1) => StoppedInv'
<1> SUFFICES ASSUME StoppedInv, [Next]_vars, [Fresh]_vars, ~(world'.faults > 1) PROVE StoppedInv'
    OBVIOUS
<1>1. ClockInv /\ ClockInv'
    BY ClockInductive DEF StoppedInv
<1>2. Fresh
    BY <1>1, ClockTypes DEF ClockInv, Fresh, vars
<1>3. ASSUME NEW r \in Requests, Ask(r) PROVE StoppedInv'
    BY <1>1, <1>2, <1>3, AskStopped
<1>4. ASSUME NEW r \in Requests, Steps(r) PROVE StoppedInv'
    <2>1. CASE BeginHandover(r)
        BY <1>1, <2>1, BeginHandoverStopped
    <2>2. CASE CompleteRelease(r)
        BY <1>1, <2>2, CompleteReleaseStopped
    <2>3. CASE \/ \E kind \in Families \cup {"shared"} : Characterize(r, kind)
               \/ CannotPlan(r)
               \/ \E ok \in BOOLEAN : Acquire(r, ok)
               \/ \E a \in Replies : Release(r, a)
        BY <1>1, <2>3, WorkerStopped
    <2>4. CASE CompleteFailed(r)
        BY <1>1, <2>4, CompleteFailedStopped
    <2>5. ASSUME NEW a \in Replies,
                 CompleteSuperseded(r, a) \/ CompleteShared(r, a) \/ CompleteFast(r, a)
          PROVE  StoppedInv'
        BY <1>1, <2>5, CompleteSupersededStopped, CompleteSharedStopped, CompleteFastStopped
    <2>6. ASSUME NEW a \in Replies, CompletePrepare(r, a)
          PROVE  StoppedInv'
        BY <1>1, <2>6, CompletePrepareStopped
    <2> QED
        BY <1>4, <2>1, <2>2, <2>3, <2>4, <2>5, <2>6 DEF Steps, Replies
<1>5. CASE Commit
    BY <1>1, <1>5, CommitStopped
<1>6. ASSUME NEW a \in Replies, CommitFails(a) \/ LoadFails(a) PROVE StoppedInv'
    BY <1>1, <1>6, AwaitedStopped
<1>7. ASSUME NEW a \in Replies, Stop(a) \/ EngineLost \/ DeviceLost(a) PROVE StoppedInv'
    BY <1>1, <1>2, <1>7, GivenUpStopped
<1>8. CASE Reselect
    BY <1>1, <1>2, <1>8, ReselectStopped
<1>9. CASE DeviceGoes \/ DeviceReturns \/ UNCHANGED vars
    BY <1>1, <1>9, DeviceStopped
<1> QED
    BY <1>3, <1>4, <1>5, <1>6, <1>7, <1>8, <1>9 DEF Next, Replies

LEMMA InitStopped == Init => StoppedInv
<1> SUFFICES ASSUME Init PROVE StoppedInv
    OBVIOUS
<1>1. ClockInv
    BY InitClock
<1>2. /\ session.cleanup = None /\ host.holds = None /\ None \notin Requests
    BY OutputAssumption DEF Init
<1> QED
    BY <1>1, <1>2 DEF StoppedInv, HeldIsKnown, Unconfirmed, AwaitedIsSure, Stopped

-----------------------------------------------------------------------------
(* What two failures leave behind.  An execution that could not be stopped *)
(* takes the one slot of the cleanups, or a cleanup was forgotten: this is *)
(* so whatever the clock says and however many commands raise.             *)

Remembered == \A r \in Requests :
    request[r].phase = "superseded" /\ host.holds = r /\ request[r].kind # "native_dsd"
    => session.forgotten \/ session.cleanup = r

RememberInv == BaseInv /\ HeldIsKnown /\ Remembered

Recalls(w, v) ==
    /\ v.h.holds \in {w.h.holds, None}
    /\ \A r \in Requests :
          /\ request[r].kind # "native_dsd" /\ v.h.holds = r
          /\ w.s.forgotten \/ w.s.cleanup = r
          => v.s.forgotten \/ v.s.cleanup = r

LEMMA AbortedRecalls ==
    ASSUME NEW w \in World, NEW e \in Maybe, NEW a, request \in RequestType
    PROVE  /\ Recalls(w, Aborted(w, e, a))
           /\ e # None /\ request[e].kind # "native_dsd" /\ Aborted(w, e, a).h.holds = e
              => Aborted(w, e, a).s.forgotten \/ Aborted(w, e, a).s.cleanup = e
<1>1. w.s \in SessionType /\ w.h \in HostType
    BY DEF World
<1>2. CASE e = None
    BY <1>2 DEF Aborted, Recalls
<1>3. CASE e # None
    <2> DEFINE enough == Result(w.h, e, a) \in Enough(e)
               x == Aborted(w, e, a)
    <2>1. Family(e) = request[e].kind
        BY <1>3 DEF Family
    <2>2. /\ Settled(w.s, e).cleanup = IF w.s.cleanup = e THEN None ELSE w.s.cleanup
          /\ Settled(w.s, e).forgotten = w.s.forgotten
        BY <1>1 DEF Settled, SessionType
    <2>3. /\ Uncertain(w.s, e).forgotten = Taken(w.s, e)
          /\ Uncertain(w.s, e).cleanup \in {e, w.s.cleanup}
          /\ Uncertain(w.s, e).cleanup # None
        <3> DEFINE t == Taken(w.s, e)
        <3>1. \A c : /\ [w.s EXCEPT !.cleanup = c, !.forgotten = t].cleanup = c
                     /\ [w.s EXCEPT !.cleanup = c, !.forgotten = t].forgotten = t
            BY <1>1 DEF SessionType
        <3> DEFINE c == IF w.s.cleanup = None THEN e ELSE w.s.cleanup
        <3>2. Uncertain(w.s, e) = IF Family(e) = "dop" THEN [w.s EXCEPT !.cleanup = c, !.forgotten = t]
                                  ELSE [w.s EXCEPT !.cleanup = e, !.forgotten = t]
            BY DEF Uncertain, Retained
        <3>3. e # None /\ c # None /\ c \in {e, w.s.cleanup}
            BY <1>3
        <3> HIDE DEF t, c
        <3>4. Uncertain(w.s, e).forgotten = t /\ Uncertain(w.s, e).cleanup \in {e, c}
            BY <3>1, <3>2
        <3> QED
            BY <3>3, <3>4 DEF t
    <2>4. x.s = (IF enough THEN Settled(w.s, e) ELSE Uncertain(w.s, e)) /\ x.h = Released(w.h, e, a)
        BY <1>3 DEF Aborted
    <2>5. ASSUME Released(w.h, e, a).holds = e, request[e].kind # "native_dsd"
          PROVE  ~enough
        <3>1. a = "silent"
            BY <1>3, <2>5 DEF Released, Freed
        <3>2. Result(w.h, e, a) = "error"
            BY <2>1, <2>5, <3>1, ResultOfFailure
        <3> QED
            BY <3>2 DEF Enough
    <2>6. x.h.holds \in {w.h.holds, None}
        BY AbortedEffect
    <2> HIDE DEF enough, x
    <2>7. CASE enough
        BY <2>2, <2>4, <2>5, <2>6, <2>7 DEF Recalls, x
    <2>8. CASE ~enough
        <3>1. x.s.forgotten \/ x.s.cleanup = e
            BY <2>3, <2>4, <2>8 DEF Taken
        <3>2. \A r \in Requests : w.s.forgotten \/ w.s.cleanup = r => x.s.forgotten \/ x.s.cleanup = r
            BY <2>3, <2>4, <2>8, <3>1, OutputAssumption DEF Taken
        <3> QED
            BY <2>6, <3>1, <3>2 DEF Recalls, x
    <2> QED
        BY <2>7, <2>8
<1> QED
    BY <1>2, <1>3

LEMMA RecallsChain ==
    ASSUME NEW w, NEW v, NEW x, Recalls(w, v), Recalls(v, x)
    PROVE  Recalls(w, x)
BY OutputAssumption DEF Recalls

LEMMA DeliveredRecalls ==
    ASSUME NEW w \in World, NEW r, NEW a, request \in RequestType
    PROVE  Recalls(w, AbortMedia(w, r, a)) /\ Recalls(w, Delivered(w, r))
<1>1. ASSUME NEW b PROVE Recalls(w, AbortMedia(w, r, b))
    <2>1. w.s.prepared \in Maybe
        BY DEF World, SessionType
    <2>2. Recalls(w, Aborted(w, w.s.prepared, b))
        BY <2>1, AbortedRecalls
    <2> QED
        BY <2>2, AbortMediaEffect DEF Recalls
<1>2. Recalls(w, w)
    BY DEF Recalls
<1> QED
    BY <1>1, <1>2 DEF Delivered

LEMMA BegunRecalls ==
    ASSUME BaseInv, NEW r \in Requests, NEW a
    PROVE  /\ Family(r) \in Families =>
                 /\ Delivered(Begun(Now, r, a), r) \in World
                 /\ Recalls(Now, Delivered(Begun(Now, r, a), r))
           /\ Delivered(SharedBegun(Now, r, a), r) \in World
           /\ Recalls(Now, Delivered(SharedBegun(Now, r, a), r))
<1> DEFINE b == Begun(Now, r, a)
           c == SharedBegun(Now, r, a)
<1>1. /\ Now \in World /\ Now.s = session /\ Now.h = host /\ request \in RequestType
      /\ session.prepared \in Maybe /\ Good(Now.s, request, epoch)
    BY BaseTypes, BaseNow DEF BaseInv, SessionType
<1>2. Recalls(Now, Aborted(Now, session.prepared, a)) /\ Recalls(Now, Now)
    BY <1>1, AbortedRecalls DEF Recalls
<1>3. ASSUME Family(r) \in Families PROVE b \in World /\ Recalls(Now, b)
    BY <1>1, <1>2, <1>3, BegunEffect DEF Recalls
<1>4. c \in World /\ Recalls(Now, c)
    BY <1>1, <1>2, SharedBegunEffect DEF Recalls
<1>5. ASSUME NEW w \in World, Recalls(Now, w)
      PROVE  Delivered(w, r) \in World /\ Recalls(Now, Delivered(w, r))
    BY <1>1, <1>5, DeliveredRecalls, RecallsChain, AbortMediaEffect DEF Delivered
<1> HIDE DEF b, c
<1> QED
    BY <1>3, <1>4, <1>5 DEF b, c

LEMMA RememberTypes ==
    ASSUME RememberInv
    PROVE  /\ BaseInv /\ request \in RequestType /\ Now \in World /\ Now.s = session /\ Now.h = host
           /\ host.holds \in Maybe /\ None \notin Requests /\ session.prepared \in Maybe
BY BaseTypes, OutputAssumption DEF RememberInv, BaseInv, HostType, SessionType

LEMMA KeepsRemembered ==
    ASSUME RememberInv, BaseInv', Lasts,
           \/ host'.holds \in {host.holds, None}
           \/ /\ host'.holds \in Requests /\ request'[host'.holds].kind \in Families
              /\ request'[host'.holds].phase \notin Over /\ request'[host'.holds].ok,
           \A r \in Requests :
              /\ request'[r].phase = "superseded" /\ host'.holds = r
              /\ request'[r].kind # "native_dsd"
              => \/ session'.forgotten \/ session'.cleanup = r
                 \/ /\ request[r].phase = "superseded"
                    /\ session.forgotten \/ session.cleanup = r
                       => session'.forgotten \/ session'.cleanup = r
    PROVE  RememberInv'
<1>1. HeldIsKnown'
    BY RememberTypes DEF RememberInv, HeldIsKnown, Lasts, Kept, Maybe
<1>2. Remembered'
    <2> SUFFICES ASSUME NEW r \in Requests, request'[r].phase = "superseded", host'.holds = r,
                        request'[r].kind # "native_dsd",
                        request[r].phase = "superseded",
                        session.forgotten \/ session.cleanup = r
                        => session'.forgotten \/ session'.cleanup = r
                 PROVE  session'.forgotten \/ session'.cleanup = r
        BY DEF Remembered
    <2>1. host.holds = r /\ request[r].kind = request'[r].kind
        BY RememberTypes DEF Lasts, Kept, Over
    <2> QED
        BY <2>1 DEF RememberInv, Remembered
<1> QED
    BY <1>1, <1>2 DEF RememberInv

(* A preparation ends.                                                     *)
LEMMA EndRemembers ==
    ASSUME RememberInv, BaseInv', NEW r \in Requests, request[r].phase \notin Over,
           request' \in {Answered(r), Superseded(r)},
           NEW w \in World, Becomes(w), Recalls(Now, w),
           request' = Superseded(r) /\ host'.holds = r /\ request[r].kind # "native_dsd"
           => session'.forgotten \/ session'.cleanup = r
    PROVE  RememberInv'
<1>1. /\ Lasts /\ request'[r].kind = request[r].kind
      /\ request'[r].phase = "superseded" <=> request' = Superseded(r)
      /\ \A q \in Requests \ {r} : request'[q] = request[q]
    BY RememberTypes, EndLasts
<1>2. /\ host'.holds \in {host.holds, None}
      /\ \A q \in Requests :
            /\ request[q].kind # "native_dsd" /\ host'.holds = q
            /\ session.forgotten \/ session.cleanup = q
            => session'.forgotten \/ session'.cleanup = q
    BY RememberTypes DEF Becomes, Recalls
<1> QED
    BY <1>1, <1>2, KeepsRemembered

LEMMA CandidateRemembers ==
    ASSUME RememberInv, BaseInv', NEW r \in Requests, request[r].phase \notin Over,
           request' \in {Answered(r), Superseded(r)}, NEW a,
           Becomes(Aborted(Now, Candidate(r), a))
    PROVE  RememberInv'
<1> DEFINE e == Candidate(r)
           x == Aborted(Now, e, a)
<1>1. e \in Maybe /\ (request[r].ok => e = r)
    BY DEF Candidate, Maybe
<1> HIDE DEF e
<1>2. /\ x \in World /\ Recalls(Now, x)
      /\ e # None /\ request[e].kind # "native_dsd" /\ x.h.holds = e
         => x.s.forgotten \/ x.s.cleanup = e
    BY <1>1, RememberTypes, AbortedEffect, AbortedRecalls
<1>3. session' = x.s /\ host' = x.h
    BY DEF Becomes, e
<1>4. host'.holds \in {host.holds, None}
    BY <1>2, <1>3, RememberTypes DEF Recalls
<1>5. host'.holds = r => e = r
    BY <1>1, <1>4, RememberTypes DEF RememberInv, HeldIsKnown
<1> HIDE DEF x
<1>6. host'.holds = r /\ request[r].kind # "native_dsd" => session'.forgotten \/ session'.cleanup = r
    BY <1>2, <1>3, <1>5, RememberTypes
<1>7. Becomes(x)
    BY DEF x, e
<1> QED
    BY <1>2, <1>6, <1>7, EndRemembers

LEMMA CompletionRemembers ==
    ASSUME RememberInv, BaseInv', NEW r \in Requests, NEW a \in Replies,
           \/ CompleteSuperseded(r, a) \/ CompleteShared(r, a)
           \/ CompleteFast(r, a) \/ CompletePrepare(r, a)
    PROVE  RememberInv'
<1>1. request[r].phase \notin Over
    BY DEF CompleteSuperseded, CompleteShared, CompleteFast, CompletePrepare, Returned, Over
<1>2. Recalls(Now, Now) /\ Now \in World /\ BaseInv /\ Phased(request)
    BY RememberTypes DEF Recalls, BaseInv
<1>3. request[r].ok => Family(r) \in Families
    BY <1>2, OutputAssumption DEF Phased, Family
<1>4. request' = Answered(r) => request' # Superseded(r)
    BY RememberTypes DEF Answered, Superseded, RequestType, Unasked
<1>5. CASE CompleteSuperseded(r, a)
    BY <1>1, <1>5, CandidateRemembers DEF CompleteSuperseded
<1>6. CASE CompleteShared(r, a)
    <2>1. Becomes(Delivered(SharedBegun(Now, r, a), r)) \/ Becomes(Now)
        BY <1>6, RememberTypes DEF CompleteShared, Becomes
    <2>2. request' = Answered(r)
        BY <1>6 DEF CompleteShared
    <2> QED
        BY <1>1, <1>2, <1>4, <2>1, <2>2, BegunRecalls, EndRemembers
<1>7. CASE CompleteFast(r, a)
    <2>1. request' = Answered(r) /\ request[r].ok /\ Candidate(r) = r
        BY <1>7 DEF CompleteFast, Candidate
    <2>2. CASE Becomes(Aborted(Now, r, a))
        BY <1>1, <2>1, <2>2, CandidateRemembers
    <2>3. CASE Becomes(Delivered(Begun(Now, r, a), r))
        BY <1>1, <1>2, <1>3, <1>4, <2>1, <2>3, BegunRecalls, EndRemembers
    <2> QED
        BY <1>7, <2>2, <2>3 DEF CompleteFast
<1>8. CASE CompletePrepare(r, a)
    <2> DEFINE e == Candidate(r)
               aborted == Aborted(Now, e, a)
               twice == Aborted(aborted, e, "truth")
    <2>1. /\ request' \in {Answered(r), Superseded(r)}
          /\ \/ /\ request[r].ok /\ request' = Answered(r)
                /\ Becomes(Delivered(Begun(Now, r, a), r))
             \/ Becomes(aborted)
             \/ Becomes(twice) /\ request' = Answered(r)
        <3> HIDE DEF aborted, e
        <3> QED
            BY <1>8 DEF CompletePrepare, aborted, e
    <2>2. e \in Maybe
        BY DEF Candidate, Maybe
    <2>3. aborted \in World /\ Recalls(Now, aborted)
        BY <1>2, <2>2, RememberTypes, AbortedEffect, AbortedRecalls
    <2>4. CASE request[r].ok /\ request' = Answered(r) /\ Becomes(Delivered(Begun(Now, r, a), r))
        BY <1>1, <1>2, <1>3, <1>4, <2>4, BegunRecalls, EndRemembers
    <2>5. CASE Becomes(aborted)
        BY <1>1, <2>1, <2>5, CandidateRemembers
    <2>6. CASE Becomes(twice) /\ request' = Answered(r)
        <3> HIDE DEF aborted, e
        <3>1. twice \in World /\ Recalls(aborted, twice)
            BY <2>2, <2>3, RememberTypes, AbortedEffect, AbortedRecalls
        <3>2. Recalls(Now, twice)
            BY <2>3, <3>1, RecallsChain
        <3> HIDE DEF twice
        <3> QED
            BY <1>1, <1>4, <2>6, <3>1, <3>2, EndRemembers
    <2> QED
        BY <2>1, <2>4, <2>5, <2>6
<1> QED
    BY <1>5, <1>6, <1>7, <1>8

(* The steps that supersede no preparation.                                *)
LEMMA OwnerRemembers ==
    ASSUME RememberInv, BaseInv', NEW a,
           \/ Commit \/ Reselect \/ DeviceGoes \/ DeviceReturns \/ UNCHANGED vars
           \/ CommitFails(a) \/ LoadFails(a)
           \/ Stop(a) \/ EngineLost \/ DeviceLost(a)
    PROVE  RememberInv'
<1>1. /\ BaseInv /\ request \in RequestType /\ session \in SessionType
      /\ Now \in World /\ Now.s = session /\ Now.h = host
    BY RememberTypes, BaseTypes DEF BaseInv
<1>2. \A r \in Requests : /\ request'[r].phase = request[r].phase
                          /\ request'[r].kind = request[r].kind
                          /\ request'[r].ok = request[r].ok
    <2>1. CASE Reselect
        BY <1>1, <2>1 DEF Reselect, RequestType
    <2>2. UNCHANGED request \/ Reselect
        BY <1>1, GivenUpEffect
        DEF Commit, DeviceGoes, DeviceReturns, vars, CommitFails, LoadFails
    <2> QED
        BY <2>1, <2>2
<1>3. Lasts
    BY <1>2, SameLasts
<1>4. CASE Commit \/ Reselect \/ DeviceGoes \/ DeviceReturns \/ UNCHANGED vars
    <2>1. /\ host' = host /\ session'.cleanup = session.cleanup
          /\ session'.forgotten = session.forgotten
        BY <1>1, <1>4 DEF Commit, Reselect, DeviceGoes, DeviceReturns, vars, SessionType
    <2> QED
        BY <1>2, <1>3, <2>1, KeepsRemembered
<1>5. CASE LoadFails(a)
    <2>1. AbortMedia(Now, epoch, a) \in World /\ Recalls(Now, AbortMedia(Now, epoch, a))
        BY <1>1, AbortMediaEffect, DeliveredRecalls
    <2>2. /\ host'.holds \in {host.holds, None}
          /\ \A q \in Requests :
                /\ request[q].kind # "native_dsd" /\ host'.holds = q
                /\ session.forgotten \/ session.cleanup = q
                => session'.forgotten \/ session'.cleanup = q
        BY <1>1, <1>5, <2>1 DEF LoadFails, Becomes, Recalls
    <2> QED
        BY <1>2, <1>3, <2>2, KeepsRemembered
<1>6. CASE CommitFails(a) \/ Stop(a) \/ EngineLost \/ DeviceLost(a)
    <2>1. host'.holds = None
        <3>1. CASE CommitFails(a)
            <4> DEFINE aborted == AbortMedia(Now, epoch, a)
            <4>1. aborted \in World
                BY <1>1, AbortMediaEffect
            <4>2. host' = Freed(aborted.h)
                <5> HIDE DEF aborted
                <5>1. [aborted EXCEPT !.h = Freed(@)].h = Freed(aborted.h)
                    BY <4>1 DEF World
                <5> QED
                    BY <3>1, <5>1 DEF CommitFails, Becomes, aborted
            <4> QED
                BY <4>2 DEF Freed
        <3> QED
            BY <1>1, <1>6, <3>1, GivenUpEffect
    <2> QED
        BY <1>3, <2>1, RememberTypes, KeepsRemembered
<1> QED
    BY <1>4, <1>5, <1>6

LEMMA RememberInductive == RememberInv /\ [Next]_vars => RememberInv'
<1> SUFFICES ASSUME RememberInv, [Next]_vars PROVE RememberInv'
    OBVIOUS
<1>1. BaseInv /\ BaseInv' /\ request \in RequestType
    BY BaseInductive, RememberTypes
<1>2. ASSUME NEW r \in Requests, Ask(r) PROVE RememberInv'
    <2>1. UNCHANGED <<session, host>> /\ request[r].phase = "unasked"
        BY <1>2 DEF Ask
    <2>2. /\ Lasts /\ request'[r].phase # "superseded"
          /\ \A q \in Requests \ {r} : request'[q] = request[q]
        <3>1. CASE session.cleanup # None
            <4>1. request' = Answered(r) /\ Answered(r)[r].phase = "answered"
                BY <1>1, <1>2, <3>1 DEF Ask, Answered, Unasked, RequestType
            <4> QED
                BY <1>1, <2>1, <4>1, EndLasts DEF Over
        <3>2. CASE session.cleanup = None
            <4>1. /\ request'[r].phase = "working"
                  /\ \A q \in Requests \ {r} : request'[q] = request[q]
                BY <1>1, <1>2, <3>2, AskedEffect
            <4> QED
                BY <1>1, <2>1, <4>1, OneLasts DEF Over
        <3> QED
            BY <3>1, <3>2
    <2> QED
        BY <1>1, <2>1, <2>2, KeepsRemembered
<1>3. ASSUME NEW r \in Requests, Steps(r) PROVE RememberInv'
    <2>1. CASE BeginHandover(r)
        <3>1. /\ request[r].phase = "planned" /\ UNCHANGED <<session, host>>
              /\ request'[r].phase \in {"answered", "releasing"}
              /\ \A q \in Requests \ {r} : request'[q] = request[q]
            BY <1>1, <2>1, BeginHandoverEffect
        <3>2. Lasts
            BY <1>1, <3>1, OneLasts DEF Over
        <3> QED
            BY <1>1, <3>1, <3>2, KeepsRemembered
    <2>2. CASE CompleteRelease(r)
        <3>1. /\ request[r].phase = "released" /\ UNCHANGED host
              /\ session.cleanup # None => session'.cleanup = session.cleanup
              /\ session.forgotten => session'.forgotten
              /\ \A q \in Requests \ {r} : request'[q] = request[q]
            BY <1>1, <2>2, CompleteReleaseQuiet
        <3>2. Lasts
            BY <1>1, <3>1, OneLasts DEF Over
        <3>3. host.holds # r
            BY <1>1, <3>1, RememberTypes DEF RememberInv, HeldIsKnown, BaseInv, Phased, Over
        <3> QED
            BY <1>1, <3>1, <3>2, <3>3, RememberTypes, KeepsRemembered
    <2>3. CASE \/ \E kind \in Families \cup {"shared"} : Characterize(r, kind)
               \/ CannotPlan(r)
               \/ \E ok \in BOOLEAN : Acquire(r, ok)
               \/ \E a \in Replies : Release(r, a)
        BY <1>1, <2>3, WorkerLasts, KeepsRemembered
    <2>4. CASE CompleteFailed(r)
        <3>1. /\ request[r].phase \notin Over /\ request' = Answered(r)
              /\ UNCHANGED <<session, host>>
            BY <2>4 DEF CompleteFailed, Over
        <3>2. Answered(r)[r].phase = "answered"
            BY <1>1 DEF Answered, Unasked, RequestType
        <3>3. /\ Lasts /\ \A q \in Requests \ {r} : request'[q] = request[q]
            BY <1>1, <3>1, EndLasts
        <3> QED
            BY <1>1, <3>1, <3>2, <3>3, KeepsRemembered
    <2>5. ASSUME NEW a \in Replies,
                 \/ CompleteSuperseded(r, a) \/ CompleteShared(r, a)
                 \/ CompleteFast(r, a) \/ CompletePrepare(r, a)
          PROVE  RememberInv'
        BY <1>1, <2>5, CompletionRemembers
    <2> QED
        BY <1>3, <2>1, <2>2, <2>3, <2>4, <2>5 DEF Steps, Replies
<1>4. ASSUME NEW a \in Replies,
             \/ Commit \/ EngineLost \/ Reselect \/ DeviceGoes \/ DeviceReturns \/ UNCHANGED vars
             \/ CommitFails(a) \/ LoadFails(a) \/ Stop(a) \/ DeviceLost(a)
      PROVE  RememberInv'
    BY <1>1, <1>4, OwnerRemembers
<1> QED
    BY <1>2, <1>3, <1>4 DEF Next, Replies

LEMMA FaultsNeverFall ==
    ASSUME BaseInv, [Next]_vars
    PROVE  world'.faults >= world.faults
<1>1. world \in WorldType /\ world.faults \in Nat
    BY BaseNow, FaultsType
<1>2. UNCHANGED world => world'.faults >= world.faults
    BY <1>1
<1>3. ASSUME NEW e, NEW a \in Answers(e), world' \in {Heard(a), Happens(a)}
      PROVE  world'.faults >= world.faults
    BY <1>3, FaultsGrow
<1>4. ASSUME NEW r \in Requests, Ask(r) PROVE world'.faults >= world.faults
    BY <1>2, <1>4 DEF Ask
<1>5. ASSUME NEW r \in Requests, Steps(r) PROVE world'.faults >= world.faults
    <2>1. CASE \/ \E kind \in Families \cup {"shared"} : Characterize(r, kind)
               \/ CannotPlan(r) \/ CompleteFailed(r) \/ BeginHandover(r) \/ CompleteRelease(r)
               \/ \E ok \in BOOLEAN : Acquire(r, ok)
        BY <1>2, <2>1
        DEF Characterize, CannotPlan, CompleteFailed, BeginHandover, CompleteRelease, Acquire
    <2>2. ASSUME NEW a \in Replies, Release(r, a) \/ CompleteSuperseded(r, a)
          PROVE  world'.faults >= world.faults
        BY <1>3, <2>2 DEF Release, CompleteSuperseded
    <2>3. ASSUME NEW a \in Replies, CompleteShared(r, a) \/ CompleteFast(r, a)
          PROVE  world'.faults >= world.faults
        BY <1>2, <1>3, <2>3 DEF CompleteShared, CompleteFast
    <2>4. ASSUME NEW a \in Replies, CompletePrepare(r, a)
          PROVE  world'.faults >= world.faults
        <3>1. world' = Heard(a) /\ (a \in Answers(None) \/ a \in Answers(Candidate(r)))
            BY <2>4 DEF CompletePrepare, Answers
        <3> QED
            BY <1>3, <3>1
    <2> QED
        BY <1>5, <2>1, <2>2, <2>3, <2>4 DEF Steps, Replies
<1>6. Commit \/ DeviceReturns \/ UNCHANGED vars => world'.faults >= world.faults
    BY <1>1, <1>2 DEF Commit, DeviceReturns, vars, WorldType
<1>7. ASSUME NEW a, CommitFails(a) \/ LoadFails(a) PROVE world'.faults >= world.faults
    BY <1>3, <1>7 DEF CommitFails, LoadFails
<1>8. ASSUME NEW a, Stop(a) \/ EngineLost \/ DeviceLost(a) PROVE world'.faults >= world.faults
    BY <1>8, GivenUpEffect
<1>9. Reselect \/ DeviceGoes => world'.faults >= world.faults
    <2>1. Happens("truth").faults >= world.faults
        BY FaultsGrow DEF Answers
    <2>2. [Happens("truth") EXCEPT !.present = FALSE].faults = Happens("truth").faults
        BY DEF Happens, Heard
    <2> QED
        BY <2>1, <2>2 DEF Reselect, DeviceGoes
<1> QED
    BY <1>4, <1>5, <1>6, <1>7, <1>8, <1>9 DEF Next

(* The host does not hold the execution of a preparation that was          *)
(* superseded, unless the session says that a cleanup is not confirmed; or *)
(* it has forgotten one, and then two commands have raised or the clock    *)
(* has repeated a number.                                                  *)
THEOREM SupersededIsStopped == Spec => []SupersededHoldsNothing
<1> DEFINE Inv == /\ RememberInv
                  /\ ~prep.repeated /\ ~(world.faults > 1) => StoppedInv
<1>1. Init => Inv
    <2>1. Init => BaseInv /\ HeldIsKnown /\ StoppedInv
        BY InitBase, InitStopped DEF StoppedInv
    <2>2. Init => Remembered
        BY OutputAssumption DEF Init, Remembered
    <2> QED
        BY <2>1, <2>2 DEF RememberInv
<1>2. Inv /\ [Next]_vars => Inv'
    <2> SUFFICES ASSUME Inv, [Next]_vars PROVE Inv'
        OBVIOUS
    <2>1. RememberInv'
        BY RememberInductive
    <2>2. ASSUME ~prep'.repeated, ~(world'.faults > 1) PROVE StoppedInv'
        <3>1. /\ BaseInv /\ world.faults \in Nat /\ world'.faults \in Nat
              /\ world'.faults >= world.faults
            BY <2>1, FaultsNeverFall, FaultsType, OutputAssumption
            DEF RememberInv, BaseInv, TypeOK
        <3>2. ~prep.repeated /\ ~(world.faults > 1)
            BY <2>2, <3>1, RepeatedStays
        <3>3. StoppedInv /\ ClockInv
            BY <3>2 DEF StoppedInv
        <3> QED
            BY <2>2, <3>3, StaysFresh, StoppedInductive
    <2> QED
        BY <2>1, <2>2
<1>3. Inv => SupersededHoldsNothing
    BY OutputAssumption
    DEF RememberInv, Remembered, StoppedInv, Stopped, SupersededHoldsNothing, Family
<1> HIDE DEF Inv
<1> QED
    BY <1>1, <1>2, <1>3, PTL DEF Spec

-----------------------------------------------------------------------------
(* OutputHost: the types of its variables.                                 *)

OpenOps == {"hello", "open", "abandon"}
Uses    == {"close", "load"}

PortRecord == [gen : Nat, closing : BOOLEAN, closed : BOOLEAN, lost : BOOLEAN,
               direct : BOOLEAN]
SupRecord == [state : {"STARTING", "READY", "STOPPING", "STOPPED", "FAILED"},
              process : BOOLEAN, open : BOOLEAN, accepting : BOOLEAN,
              kind : Kinds \cup {Nothing}]
Reasons == {"failure", "refused", "acknowledged", Nothing}
CallRecord == [op : Ops \cup {Nothing}, step : CallSteps, gen : Nat,
               answer : Outcomes \cup {Nothing}, why : Reasons, kind : Kinds \cup {Nothing}]
ReaderRecord == [at : {"reading", "blocked", "retiring", "done"}, cb : Callback \cup {Nothing}]
ChildRecord == [life : {"runs", "hangs", "immortal", "exited"}, gen : Nat, n : Nat,
                does : Occasion \cup {Nothing},
                chunk : Seq(Command \cup Reply), deferred : Seq(Command),
                serving : BOOLEAN, opened : BOOLEAN, direct : BOOLEAN, quit : BOOLEAN]
HistoryRecord == [reported : BOOLEAN, missed : BOOLEAN, raised : BOOLEAN]

ParentTyped ==
    /\ provider \in {"opening", "open", "failed", "dropped"}
    /\ port \in PortRecord /\ calls \in [Threads -> CallRecord]
    /\ reader \in ReaderRecord /\ history \in HistoryRecord

ChannelTyped == /\ queue \in Seq(Callback \cup {Loss})
                /\ down \in Seq(Command \cup Reply) /\ up \in Seq(Answer \cup Callback)

(* The parts of the type, in this state and in the next.                   *)
HostTypeParts == /\ ParentTyped /\ sup \in SupRecord /\ ChannelTyped
                 /\ child \in ChildRecord /\ used \in [work : Nat, faults : Nat]

LEMMA HostTyped == (HostTypeOK <=> HostTypeParts) /\ (HostTypeOK' <=> HostTypeParts')
BY DEF HostTypeOK, HostTypeParts, ParentTyped, ChannelTyped, PortRecord, SupRecord, CallRecord,
       Reasons, ReaderRecord, ChildRecord, HistoryRecord

(* A kind of termination that fits what became of the host.                *)
Fits(kind) == /\ kind \in Kinds
              /\ kind = "REAP_PENDING" => child.life = "immortal"
              /\ kind # "REAP_PENDING" => child.life = "exited"

(* What each thread may be doing.                                          *)
Fit(t, call) ==
    /\ call.step # "idle" => call.op \in Ops
    /\ call.op \in OpenOps => t = "owner" /\ provider = "opening"
    /\ call.op \in Uses => provider \notin {"opening", "failed"}
    /\ call.op = "retire" => t = "reader"
    /\ call.step = "asked" => call.op = "load"
    /\ call.step = "shutdown" => call.op \in {"close", "abandon"}
    /\ t = "reader" => /\ call.op \in {"retire", Nothing}
                       /\ call.step \in {"idle", "killing", "joining"}
    /\ call.step = "joining" => ~sup.open /\ Fits(call.kind)
    /\ call.step = "releasing" => call.op = "close" /\ Fits(call.kind)

Threaded == \A t \in Threads : Fit(t, calls[t])

(* A supervisor without a process knows how it ended, and takes no more.   *)
Ended ==
    /\ ~sup.process => sup.kind # Nothing /\ ~sup.open
    /\ sup.kind # Nothing => Fits(sup.kind)

(* A reader that is blocked waits for the answer to a callback.            *)
Blocking == reader.at = "blocked" => reader.cb \in Callback

(* What a host c serves is there; it is not in the middle of a chunk when  *)
(* it waits for a callback of its own loop.                                *)
Served(c) ==
    /\ c.serving /\ c.does = Nothing => c.chunk # <<>> \/ c.deferred # <<>>
    /\ c.does # Nothing /\ c.does.by = Nothing => ~c.serving

(* The connection whose host must not outlive it: while hello is under     *)
(* way, whoever notices a loss has seen the host exit.                     *)
Greeting == calls["owner"].op = "hello" /\ calls["owner"].step \in {"captured", "sent"}
Alarmed  == port.lost \/ ~sup.open \/ ~At("reader", "idle")
Opening  == Greeting /\ Alarmed => child.life = "exited"

(* A port is closed only once its provider was dropped, or its             *)
(* termination was given up with an error.                                 *)
Closed == port.closed => provider = "dropped" \/ history.raised

(* The invariant about the parent; HostInv adds the types and the host.    *)
Control == /\ Threaded /\ Ended /\ Opening /\ Closed
           /\ NobodyWaitsForTheDead /\ NothingIsLeaked

HostInv == HostTypeOK /\ Control /\ Blocking /\ Served(child)

LEMMA HostInvTyped ==
    ASSUME HostInv
    PROVE  /\ child \in ChildRecord /\ Served(child)
           /\ down \in Seq(Command \cup Reply) /\ up \in Seq(Answer \cup Callback)
           /\ queue \in Seq(Callback \cup {Loss})
           /\ used \in [work : Nat, faults : Nat] /\ sup \in SupRecord /\ ParentTyped
BY HostTyped DEF HostInv, HostTypeParts, ChannelTyped

-----------------------------------------------------------------------------
(* What a step of a thread does to the control.                            *)

(* A host that exited, or that no signal ends, stays so.                   *)
LifeKept == child.life \in {"exited", "immortal"} => child'.life = child.life

(* The thread sent its command and has no answer.                          *)
Waiting(t) == At(t, "sent") /\ calls[t].answer = Nothing

(* Another thread goes on where it was; it may have been answered.         *)
Keeps(u) == /\ calls'[u].op = calls[u].op /\ calls'[u].step = calls[u].step
            /\ calls'[u].kind = calls[u].kind
            /\ calls'[u].answer = Nothing => calls[u].answer = Nothing

(* How the provider may change: closed, or opened or failed by its owner.  *)
Transfers(t) == \/ provider' = provider
                \/ provider' = "dropped" /\ provider = "open"
                \/ /\ provider = "opening" /\ t = "owner" /\ calls'[t] = NoCall
                   /\ provider' \in {"open", "failed"}

(* A provider is given up only once its host exited or is known not to.    *)
Spares == /\ provider' = "failed" /\ provider # "failed"
                 => child'.life = "exited" \/ sup'.kind = "REAP_PENDING"
          /\ provider' = "dropped" /\ provider # "dropped" /\ ~history'.raised
                 => child'.life = "exited"
          /\ history.raised => history'.raised
          /\ port'.closed => port.closed \/ provider' = "dropped" \/ history'.raised

(* How a supervisor may end: for good, and with no command unanswered.     *)
Ends == /\ sup'.open => sup.open
        /\ ~sup'.process => sup'.kind # Nothing /\ ~sup'.open
        /\ sup'.kind # sup.kind => Fits(sup.kind)'
        /\ ~sup'.process => \/ ~sup.process /\ \A u \in Commanders : Waiting(u)' => Waiting(u)
                            \/ \A u \in Commanders : ~Waiting(u)'

(* A loss that is noticed during hello ended the host.                     *)
Alarms == Greeting' => Greeting /\ (Alarmed' => Alarmed \/ child'.life = "exited")

(* What every step of the thread t guarantees; it keeps Control.           *)
ControlStep(t) ==
    /\ Fit(t, calls[t])' /\ \A u \in Threads \ {t} : Keeps(u)
    /\ LifeKept /\ Transfers(t) /\ Spares /\ Ends /\ Alarms

LEMMA FitsKept ==
    ASSUME NEW kind, Fits(kind), LifeKept
    PROVE  Fits(kind)'
BY DEF Fits, LifeKept

LEMMA ControlKept ==
    ASSUME HostInv, NEW t \in Threads, ControlStep(t)
    PROVE  Control'
<1>1. Threaded'
    <2>1. Fit(t, calls[t])'
        BY DEF ControlStep
    <2>2. ASSUME NEW u \in Threads, u # t PROVE Fit(u, calls[u])'
        <3>1. Fit(u, calls[u]) /\ Keeps(u) /\ LifeKept /\ Transfers(t) /\ (sup'.open => sup.open)
            BY <2>2 DEF ControlStep, HostInv, Control, Threaded, Ends
        <3>2. Fits(calls[u].kind) => Fits(calls[u].kind)'
            BY <3>1, FitsKept DEF Fits, Keeps
        <3>3. calls[u].op \in OpenOps => provider' = "opening"
            BY <3>1, <2>2 DEF Fit, Transfers
        <3>4. calls[u].op \in Uses => provider' \notin {"opening", "failed"}
            BY <3>1, <2>2 DEF Fit, Transfers
        <3> QED
            BY <3>1, <3>2, <3>3, <3>4 DEF Fit, Keeps
    <2> QED
        BY <2>1, <2>2 DEF Threaded
<1>2. Ended'
    BY FitsKept DEF ControlStep, Ends, HostInv, Control, Ended, Fits, LifeKept
<1>3. Opening'
    BY DEF ControlStep, Alarms, HostInv, Control, Opening, LifeKept
<1>4. Closed'
    BY DEF ControlStep, Spares, Transfers, HostInv, Control, Closed
<1>5. NobodyWaitsForTheDead'
    BY DEF ControlStep, Ends, HostInv, Control, NobodyWaitsForTheDead, Waiting, At
<1>6. NothingIsLeaked'
    <2>1. LifeKept /\ Spares /\ Transfers(t) /\ Ends
        BY DEF ControlStep
    <2>2. provider' = "dropped" /\ ~history'.raised => child'.life = "exited"
        BY <2>1 DEF Spares, HostInv, Control, NothingIsLeaked, LifeKept
    <2>3. ASSUME provider' = "failed"
          PROVE  child'.life = "exited" \/ sup'.kind = "REAP_PENDING"
        <3>1. CASE provider # "failed"
            BY <2>1, <2>3, <3>1 DEF Spares
        <3>2. CASE child.life = "exited"
            BY <2>1, <3>2 DEF LifeKept
        <3>3. CASE provider = "failed" /\ sup.kind = "REAP_PENDING" /\ sup'.kind # sup.kind
            <4>1. Fits(sup.kind) /\ Fits(sup.kind)'
                BY <2>1, <3>3, HostAssumption DEF Ends, HostInv, Control, Ended, Kinds
            <4> QED
                BY <4>1, <3>3, <2>1 DEF Fits, LifeKept
        <3> QED
            BY <3>1, <3>2, <3>3 DEF HostInv, Control, NothingIsLeaked
    <2> QED
        BY <2>2, <2>3 DEF NothingIsLeaked
<1> QED
    BY <1>1, <1>2, <1>3, <1>4, <1>5, <1>6 DEF Control

-----------------------------------------------------------------------------
(* The commands before a reply keep their order.                           *)

LEMMA CommandsBeforeType ==
    ASSUME NEW s \in Seq(Command \cup Reply)
    PROVE  CommandsBefore(s) \in Seq(Command)
<1> DEFINE kept    == {i \in DOMAIN s : /\ s[i].kind = "command"
                                        /\ \A j \in 1 .. i : ~IsReply(s[j])}
           Upto(i) == {j \in kept : j <= i}
           Rank(i) == Cardinality(Upto(i))
           rank    == [i \in kept |-> Rank(i)]
           n       == Cardinality(kept)
<1>1. /\ Len(s) \in Nat
      /\ DOMAIN s = 1 .. Len(s)
    BY LenProperties
<1>2. IsFiniteSet(kept) /\ n \in Nat
    <2>1. IsFiniteSet(DOMAIN s) /\ kept \in SUBSET DOMAIN s
        BY <1>1, FS_Interval
    <2> HIDE DEF kept
    <2>2. IsFiniteSet(kept)
        BY <2>1, FS_Subset
    <2> QED
        BY <2>2, FS_CardinalityType
<1>3. \A i \in kept : i \in Nat /\ i \in 1 .. Len(s) /\ s[i].kind = "command"
    BY <1>1
<1> HIDE DEF kept
<1>4. ASSUME NEW i \in kept
      PROVE  Rank(i) \in 1 .. n /\ IsFiniteSet(Upto(i))
    <2>1. Upto(i) \in SUBSET kept /\ i \in Upto(i)
        BY <1>3
    <2>2. IsFiniteSet(Upto(i)) /\ Rank(i) <= n /\ Rank(i) \in Nat
        BY <1>2, <2>1, FS_Subset, FS_CardinalityType
    <2>3. Rank(i) # 0
        BY <2>1, <2>2, FS_EmptySet
    <2> QED
        BY <1>2, <2>2, <2>3
<1>5. ASSUME NEW i \in kept, NEW j \in kept, i < j
      PROVE  Rank(i) # Rank(j)
    <2>1. Upto(i) \in SUBSET Upto(j) /\ j \in Upto(j) /\ j \notin Upto(i)
        BY <1>3, <1>5
    <2> QED
        BY <1>4, <2>1, FS_Subset
<1> HIDE DEF Rank, n
<1>6. ASSUME NEW i \in kept, NEW j \in kept, Rank(i) = Rank(j)
      PROVE  i = j
    BY <1>3, <1>5, <1>6
<1>7. rank \in Injection(kept, 1 .. n)
    BY <1>4, <1>6 DEF Injection, IsInjective
<1>8. rank \in Surjection(kept, 1 .. n)
    <2>1. IsFiniteSet(1 .. n) /\ Cardinality(1 .. n) = n
        BY <1>2, FS_Interval
    <2> QED
        BY <1>7, <2>1, FS_Injection DEF n
<1>9. ASSUME NEW k \in 1 .. n
      PROVE  s[CHOOSE i \in kept : Rank(i) = k] \in Command
    <2>1. \E i \in kept : rank[i] = k
        BY <1>8 DEF Surjection
    <2>2. (CHOOSE i \in kept : Rank(i) = k) \in kept
        BY <2>1
    <2>3. ASSUME NEW i \in kept PROVE s[i] \in Command
        <3>1. s[i] \in Command \cup Reply /\ s[i].kind = "command"
            BY <1>3, ElementOfSeq
        <3> QED
            BY <3>1 DEF Reply
    <2> QED
        BY <2>2, <2>3
<1>10. CommandsBefore(s) = [k \in 1 .. n |-> s[CHOOSE i \in kept : Rank(i) = k]]
    BY DEF CommandsBefore, kept, Rank, n
<1>11. \A k \in 1 .. n : CommandsBefore(s)[k] \in Command
    BY <1>9, <1>10
<1>12. CommandsBefore(s) \in [1 .. n -> Command]
    BY <1>10, <1>11
<1> HIDE DEF rank
<1> QED
    BY <1>2, <1>12, IsASeq

LEMMA Frames ==
    /\ Command \cap Reply = {} /\ Answer \cap Callback = {}
    /\ \A f \in Command \cup Reply : f.gen \in Nat
    /\ \A f \in Command \cup Reply : f.kind = "command" => f \in Command
    /\ \A f \in Answer \cup Callback : f.kind = "callback" => f \in Callback
    /\ \A f \in Answer \cup Callback : f.kind = "answer" => f \in Answer
    /\ \A f \in Command : f.by \in Commanders /\ f.op \in Ops
    /\ \A f \in Answer : f.by \in Commanders /\ f.ok \in BOOLEAN
    /\ \A f \in Callback : f.n \in Nat /\ f.gen \in Nat
    /\ Nothing \notin Commanders /\ Nothing \notin Ops
    /\ Nothing \notin Kinds /\ Nothing \notin Outcomes
BY HostAssumption DEF Command, Reply, Answer, Callback

LEMMA NoCallTyped == NoCall \in CallRecord
BY DEF NoCall, CallRecord, Reasons, CallSteps

-----------------------------------------------------------------------------
(* The host's side.                                                        *)

(* A step that leaves the parent's calls as they are.                      *)
Calm == /\ UNCHANGED <<provider, sup, calls>>
        /\ port'.closed = port.closed /\ port'.lost = port.lost
        /\ history'.raised = history.raised
        /\ LifeKept

LEMMA CalmKeeps ==
    ASSUME HostInv, Calm
    PROVE  Control'
<1>1. "reader" \in Threads
    BY DEF Threads
<1>2. Fit("reader", calls["reader"])'
    <2>1. Fit("reader", calls["reader"])
        BY <1>1 DEF HostInv, Control, Threaded
    <2> QED
        BY <2>1, FitsKept DEF Calm, Fit, Fits, LifeKept
<1>3. \A u \in Threads : Keeps(u)
    BY DEF Calm, Keeps
<1>4. Transfers("reader")
    BY DEF Calm, Transfers
<1>9. Spares
    <2>1. provider' = provider /\ port'.closed = port.closed /\ history'.raised = history.raised
        BY DEF Calm
    <2> QED
        BY <2>1, Zenon DEF Spares
<1>5. Ends
    BY DEF Calm, Ends, HostInv, Control, Ended, Waiting, At
<1>6. Alarms
    BY DEF Calm, Alarms, Greeting, Alarmed, At
<1>7. ControlStep("reader")
    BY <1>2, <1>3, <1>4, <1>5, <1>6, <1>9 DEF ControlStep, Calm
<1> QED
    BY <1>1, <1>7, ControlKept

LEMMA HeadOfSeq ==
    ASSUME NEW S, NEW s \in Seq(S), s # <<>>
    PROVE  Head(s) \in S /\ Tail(s) \in Seq(S)
BY HeadTailProperties

LEMMA AppendToSeq ==
    ASSUME NEW S, NEW s \in Seq(S), NEW e \in S
    PROVE  Append(s, e) \in Seq(S)
BY AppendProperties

LEMMA CallTyped ==
    ASSUME NEW c \in ChildRecord, NEW r \in BOOLEAN
    PROVE  Calling(c, r) \in Callback
BY DEF Calling, Callback, ChildRecord

LEMMA AnswerTyped ==
    ASSUME NEW by \in Commanders, NEW ok \in BOOLEAN
    PROVE  Answering(by, ok) \in Answer
BY DEF Answering, Answer

LEMMA WithMoreServes ==
    ASSUME NEW c \in ChildRecord
    PROVE  /\ WithMore(c) \in ChildRecord /\ WithMore(c).life = c.life
           /\ c.does = Nothing => Served(WithMore(c))
BY DEF WithMore, Served, ChildRecord

LEMMA AwaitServes ==
    ASSUME NEW c \in ChildRecord, NEW by \in Commanders \cup {Nothing},
           NEW op \in Ops \cup {Nothing}, by = Nothing => ~c.serving
    PROVE  /\ Await(c, by, op) \in ChildRecord /\ Await(c, by, op).life = c.life
           /\ Served(Await(c, by, op))
BY HostAssumption DEF Await, Served, ChildRecord, Occasion

LEMMA CallbackReturnedServes ==
    ASSUME NEW c \in ChildRecord, c.does # Nothing, Served(c)
    PROVE  /\ CallbackReturned(c) \in ChildRecord /\ CallbackReturned(c).life = c.life
           /\ Served(CallbackReturned(c))
<1> DEFINE shut == c.does.op \in {"close", "abandon"}
           back == [c EXCEPT !.does = Nothing, !.quit = @ \/ shut, !.direct = @ /\ ~shut]
<1>1. (c.quit \/ shut) \in BOOLEAN /\ (c.direct /\ ~shut) \in BOOLEAN
    OBVIOUS
<1>2. CallbackReturned(c) = IF c.does.by = Nothing THEN back ELSE WithMore(back)
    BY DEF CallbackReturned
<1> HIDE DEF shut
<1>3. back \in ChildRecord
    BY <1>1 DEF ChildRecord
<1>4. /\ back.life = c.life /\ back.does = Nothing /\ back.serving = c.serving
    BY <1>1 DEF ChildRecord
<1> HIDE DEF back
<1>5. CASE c.does.by = Nothing
    BY <1>2, <1>3, <1>4, <1>5 DEF Served
<1>6. CASE c.does.by # Nothing
    BY <1>2, <1>3, <1>4, <1>6, WithMoreServes
<1> QED
    BY <1>5, <1>6

ChildStep == /\ HostUnchanged /\ LifeKept
             /\ down' \in Seq(Command \cup Reply) /\ up' \in Seq(Answer \cup Callback)
             /\ child' \in ChildRecord /\ Served(child)'
             /\ used' \in [work : Nat, faults : Nat]

LEMMA ChildStepKeeps ==
    ASSUME HostInv, ChildStep
    PROVE  HostInv'
<1>1. Calm
    BY DEF ChildStep, HostUnchanged, Calm
<1>2. Control'
    BY <1>1, CalmKeeps
<1>3. HostTypeOK'
    <2>1. UNCHANGED <<provider, port, sup, calls, reader, queue, history>>
        BY DEF ChildStep, HostUnchanged
    <2>2. ParentTyped'
        BY <2>1, HostInvTyped DEF ParentTyped
    <2>3. sup' \in SupRecord /\ queue' \in Seq(Callback \cup {Loss})
        BY <2>1, HostInvTyped
    <2> QED
        BY <2>2, <2>3, HostTyped DEF ChildStep, HostTypeParts, ChannelTyped
<1>4. Blocking'
    BY DEF ChildStep, HostUnchanged, HostInv, Blocking
<1> QED
    BY <1>2, <1>3, <1>4 DEF HostInv, ChildStep

LEMMA FaultTyped ==
    ASSUME used \in [work : Nat, faults : Nat], \/ \E kind : Fault(kind)
                                                \/ Work
    PROVE  used' \in [work : Nat, faults : Nat]
BY DEF Fault, Work

LEMMA ReceiveKeeps ==
    ASSUME HostInv, Receive
    PROVE  HostInv'
<1>1. child' \in ChildRecord /\ child'.life = child.life /\ Served(child')
    BY HostInvTyped DEF Receive, ChildRecord, Served
<1>2. ChildStep
    BY <1>1, HostInvTyped DEF ChildStep, Receive, LifeKept
<1> QED
    BY <1>2, ChildStepKeeps

(* The frame that is served next, and the host once it is taken off.       *)
NextFrame == IF child.chunk # <<>> THEN Head(child.chunk) ELSE Head(child.deferred)
Without   == IF child.chunk # <<>>
             THEN [child EXCEPT !.chunk = Tail(@), !.gen = NextFrame.gen]
             ELSE [child EXCEPT !.deferred = Tail(@), !.gen = NextFrame.gen]

LEMMA NextFrameTyped ==
    ASSUME HostInv, child.serving, child.does = Nothing
    PROVE  /\ NextFrame \in Command \cup Reply
           /\ Without \in ChildRecord
           /\ Without.life = child.life /\ Without.does = Nothing
<1>1. /\ child \in ChildRecord
      /\ child.chunk # <<>> \/ child.deferred # <<>>
    BY HostInvTyped DEF Served
<1>2. CASE child.chunk # <<>>
    <2>1. /\ NextFrame \in Command \cup Reply
          /\ Tail(child.chunk) \in Seq(Command \cup Reply)
        BY <1>1, <1>2, HeadOfSeq DEF ChildRecord, NextFrame
    <2>2. NextFrame.gen \in Nat
        BY <2>1, Frames
    <2>3. Without = [child EXCEPT !.chunk = Tail(@), !.gen = NextFrame.gen]
        BY <1>2 DEF Without
    <2>4. Without \in ChildRecord /\ Without.life = child.life /\ Without.does = child.does
        BY <1>1, <2>1, <2>2, <2>3 DEF ChildRecord
    <2> QED
        BY <2>1, <2>4
<1>3. CASE child.chunk = <<>>
    <2>1. NextFrame \in Command /\ Tail(child.deferred) \in Seq(Command)
        BY <1>1, <1>3, HeadOfSeq DEF ChildRecord, NextFrame
    <2>2. NextFrame.gen \in Nat
        BY <2>1, Frames
    <2>3. Without = [child EXCEPT !.deferred = Tail(@), !.gen = NextFrame.gen]
        BY <1>3 DEF Without
    <2>4. Without \in ChildRecord /\ Without.life = child.life /\ Without.does = child.does
        BY <1>1, <2>1, <2>2, <2>3 DEF ChildRecord
    <2> QED
        BY <2>1, <2>4
<1> QED
    BY <1>2, <1>3

LEMMA AppendUp ==
    ASSUME HostInv, NEW m \in Answer \cup Callback
    PROVE  Append(up, m) \in Seq(Answer \cup Callback)
BY HostInvTyped, AppendToSeq

LEMMA ServeKeeps ==
    ASSUME HostInv, Serve
    PROVE  HostInv'
<1> DEFINE f      == NextFrame
           rest   == Without
           called == [rest EXCEPT !.n = @ + 1]
           shut   == [called EXCEPT !.opened = FALSE]
           gone   == [rest EXCEPT !.quit = TRUE]
           Done(ok) == [rest EXCEPT !.opened = ok]
<1>1. f \in Command \cup Reply /\ rest \in ChildRecord /\ rest.life = child.life /\ rest.does = Nothing
    BY NextFrameTyped DEF Serve
<1>2. f.kind = "command" => f.by \in Commanders /\ f.op \in Ops /\ f.by # Nothing
    BY <1>1, Frames
<1>3. \/ /\ f.kind = "reply"
         /\ child' = WithMore(rest) /\ UNCHANGED up
      \/ /\ f.kind = "command"
         /\ child' = WithMore(rest) /\ up' = Append(up, Answering(f.by, TRUE))
      \/ /\ f.kind = "command"
         /\ \E ok \in BOOLEAN :
               /\ child' = WithMore(Done(ok))
               /\ up' = Append(up, Answering(f.by, ok))
      \/ /\ f.kind = "command"
         /\ child' = Await(called, f.by, f.op)
         /\ up' = Append(up, Calling(called, FALSE))
      \/ /\ f.kind = "command"
         /\ child' = Await(shut, f.by, f.op)
         /\ up' = Append(up, Calling(called, TRUE))
      \/ /\ f.kind = "command"
         /\ child' = WithMore(gone)
         /\ up' = Append(up, Answering(f.by, TRUE))
      \/ /\ f.kind = "command"
         /\ child' = WithMore(rest) /\ up' = Append(up, Answering(f.by, FALSE))
    BY DEF Serve, NextFrame, Without
<1> HIDE DEF f, rest
<1>4. called \in ChildRecord /\ called.life = child.life
    BY <1>1 DEF ChildRecord
<1>5. gone \in ChildRecord /\ gone.life = child.life /\ gone.does = Nothing
    BY <1>1 DEF ChildRecord
<1>6. ASSUME NEW ok \in BOOLEAN
      PROVE  Done(ok) \in ChildRecord /\ Done(ok).life = child.life /\ Done(ok).does = Nothing
    BY <1>1 DEF ChildRecord
<1> HIDE DEF called
<1>7. shut \in ChildRecord /\ shut.life = child.life
    BY <1>4 DEF ChildRecord
<1> HIDE DEF shut, gone, Done
<1>8. ASSUME f.kind = "command", NEW ok \in BOOLEAN, up' = Append(up, Answering(f.by, ok))
      PROVE  up' \in Seq(Answer \cup Callback)
    BY <1>2, <1>8, AnswerTyped, AppendUp
<1>9. ASSUME NEW c \in ChildRecord, NEW release \in BOOLEAN, up' = Append(up, Calling(c, release))
      PROVE  up' \in Seq(Answer \cup Callback)
    BY <1>9, CallTyped, AppendUp
<1>10. /\ child' \in ChildRecord /\ child'.life = child.life /\ Served(child')
       /\ up' \in Seq(Answer \cup Callback)
    <2>1. CASE f.kind = "reply" /\ child' = WithMore(rest) /\ UNCHANGED up
        BY <1>1, <2>1, WithMoreServes, HostInvTyped
    <2>2. ASSUME f.kind = "command", NEW ok \in BOOLEAN,
                 child' = WithMore(rest), up' = Append(up, Answering(f.by, ok))
          PROVE  /\ child' \in ChildRecord /\ child'.life = child.life /\ Served(child')
                 /\ up' \in Seq(Answer \cup Callback)
        BY <1>1, <1>8, <2>2, WithMoreServes
    <2>3. ASSUME f.kind = "command", NEW ok \in BOOLEAN,
                 child' = WithMore(Done(ok)), up' = Append(up, Answering(f.by, ok))
          PROVE  /\ child' \in ChildRecord /\ child'.life = child.life /\ Served(child')
                 /\ up' \in Seq(Answer \cup Callback)
        BY <1>6, <1>8, <2>3, WithMoreServes
    <2>4. CASE /\ f.kind = "command" /\ child' = Await(called, f.by, f.op)
               /\ up' = Append(up, Calling(called, FALSE))
        BY <1>2, <1>4, <1>9, <2>4, AwaitServes
    <2>5. CASE /\ f.kind = "command" /\ child' = Await(shut, f.by, f.op)
               /\ up' = Append(up, Calling(called, TRUE))
        BY <1>2, <1>4, <1>7, <1>9, <2>5, AwaitServes
    <2>6. CASE /\ f.kind = "command" /\ child' = WithMore(gone)
               /\ up' = Append(up, Answering(f.by, TRUE))
        BY <1>5, <1>8, <2>6, WithMoreServes
    <2> QED
        BY <1>3, <2>1, <2>2, <2>3, <2>4, <2>5, <2>6
<1>11. ChildStep
    BY <1>10, HostInvTyped DEF ChildStep, Serve, LifeKept
<1> QED
    BY <1>11, ChildStepKeeps

LEMMA AnswerAfterTyped ==
    ASSUME HostInv, child.does # Nothing
    PROVE  AnswerAfter \in Seq(Answer \cup Callback)
<1>1. child.does \in Occasion /\ up \in Seq(Answer \cup Callback)
    BY HostInvTyped DEF ChildRecord
<1>2. CASE child.does.by # Nothing
    BY <1>1, <1>2, AnswerTyped, AppendUp DEF AnswerAfter, Occasion
<1> QED
    BY <1>1, <1>2 DEF AnswerAfter

LEMMA ReceiveWaitingKeeps ==
    ASSUME HostInv, ReceiveWaiting
    PROVE  HostInv'
<1> DEFINE c == [child EXCEPT !.deferred = @ \o CommandsBefore(down)]
<1>1. child \in ChildRecord /\ Served(child) /\ child.does # Nothing
    BY HostInvTyped DEF ReceiveWaiting
<1>2. CommandsBefore(down) \in Seq(Command)
    BY HostInvTyped, CommandsBeforeType
<1>3. child.deferred \o CommandsBefore(down) \in Seq(Command)
    BY <1>1, <1>2, ConcatProperties DEF ChildRecord
<1>4. c \in ChildRecord /\ c.life = child.life /\ c.does = child.does /\ c.serving = child.serving
    BY <1>1, <1>3 DEF ChildRecord
<1>5. Served(c)
    BY <1>1, <1>4 DEF Served
<1>6. \/ child' = CallbackReturned(c) /\ up' = AnswerAfter
      \/ child' = c /\ UNCHANGED up
    BY DEF ReceiveWaiting
<1> HIDE DEF c
<1>7. /\ child' \in ChildRecord /\ child'.life = child.life /\ Served(child')
      /\ up' \in Seq(Answer \cup Callback)
    BY <1>1, <1>4, <1>5, <1>6, CallbackReturnedServes, AnswerAfterTyped, HostInvTyped
<1>8. ChildStep
    BY <1>7, HostInvTyped DEF ChildStep, ReceiveWaiting, LifeKept
<1> QED
    BY <1>8, ChildStepKeeps

LEMMA HostGivesUpKeeps ==
    ASSUME HostInv, HostGivesUp
    PROVE  HostInv'
<1>1. /\ child' \in ChildRecord /\ child'.life = child.life /\ Served(child')
      /\ up' \in Seq(Answer \cup Callback)
    BY CallbackReturnedServes, AnswerAfterTyped, HostInvTyped DEF HostGivesUp
<1>2. used' \in [work : Nat, faults : Nat]
    BY HostInvTyped, FaultTyped DEF HostGivesUp
<1>3. ChildStep
    BY <1>1, <1>2, HostInvTyped DEF ChildStep, HostGivesUp, LifeKept
<1> QED
    BY <1>3, ChildStepKeeps

LEMMA PumpKeeps ==
    ASSUME HostInv, Pump
    PROVE  HostInv'
<1> DEFINE c == [child EXCEPT !.n = @ + 1]
<1>1. child \in ChildRecord
    BY HostInvTyped
<1>2. c \in ChildRecord /\ c.life = child.life /\ c.serving = child.serving
    BY <1>1 DEF ChildRecord
<1>3. child' = Await(c, Nothing, Nothing) /\ up' = Append(up, Calling(c, FALSE)) /\ ~child.serving
    BY DEF Pump
<1> HIDE DEF c
<1>4. /\ child' \in ChildRecord /\ child'.life = child.life /\ Served(child')
      /\ up' \in Seq(Answer \cup Callback)
    BY <1>2, <1>3, AwaitServes, CallTyped, AppendUp
<1>5. used' \in [work : Nat, faults : Nat]
    BY HostInvTyped, FaultTyped DEF Pump
<1>6. ChildStep
    BY <1>4, <1>5, HostInvTyped DEF ChildStep, Pump, LifeKept
<1> QED
    BY <1>6, ChildStepKeeps

LEMMA GoneTyped ==
    ASSUME HostInv
    PROVE  Gone \in ChildRecord /\ Served(Gone) /\ Gone.life = "exited"
<1>1. child \in ChildRecord /\ <<>> \in Seq(Command \cup Reply) /\ <<>> \in Seq(Command)
    BY HostInvTyped
<1>2. Gone \in ChildRecord /\ Gone.life = "exited" /\ Gone.does = Nothing /\ ~Gone.serving
    BY <1>1 DEF Gone, ChildRecord
<1> QED
    BY <1>2 DEF Served

(* The end of the host, or its fault.                                      *)
LEMMA LifeChanges ==
    ASSUME HostInv, Alive, NEW life \in {"exited", "hangs", "immortal"},
           child' \in {Gone, [child EXCEPT !.life = life]}, HostUnchanged, UNCHANGED <<down, up>>,
           used' \in [work : Nat, faults : Nat]
    PROVE  HostInv'
<1>1. child' \in ChildRecord /\ Served(child')
    BY GoneTyped, HostInvTyped DEF ChildRecord, Served
<1>2. LifeKept
    BY DEF LifeKept, Alive
<1>3. ChildStep
    BY <1>1, <1>2, HostInvTyped DEF ChildStep
<1> QED
    BY <1>3, ChildStepKeeps

LEMMA ExitKeeps ==
    ASSUME HostInv, Exit
    PROVE  HostInv'
BY LifeChanges, HostInvTyped DEF Exit

LEMMA BreaksKeeps ==
    ASSUME HostInv, Breaks
    PROVE  HostInv'
<1>1. used' \in [work : Nat, faults : Nat]
    BY HostInvTyped, FaultTyped DEF Breaks
<1> QED
    BY <1>1, LifeChanges DEF Breaks

-----------------------------------------------------------------------------
(* The reader thread and the owner queue.                                  *)

LEMMA RepliedTyped ==
    ASSUME HostInv, NEW cb \in Callback
    PROVE  Replied(cb) \in Seq(Command \cup Reply)
<1>1. [kind |-> "reply", n |-> cb.n, gen |-> cb.gen] \in Command \cup Reply
    BY Frames DEF Reply
<1> QED
    BY <1>1, HostInvTyped, AppendToSeq DEF Replied

LEMMA CalmStep ==
    ASSUME HostInv, Calm, HostTypeOK', Blocking', UNCHANGED child
    PROVE  HostInv'
BY CalmKeeps DEF HostInv, Served

LEMMA DrainKeeps ==
    ASSUME HostInv, NEW t \in Threads, Drain(t)
    PROVE  HostInv'
<1> DEFINE loss == Head(queue).kind = "lost"
<1>1. /\ port' = [port EXCEPT !.direct = @ /\ (loss \/ ~Head(queue).release)]
      /\ history' = [history EXCEPT
            !.reported = @ \/ (loss /\ provider = "open"),
            !.missed   = @ \/ (loss /\ provider = "opening")]
      /\ UNCHANGED <<provider, sup, calls, reader, down, up, child, used>>
    BY DEF Drain
<1>2. queue' \in Seq(Callback \cup {Loss})
    BY HostInvTyped, HeadOfSeq DEF Drain
<1> HIDE DEF loss
<1>3. port \in PortRecord /\ history \in HistoryRecord
    BY HostInvTyped DEF ParentTyped
<1>4. port' \in PortRecord /\ port'.closed = port.closed /\ port'.lost = port.lost
    <2>1. (port.direct /\ (loss \/ ~Head(queue).release)) \in BOOLEAN
        OBVIOUS
    <2> QED
        BY <1>1, <1>3, <2>1 DEF PortRecord
<1>5. history' \in HistoryRecord /\ history'.raised = history.raised
    <2>1. /\ (history.reported \/ (loss /\ provider = "open")) \in BOOLEAN
          /\ (history.missed \/ (loss /\ provider = "opening")) \in BOOLEAN
        OBVIOUS
    <2> QED
        BY <1>1, <1>3, <2>1 DEF HistoryRecord
<1>6. HostTypeOK'
    BY <1>1, <1>2, <1>4, <1>5, HostInvTyped, HostTyped DEF HostTypeParts, ParentTyped, ChannelTyped
<1>7. Calm
    BY <1>1, <1>4, <1>5 DEF Calm, LifeKept
<1>8. Blocking'
    BY <1>1 DEF HostInv, Blocking
<1> QED
    BY <1>1, <1>6, <1>7, <1>8, CalmStep

LEMMA UnblockKeeps ==
    ASSUME HostInv, Unblock, used' \in [work : Nat, faults : Nat]
    PROVE  HostInv'
<1>1. down' \in Seq(Command \cup Reply)
    BY RepliedTyped DEF Unblock, HostInv, Blocking
<1>2. reader' \in ReaderRecord /\ Blocking'
    BY DEF Unblock, ReaderRecord, Blocking
<1>3. HostTypeOK'
    BY <1>1, <1>2, HostInvTyped, HostTyped DEF HostTypeParts, ParentTyped, ChannelTyped, Unblock
<1>4. Calm
    BY DEF Calm, Unblock, LifeKept
<1> QED
    BY <1>2, <1>3, <1>4, CalmStep DEF Unblock

LEMMA RouteKeeps ==
    ASSUME HostInv, Route
    PROVE  HostInv'
<1> DEFINE f == Head(up)
           fresh == f.kind = "callback" /\ Hears /\ (f.gen = port.gen \/ CloseHandoff(f))
           stale == f.kind = "callback" /\ Hears /\ ~fresh
           told == Hears /\ f.kind = "answer" /\ At(f.by, "sent")
           said == IF calls[f.by].answer # Nothing THEN calls[f.by].answer
                   ELSE IF f.ok THEN "ok" ELSE "rejected"
<1>1. /\ UNCHANGED <<provider, port, sup, child, history, used>>
      /\ up' = Tail(up) /\ up # <<>>
      /\ calls' = IF told THEN [calls EXCEPT ![f.by].answer = said] ELSE calls
      /\ queue'  = IF fresh THEN Append(queue, f) ELSE queue
      /\ reader' = IF fresh THEN [at |-> "blocked", cb |-> f] ELSE reader
      /\ down'   = IF stale THEN Replied(f) ELSE down
    BY DEF Route
<1>2. f \in Answer \cup Callback /\ up' \in Seq(Answer \cup Callback)
    BY <1>1, HostInvTyped, HeadOfSeq
<1>3. /\ f.kind = "callback" => f \in Callback
      /\ f.kind = "answer" => f.by \in Commanders
    BY <1>2, Frames
<1>4. queue' \in Seq(Callback \cup {Loss})
    BY <1>1, <1>3, HostInvTyped, AppendToSeq
<1>5. down' \in Seq(Command \cup Reply)
    BY <1>1, <1>3, HostInvTyped, RepliedTyped
<1>6. reader' \in ReaderRecord /\ Blocking'
    BY <1>1, <1>3, HostInvTyped DEF ParentTyped, ReaderRecord, HostInv, Blocking
<1> HIDE DEF fresh, stale
<1>7. told => said \in Outcomes
    <2>1. told => f.by \in Threads
        BY <1>3 DEF Threads
    <2>2. told => calls[f.by] \in CallRecord
        BY <2>1, HostInvTyped DEF ParentTyped
    <2> QED
        BY <2>2 DEF CallRecord, Outcomes
<1>8. calls' \in [Threads -> CallRecord]
    <2>1. calls \in [Threads -> CallRecord] /\ (told => f.by \in Threads)
        BY <1>3, HostInvTyped DEF ParentTyped, Threads
    <2>2. told => [calls[f.by] EXCEPT !.answer = said] \in CallRecord
        BY <2>1, <1>7 DEF CallRecord
    <2> HIDE DEF told, said
    <2> QED
        BY <1>1, <2>1, <2>2
<1>9. \A u \in Threads : Keeps(u) /\ calls'[u].why = calls[u].why
    <2>1. calls \in [Threads -> CallRecord] /\ (told => f.by \in Threads)
        BY <1>3, HostInvTyped DEF ParentTyped, Threads
    <2> QED
        BY <1>1, <1>7, <2>1, Frames DEF Keeps, CallRecord, Outcomes
<1>10. HostTypeOK'
    BY <1>1, <1>2, <1>4, <1>5, <1>6, <1>8, HostInvTyped, HostTyped
       DEF HostTypeParts, ParentTyped, ChannelTyped
<1>11. ControlStep("reader")
    <2>1. "reader" \in Threads
        BY DEF Threads
    <2>2. Fit("reader", calls["reader"])'
        <3>1. Fit("reader", calls["reader"]) /\ Keeps("reader")
            BY <1>9, <2>1 DEF HostInv, Control, Threaded
        <3> QED
            BY <1>1, <3>1 DEF Fit, Fits, Keeps
    <2>3. LifeKept /\ Transfers("reader") /\ Spares
        BY <1>1 DEF LifeKept, Transfers, Spares
    <2>4. Ends
        <3>1. \A u \in Commanders : Waiting(u)' => Waiting(u)
            BY <1>9 DEF Waiting, At, Keeps, Threads
        <3> QED
            BY <1>1, <3>1 DEF Ends, HostInv, Control, Ended
    <2>5. Alarms
        <3>1. Keeps("owner") /\ Keeps("reader")
            BY <1>9 DEF Threads, Commanders
        <3> QED
            BY <1>1, <3>1 DEF Alarms, Greeting, Alarmed, At, Keeps
    <2> QED
        BY <1>9, <2>2, <2>3, <2>4, <2>5 DEF ControlStep
<1> QED
    BY <1>1, <1>6, <1>10, <1>11, ControlKept DEF HostInv, Served, Threads

-----------------------------------------------------------------------------
(* The calls of the port.                                                  *)

LEMMA LostTyped ==
    ASSUME HostInv
    PROVE  /\ LostPort \in PortRecord /\ LostPort.closed = port.closed
           /\ LostQueue \in Seq(Callback \cup {Loss})
<1>1. port \in PortRecord
    BY HostInvTyped DEF ParentTyped
<1>2. LostPort \in PortRecord /\ LostPort.closed = port.closed
    BY <1>1 DEF LostPort, PortRecord
<1>3. LostQueue \in Seq(Callback \cup {Loss})
    BY HostInvTyped, AppendToSeq DEF LostQueue
<1> QED
    BY <1>2, <1>3

(* While the host is greeted nobody but the owner and the reader calls.    *)
LEMMA GreetingAlone ==
    ASSUME HostInv, Greeting, NEW t \in Threads, ~At(t, "idle")
    PROVE  t \in {"owner", "reader"} /\ provider = "opening"
<1>1. Fit("owner", calls["owner"]) /\ Fit(t, calls[t])
    BY DEF HostInv, Control, Threaded, Threads, Commanders
<1> QED
    BY <1>1 DEF Fit, At, Greeting, OpenOps, Uses, Ops

LEMMA StepKeeps ==
    ASSUME HostInv, NEW t \in Threads, ControlStep(t), ParentTyped', Blocking',
           sup' \in SupRecord, ChannelTyped', child' \in ChildRecord, Served(child'),
           used' \in [work : Nat, faults : Nat]
    PROVE  HostInv'
BY ControlKept, HostTyped DEF HostInv, HostTypeParts

LEMMA CallFits ==
    ASSUME HostInv, NEW t \in Threads
    PROVE  /\ calls[t] \in CallRecord /\ calls \in [Threads -> CallRecord] /\ Fit(t, calls[t])
           /\ ~At(t, "idle") => calls[t].op \in Ops
BY HostInvTyped DEF HostInv, Control, Threaded, ParentTyped, Fit, At

LEMMA AbandonedKeeps ==
    ASSUME NEW call \in CallRecord
    PROVE  /\ Abandoned(call) \in CallRecord
           /\ Abandoned(call).op = call.op /\ Abandoned(call).step = call.step
           /\ Abandoned(call).kind = call.kind
           /\ Abandoned(call).answer = Nothing => call.answer = Nothing /\ call.step # "sent"
BY Frames DEF Abandoned, CallRecord, Outcomes

(* Who is not the owner does not disturb the greeting.                     *)
LEMMA OthersAlarm ==
    ASSUME HostInv, NEW t \in Threads \ {"owner"}, ~At(t, "idle"), Keeps("owner"), LifeKept
    PROVE  Alarms
<1>1. ASSUME Greeting' PROVE Greeting
    BY <1>1 DEF Greeting, Keeps
<1>2. ASSUME Greeting PROVE child.life = "exited"
    BY <1>2, GreetingAlone DEF Alarmed, HostInv, Control, Opening
<1> QED
    BY <1>1, <1>2 DEF Alarms, LifeKept

(* A call that goes on, or is over without a consequence.                  *)
LEMMA GoOnStep ==
    ASSUME HostInv, NEW t \in Threads, NEW p \in PortRecord, p.closed = port.closed,
           NEW call \in CallRecord, GoOn(t, p, call)
    PROVE  /\ ParentTyped' /\ Blocking' /\ Transfers(t) /\ Spares
           /\ calls'[t] = call /\ \A u \in Threads \ {t} : Keeps(u)
           /\ port' = p /\ UNCHANGED <<provider, reader, history>>
<1>1. /\ calls' = [calls EXCEPT ![t] = call] /\ port' = p
      /\ UNCHANGED <<provider, reader, history>>
    BY DEF GoOn, Become
<1>2. calls \in [Threads -> CallRecord]
    BY HostInvTyped DEF ParentTyped
<1>3. ParentTyped'
    BY <1>1, <1>2, HostInvTyped DEF ParentTyped
<1>4. Blocking'
    BY <1>1 DEF HostInv, Blocking
<1>5. Transfers(t)
    BY <1>1 DEF Transfers
<1>6. Spares
    <2>1. provider' = provider /\ history'.raised = history.raised /\ port'.closed = port.closed
        BY <1>1
    <2> QED
        BY <2>1, Zenon DEF Spares
<1>7. calls'[t] = call /\ \A u \in Threads \ {t} : Keeps(u)
    BY <1>1, <1>2 DEF Keeps
<1> QED
    BY <1>1, <1>3, <1>4, <1>5, <1>6, <1>7

(* The end of a call once it is known how the host ended.                  *)
LEMMA ReturnStep ==
    ASSUME HostInv, NEW t \in Threads, ~At(t, "idle"),
           NEW kind, Fits(kind)', sup'.kind = kind,
           NEW p \in PortRecord, p.closed = port.closed,
           NEW others \in [Threads -> CallRecord],
           \A u \in Threads : others[u] \in {calls[u], Abandoned(calls[u])},
           Return(t, kind, p, others), LifeKept
    PROVE  /\ ParentTyped' /\ Blocking' /\ Transfers(t) /\ Spares /\ Fit(t, calls[t])'
           /\ calls'[t].step \in {"idle", "releasing"} /\ calls'[t].op \in {Nothing, "close"}
           /\ \A u \in Threads \ {t} : Keeps(u) /\ calls'[u] = others[u]
<1> DEFINE op == calls[t].op
           last == IF op = "close"
                   THEN [NoCall EXCEPT !.op = "close", !.step = "releasing", !.kind = kind]
                   ELSE NoCall
<1>1. /\ calls' = [others EXCEPT ![t] = last]
      /\ reader' = IF op = "retire" THEN [reader EXCEPT !.at = "done"] ELSE reader
      /\ port' = p
      /\ provider' = IF op \in {"hello", "open", "abandon"} THEN "failed" ELSE provider
      /\ history' = [history EXCEPT
            !.missed = @ \/ (At(t, "joining") /\ reader.at = "blocked")]
    BY DEF Return
<1>2. /\ calls \in [Threads -> CallRecord] /\ op \in Ops /\ Fit(t, calls[t])
      /\ reader \in ReaderRecord /\ history \in HistoryRecord
      /\ provider \in {"opening", "open", "failed", "dropped"}
    BY CallFits, HostInvTyped DEF ParentTyped
<1>3. /\ last \in CallRecord /\ last.step \in {"idle", "releasing"}
      /\ last.op \in {Nothing, "close"} /\ last.answer = Nothing
      /\ last.step # "idle" => last.op = "close" /\ op = "close" /\ last.kind = kind
      /\ last.op = "close" => op = "close"
    BY NoCallTyped, Frames DEF NoCall, CallRecord, CallSteps, Ops, Fits
<1> HIDE DEF last
<1>4. calls'[t] = last /\ \A u \in Threads \ {t} : calls'[u] = others[u]
    BY <1>1
<1>5. \A u \in Threads \ {t} : Keeps(u)
    BY <1>2, <1>4, AbandonedKeeps DEF Keeps
<1>6. calls' \in [Threads -> CallRecord]
    BY <1>1, <1>3
<1>7. reader' \in ReaderRecord /\ Blocking'
    BY <1>1, <1>2 DEF ReaderRecord, HostInv, Blocking
<1>8. history' \in HistoryRecord /\ history'.raised = history.raised
    <2>1. (history.missed \/ (At(t, "joining") /\ reader.at = "blocked")) \in BOOLEAN
        OBVIOUS
    <2> HIDE DEF op
    <2> QED
        BY <1>1, <1>2, <2>1 DEF HistoryRecord
<1>9. /\ op \in OpenOps => provider' = "failed" /\ provider = "opening" /\ t = "owner"
      /\ op \notin OpenOps => provider' = provider
      /\ op \in OpenOps => op # "close"
      /\ op = "close" => provider \notin {"opening", "failed"} /\ t # "reader"
    BY <1>1, <1>2, Frames DEF OpenOps, Uses, Fit
<1>10. ParentTyped'
    BY <1>1, <1>2, <1>6, <1>7, <1>8, <1>9 DEF ParentTyped
<1> HIDE DEF op
<1>11. op \in OpenOps => calls'[t] = NoCall
    BY <1>4, <1>9 DEF last
<1>12. Transfers(t)
    BY <1>2, <1>9, <1>11 DEF Transfers
<1>13. Spares
    <2>1. ASSUME provider' = "failed", provider # "failed"
          PROVE  child'.life = "exited" \/ sup'.kind = "REAP_PENDING"
        BY <2>1 DEF Fits
    <2>2. provider' = "dropped" => provider = "dropped"
        BY <1>9
    <2>3. port'.closed = port.closed
        BY <1>1
    <2> QED
        BY <1>8, <2>1, <2>2, <2>3, Zenon DEF Spares
<1>14. Fit(t, calls[t])'
    BY <1>3, <1>4, <1>9, Frames DEF Fit, Fits, OpenOps, Uses, Ops
<1>15. calls'[t].step \in {"idle", "releasing"} /\ calls'[t].op \in {Nothing, "close"}
    BY <1>3, <1>4
<1> QED
    BY <1>4, <1>5, <1>7, <1>10, <1>12, <1>13, <1>14, <1>15

(* A step of t that leaves the host and its supervision as they are.       *)
LEMMA QuietStep ==
    ASSUME HostInv, NEW t \in Threads, ~At(t, "idle"),
           sup'.process = sup.process, sup'.open = sup.open, sup'.kind = sup.kind,
           UNCHANGED child,
           Fit(t, calls[t])', \A u \in Threads \ {t} : Keeps(u), Transfers(t), Spares,
           t = "owner" => Alarms,
           Waiting(t)' => sup.process
    PROVE  ControlStep(t)
<1>1. LifeKept
    BY DEF LifeKept
<1>2. Ends
    <2>1. ASSUME ~sup'.process, NEW u \in Commanders, Waiting(u)'
          PROVE  Waiting(u)
        BY <2>1 DEF Keeps, Waiting, At, Threads
    <2> QED
        BY <2>1 DEF Ends, HostInv, Control, Ended
<1>3. Alarms
    <2>1. CASE t = "owner"
        BY <2>1
    <2>2. CASE t # "owner"
        BY <1>1, <2>2, OthersAlarm DEF Threads, Commanders
    <2> QED
        BY <2>1, <2>2
<1> QED
    BY <1>1, <1>2, <1>3 DEF ControlStep

LEMMA RaiseStep ==
    ASSUME HostInv, NEW t \in Threads, ~At(t, "idle"), Raise(t), UNCHANGED <<sup, child>>
    PROVE  ParentTyped' /\ Blocking' /\ ControlStep(t) /\ port' = port
<1> DEFINE call == IF calls[t].op = "open" THEN [NoCall EXCEPT !.op = "abandon", !.step = "shutdown"]
                   ELSE NoCall
<1>1. call \in CallRecord /\ call.step \in {"idle", "shutdown"}
    BY NoCallTyped DEF NoCall, CallRecord, CallSteps, Ops
<1>2. GoOn(t, port, call)
    BY DEF Raise
<1>3. port \in PortRecord /\ Fit(t, calls[t])
    BY CallFits, HostInvTyped DEF ParentTyped
<1>4. /\ ParentTyped' /\ Blocking' /\ Transfers(t) /\ Spares
      /\ calls'[t] = call /\ \A u \in Threads \ {t} : Keeps(u)
      /\ port' = port /\ UNCHANGED <<provider, reader, history>>
    BY <1>1, <1>2, <1>3, GoOnStep
<1>5. Fit(t, calls[t])'
    BY <1>3, <1>4, Frames DEF Fit, NoCall, OpenOps, Uses, Ops
<1> HIDE DEF call
<1>6. ~Waiting(t)' /\ (t = "owner" => Alarms)
    BY <1>1, <1>4 DEF Waiting, At, Greeting, Alarms
<1>7. ControlStep(t)
    BY <1>4, <1>5, <1>6, QuietStep
<1> QED
    BY <1>4, <1>7

(* The host is gone already: the call is over at once.                     *)
LEMMA TooLateStep ==
    ASSUME HostInv, NEW t \in Threads, ~At(t, "idle"), ~sup.process,
           NEW p \in PortRecord, p.closed = port.closed, Return(t, KindSoFar, p, calls),
           sup'.process = sup.process, sup'.open = sup.open, sup'.kind = sup.kind,
           UNCHANGED child
    PROVE  ParentTyped' /\ Blocking' /\ ControlStep(t)
<1>1. calls \in [Threads -> CallRecord]
    BY CallFits
<1>2. KindSoFar = sup.kind /\ Fits(sup.kind) /\ LifeKept
    BY DEF KindSoFar, HostInv, Control, Ended, LifeKept
<1>3. PICK kind : kind = sup.kind
    OBVIOUS
<1>4. Fits(kind)' /\ sup'.kind = kind
    BY <1>2, <1>3, FitsKept DEF Fits
<1>5. \A u \in Threads : calls[u] \in {calls[u], Abandoned(calls[u])}
    OBVIOUS
<1>6. /\ ParentTyped' /\ Blocking' /\ Transfers(t) /\ Spares /\ Fit(t, calls[t])'
      /\ calls'[t].step \in {"idle", "releasing"} /\ calls'[t].op \in {Nothing, "close"}
      /\ \A u \in Threads \ {t} : Keeps(u)
    <2>1. Return(t, kind, p, calls)
        BY <1>2, <1>3
    <2> QED
        BY <1>1, <1>2, <1>4, <1>5, <2>1, ReturnStep
<1>7. ~Waiting(t)' /\ (t = "owner" => Alarms)
    BY <1>6, Frames DEF Waiting, At, Greeting, Alarms
<1>8. ControlStep(t)
    BY <1>6, <1>7, QuietStep
<1> QED
    BY <1>6, <1>8

LEMMA ClimbStep ==
    ASSUME HostInv, NEW t \in Threads, ~At(t, "idle"), NEW why \in Reasons,
           NEW p \in PortRecord, p.closed = port.closed,
           Climb(t, why, p), UNCHANGED child
    PROVE  ParentTyped' /\ Blocking' /\ ControlStep(t) /\ sup' \in SupRecord
<1>1. calls[t] \in CallRecord /\ Fit(t, calls[t]) /\ calls[t].op \in Ops /\ sup \in SupRecord
      /\ calls \in [Threads -> CallRecord]
    BY CallFits, HostInvTyped
<1>2. CASE sup.process
    <2> DEFINE call == [calls[t] EXCEPT !.step = "killing", !.why = why]
    <2>1. sup' = [sup EXCEPT !.accepting = FALSE] /\ GoOn(t, p, call)
        BY <1>2 DEF Climb
    <2>2. /\ sup' \in SupRecord
          /\ sup'.process = sup.process /\ sup'.open = sup.open /\ sup'.kind = sup.kind
        BY <1>1, <2>1 DEF SupRecord
    <2>3. /\ call \in CallRecord /\ call.step = "killing" /\ call.op = calls[t].op
        BY <1>1 DEF CallRecord, CallSteps
    <2> HIDE DEF call
    <2>4. /\ ParentTyped' /\ Blocking' /\ Transfers(t) /\ Spares
          /\ calls'[t] = call /\ \A u \in Threads \ {t} : Keeps(u)
          /\ UNCHANGED provider
        BY <2>1, <2>3, GoOnStep
    <2>5. Fit(t, calls[t])'
        BY <1>1, <2>3, <2>4 DEF Fit
    <2>6. ~Waiting(t)' /\ (t = "owner" => Alarms)
        BY <2>3, <2>4 DEF Waiting, At, Greeting, Alarms
    <2>7. ControlStep(t)
        BY <2>2, <2>4, <2>5, <2>6, QuietStep
    <2> QED
        BY <2>2, <2>4, <2>7
<1>3. CASE ~sup.process
    <2>1. /\ sup' = [sup EXCEPT !.state = IF @ = "STARTING" THEN "FAILED" ELSE @]
          /\ Return(t, KindSoFar, p, calls)
        BY <1>3 DEF Climb
    <2>2. /\ sup' \in SupRecord
          /\ sup'.process = sup.process /\ sup'.open = sup.open /\ sup'.kind = sup.kind
        BY <1>1, <2>1 DEF SupRecord
    <2> QED
        BY <1>3, <2>1, <2>2, TooLateStep
<1> QED
    BY <1>2, <1>3

-----------------------------------------------------------------------------
(* The steps of a call.                                                    *)

LEMMA ThreadKeeps ==
    ASSUME HostInv, NEW t \in Threads, ParentTyped', Blocking', ControlStep(t),
           sup' \in SupRecord, UNCHANGED <<child, used>>, ChannelTyped'
    PROVE  HostInv'
BY HostInvTyped, StepKeeps DEF Served

LEMMA ChannelKept ==
    ASSUME HostInv, UNCHANGED <<queue, down, up>>
    PROVE  ChannelTyped'
BY HostInvTyped DEF ChannelTyped

LEMMA SendKeeps ==
    ASSUME HostInv, NEW t \in Threads, Send(t)
    PROVE  HostInv'
<1> DEFINE sent == [calls[t] EXCEPT !.step = "sent"]
           message == [kind |-> "command", by |-> t, op |-> calls[t].op, gen |-> calls[t].gen]
<1>1. /\ calls[t] \in CallRecord /\ Fit(t, calls[t]) /\ calls[t].op \in Ops /\ ~At(t, "idle")
      /\ calls[t].step = "captured" /\ sup \in SupRecord /\ port \in PortRecord
    BY CallFits, HostInvTyped DEF Send, At, ParentTyped
<1>2. UNCHANGED <<queue, up, child, used>>
    BY DEF Send
<1>3. \/ Raise(t) /\ UNCHANGED <<sup, down>>
      \/ Climb(t, "failure", port) /\ UNCHANGED down
      \/ /\ sup.open /\ down' = Append(down, message)
         /\ GoOn(t, port, sent) /\ UNCHANGED sup
    BY DEF Send
<1>4. CASE Raise(t) /\ UNCHANGED <<sup, down>>
    BY <1>1, <1>2, <1>4, RaiseStep, ChannelKept, ThreadKeeps
<1>5. CASE Climb(t, "failure", port) /\ UNCHANGED down
    BY <1>1, <1>2, <1>5, ClimbStep, ChannelKept, ThreadKeeps DEF Reasons
<1>6. CASE /\ sup.open /\ down' = Append(down, message)
           /\ GoOn(t, port, sent) /\ UNCHANGED sup
    <2>1. /\ sent \in CallRecord /\ sent.step = "sent" /\ sent.op = calls[t].op
          /\ message \in Command \cup Reply
        BY <1>1 DEF CallRecord, CallSteps, Command, Fit, Threads
    <2>2. ChannelTyped'
        BY <1>2, <1>6, <2>1, HostInvTyped, AppendToSeq DEF ChannelTyped
    <2> HIDE DEF sent
    <2>3. /\ ParentTyped' /\ Blocking' /\ Transfers(t) /\ Spares
          /\ calls'[t] = sent /\ \A u \in Threads \ {t} : Keeps(u)
          /\ UNCHANGED <<port, provider>>
        BY <1>1, <1>6, <2>1, GoOnStep
    <2>4. Fit(t, calls[t])'
        BY <1>1, <2>1, <2>3 DEF Fit
    <2>5. sup.process
        BY <1>6 DEF HostInv, Control, Ended
    <2>6. t = "owner" => Alarms
        BY <1>1, <1>6, <2>1, <2>3
           DEF Alarms, Alarmed, Greeting, At, Keeps, Threads, Commanders
    <2>7. ControlStep(t)
        BY <1>1, <1>2, <1>6, <2>3, <2>4, <2>5, <2>6, QuietStep
    <2> QED
        BY <1>1, <1>2, <1>6, <2>2, <2>3, <2>7, ThreadKeeps
<1> QED
    BY <1>3, <1>4, <1>5, <1>6

LEMMA HelloAnsweredStep ==
    ASSUME HostInv, NEW t \in Threads, At(t, "sent"), calls[t].op = "hello",
           HelloAnswered(t), UNCHANGED child
    PROVE  ParentTyped' /\ Blocking' /\ ControlStep(t) /\ sup' \in SupRecord
<1> DEFINE call == IF port.lost THEN NoCall ELSE [NoCall EXCEPT !.op = "open", !.step = "captured"]
<1>1. /\ sup' = [sup EXCEPT !.state = "READY"]
      /\ calls' = [calls EXCEPT ![t] = call]
      /\ provider' = IF port.lost THEN "failed" ELSE provider
      /\ UNCHANGED <<port, reader, history>>
    BY DEF HelloAnswered, Become
<1>2. /\ calls \in [Threads -> CallRecord] /\ Fit(t, calls[t]) /\ sup \in SupRecord
      /\ provider = "opening" /\ t = "owner"
    BY CallFits, HostInvTyped DEF Fit, OpenOps
<1>3. /\ sup' \in SupRecord
      /\ sup'.process = sup.process /\ sup'.open = sup.open /\ sup'.kind = sup.kind
    BY <1>1, <1>2 DEF SupRecord
<1>4. call \in CallRecord /\ call.step \in {"idle", "captured"} /\ call.op \in {Nothing, "open"}
    BY NoCallTyped DEF NoCall, CallRecord, CallSteps, Ops
<1>5. calls'[t] = call /\ \A u \in Threads \ {t} : Keeps(u)
    BY <1>1, <1>2 DEF Keeps
<1>6. ParentTyped' /\ Blocking'
    BY <1>1, <1>2, <1>4, HostInvTyped DEF ParentTyped, HostInv, Blocking
<1>7. port.lost => child.life = "exited"
    BY <1>2 DEF HostInv, Control, Opening, Greeting, Alarmed, At
<1>8. Transfers(t)
    BY <1>1, <1>2, <1>5 DEF Transfers
<1>9. Spares
    <2>1. provider' = "failed" => child'.life = "exited"
        BY <1>1, <1>2, <1>7
    <2>2. provider' # "dropped" /\ history'.raised = history.raised /\ port'.closed = port.closed
        BY <1>1, <1>2
    <2> QED
        BY <2>1, <2>2, Zenon DEF Spares
<1>10. Fit(t, calls[t])'
    BY <1>1, <1>2, <1>5, Frames DEF Fit, NoCall, OpenOps, Uses, Ops
<1> HIDE DEF call
<1>11. ~Waiting(t)' /\ Alarms
    BY <1>2, <1>4, <1>5, Frames DEF Waiting, At, Greeting, Alarms, Ops
<1>12. ControlStep(t)
    BY <1>3, <1>5, <1>8, <1>9, <1>10, <1>11, QuietStep DEF At
<1> QED
    BY <1>3, <1>6, <1>12

LEMMA OpenAnsweredStep ==
    ASSUME HostInv, NEW t \in Threads, At(t, "sent"), calls[t].op = "open",
           OpenAnswered(t), UNCHANGED child
    PROVE  ParentTyped' /\ Blocking' /\ ControlStep(t) /\ sup' \in SupRecord
<1>1. /\ provider' = "open" /\ port' = [port EXCEPT !.lost = FALSE]
      /\ calls' = [calls EXCEPT ![t] = NoCall]
      /\ UNCHANGED <<sup, reader, history>>
    BY DEF OpenAnswered, Become
<1>2. /\ calls \in [Threads -> CallRecord] /\ Fit(t, calls[t]) /\ sup \in SupRecord
      /\ provider = "opening" /\ t = "owner" /\ port \in PortRecord
    BY CallFits, HostInvTyped DEF Fit, OpenOps, ParentTyped
<1>3. calls'[t] = NoCall /\ \A u \in Threads \ {t} : Keeps(u)
    BY <1>1, <1>2 DEF Keeps
<1>4. port' \in PortRecord /\ port'.closed = port.closed
    BY <1>1, <1>2 DEF PortRecord
<1>5. ParentTyped' /\ Blocking'
    BY <1>1, <1>2, <1>4, NoCallTyped, HostInvTyped DEF ParentTyped, HostInv, Blocking
<1>6. Transfers(t)
    BY <1>1, <1>2, <1>3 DEF Transfers
<1>7. Spares
    <2>1. provider' = "open" /\ history'.raised = history.raised /\ port'.closed = port.closed
        BY <1>1, <1>4
    <2> QED
        BY <2>1, Zenon DEF Spares
<1>8. Fit(t, calls[t])'
    BY <1>3, Frames DEF Fit, NoCall, OpenOps, Uses, Ops
<1>9. ~Waiting(t)' /\ Alarms
    BY <1>2, <1>3, Frames DEF Waiting, At, Greeting, Alarms, NoCall, Ops
<1>10. ControlStep(t)
    BY <1>1, <1>3, <1>6, <1>7, <1>8, <1>9, QuietStep DEF At
<1> QED
    BY <1>1, <1>2, <1>5, <1>10

LEMMA AnsweredKeeps ==
    ASSUME HostInv, NEW t \in Threads, CommandAnswered(t)
    PROVE  HostInv'
<1>1. /\ At(t, "sent") /\ ~At(t, "idle") /\ UNCHANGED <<queue, down, up, child, used>>
      /\ sup \in SupRecord /\ port \in PortRecord
    BY HostInvTyped DEF CommandAnswered, HostUntouched, At, ParentTyped
<1>2. \/ calls[t].op = "hello" /\ HelloAnswered(t)
      \/ calls[t].op = "open" /\ OpenAnswered(t)
      \/ Climb(t, "acknowledged", port)
      \/ Climb(t, "refused", port)
      \/ Raise(t) /\ UNCHANGED sup
    BY DEF CommandAnswered
<1>3. ParentTyped' /\ Blocking' /\ ControlStep(t) /\ sup' \in SupRecord
    BY <1>1, <1>2, HelloAnsweredStep, OpenAnsweredStep, ClimbStep, RaiseStep DEF Reasons
<1> QED
    BY <1>1, <1>3, ChannelKept, ThreadKeeps

LEMMA FailedKeeps ==
    ASSUME HostInv, NEW t \in Threads, Failed(t)
    PROVE  HostInv'
<1>1. /\ ~At(t, "idle") /\ UNCHANGED <<queue, down, up, child, used>>
      /\ sup \in SupRecord /\ port \in PortRecord
    BY HostInvTyped DEF Failed, HostUntouched, At, ParentTyped
<1>2. \/ Climb(t, "failure", port)
      \/ Climb(t, "refused", port)
      \/ Raise(t) /\ UNCHANGED sup
    BY DEF Failed
<1>3. ParentTyped' /\ Blocking' /\ ControlStep(t) /\ sup' \in SupRecord
    BY <1>1, <1>2, ClimbStep, RaiseStep DEF Reasons
<1> QED
    BY <1>1, <1>3, ChannelKept, ThreadKeeps

LEMMA TimeoutKeeps ==
    ASSUME HostInv, NEW t \in Threads, Timeout(t)
    PROVE  HostInv'
<1>1. /\ ~At(t, "idle") /\ UNCHANGED <<down, up, child, used>>
      /\ queue' = LostQueue /\ Climb(t, "failure", LostPort)
    BY DEF Timeout, At
<1>2. ParentTyped' /\ Blocking' /\ ControlStep(t) /\ sup' \in SupRecord
    BY <1>1, LostTyped, ClimbStep DEF Reasons
<1>3. ChannelTyped'
    BY <1>1, LostTyped, HostInvTyped DEF ChannelTyped
<1> QED
    BY <1>1, <1>2, <1>3, ThreadKeeps

LEMMA ShutdownKeeps ==
    ASSUME HostInv, NEW t \in Threads, Shutdown(t)
    PROVE  HostInv'
<1>1. /\ At(t, "shutdown") /\ ~At(t, "idle") /\ UNCHANGED <<queue, down, up, child, used>>
      /\ sup \in SupRecord /\ port \in PortRecord
      /\ calls[t] \in CallRecord /\ Fit(t, calls[t]) /\ calls[t].op \in {"close", "abandon"}
    BY CallFits, HostInvTyped DEF Shutdown, HostUntouched, At, ParentTyped, Fit
<1>2. CASE ~sup.process
    <2>1. Return(t, KindSoFar, port, calls) /\ UNCHANGED sup
        BY <1>2 DEF Shutdown
    <2> QED
        BY <1>1, <1>2, <2>1, TooLateStep, ChannelKept, ThreadKeeps
<1>3. CASE sup.process
    <2> DEFINE call == IF child.life = "exited"
                       THEN [calls[t] EXCEPT !.step = "killing", !.why = "refused"]
                       ELSE [calls[t] EXCEPT !.step = "captured"]
    <2>1. sup' = [sup EXCEPT !.state = "STOPPING"] /\ GoOn(t, port, call)
        BY <1>3 DEF Shutdown
    <2>2. /\ sup' \in SupRecord
          /\ sup'.process = sup.process /\ sup'.open = sup.open /\ sup'.kind = sup.kind
        BY <1>1, <2>1 DEF SupRecord
    <2>3. call \in CallRecord /\ call.step \in {"killing", "captured"} /\ call.op = calls[t].op
        BY <1>1 DEF CallRecord, CallSteps, Reasons
    <2> HIDE DEF call
    <2>4. /\ ParentTyped' /\ Blocking' /\ Transfers(t) /\ Spares
          /\ calls'[t] = call /\ \A u \in Threads \ {t} : Keeps(u)
          /\ UNCHANGED provider
        BY <1>1, <2>1, <2>3, GoOnStep
    <2>5. Fit(t, calls[t])'
        BY <1>1, <2>3, <2>4 DEF Fit, At, Ops
    <2>6. ~Waiting(t)' /\ (t = "owner" => Alarms)
        BY <1>1, <2>3, <2>4 DEF Waiting, At, Greeting, Alarms
    <2>7. ControlStep(t)
        BY <1>1, <2>2, <2>4, <2>5, <2>6, QuietStep
    <2> QED
        BY <1>1, <2>2, <2>4, <2>7, ChannelKept, ThreadKeeps
<1> QED
    BY <1>2, <1>3

(* The command captures the generation, or finds the port of no use.       *)
LEMMA CaptureKeeps ==
    ASSUME HostInv, NEW t \in Threads, Capture(t)
    PROVE  HostInv'
<1> DEFINE call == IF port.closed \/ port.lost
                   THEN NoCall ELSE [calls[t] EXCEPT !.step = "captured", !.gen = port.gen]
<1>1. /\ At(t, "asked") /\ ~At(t, "idle") /\ GoOn(t, port, call)
      /\ UNCHANGED <<sup, queue, down, up, child, used>>
    BY DEF Capture, ChannelUnchanged, GoOn, At
<1>2. /\ sup \in SupRecord /\ port \in PortRecord
      /\ calls[t] \in CallRecord /\ Fit(t, calls[t]) /\ calls[t].op \in Ops
    BY <1>1, CallFits, HostInvTyped DEF ParentTyped
<1>3. calls[t].op = "load"
    BY <1>1, <1>2 DEF Fit, At
<1>4. /\ call \in CallRecord /\ call.step \in {"idle", "captured"}
      /\ call.step = "idle" => call = NoCall
      /\ call.step = "captured" => call.op = calls[t].op
    BY <1>2, NoCallTyped DEF NoCall, CallRecord, CallSteps, PortRecord
<1> HIDE DEF call
<1>5. /\ ParentTyped' /\ Blocking' /\ Transfers(t) /\ Spares
      /\ calls'[t] = call /\ \A u \in Threads \ {t} : Keeps(u)
      /\ UNCHANGED <<port, provider>>
    BY <1>1, <1>2, <1>4, GoOnStep
<1>6. Fit(t, calls[t])'
    BY <1>1, <1>2, <1>4, <1>5, Frames DEF Fit, At, NoCall, OpenOps, Uses, Ops
<1>7. t = "owner" => Alarms
    BY <1>3, <1>4, <1>5, Frames DEF Alarms, Greeting, NoCall, Ops
<1>8. ControlStep(t)
    BY <1>1, <1>4, <1>5, <1>6, <1>7, QuietStep DEF Waiting, At
<1> QED
    BY <1>1, <1>2, <1>5, <1>8, ChannelKept, ThreadKeeps

(* The end of close().                                                     *)
LEMMA EndCloseKeeps ==
    ASSUME HostInv, NEW t \in Threads, EndClose(t)
    PROVE  HostInv'
<1>1. /\ At(t, "releasing") /\ ~At(t, "idle") /\ calls' = [calls EXCEPT ![t] = NoCall]
      /\ UNCHANGED <<sup, reader, queue, down, up, child>>
      /\ PortClosed(t) \/ ReleaseFails
    BY DEF EndClose, ChannelUnchanged, Become, At
<1>2. /\ sup \in SupRecord /\ port \in PortRecord /\ history \in HistoryRecord
      /\ reader \in ReaderRecord /\ child \in ChildRecord /\ Served(child)
      /\ calls \in [Threads -> CallRecord] /\ calls[t].op = "close" /\ Fits(calls[t].kind)
      /\ provider \in {"open", "dropped"}
    <2>1. Fit(t, calls[t]) /\ calls \in [Threads -> CallRecord]
        BY CallFits
    <2>2. provider \in {"opening", "open", "failed", "dropped"}
        BY HostInvTyped DEF ParentTyped
    <2> QED
        BY <1>1, <2>1, <2>2, HostInvTyped DEF Fit, At, Uses, ParentTyped
<1>3. /\ calls'[t] = NoCall /\ \A u \in Threads \ {t} : Keeps(u)
      /\ calls' \in [Threads -> CallRecord]
    BY <1>1, <1>2, NoCallTyped DEF Keeps
<1>4. /\ port' \in PortRecord /\ history' \in HistoryRecord
      /\ provider' \in {provider, "dropped"} /\ (history.raised => history'.raised)
      /\ used' \in [work : Nat, faults : Nat] /\ port'.lost = port.lost
      /\ provider' # provider => child.life = "exited"
      /\ port'.closed => port.closed \/ provider' = "dropped" \/ history'.raised
    <2>1. CASE PortClosed(t)
        <3>1. (history.raised \/ calls[t].kind = "REAP_PENDING") \in BOOLEAN
            OBVIOUS
        <3> QED
            BY <1>2, <2>1, <3>1, HostInvTyped DEF PortClosed, PortRecord, HistoryRecord, Fits
    <2>2. CASE ReleaseFails
        BY <1>2, <2>2, HostInvTyped, FaultTyped DEF ReleaseFails, PortRecord, HistoryRecord
    <2> QED
        BY <1>1, <2>1, <2>2
<1>5. ParentTyped' /\ Blocking' /\ ChannelTyped'
    BY <1>1, <1>2, <1>3, <1>4, HostInvTyped, ChannelKept DEF ParentTyped, HostInv, Blocking
<1>6. Fit(t, calls[t])'
    BY <1>3, Frames DEF Fit, NoCall, OpenOps, Uses, Ops
<1>7. Transfers(t) /\ Spares
    BY <1>1, <1>2, <1>4 DEF Transfers, Spares
<1>8. t = "owner" => Alarms
    BY <1>3, Frames DEF Alarms, Greeting, NoCall, Ops
<1>9. ControlStep(t)
    BY <1>1, <1>3, <1>6, <1>7, <1>8, QuietStep DEF Waiting, At, NoCall
<1> QED
    BY <1>1, <1>2, <1>4, <1>5, <1>9, StepKeeps

LEMMA KillKeeps ==
    ASSUME HostInv, NEW t \in Threads, Kill(t)
    PROVE  HostInv'
<1> DEFINE kind == CASE child.life = "exited" ->
                          IF calls[t].why = "acknowledged" THEN "GRACEFUL" ELSE "EXITED_BEFORE"
                     [] child.life = "immortal" -> "REAP_PENDING"
                     [] OTHER -> "FORCED"
           call == [calls[t] EXCEPT !.step = "joining", !.kind = kind]
<1>1. /\ At(t, "killing") /\ calls' = [calls EXCEPT ![t] = call]
      /\ child' = IF child.life = "immortal" THEN child ELSE Gone
      /\ sup' = [sup EXCEPT !.open = FALSE]
      /\ UNCHANGED <<provider, port, reader, queue, down, up, history, used>>
    BY DEF Kill, Become
<1>2. /\ sup \in SupRecord /\ child \in ChildRecord /\ Served(child)
      /\ calls \in [Threads -> CallRecord] /\ calls[t] \in CallRecord /\ Fit(t, calls[t])
    BY CallFits, HostInvTyped
<1>3. /\ child' \in ChildRecord /\ Served(child') /\ LifeKept
      /\ child'.life = IF child.life = "immortal" THEN "immortal" ELSE "exited"
    BY <1>1, <1>2, GoneTyped DEF LifeKept
<1>4. /\ sup' \in SupRecord /\ sup'.process = sup.process /\ sup'.kind = sup.kind /\ ~sup'.open
    BY <1>1, <1>2 DEF SupRecord
<1>5. kind \in Kinds /\ (kind = "REAP_PENDING" <=> child.life = "immortal")
    BY <1>2 DEF Kinds, ChildRecord
<1> HIDE DEF kind
<1>6. /\ call \in CallRecord /\ call.step = "joining" /\ call.op = calls[t].op
      /\ call.kind = kind
    BY <1>2, <1>5 DEF CallRecord, CallSteps
<1> HIDE DEF call
<1>7. calls'[t] = call /\ \A u \in Threads \ {t} : Keeps(u)
    BY <1>1, <1>2 DEF Keeps
<1>8. ParentTyped' /\ Blocking' /\ ChannelTyped'
    BY <1>1, <1>2, <1>6, HostInvTyped DEF ParentTyped, HostInv, Blocking, ChannelTyped
<1>9. Fit(t, calls[t])'
    <2>1. Fits(calls[t].kind)'
        BY <1>3, <1>5, <1>6, <1>7 DEF Fits
    <2> QED
        BY <1>1, <1>2, <1>4, <1>6, <1>7, <2>1 DEF Fit, At
<1>10. Transfers(t)
    BY <1>1 DEF Transfers
<1>11. Spares
    <2>1. provider' = provider /\ port' = port /\ history' = history
        BY <1>1
    <2> QED
        BY <2>1, Zenon DEF Spares
<1>12. Ends
    <2>1. ASSUME NEW u \in Commanders, Waiting(u)'
          PROVE  Waiting(u)
        BY <1>6, <1>7, <2>1 DEF Keeps, Waiting, At, Threads
    <2> QED
        BY <1>4, <2>1 DEF Ends, HostInv, Control, Ended
<1>13. Alarms
    <2>1. CASE t = "owner"
        BY <1>6, <1>7, <2>1 DEF Alarms, Greeting
    <2>2. CASE t # "owner"
        BY <1>1, <1>3, <1>7, <2>2, OthersAlarm DEF Threads, Commanders, At
    <2> QED
        BY <2>1, <2>2
<1>14. ControlStep(t)
    BY <1>3, <1>7, <1>9, <1>10, <1>11, <1>12, <1>13 DEF ControlStep
<1> QED
    BY <1>1, <1>3, <1>4, <1>8, <1>14, HostInvTyped, StepKeeps

LEMMA JoinKeeps ==
    ASSUME HostInv, NEW t \in Threads, Join(t)
    PROVE  HostInv'
<1> DEFINE others == [u \in Threads |-> Abandoned(calls[u])]
<1>1. /\ At(t, "joining") /\ ~At(t, "idle")
      /\ sup' = [sup EXCEPT !.process = FALSE, !.kind = calls[t].kind, !.state = FinalState(t)]
      /\ Return(t, calls[t].kind, port, others)
      /\ UNCHANGED <<queue, down, up, child, used>>
    BY DEF Join, HostUntouched, At
<1>2. /\ sup \in SupRecord /\ port \in PortRecord /\ calls \in [Threads -> CallRecord]
      /\ Fits(calls[t].kind) /\ ~sup.open
    BY <1>1, CallFits, HostInvTyped DEF ParentTyped, Fit, At
<1>3. PICK kind : kind = calls[t].kind
    OBVIOUS
<1>4. kind \in Kinds /\ kind # Nothing /\ FinalState(t) \in {"STOPPED", "FAILED"}
    BY <1>2, <1>3, Frames DEF Fits, FinalState
<1>5. /\ sup' \in SupRecord /\ ~sup'.process /\ sup'.kind = kind /\ ~sup'.open
    BY <1>1, <1>2, <1>3, <1>4 DEF SupRecord
<1>6. LifeKept /\ Fits(kind)'
    BY <1>1, <1>2, <1>3 DEF Fits, LifeKept
<1>7. others \in [Threads -> CallRecord]
    BY <1>2, AbandonedKeeps
<1>8. \A u \in Threads : others[u] \in {calls[u], Abandoned(calls[u])}
    OBVIOUS
<1>9. \A u \in Threads : others[u].answer = Nothing => others[u].step # "sent"
    BY <1>2, AbandonedKeeps
<1> HIDE DEF others
<1>10. /\ ParentTyped' /\ Blocking' /\ Transfers(t) /\ Spares /\ Fit(t, calls[t])'
       /\ calls'[t].step \in {"idle", "releasing"} /\ calls'[t].op \in {Nothing, "close"}
       /\ \A u \in Threads \ {t} : Keeps(u) /\ calls'[u] = others[u]
    <2>1. Return(t, kind, port, others)
        BY <1>1, <1>3
    <2> QED
        BY <1>1, <1>2, <1>5, <1>6, <1>7, <1>8, <2>1, ReturnStep
<1>11. Ends
    <2>1. \A u \in Commanders : ~Waiting(u)'
        BY <1>9, <1>10 DEF Waiting, At, Threads
    <2>2. Fits(sup.kind)'
        BY <1>5, <1>6 DEF Fits
    <2> QED
        BY <1>4, <1>5, <2>1, <2>2 DEF Ends
<1>12. Alarms
    <2>1. CASE t = "owner"
        BY <1>10, <2>1, Frames DEF Alarms, Greeting, Ops
    <2>2. CASE t # "owner"
        BY <1>1, <1>6, <1>10, <2>2, OthersAlarm DEF Threads, Commanders
    <2> QED
        BY <2>1, <2>2
<1>13. ControlStep(t)
    BY <1>6, <1>10, <1>11, <1>12 DEF ControlStep
<1> QED
    BY <1>1, <1>5, <1>10, <1>13, ChannelKept, ThreadKeeps

LEMMA EndOfFileKeeps ==
    ASSUME HostInv, EndOfFile
    PROVE  HostInv'
<1> DEFINE call == [NoCall EXCEPT !.op = "retire", !.step = "killing", !.why = "failure"]
<1>1. /\ reader.at = "reading" /\ (~sup.open \/ child.life = "exited")
      /\ UNCHANGED <<provider, down, up, child, history, used>>
    BY DEF EndOfFile
<1>2. /\ reader \in ReaderRecord /\ calls \in [Threads -> CallRecord] /\ sup \in SupRecord
    BY HostInvTyped DEF ParentTyped
<1>3. \/ reader' = [reader EXCEPT !.at = "done"] /\ UNCHANGED <<calls, port, queue, sup>>
      \/ /\ reader' = [reader EXCEPT !.at = "retiring"]
         /\ calls' = [calls EXCEPT !["reader"] = call]
         /\ sup' = [sup EXCEPT !.accepting = FALSE]
         /\ port' = LostPort /\ queue' = LostQueue
    BY DEF EndOfFile, Become
<1>4. reader' \in ReaderRecord /\ Blocking'
    BY <1>2, <1>3 DEF ReaderRecord, Blocking
<1>5. CASE reader' = [reader EXCEPT !.at = "done"] /\ UNCHANGED <<calls, port, queue, sup>>
    <2>1. Calm
        BY <1>1, <1>5 DEF Calm, LifeKept
    <2>2. HostTypeOK'
        BY <1>1, <1>4, <1>5, HostInvTyped, HostTyped DEF HostTypeParts, ParentTyped, ChannelTyped
    <2> QED
        BY <1>1, <1>4, <2>1, <2>2, CalmStep
<1>6. CASE /\ reader' = [reader EXCEPT !.at = "retiring"]
           /\ calls' = [calls EXCEPT !["reader"] = call]
           /\ sup' = [sup EXCEPT !.accepting = FALSE]
           /\ port' = LostPort /\ queue' = LostQueue
    <2>1. "reader" \in Threads /\ "owner" \in Threads /\ "reader" # "owner"
        BY DEF Threads, Commanders
    <2>2. /\ call \in CallRecord /\ call.op = "retire" /\ call.step = "killing"
        BY NoCallTyped DEF NoCall, CallRecord, CallSteps, Ops, Reasons
    <2> HIDE DEF call
    <2>3. /\ sup' \in SupRecord
          /\ sup'.process = sup.process /\ sup'.open = sup.open /\ sup'.kind = sup.kind
        BY <1>2, <1>6 DEF SupRecord
    <2>4. calls'["reader"] = call /\ \A u \in Threads \ {"reader"} : Keeps(u) /\ calls'[u] = calls[u]
        BY <1>2, <1>6, <2>1 DEF Keeps
    <2>5. ParentTyped' /\ ChannelTyped'
        BY <1>1, <1>2, <1>4, <1>6, <2>1, <2>2, HostInvTyped, LostTyped DEF ParentTyped, ChannelTyped
    <2>6. Fit("reader", calls["reader"])'
        BY <2>2, <2>4 DEF Fit, OpenOps, Uses, Ops
    <2>7. LifeKept /\ Transfers("reader")
        BY <1>1 DEF LifeKept, Transfers
    <2>8. Spares
        <3>1. provider' = provider /\ history' = history /\ port'.closed = port.closed
            BY <1>1, <1>6, LostTyped
        <3> QED
            BY <3>1, Zenon DEF Spares
    <2>9. Ends
        <3>1. ASSUME NEW u \in Commanders, Waiting(u)'
              PROVE  Waiting(u)
            BY <2>2, <2>4, <3>1 DEF Waiting, At, Threads
        <3> QED
            BY <2>3, <3>1 DEF Ends, HostInv, Control, Ended
    <2>10. Alarms
        <3>1. ASSUME Greeting' PROVE Greeting
            BY <2>1, <2>4, <3>1 DEF Greeting
        <3>2. ASSUME Greeting PROVE child'.life = "exited"
            BY <1>1, <3>2 DEF HostInv, Control, Opening, Alarmed
        <3> QED
            BY <3>1, <3>2 DEF Alarms
    <2>11. ControlStep("reader")
        BY <2>4, <2>6, <2>7, <2>8, <2>9, <2>10 DEF ControlStep
    <2> QED
        BY <1>1, <1>4, <2>1, <2>3, <2>5, <2>11, ThreadKeeps
<1> QED
    BY <1>3, <1>5, <1>6

(* A call that begins: the engine is open, so that nobody greets the host. *)
LEMMA BeginsKeeps ==
    ASSUME HostInv, NEW t \in Commanders, provider = "open", UNCHANGED provider,
           NEW call \in CallRecord, calls' = [calls EXCEPT ![t] = call],
           call.op \in Uses, call.step \in {"asked", "shutdown"},
           call.step = "shutdown" => call.op = "close", call.step = "asked" => call.op = "load",
           port' \in PortRecord, port'.closed = port.closed,
           ChannelUnchanged, UNCHANGED <<sup, history>>,
           used' \in [work : Nat, faults : Nat]
    PROVE  HostInv'
<1>1. calls \in [Threads -> CallRecord] /\ t \in Threads /\ t # "reader"
    BY CallFits, HostAssumption DEF Threads, Commanders
<1>2. calls'[t] = call /\ \A u \in Threads \ {t} : Keeps(u) /\ calls'[u] = calls[u]
    BY <1>1 DEF Keeps
<1>3. UNCHANGED <<reader, queue, down, up, child>>
    BY DEF ChannelUnchanged
<1>4. ParentTyped' /\ ChannelTyped' /\ Blocking'
    BY <1>1, <1>3, HostInvTyped DEF ParentTyped, ChannelTyped, HostInv, Blocking
<1>5. Fit(t, calls[t])'
    BY <1>1, <1>2 DEF Fit, OpenOps, Uses, Ops
<1>6. LifeKept /\ Transfers(t)
    BY <1>3 DEF LifeKept, Transfers
<1>7. Spares
    <2>1. provider' = provider /\ history' = history /\ port'.closed = port.closed
        OBVIOUS
    <2> QED
        BY <2>1, Zenon DEF Spares
<1>8. Ends
    <2>1. ASSUME NEW u \in Commanders, Waiting(u)'
          PROVE  Waiting(u)
        BY <1>2, <2>1 DEF Waiting, At, Threads
    <2> QED
        BY <2>1 DEF Ends, HostInv, Control, Ended
<1>9. Alarms
    <2>1. ~Greeting'
        <3>1. Fit("owner", calls["owner"])
            BY CallFits DEF Threads, Commanders
        <3> QED
            BY <1>2, <3>1 DEF Greeting, Fit, OpenOps, Uses, Threads, Commanders
    <2> QED
        BY <2>1 DEF Alarms
<1>10. ControlStep(t)
    BY <1>2, <1>5, <1>6, <1>7, <1>8, <1>9 DEF ControlStep
<1> QED
    BY <1>1, <1>3, <1>4, <1>10, HostInvTyped, StepKeeps

LEMMA LoadKeeps ==
    ASSUME HostInv, NEW t \in Commanders, Load(t)
    PROVE  HostInv'
<1> DEFINE call == [NoCall EXCEPT !.op = "load", !.step = "asked"]
<1>1. /\ provider = "open" /\ Work /\ port' = [port EXCEPT !.gen = @ + 1]
      /\ calls' = [calls EXCEPT ![t] = call]
      /\ ChannelUnchanged /\ UNCHANGED <<provider, sup, history>>
    BY DEF Load, Become
<1>2. port' \in PortRecord /\ port'.closed = port.closed
    BY <1>1, HostInvTyped DEF ParentTyped, PortRecord
<1>3. call \in CallRecord /\ call.op = "load" /\ call.step = "asked"
    BY NoCallTyped DEF NoCall, CallRecord, CallSteps, Ops
<1> HIDE DEF call
<1>4. used' \in [work : Nat, faults : Nat]
    BY <1>1, HostInvTyped, FaultTyped
<1> QED
    BY <1>1, <1>2, <1>3, <1>4, BeginsKeeps DEF Uses

LEMMA CloseKeeps ==
    ASSUME HostInv, NEW t \in Commanders, Close(t)
    PROVE  HostInv'
<1> DEFINE call == [NoCall EXCEPT !.op = "close", !.step = "shutdown"]
<1>1. /\ provider = "open" /\ ChannelUnchanged /\ UNCHANGED <<sup, history, used>>
    BY DEF Close
<1>2. CASE port.closed
    <2>1. provider' = "dropped" /\ UNCHANGED <<port, calls>>
        BY <1>2 DEF Close
    <2>2. history.raised /\ t \in Threads
        BY <1>1, <1>2 DEF HostInv, Control, Closed, Threads
    <2>3. UNCHANGED <<reader, queue, down, up, child>>
        BY <1>1 DEF ChannelUnchanged
    <2>4. /\ ParentTyped' /\ ChannelTyped' /\ Blocking'
        BY <1>1, <2>1, <2>3, HostInvTyped DEF ParentTyped, ChannelTyped, HostInv, Blocking
    <2>5. \A u \in Threads : Keeps(u)
        BY <2>1 DEF Keeps
    <2>6. Fit(t, calls[t])'
        <3>1. Fit(t, calls[t])
            BY <2>2, CallFits
        <3>2. Fits(calls[t].kind) => Fits(calls[t].kind)'
            BY <2>1, <2>3 DEF Fits
        <3> QED
            BY <1>1, <2>1, <3>1, <3>2 DEF Fit
    <2>7. LifeKept /\ Transfers(t)
        BY <1>1, <2>1, <2>3 DEF LifeKept, Transfers
    <2>8. Spares
        <3>1. provider' = "dropped" /\ history' = history /\ port' = port
            BY <1>1, <2>1
        <3> QED
            BY <2>2, <3>1 DEF Spares
    <2>9. Ends
        BY <1>1, <2>1 DEF Ends, HostInv, Control, Ended, Waiting, At
    <2>10. Alarms
        BY <1>1, <2>1 DEF Alarms, Greeting, Alarmed, At
    <2>11. ControlStep(t)
        BY <2>5, <2>6, <2>7, <2>8, <2>9, <2>10 DEF ControlStep
    <2> QED
        BY <1>1, <2>2, <2>3, <2>4, <2>11, HostInvTyped, StepKeeps
<1>3. CASE ~port.closed
    <2>1. /\ port' = [port EXCEPT !.closing = TRUE, !.gen = @ + 1]
          /\ calls' = [calls EXCEPT ![t] = call] /\ UNCHANGED provider
        BY <1>3 DEF Close, Become
    <2>2. port' \in PortRecord /\ port'.closed = port.closed
        <3>1. port \in PortRecord
            BY HostInvTyped DEF ParentTyped
        <3>2. port.gen + 1 \in Nat
            BY <3>1 DEF PortRecord
        <3>3. port' \in PortRecord
            BY <2>1, <3>1, <3>2 DEF PortRecord
        <3>4. port'.closed = port.closed
            BY <2>1, <3>1 DEF PortRecord
        <3> QED
            BY <3>3, <3>4
    <2>3. call \in CallRecord /\ call.op = "close" /\ call.step = "shutdown"
        BY NoCallTyped DEF NoCall, CallRecord, CallSteps, Ops
    <2> HIDE DEF call
    <2> QED
        BY <1>1, <2>1, <2>2, <2>3, HostInvTyped, BeginsKeeps DEF Uses
<1> QED
    BY <1>2, <1>3

-----------------------------------------------------------------------------

LEMMA HostInitInv ==
    ASSUME HostInit
    PROVE  HostInv
<1> USE DEF HostInit
<1>1. "owner" \in Threads /\ "reader" \in Threads
    BY DEF Threads, Commanders
<1>2. \A t \in Threads : calls[t] = IF t = "owner" THEN [NoCall EXCEPT !.op = "hello",
                                                                    !.step = "captured"]
                                                   ELSE NoCall
    OBVIOUS
<1>3. HostTypeParts
    <2>1. calls \in [Threads -> CallRecord]
        BY NoCallTyped DEF NoCall, CallRecord, CallSteps, Ops
    <2>2. port \in PortRecord /\ reader \in ReaderRecord /\ history \in HistoryRecord
        BY HostAssumption DEF PortRecord, ReaderRecord, HistoryRecord
    <2>3. /\ child \in ChildRecord /\ sup \in SupRecord /\ used \in [work : Nat, faults : Nat]
        BY HostAssumption DEF ChildRecord, SupRecord
    <2>4. ChannelTyped
        BY DEF ChannelTyped
    <2> QED
        BY <2>1, <2>2, <2>3, <2>4 DEF HostTypeParts, ParentTyped
<1>4. Threaded
    BY <1>2, Frames DEF Threaded, Fit, NoCall, OpenOps, Uses, Ops
<1>5. Ended
    BY DEF Ended
<1>6. Opening
    BY <1>1, <1>2 DEF Opening, Alarmed, At, NoCall
<1>7. Closed /\ NobodyWaitsForTheDead /\ NothingIsLeaked
    BY DEF Closed, NobodyWaitsForTheDead, NothingIsLeaked
<1>8. Blocking /\ Served(child)
    BY DEF Blocking, Served
<1> QED
    BY <1>3, <1>4, <1>5, <1>6, <1>7, <1>8, HostTyped DEF HostInv, Control

LEMMA HostInductive ==
    ASSUME HostInv, [HostNext]_hostVars
    PROVE  HostInv'
<1>1. ASSUME NEW t \in Threads, ThreadStep(t) PROVE HostInv'
    BY <1>1, SendKeeps, AnsweredKeeps, FailedKeeps, TimeoutKeeps, ShutdownKeeps, KillKeeps,
       JoinKeeps, DrainKeeps, CaptureKeeps, EndCloseKeeps DEF ThreadStep
<1>2. CASE CallbackRan
    BY <1>2, UnblockKeeps, HostInvTyped DEF CallbackRan
<1>3. CASE ReaderGivesUp
    BY <1>3, UnblockKeeps, HostInvTyped, FaultTyped DEF ReaderGivesUp
<1>4. CASE HostAsk
    BY <1>4, LoadKeeps, CloseKeeps DEF HostAsk
<1>5. CASE HostStep
    BY <1>5, ReceiveKeeps, ServeKeeps, ReceiveWaitingKeeps, ExitKeeps DEF HostStep
<1>6. CASE UNCHANGED hostVars
    <2>1. UNCHANGED <<provider, port, sup, calls, reader, queue, down, up, child, history, used>>
        BY <1>6 DEF hostVars
    <2>2. HostTypeOK'
        BY <2>1, HostInvTyped, HostTyped DEF HostTypeParts, ParentTyped, ChannelTyped
    <2>3. Calm /\ Blocking'
        BY <2>1 DEF Calm, LifeKept, HostInv, Blocking
    <2> QED
        BY <2>1, <2>2, <2>3, CalmStep
<1> QED
    BY <1>1, <1>2, <1>3, <1>4, <1>5, <1>6, RouteKeeps, EndOfFileKeeps, PumpKeeps,
       HostGivesUpKeeps, BreaksKeeps DEF HostNext, Progress, Surprise

(* For any workers, faults and bounds: once the host is given up nobody    *)
(* waits for it any more, and a provider that is closed or could not be    *)
(* opened leaves no process behind but one that could not be killed        *)
(* (_terminate_process, _finish_termination, open(), close()).             *)
THEOREM HostLeavesNobodyBehind == HostSpec => []HostConsistent
<1>1. HostInit => HostInv
    BY HostInitInv
<1>2. HostInv /\ [HostNext]_hostVars => HostInv'
    BY HostInductive
<1>3. HostInv => HostConsistent
    BY DEF HostInv, Control, HostConsistent
<1> QED
    BY <1>1, <1>2, <1>3, PTL DEF HostSpec
=============================================================================
