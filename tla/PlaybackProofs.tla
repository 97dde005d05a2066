--------------------------- MODULE PlaybackProofs ---------------------------
(***************************************************************************)
(* Proofs about PlaybackSession, for any entries, paths and bounds, and    *)
(* for any of its faults.                                                  *)
(***************************************************************************)
EXTENDS PlaybackSession, SequenceTheorems, FiniteSetTheorems, WellFoundedInduction, TLAPS

-----------------------------------------------------------------------------
(* Sequences and positions                                                 *)

(* Every set of naturals has a least element. *)
LEMMA LeastNatural ==
    ASSUME NEW T \in SUBSET Nat, T # {}
    PROVE  \E m \in T : \A k \in T : m <= k
<1> DEFINE R == OpToRel(<, Nat)
<1>1. IsWellFoundedOn(R, Nat)
    BY NatLessThanWellFounded
<1>2. \A x, y \in Nat : y < x => <<y, x>> \in R
    BY DEF OpToRel
<1> HIDE DEF R
<1>3. PICK m \in T : \A k \in T : <<k, m>> \notin R
    BY <1>1, WFMin
<1>4. ASSUME NEW k \in T PROVE m <= k
    <2>1. m \in Nat /\ k \in Nat /\ ~(k < m)
        BY <1>2, <1>3
    <2> QED
        BY <2>1
<1> QED
    BY <1>4

(* The first position of an entry holds it, and 0 is no position.          *)
LEMMA IndexOfFinds ==
    ASSUME NEW s \in Seq(Entry), NEW e
    PROVE  /\ e \in ToSet(s) => IndexOf(s, e) \in 1 .. Len(s) /\ s[IndexOf(s, e)] = e
           /\ e \notin ToSet(s) => IndexOf(s, e) = 0
<1>1. CASE e \in ToSet(s)
    <2> DEFINE I == {i \in 1 .. Len(s) : s[i] = e}
    <2>1. I \in SUBSET Nat /\ I # {}
        BY <1>1, LenProperties DEF ToSet
    <2>2. IndexOf(s, e) = Min(I)
        BY <1>1, <2>1 DEF IndexOf, SelectInSeq
    <2>3. Min(I) \in I
        <3> HIDE DEF I
        <3> QED
            BY <2>1, LeastNatural DEF Min
    <2> QED
        BY <1>1, <2>2, <2>3
<1>2. CASE e \notin ToSet(s)
    BY <1>2 DEF IndexOf
<1> QED
    BY <1>1, <1>2

LEMMA EntryAt ==
    ASSUME NEW s \in Seq(Entry), NEW i \in 1 .. Len(s)
    PROVE  s[i] \in Entry /\ s[i] \in ToSet(s)
BY LenProperties, ElementOfSeq DEF ToSet

LEMMA RangeIsEntries ==
    ASSUME NEW s \in Seq(Entry)
    PROVE  ToSet(s) \subseteq Entry
BY LenProperties, ElementOfSeq DEF ToSet

LEMMA InsertAtType ==
    ASSUME NEW s \in Seq(Entry), NEW i \in 1 .. Len(s) + 1, NEW e \in Entry
    PROVE  InsertAt(s, i, e) \in Seq(Entry) /\ Len(InsertAt(s, i, e)) = Len(s) + 1
<1>1. Len(s) \in Nat
    BY LenProperties
<1> DEFINE a == SubSeq(s, 1, i - 1)
           b == SubSeq(s, i, Len(s))
<1>2. a \in Seq(Entry) /\ Len(a) = i - 1
    <2>1. \A k \in 1 .. i - 1 : s[k] \in Entry
        BY <1>1, ElementOfSeq
    <2> QED
        BY <1>1, <2>1, SubSeqProperties
<1>3. b \in Seq(Entry) /\ Len(b) = Len(s) - i + 1
    <2>1. \A k \in i .. Len(s) : s[k] \in Entry
        BY <1>1, ElementOfSeq
    <2> QED
        BY <1>1, <2>1, SubSeqProperties
<1>4. <<e>> \in Seq(Entry) /\ Len(<<e>>) = 1
    OBVIOUS
<1> HIDE DEF a, b
<1>5. a \o <<e>> \in Seq(Entry) /\ Len(a \o <<e>>) = Len(a) + 1
    BY <1>2, <1>4, ConcatProperties
<1>6. /\ (a \o <<e>>) \o b \in Seq(Entry)
      /\ Len((a \o <<e>>) \o b) = Len(a \o <<e>>) + Len(b)
    BY <1>3, <1>5, ConcatProperties
<1>7. InsertAt(s, i, e) = (a \o <<e>>) \o b
    BY DEF InsertAt, a, b
<1>8. (i - 1) + 1 + (Len(s) - i + 1) = Len(s) + 1
    BY <1>1
<1> QED
    BY <1>2, <1>3, <1>5, <1>6, <1>7, <1>8, Zenon

LEMMA RemoveAtType ==
    ASSUME NEW s \in Seq(Entry), NEW i \in 1 .. Len(s)
    PROVE  RemoveAt(s, i) \in Seq(Entry) /\ Len(RemoveAt(s, i)) = Len(s) - 1
<1>1. Len(s) \in Nat
    BY LenProperties
<1> DEFINE a == SubSeq(s, 1, i - 1)
           b == SubSeq(s, i + 1, Len(s))
<1>2. a \in Seq(Entry) /\ Len(a) = i - 1
    <2>1. \A k \in 1 .. i - 1 : s[k] \in Entry
        BY <1>1, ElementOfSeq
    <2> QED
        BY <1>1, <2>1, SubSeqProperties
<1>3. b \in Seq(Entry) /\ Len(b) = Len(s) - i
    <2>1. \A k \in i + 1 .. Len(s) : s[k] \in Entry
        BY <1>1, ElementOfSeq
    <2> QED
        BY <1>1, <2>1, SubSeqProperties
<1> HIDE DEF a, b
<1>4. a \o b \in Seq(Entry) /\ Len(a \o b) = Len(a) + Len(b)
    BY <1>2, <1>3, ConcatProperties
<1>5. RemoveAt(s, i) = a \o b
    BY DEF RemoveAt, a, b
<1>6. (i - 1) + (Len(s) - i) = Len(s) - 1
    BY <1>1
<1> QED
    BY <1>2, <1>3, <1>4, <1>5, <1>6, Zenon

LEMMA OneIsSeq ==
    ASSUME NEW e \in Entry
    PROVE  <<e>> \in Seq(Entry) /\ Len(<<e>>) = 1 /\ <<e>>[1] = e
OBVIOUS

LEMMA TupleIsSeq ==
    ASSUME NEW n \in Nat, NEW es \in [1 .. n -> Entry]
    PROVE  es \in Seq(Entry) /\ Len(es) = n
BY IsASeq, LenProperties

(* The entries that stay keep their order: their ranks count them all.     *)
LEMMA RetainedType ==
    ASSUME NEW s \in Seq(Entry), NEW S
    PROVE  Retained(s, S) \in Seq(Entry)
<1> DEFINE kept    == {i \in DOMAIN s : s[i] \in S}
           Upto(i) == {j \in kept : j <= i}
           Rank(i) == Cardinality(Upto(i))
           rank    == [i \in kept |-> Rank(i)]
           n       == Cardinality(kept)
<1>1. /\ Len(s) \in Nat
      /\ DOMAIN s = 1 .. Len(s)
    BY LenProperties
<1>2. IsFiniteSet(kept) /\ n \in Nat
    <2>1. IsFiniteSet(DOMAIN s) /\ kept \in SUBSET DOMAIN s
        BY <1>1, FS_Interval
    <2> HIDE DEF kept
    <2>2. IsFiniteSet(kept)
        BY <2>1, FS_Subset
    <2> QED
        BY <2>2, FS_CardinalityType
<1>3. \A i \in kept : i \in Nat
    BY <1>1
<1>4. ASSUME NEW i \in kept
      PROVE  Rank(i) \in 1 .. n /\ IsFiniteSet(Upto(i))
    <2>1. Upto(i) \in SUBSET kept /\ i \in Upto(i)
        BY <1>3
    <2>2. IsFiniteSet(Upto(i)) /\ Rank(i) <= n /\ Rank(i) \in Nat
        BY <1>2, <2>1, FS_Subset, FS_CardinalityType
    <2>3. Rank(i) # 0
        BY <2>1, <2>2, FS_EmptySet
    <2> QED
        BY <1>2, <2>2, <2>3
<1>5. ASSUME NEW i \in kept, NEW j \in kept, i < j
      PROVE  Rank(i) # Rank(j)
    <2>1. Upto(i) \in SUBSET Upto(j) /\ j \in Upto(j) /\ j \notin Upto(i)
        BY <1>3, <1>5
    <2> QED
        BY <1>4, <2>1, FS_Subset
<1> HIDE DEF Rank, n
<1>6. ASSUME NEW i \in kept, NEW j \in kept, Rank(i) = Rank(j)
      PROVE  i = j
    BY <1>3, <1>5, <1>6
<1> HIDE DEF kept
<1>7. rank \in Injection(kept, 1 .. n)
    BY <1>4, <1>6 DEF Injection, IsInjective
<1>8. rank \in Surjection(kept, 1 .. n)
    <2>1. IsFiniteSet(1 .. n) /\ Cardinality(1 .. n) = n
        BY <1>2, FS_Interval
    <2> QED
        BY <1>7, <2>1, FS_Injection DEF n
<1>9. ASSUME NEW k \in 1 .. n
      PROVE  s[CHOOSE i \in kept : Rank(i) = k] \in Entry
    <2>1. \E i \in kept : rank[i] = k
        BY <1>8 DEF Surjection
    <2>2. (CHOOSE i \in kept : Rank(i) = k) \in kept
        BY <2>1
    <2>3. \A i \in kept : i \in 1 .. Len(s)
        BY <1>1 DEF kept
    <2> QED
        BY <2>2, <2>3, ElementOfSeq
<1>10. Retained(s, S) = [k \in 1 .. n |-> s[CHOOSE i \in kept : Rank(i) = k]]
    BY DEF Retained, kept, Rank, n
<1>11. \A k \in 1 .. n : Retained(s, S)[k] \in Entry
    BY <1>9, <1>10
<1>12. Retained(s, S) \in [1 .. n -> Entry]
    BY <1>10, <1>11
<1> HIDE DEF rank
<1> QED
    BY <1>2, <1>12, IsASeq

-----------------------------------------------------------------------------
(* The navigator                                                           *)

LEMMA SetIsBag ==
    ASSUME NEW S
    PROVE  IsABag(SetToBag(S)) /\ DOMAIN SetToBag(S) = S
BY DEF IsABag, SetToBag

LEMMA SumIsBag ==
    ASSUME NEW A, NEW B, IsABag(A), IsABag(B)
    PROVE  IsABag(A (+) B) /\ DOMAIN (A (+) B) = DOMAIN A \cup DOMAIN B
<1> DEFINE C == A (+) B
<1>1. DOMAIN C = DOMAIN A \cup DOMAIN B
    BY DEF (+)
<1>2. /\ \A x \in DOMAIN A : A[x] \in Nat /\ A[x] > 0
      /\ \A x \in DOMAIN B : B[x] \in Nat /\ B[x] > 0
    BY DEF IsABag
<1>3. ASSUME NEW x \in DOMAIN C PROVE C[x] \in Nat /\ C[x] > 0
    <2>1. C[x] = (IF x \in DOMAIN A THEN A[x] ELSE 0) + (IF x \in DOMAIN B THEN B[x] ELSE 0)
        BY DEF (+)
    <2>2. CASE x \in DOMAIN A /\ x \in DOMAIN B
        BY <1>2, <2>1, <2>2
    <2>3. CASE x \in DOMAIN A /\ x \notin DOMAIN B
        BY <1>2, <2>1, <2>3
    <2>4. CASE x \notin DOMAIN A /\ x \in DOMAIN B
        BY <1>2, <2>1, <2>4
    <2> QED
        BY <1>1, <2>2, <2>3, <2>4
<1>4. C = [x \in DOMAIN C |-> C[x]]
    BY DEF (+)
<1> HIDE DEF C
<1>5. C \in [DOMAIN C -> {n \in Nat : n > 0}]
    BY <1>3, <1>4
<1> QED
    BY <1>1, <1>5 DEF IsABag, C

LEMMA DifferenceIsBag ==
    ASSUME NEW A, NEW S, IsABag(A)
    PROVE  IsABag(A (-) SetToBag(S)) /\ DOMAIN (A (-) SetToBag(S)) \subseteq DOMAIN A
<1> DEFINE D == [x \in DOMAIN A |-> IF x \in S THEN A[x] - 1 ELSE A[x]]
           C == A (-) SetToBag(S)
<1>1. C = [x \in {d \in DOMAIN D : D[d] > 0} |-> D[x]]
    BY DEF (-), SetToBag
<1>2. \A x \in DOMAIN A : A[x] \in Nat /\ A[x] > 0
    BY DEF IsABag
<1>3. \A x \in DOMAIN A : D[x] \in Int
    BY <1>2
<1>4. DOMAIN D = DOMAIN A
    OBVIOUS
<1> HIDE DEF D, C
<1>5. DOMAIN C \subseteq DOMAIN A
    BY <1>1, <1>4
<1>6. \A x \in DOMAIN C : C[x] \in {n \in Nat : n > 0}
    BY <1>1, <1>3, <1>4
<1>7. C \in [DOMAIN C -> {n \in Nat : n > 0}]
    BY <1>1, <1>6
<1> QED
    BY <1>5, <1>7 DEF IsABag, C

LEMMA RestIsBag ==
    ASSUME NEW A, NEW S, IsABag(A)
    PROVE  IsABag(Without(A, S)) /\ DOMAIN Without(A, S) = DOMAIN A \ S
BY DEF IsABag, Without, Restrict

LEMMA NavigatorOf ==
    ASSUME NEW b, NEW h \in Seq(Entry), IsABag(b), DOMAIN b \subseteq Entry
    PROVE  IsNavigator([pool |-> b, history |-> h], Entry)
BY DEF IsNavigator

LEMMA NoHistory == <<>> \in Seq(Entry)
BY EmptySeq

LEMMA ClearedType == IsNavigator(Cleared, Entry)
BY NavigatorOf, NoHistory, SetIsBag DEF Cleared, EmptyBag

LEMMA FreshCycleType ==
    ASSUME NEW s \in Seq(Entry), NEW e \in Entry \cup {None}
    PROVE  IsNavigator(FreshCycle(s, e), Entry)
<1>1. ToSet(s) \ {e} \subseteq Entry
    BY RangeIsEntries
<1>2. (IF e = None THEN <<>> ELSE <<e>>) \in Seq(Entry)
    BY NoHistory
<1> QED
    BY <1>1, <1>2, SetIsBag, NavigatorOf DEF FreshCycle

LEMMA DrawsType ==
    ASSUME NEW v, IsNavigator(v, Entry), NEW d \in Draws(v)
    PROVE  d[1] \in Entry /\ IsNavigator(d[2], Entry)
<1>1. PICK e \in DOMAIN v.pool : d = <<e, [v EXCEPT !.pool = @ (-) SetToBag({e})]>>
    BY DEF Draws
<1>2. e \in Entry /\ IsABag(v.pool) /\ v.history \in Seq(Entry) /\ DOMAIN v = {"pool", "history"}
    BY DEF IsNavigator
<1> DEFINE b == v.pool (-) SetToBag({e})
<1>3. IsABag(b) /\ DOMAIN b \subseteq DOMAIN v.pool
    BY <1>2, DifferenceIsBag
<1> HIDE DEF b
<1>4. d[1] = e /\ d[2] = [v EXCEPT !.pool = b]
    BY <1>1 DEF b
<1>5. /\ DOMAIN d[2] = {"pool", "history"}
      /\ d[2].pool = b /\ d[2].history = v.history
    BY <1>2, <1>4
<1> QED
    BY <1>2, <1>3, <1>4, <1>5 DEF IsNavigator

LEMMA RecordCommitType ==
    ASSUME NEW v, IsNavigator(v, Entry), NEW e \in Entry
    PROVE  IsNavigator(RecordCommit(v, e), Entry)
<1>1. IsABag(Without(v.pool, {e})) /\ DOMAIN Without(v.pool, {e}) \subseteq Entry
    <2>1. IsABag(v.pool) /\ DOMAIN v.pool \subseteq Entry
        BY DEF IsNavigator
    <2> QED
        BY <2>1, RestIsBag
<1>2. v.history \in Seq(Entry) /\ Append(v.history, e) \in Seq(Entry)
    BY AppendProperties DEF IsNavigator
<1> QED
    BY <1>1, <1>2, NavigatorOf DEF RecordCommit

LEMMA PreviousPickType ==
    ASSUME NEW v, IsNavigator(v, Entry), ~(Len(v.history) < 2)
    PROVE  IsNavigator(PreviousPick(v), Entry)
<1>1. IsABag(v.pool) /\ DOMAIN v.pool \subseteq Entry /\ v.history \in Seq(Entry)
    BY DEF IsNavigator
<1>2. Len(v.history) \in Nat
    BY <1>1, LenProperties
<1>3. \A k \in 1 .. Len(v.history) : v.history[k] \in Entry
    BY <1>1, ElementOfSeq
<1>4. Last(v.history) \in Entry
    BY <1>2, <1>3 DEF Last
<1>5. Front(v.history) \in Seq(Entry)
    <2>1. Len(v.history) - 1 \in Int /\ \A k \in 1 .. Len(v.history) - 1 : v.history[k] \in Entry
        BY <1>2, <1>3
    <2> QED
        BY <2>1, SubSeqProperties DEF Front
<1> DEFINE one == SetToBag({Last(v.history)})
<1>6. IsABag(one) /\ DOMAIN one \subseteq Entry
    BY <1>4, SetIsBag
<1> HIDE DEF one
<1>7. IsABag(v.pool (+) one) /\ DOMAIN (v.pool (+) one) \subseteq Entry
    BY <1>1, <1>6, SumIsBag
<1> QED
    BY <1>5, <1>7, NavigatorOf DEF PreviousPick, one

LEMMA SynchronizedType ==
    ASSUME NEW v, IsNavigator(v, Entry), NEW live \in SUBSET Entry, NEW e
    PROVE  IsNavigator(Synchronized(v, live, e), Entry)
<1>1. IsABag(v.pool) /\ DOMAIN v.pool \subseteq Entry /\ v.history \in Seq(Entry)
    BY DEF IsNavigator
<1> DEFINE pool == Without(v.pool, DOMAIN v.pool \ live)
           kept == Retained(v.history, live)
           new  == SetToBag(live \ (DOMAIN pool \cup ToSet(kept) \cup {e}))
<1>2. IsABag(pool) /\ DOMAIN pool \subseteq Entry
    <2>1. IsABag(pool) /\ DOMAIN pool = DOMAIN v.pool \ (DOMAIN v.pool \ live)
        BY <1>1, RestIsBag
    <2> QED
        BY <1>1, <2>1
<1>3. kept \in Seq(Entry)
    BY <1>1, RetainedType
<1>4. IsABag(new) /\ DOMAIN new \subseteq Entry
    BY SetIsBag
<1> HIDE DEF pool, kept, new
<1>5. IsABag(pool (+) new) /\ DOMAIN (pool (+) new) \subseteq Entry
    BY <1>2, <1>4, SumIsBag
<1>6. Synchronized(v, live, e) = [pool |-> pool (+) new, history |-> kept]
    BY DEF Synchronized, pool, kept, new
<1> QED
    BY <1>3, <1>5, <1>6, NavigatorOf

-----------------------------------------------------------------------------
(* PlaybackService: each method keeps the type and changes these fields.   *)

Calls == Call \cup {None}

LEMMA NoneIsNothing ==
    /\ None \notin Paths /\ None \notin Entry /\ None \notin Call
    /\ None \notin Request(Call) /\ None \notin Preparation(Call)
BY NoneAssumption, NoRequestAssumption

LEMMA ServiceFields ==
    ASSUME NEW s \in Service(Call)
    PROVE  /\ s.request \in Request(Call) \cup {None}
           /\ s.prepare \in Preparation(Call) \cup {None}
           /\ s.file \in Paths \cup {None} /\ s.loaded \in Paths \cup {None}
           /\ s.refused \in Paths \cup {None}
           /\ s.intent \in BOOLEAN /\ s.accepted \in BOOLEAN /\ s.played \in BOOLEAN
           /\ s.request # None =>
                  /\ s.request.path \in Paths /\ s.request.purpose \in Purposes
                  /\ s.request.call \in Calls
           /\ s.prepare # None =>
                  /\ s.prepare.path \in Paths /\ s.prepare.purpose \in Purposes
                  /\ s.prepare.call \in Calls
                  /\ s.prepare.intent \in BOOLEAN /\ s.prepare.accepted \in BOOLEAN
                  /\ s.prepare.claimed \in BOOLEAN
BY DEF Service, Request, Preparation, Calls

LEMMA RequestOf ==
    ASSUME NEW path \in Paths, NEW purpose \in Purposes, NEW call \in Calls
    PROVE  [path |-> path, purpose |-> purpose, call |-> call] \in Request(Call)
BY DEF Request, Calls

LEMMA PreparingType ==
    ASSUME NEW s \in Service(Call), NEW path \in Paths, NEW purpose \in Purposes,
           NEW call \in Calls
    PROVE  Preparing(s, path, purpose, call) \in Preparation(Call)
BY ServiceFields DEF Preparing, Preparation, Calls

LEMMA LoadAndPlayType ==
    ASSUME NEW s \in Service(Call), NEW path \in Paths, NEW call \in Calls,
           NEW t, t = LoadAndPlay(s, path, call)
    PROVE  /\ t \in Service(Call)
           /\ t.request = [path |-> path, purpose |-> "USER_PLAY", call |-> call]
           /\ t.request # None /\ t.prepare # None
           /\ t.prepare.path = path /\ t.prepare.purpose = "USER_PLAY" /\ t.prepare.call = call
           /\ ~t.prepare.claimed
           /\ t.file = s.file /\ t.loaded = s.loaded /\ t.played = s.played
<1> DEFINE r == [path |-> path, purpose |-> "USER_PLAY", call |-> call]
           p == Preparing(s, path, "USER_PLAY", call)
<1>1. "USER_PLAY" \in Purposes
    BY DEF Purposes
<1>2. r \in Request(Call) /\ r # None
    BY <1>1, RequestOf, NoneIsNothing
<1>3. p \in Preparation(Call) /\ p # None
    BY <1>1, PreparingType, NoneIsNothing
<1>4. p.path = path /\ p.purpose = "USER_PLAY" /\ p.call = call /\ ~p.claimed
    BY DEF Preparing
<1>5. t = [s EXCEPT !.request = r, !.prepare = p, !.intent = TRUE]
    BY DEF LoadAndPlay
<1> HIDE DEF p, r
<1>6. t \in Service(Call)
    BY <1>2, <1>3, <1>5 DEF Service
<1>7. /\ t.request = r /\ t.prepare = p
      /\ t.file = s.file /\ t.loaded = s.loaded /\ t.played = s.played
    BY <1>5 DEF Service
<1> QED
    BY <1>2, <1>3, <1>4, <1>6, <1>7 DEF r

LEMMA HandoverType ==
    ASSUME NEW s \in Service(Call), s.file # None, NEW t, t = PrepareForHandover(s)
    PROVE  /\ t \in Service(Call)
           /\ t.prepare # None /\ t.prepare.purpose = "OUTPUT_HANDOVER"
           /\ t.prepare.path = s.file /\ t.prepare.call = None /\ ~t.prepare.claimed
           /\ t.request = s.request
           /\ t.file = s.file /\ t.loaded = s.loaded /\ t.played = s.played
<1> DEFINE p == Preparing(s, s.file, "OUTPUT_HANDOVER", None)
<1>1. p \in Preparation(Call) /\ p # None
    BY PreparingType, ServiceFields, NoneIsNothing DEF Purposes, Calls
<1>2. p.path = s.file /\ p.purpose = "OUTPUT_HANDOVER" /\ p.call = None /\ ~p.claimed
    BY DEF Preparing
<1>3. t = [s EXCEPT !.prepare = p]
    BY DEF PrepareForHandover
<1> HIDE DEF p
<1>4. t \in Service(Call)
    BY <1>1, <1>3 DEF Service
<1>5. /\ t.prepare = p /\ t.request = s.request
      /\ t.file = s.file /\ t.loaded = s.loaded /\ t.played = s.played
    BY <1>3 DEF Service
<1> QED
    BY <1>1, <1>2, <1>4, <1>5

LEMMA ResumeType ==
    ASSUME NEW path \in Paths, NEW t, t = PrepareForResume(Silent, path)
    PROVE  /\ t \in Service(Call)
           /\ t.request # None /\ t.request.path = path
           /\ t.request.purpose = "STARTUP_RESTORE" /\ t.request.call = None
           /\ t.prepare # None /\ t.prepare.path = path
           /\ t.prepare.purpose = "STARTUP_RESTORE" /\ t.prepare.call = None
           /\ ~t.prepare.claimed
           /\ t.file = None /\ t.loaded = None
<1> DEFINE r == [path |-> path, purpose |-> "STARTUP_RESTORE", call |-> None]
           p == [path |-> path, purpose |-> "STARTUP_RESTORE", call |-> None,
                 intent |-> FALSE, accepted |-> FALSE, claimed |-> FALSE]
<1>1. r \in Request(Call) /\ r # None
    BY RequestOf, NoneIsNothing DEF Purposes, Calls
<1>2. p \in Preparation(Call)
    BY DEF Preparation, Purposes
<1>3. p # None
    BY <1>2, NoneIsNothing
<1>4. t = [Silent EXCEPT !.request = r, !.prepare = p]
    BY DEF PrepareForResume, Preparing, Silent
<1>5. /\ r.path = path /\ r.purpose = "STARTUP_RESTORE" /\ r.call = None
      /\ p.path = path /\ p.purpose = "STARTUP_RESTORE" /\ p.call = None /\ ~p.claimed
    OBVIOUS
<1> HIDE DEF p, r
<1>6. t = [request |-> r, prepare |-> p, file |-> None, intent |-> FALSE,
           accepted |-> FALSE, played |-> FALSE, loaded |-> None, refused |-> None]
    BY <1>4 DEF Silent
<1> QED
    BY <1>1, <1>2, <1>3, <1>5, <1>6 DEF Service

LEMMA SilentType == Silent \in Service(Call)
BY DEF Silent, Service

LEMMA ContinuedType ==
    ASSUME NEW s \in Service(Call), s.prepare # None, NEW t, t = Continued(s)
    PROVE  /\ t \in Service(Call)
           /\ t.request # None /\ t.request.path = s.prepare.path
           /\ t.request.purpose = s.prepare.purpose /\ t.request.call = s.prepare.call
           /\ t.prepare = None /\ t.file = s.file /\ t.loaded = s.prepare.path
           /\ t.request.purpose = "USER_PLAY" => t.played
<1> DEFINE p == s.prepare
           r == [path |-> p.path, purpose |-> p.purpose, call |-> p.call]
           user == p.purpose = "USER_PLAY"
<1>1. r \in Request(Call) /\ r # None
    BY ServiceFields, RequestOf, NoneIsNothing
<1>2. PICK i \in BOOLEAN : i = (user \/ s.intent)
    BY ServiceFields
<1>3. PICK b \in BOOLEAN : b = (user \/ s.played)
    BY ServiceFields
<1>4. t = [s EXCEPT !.request = r, !.prepare = None, !.loaded = p.path,
                    !.accepted = FALSE, !.intent = i, !.played = b]
    BY <1>2, <1>3 DEF Continued
<1>5. p.path \in Paths
    BY ServiceFields
<1>6. r.path = p.path /\ r.purpose = p.purpose /\ r.call = p.call
    OBVIOUS
<1> HIDE DEF p, r
<1>7. t \in Service(Call)
    BY <1>1, <1>4, <1>5 DEF Service
<1>8. t.request = r /\ t.prepare = None /\ t.file = s.file /\ t.loaded = p.path /\ t.played = b
    BY <1>4 DEF Service
<1>9. t.request # None /\ t.request.path = p.path /\ t.request.purpose = p.purpose
      /\ t.request.call = p.call
    BY <1>1, <1>6, <1>8
<1> QED
    BY <1>3, <1>7, <1>8, <1>9 DEF p

LEMMA ClaimedType ==
    ASSUME NEW s \in Service(Call), s.prepare # None, s.prepare.purpose = "USER_PLAY",
           NEW t, t = Claimed(s)
    PROVE  /\ t \in Service(Call)
           /\ t.request # None /\ t.request.path = s.prepare.path
           /\ t.request.purpose = "USER_PLAY" /\ t.request.call = s.prepare.call
           /\ t.prepare # None /\ t.prepare.path = s.prepare.path
           /\ t.prepare.purpose = "USER_PLAY" /\ t.prepare.call = s.prepare.call
           /\ t.file = s.file
<1> DEFINE r == [path |-> s.prepare.path, purpose |-> "USER_PLAY", call |-> s.prepare.call]
           p == [s.prepare EXCEPT !.claimed = TRUE]
           l == s.prepare.path
<1>1. s.prepare \in Preparation(Call) /\ l \in Paths
    BY ServiceFields
<1>2. r \in Request(Call) /\ r # None
    BY ServiceFields, RequestOf, NoneIsNothing DEF Purposes
<1>3. p \in Preparation(Call) /\ p # None
    <2>1. p \in Preparation(Call)
        BY <1>1 DEF Preparation
    <2> QED
        BY <2>1, NoneIsNothing
<1>4. p.path = s.prepare.path /\ p.purpose = "USER_PLAY" /\ p.call = s.prepare.call
    BY <1>1 DEF Preparation
<1>5. t = [s EXCEPT !.request = r, !.prepare = p, !.loaded = l, !.accepted = FALSE,
                    !.intent = TRUE, !.played = FALSE]
    BY DEF Claimed, Service
<1>6. r.path = s.prepare.path /\ r.purpose = "USER_PLAY" /\ r.call = s.prepare.call
    OBVIOUS
<1> HIDE DEF p, r, l
<1>7. t \in Service(Call) /\ t.request = r /\ t.prepare = p /\ t.file = s.file
    BY <1>1, <1>2, <1>3, <1>5 DEF Service
<1> QED
    BY <1>2, <1>3, <1>4, <1>6, <1>7

LEMMA ContinueRaisesType ==
    ASSUME NEW s \in Service(Call), s.prepare # None, NEW kept \in BOOLEAN,
           NEW t, t = ContinueRaises(s, kept)
    PROVE  t \in Service(Call) /\ t.request = None /\ t.prepare = None /\ t.file = s.file
<1> DEFINE user == s.prepare.purpose = "USER_PLAY"
<1>1. PICK a \in BOOLEAN : a = (kept /\ s.prepare.accepted)
    BY ServiceFields
<1>2. PICK i \in BOOLEAN : i = (IF user THEN kept /\ s.prepare.intent ELSE s.intent)
    BY ServiceFields
<1>3. PICK b \in BOOLEAN : b = (~user /\ s.played)
    BY ServiceFields
<1>4. PICK l \in Paths \cup {None} : l = (IF kept THEN s.loaded ELSE None)
    BY ServiceFields
<1>5. t = [s EXCEPT !.request = None, !.prepare = None, !.loaded = l,
                    !.accepted = a, !.intent = i, !.played = b]
    BY <1>1, <1>2, <1>3, <1>4 DEF ContinueRaises
<1> QED
    BY <1>5 DEF Service

LEMMA PrepareFailedType ==
    ASSUME NEW s \in Service(Call), s.prepare # None, NEW predecessor \in Predecessors,
           NEW t, t = PrepareFailed(s, predecessor)
    PROVE  /\ t \in Service(Call) /\ t.prepare = None
           /\ t.file = s.file /\ t.loaded = s.loaded
           /\ t.request = None \/ t.request = s.request
           /\ s.prepare.purpose = "OUTPUT_HANDOVER" =>
                  t.request = s.request /\ t.played = s.played
           /\ s.prepare.purpose # "OUTPUT_HANDOVER" => t.request = None
<1> DEFINE p == s.prepare
<1>1. CASE p.purpose = "USER_PLAY"
    <2>1. PICK i \in BOOLEAN : i = (CASE predecessor = "kept"      -> p.intent
                                      [] predecessor = "released"  -> FALSE
                                      [] predecessor = "uncertain" -> s.intent)
        BY ServiceFields DEF Predecessors
    <2>2. PICK a \in BOOLEAN : a = (CASE predecessor = "kept"      -> p.accepted
                                      [] predecessor = "released"  -> FALSE
                                      [] predecessor = "uncertain" -> s.accepted)
        BY ServiceFields DEF Predecessors
    <2>3. t = [s EXCEPT !.prepare = None, !.request = None, !.played = FALSE,
                        !.intent = i, !.accepted = a]
        BY <1>1, <2>1, <2>2 DEF PrepareFailed, Service
    <2> QED
        BY <1>1, <2>3 DEF Service
<1>2. CASE p.purpose = "STARTUP_RESTORE"
    <2>1. t = [s EXCEPT !.prepare = None, !.request = None]
        BY <1>2 DEF PrepareFailed
    <2> QED
        BY <1>2, <2>1 DEF Service
<1>3. CASE p.purpose = "OUTPUT_HANDOVER"
    <2>1. t = [s EXCEPT !.prepare = None, !.intent = p.intent, !.accepted = p.accepted]
        BY <1>3 DEF PrepareFailed
    <2>2. p.intent \in BOOLEAN /\ p.accepted \in BOOLEAN
        BY ServiceFields
    <2> QED
        BY <1>3, <2>1, <2>2 DEF Service
<1> QED
    BY <1>1, <1>2, <1>3, ServiceFields DEF Purposes

LEMMA AcceptedType ==
    ASSUME NEW s \in Service(Call), s.request # None, NEW resumes \in BOOLEAN,
           NEW t, t = Accepted(s, resumes)
    PROVE  /\ t \in Service(Call) /\ t.request = None /\ t.prepare = s.prepare
           /\ t.file = s.request.path
<1>1. PICK i \in BOOLEAN : i = (resumes \/ s.intent)
    BY ServiceFields
<1>2. PICK f \in Paths : f = s.request.path
    BY ServiceFields
<1>3. t = [s EXCEPT !.request = None, !.loaded = None, !.file = f, !.intent = i,
                    !.accepted = TRUE, !.played = FALSE, !.refused = None]
    BY <1>1, <1>2 DEF Accepted
<1> QED
    BY <1>2, <1>3 DEF Service

LEMMA AdoptedType ==
    ASSUME NEW s \in Service(Call), s.request # None, NEW t, t = Adopted(s)
    PROVE  /\ t \in Service(Call) /\ t.request = None /\ t.prepare = None
           /\ t.file = s.request.path
<1>1. PICK u : u = [s EXCEPT !.prepare = None]
    OBVIOUS
<1>2. u \in Service(Call) /\ u.request = s.request /\ u.prepare = None
    BY <1>1 DEF Service
<1>3. t = Accepted(u, FALSE)
    BY <1>1 DEF Adopted
<1> QED
    BY <1>2, <1>3, AcceptedType

LEMMA RejectedType ==
    ASSUME NEW s \in Service(Call), NEW path \in Paths, NEW t, t = Rejected(s, path)
    PROVE  /\ t \in Service(Call) /\ t.file = s.file
           /\ t.prepare = IF Rejects(s, path) /\ Adopts(s) THEN None ELSE s.prepare
           /\ t.played = s.played
           /\ t.request = IF Rejects(s, path) THEN None ELSE s.request
           /\ t.loaded = IF s.loaded = path THEN None ELSE s.loaded
<1> DEFINE over    == Rejects(s, path)
           matters == over \/ s.file = path
<1>1. PICK r \in Request(Call) \cup {None} : r = (IF over THEN None ELSE s.request)
    BY ServiceFields
<1>2. PICK l \in Paths \cup {None} : l = (IF s.loaded = path THEN None ELSE s.loaded)
    BY ServiceFields
<1>3. PICK i \in BOOLEAN : i = (~matters /\ s.intent)
    BY ServiceFields
<1>4. PICK a \in BOOLEAN : a = (~matters /\ s.accepted)
    BY ServiceFields
<1>5. PICK p \in Preparation(Call) \cup {None} :
          p = (IF over /\ Adopts(s) THEN None ELSE s.prepare)
    BY ServiceFields
<1>6. t = [s EXCEPT !.request = r, !.prepare = p, !.loaded = l, !.intent = i, !.accepted = a]
    BY <1>1, <1>2, <1>3, <1>4, <1>5 DEF Rejected
<1> HIDE DEF over
<1>7. t \in Service(Call) /\ t.prepare = p /\ t.file = s.file /\ t.played = s.played
    BY <1>6 DEF Service
<1>8. t.request = r /\ t.loaded = l
    BY <1>6 DEF Service
<1> QED
    BY <1>1, <1>2, <1>5, <1>7, <1>8 DEF over

LEMMA StoppedType ==
    ASSUME NEW s \in Service(Call), NEW replayable \in BOOLEAN,
           NEW t, t = Stopped(s, replayable) \/ t = Lost(s)
    PROVE  t \in Service(Call) /\ t.request = None /\ t.prepare = None /\ t.file = s.file
<1>1. PICK a \in BOOLEAN : a = (replayable /\ s.accepted)
    BY ServiceFields
<1>2. \E b \in BOOLEAN : t = [s EXCEPT !.request = None, !.prepare = None, !.loaded = None,
                                       !.intent = FALSE, !.accepted = b]
    BY <1>1 DEF Stopped, Lost
<1> QED
    BY <1>2 DEF Service

-----------------------------------------------------------------------------
(* The inductive invariant.  Consistent, PlaysTheCurrent and               *)
(* PendingIsUnderWay say what the session may rely on; the rest says why:  *)
(* which of PlaybackService's requests belong to which of the session's.   *)

(* What is under way on the session's behalf is a user's request for the   *)
(* entry that the callbacks captured.                                      *)
Speaks(x) ==
    x.call # None =>
        /\ x.purpose = "USER_PLAY"
        /\ x.call.index \in 1 .. Len(x.call.entries)
        /\ x.path = Candidate(x.call).path

(* The pending candidate is queued exactly when its call is for the queue, *)
(* so that an acceptance of a pending call never finds its entry gone.     *)
Remembers(x) ==
    x.call # None /\ IsPending(x.call) =>
        session.queued = IF x.call.context = "QUEUE" THEN session.pending ELSE None

(* What is not pending for the session concerns what plays already.        *)
ForTheCurrent(path) == session.current # 0 /\ CurrentEntry.path = path

CallsAreOurs ==
    /\ service.request # None => Speaks(service.request) /\ Remembers(service.request)
    /\ service.prepare # None => Speaks(service.prepare) /\ Remembers(service.prepare)

(* A preparation that is no handover is that of the pending request, and   *)
(* the session's own never outlives it; nor does a claim.                  *)
PreparationIsTheRequests ==
    service.prepare # None =>
        /\ service.prepare.claimed =>
               service.request # None /\ service.prepare.purpose = "USER_PLAY"
        /\ IsPending(service.prepare.call) => service.request # None
        /\ service.request # None /\ service.prepare.purpose # "OUTPUT_HANDOVER" =>
               /\ service.prepare.call = service.request.call
               /\ service.prepare.path = service.request.path

(* A user's request that has no preparation of its own left has been       *)
(* played, and will be accepted when the engine reports it.                *)
PlayedWhenPrepared ==
    /\ service.request # None /\ service.request.purpose = "USER_PLAY"
    /\ service.prepare # None => service.prepare.purpose = "OUTPUT_HANDOVER"
    /\ ~history.dropped
    => service.played

NothingElsePlays ==
    ~history.diverted =>
        /\ service.request # None =>
               IsPending(service.request.call) \/ ForTheCurrent(service.request.path)
        /\ service.prepare # None =>
               \/ service.prepare.purpose = "OUTPUT_HANDOVER"
               \/ IsPending(service.prepare.call)
               \/ ForTheCurrent(service.prepare.path)

ContextIsOpen == session.current = 0 <=> session.context = "NONE"

SessionInv == CurrentIsAccepted /\ PendingIsQueued /\ ContextIsOpen

RequestsInv ==
    /\ PlaysTheCurrent /\ PendingIsUnderWay
    /\ CallsAreOurs /\ PreparationIsTheRequests /\ PlayedWhenPrepared /\ NothingElsePlays

Inv == TypeOK /\ SessionInv /\ RequestsInv

-----------------------------------------------------------------------------
(* What the steps have in common                                           *)

LEMMA SessionFields ==
    ASSUME TypeOK
    PROVE  /\ session.context \in Contexts /\ session.entries \in Seq(Entry)
           /\ session.current \in 0 .. Len(session.entries)
           /\ session.active \in Entry \cup {None}
           /\ session.pending \in Entry \cup {None}
           /\ session.queued \in Entry \cup {None}
           /\ session.shuffle \in BOOLEAN /\ session.repeat \in Repeats
           /\ history.accepted \in Entry \cup {None}
           /\ history.dropped \in BOOLEAN /\ history.diverted \in BOOLEAN
<1>1. session \in Session /\ session.current <= Len(session.entries) /\ history \in History
    BY DEF TypeOK
<1>2. session.entries \in Seq(Entry) /\ session.current \in Nat
    BY <1>1 DEF Session
<1>3. Len(session.entries) \in Nat
    BY <1>2, LenProperties
<1>4. session.current \in 0 .. Len(session.entries)
    BY <1>1, <1>2, <1>3
<1> QED
    BY <1>1, <1>4 DEF Session, History

LEMMA CurrentEntryType ==
    ASSUME TypeOK
    PROVE  /\ CurrentEntry \in Entry \cup {None}
           /\ CurrentEntry = None <=> session.current = 0
<1>1. CASE session.current = 0
    BY <1>1 DEF CurrentEntry
<1>2. CASE session.current # 0
    <2>1. session.current \in 1 .. Len(session.entries) /\ session.entries \in Seq(Entry)
        BY <1>2, SessionFields, LenProperties
    <2>2. CurrentEntry \in Entry
        BY <1>2, <2>1, EntryAt DEF CurrentEntry
    <2> QED
        BY <1>2, <2>2, NoneIsNothing
<1> QED
    BY <1>1, <1>2

LEMMA CandidateType ==
    ASSUME NEW call \in Call, call.index \in 1 .. Len(call.entries)
    PROVE  Candidate(call) \in Entry /\ Candidate(call) # None /\ call # None
<1>1. call.entries \in Seq(Entry)
    BY DEF Call
<1> QED
    BY <1>1, EntryAt, NoneIsNothing DEF Candidate

(* The session's current entry stays the same one.                         *)
SameCurrent ==
    /\ CurrentEntry' = CurrentEntry
    /\ session'.current = 0 <=> session.current = 0

(* Nothing is under way any more, and the media that plays is the same.    *)
LEMMA NothingUnderWay ==
    ASSUME Inv, SameCurrent, session'.context = "NONE" => session.context = "NONE",
           service'.request = None, service'.prepare = None, service'.file = service.file,
           ~history'.diverted => ~history.diverted,
           session'.pending = None \/ history'.dropped
    PROVE  RequestsInv'
<1>1. PlaysTheCurrent'
    BY DEF Inv, RequestsInv, PlaysTheCurrent, SameCurrent
<1>2. PendingIsUnderWay'
    BY DEF PendingIsUnderWay
<1>3. CallsAreOurs' /\ PreparationIsTheRequests' /\ PlayedWhenPrepared' /\ NothingElsePlays'
    BY DEF CallsAreOurs, PreparationIsTheRequests, PlayedWhenPrepared, NothingElsePlays
<1> QED
    BY <1>1, <1>2, <1>3 DEF RequestsInv

(* A session that leaves the queue, its current entry and its candidate    *)
(* alone still agrees with the queue.                                      *)
LEMMA SessionStays ==
    ASSUME Inv, queue' = queue, history'.accepted = history.accepted,
           session'.context = session.context, session'.entries = session.entries,
           session'.current = session.current, session'.active = session.active,
           \/ session'.queued = None
           \/ session'.queued = session.queued /\ session'.pending = session.pending
    PROVE  SessionInv' /\ SameCurrent
<1>1. CurrentEntry' = CurrentEntry
    BY DEF CurrentEntry
<1> QED
    BY <1>1 DEF Inv, SessionInv, CurrentIsAccepted, PendingIsQueued, ContextIsOpen, SameCurrent

(* The queue, the navigator and the bound are those of a legal step.       *)
Surroundings ==
    /\ queue \in Seq(Entry) /\ Len(queue) <= MaxQueue
    /\ IsNavigator(nav, Entry)
    /\ asks \in 0 .. MaxAsks

LEMMA TypeFrom ==
    ASSUME Surroundings', session' \in Session, session'.current <= Len(session'.entries),
           service' \in Service(Call), history' \in History
    PROVE  TypeOK'
BY DEF TypeOK, Surroundings

-----------------------------------------------------------------------------
(* Requests                                                                *)

(* A request of the session replaces whatever was under way.               *)
LEMMA RequestedStep ==
    ASSUME Inv, Surroundings',
           NEW context \in Contexts \ {"NONE"}, NEW entries \in Seq(Entry),
           NEW index \in 1 .. Len(entries),
           context = "QUEUE" => entries[index] \in ToSet(queue),
           Requested(context, entries, index)
    PROVE  Inv'
<1> DEFINE q == context = "QUEUE"
<1>1. PICK e \in Entry : e = entries[index]
    BY EntryAt
<1>2. PICK c : c = [context |-> context, live |-> TRUE,
                    entries |-> IF q THEN <<e>> ELSE entries,
                    index   |-> IF q THEN 1 ELSE index]
    OBVIOUS
<1>3. /\ c \in Call /\ c.live /\ c.context = context
      /\ c.index \in 1 .. Len(c.entries) /\ Candidate(c) = e
    <2>1. (IF q THEN <<e>> ELSE entries) \in Seq(Entry)
        BY <1>1
    <2>2. (IF q THEN 1 ELSE index) \in Nat \ {0}
        BY LenProperties
    <2>3. c \in Call
        BY <1>2, <2>1, <2>2 DEF Call
    <2> QED
        BY <1>1, <1>2, <2>3 DEF Candidate
<1>4. /\ service' = LoadAndPlay(service, e.path, c)
      /\ session' = [session EXCEPT !.pending = e, !.queued = IF q THEN e ELSE None]
      /\ history' = [history EXCEPT !.dropped = FALSE]
      /\ queue' = queue
    BY <1>1, <1>2 DEF Requested
<1>5. e.path \in Paths /\ c \in Calls /\ c # None /\ e # None
    BY <1>3, CandidateType DEF Entry, Calls
<1>6. TypeOK
    BY DEF Inv
<1>7. service \in Service(Call) /\ session \in Session /\ history \in History
    BY <1>6 DEF TypeOK
<1>8. /\ service' \in Service(Call)
      /\ service'.request = [path |-> e.path, purpose |-> "USER_PLAY", call |-> c]
      /\ service'.prepare # None /\ service'.request # None
      /\ service'.prepare.path = e.path /\ service'.prepare.purpose = "USER_PLAY"
      /\ service'.prepare.call = c /\ ~service'.prepare.claimed
      /\ service'.file = service.file
    BY <1>4, <1>5, <1>7, LoadAndPlayType
<1>9. /\ session'.pending = e /\ session'.queued = IF q THEN e ELSE None
      /\ session'.context = session.context /\ session'.entries = session.entries
      /\ session'.current = session.current /\ session'.active = session.active
    BY <1>4, <1>7 DEF Session
<1>10. /\ history'.accepted = history.accepted
       /\ history'.diverted = history.diverted
    BY <1>4, <1>7 DEF History
<1>11. TypeOK'
    <2>1. session' \in Session
        <3>1. (IF q THEN e ELSE None) \in Entry \cup {None}
            OBVIOUS
        <3> QED
            BY <1>4, <1>7, <3>1 DEF Session
    <2>2. history' \in History
        BY <1>4, <1>7 DEF History
    <2> QED
        BY <1>6, <1>8, <1>9, <2>1, <2>2, TypeFrom DEF TypeOK
<1> HIDE DEF q
<1>12. SessionInv' /\ SameCurrent
    <2>1. CurrentEntry' = CurrentEntry
        BY <1>9 DEF CurrentEntry
    <2>2. PendingIsQueued'
        BY <1>1, <1>4, <1>9 DEF PendingIsQueued, q
    <2> QED
        BY <1>9, <1>10, <2>1, <2>2
           DEF Inv, SessionInv, CurrentIsAccepted, ContextIsOpen, SameCurrent
<1>13. IsPending(c)'
    BY <1>3, <1>5, <1>9 DEF IsPending
<1>14. service'.request.path = e.path /\ service'.request.purpose = "USER_PLAY"
       /\ service'.request.call = c
    BY <1>8
<1>15. RequestsInv'
    <2>1. PlaysTheCurrent'
        BY <1>8, <1>9, <1>10, <1>12
           DEF Inv, RequestsInv, PlaysTheCurrent, SameCurrent
    <2>2. PendingIsUnderWay'
        BY <1>8, <1>13 DEF PendingIsUnderWay, UnderWay
    <2>3. CallsAreOurs'
        BY <1>3, <1>8, <1>9, <1>14 DEF CallsAreOurs, Speaks, Remembers, q
    <2>4. PreparationIsTheRequests' /\ PlayedWhenPrepared'
        BY <1>8, <1>14 DEF PreparationIsTheRequests, PlayedWhenPrepared
    <2>5. NothingElsePlays'
        BY <1>8, <1>13, <1>14 DEF NothingElsePlays
    <2> QED
        BY <2>1, <2>2, <2>3, <2>4, <2>5 DEF RequestsInv
<1> QED
    BY <1>11, <1>12, <1>15 DEF Inv

(* What the output loads again on nobody's behalf is what plays, or a      *)
(* retry that diverts the service from it.                                 *)
LEMMA LoadedAnew ==
    ASSUME Inv, Surroundings', NEW s \in Service(Call), NEW path \in Paths,
           s.file = service.file,
           service' = LoadAndPlay(s, path, None),
           UNCHANGED <<queue, session>>,
           history' \in History, history'.accepted = history.accepted,
           ~history'.diverted => ~history.diverted /\ ForTheCurrent(path),
           history'.dropped \/ session.pending = None
    PROVE  Inv'
<1>1. TypeOK /\ SessionInv /\ RequestsInv
    BY DEF Inv
<1>2. None \in Calls
    BY DEF Calls
<1>3. PICK r : r = [path |-> path, purpose |-> "USER_PLAY", call |-> None]
    OBVIOUS
<1>4. /\ service' \in Service(Call)
      /\ service'.request = r
      /\ service'.prepare # None /\ service'.request # None
      /\ service'.prepare.path = path /\ service'.prepare.purpose = "USER_PLAY"
      /\ service'.prepare.call = None /\ ~service'.prepare.claimed
      /\ service'.file = s.file
    BY <1>2, <1>3, LoadAndPlayType
<1>5. service'.request.path = path /\ service'.request.purpose = "USER_PLAY"
      /\ service'.request.call = None
    BY <1>3, <1>4
<1>6. TypeOK'
    BY <1>1, <1>4, TypeFrom DEF TypeOK
<1>7. SessionInv' /\ SameCurrent
    BY SessionStays
<1>8. ForTheCurrent(path) => ForTheCurrent(path)'
    BY <1>7 DEF ForTheCurrent, SameCurrent
<1>9. RequestsInv'
    <2>1. PlaysTheCurrent'
        BY <1>1, <1>4, <1>7 DEF RequestsInv, PlaysTheCurrent, SameCurrent
    <2>2. PendingIsUnderWay'
        BY DEF PendingIsUnderWay
    <2>3. CallsAreOurs'
        BY <1>4, <1>5 DEF CallsAreOurs, Speaks, Remembers
    <2>4. PreparationIsTheRequests' /\ PlayedWhenPrepared'
        BY <1>4, <1>5 DEF PreparationIsTheRequests, PlayedWhenPrepared
    <2>5. NothingElsePlays'
        BY <1>4, <1>5, <1>8 DEF NothingElsePlays, ForTheCurrent
    <2> QED
        BY <2>1, <2>2, <2>3, <2>4, <2>5 DEF RequestsInv
<1> QED
    BY <1>6, <1>7, <1>9 DEF Inv

(* What is under way stays so while the session leaves its candidate and   *)
(* its current entry alone.                                                *)
LEMMA RequestsStay ==
    ASSUME Inv, SameCurrent, session'.context = "NONE" => session.context = "NONE",
           session'.pending = session.pending, session'.queued = session.queued,
           service'.request = service.request, service'.prepare = service.prepare,
           service'.file = service.file, service'.played = service.played,
           service'.loaded = service.loaded \/ PendingIsUnderWay',
           UNCHANGED history
    PROVE  RequestsInv'
<1>1. RequestsInv
    BY DEF Inv
<1>2. PlaysTheCurrent'
    BY <1>1 DEF RequestsInv, PlaysTheCurrent, SameCurrent
<1>3. \A c : IsPending(c)' <=> IsPending(c)
    BY DEF IsPending
<1>4. \A path : ForTheCurrent(path)' <=> ForTheCurrent(path)
    BY DEF ForTheCurrent, SameCurrent
<1>5. PendingIsUnderWay'
    BY <1>1, <1>3 DEF RequestsInv, PendingIsUnderWay, UnderWay, IsPending
<1>6. CallsAreOurs'
    BY <1>1, <1>3 DEF RequestsInv, CallsAreOurs, Speaks, Remembers, IsPending
<1>7. PreparationIsTheRequests' /\ PlayedWhenPrepared'
    BY <1>1, <1>3 DEF RequestsInv, PreparationIsTheRequests, PlayedWhenPrepared, IsPending
<1>8. NothingElsePlays'
    BY <1>1, <1>3, <1>4
       DEF RequestsInv, NothingElsePlays, IsPending, ForTheCurrent, SameCurrent
<1> QED
    BY <1>2, <1>5, <1>6, <1>7, <1>8 DEF RequestsInv

(* Play, and the intent to: what is under way is not touched.              *)
LEMMA IntentStep ==
    ASSUME Inv, Surroundings', service' = [service EXCEPT !.intent = TRUE],
           UNCHANGED <<queue, session, nav, history>>
    PROVE  Inv'
<1>1. TypeOK
    BY DEF Inv
<1>2. /\ service' \in Service(Call)
      /\ service'.request = service.request /\ service'.prepare = service.prepare
      /\ service'.file = service.file /\ service'.loaded = service.loaded
      /\ service'.played = service.played
    BY <1>1 DEF TypeOK, Service
<1>3. TypeOK'
    BY <1>1, <1>2, TypeFrom DEF TypeOK
<1>4. SessionInv' /\ SameCurrent
    BY SessionStays
<1>5. RequestsInv'
    BY <1>2, <1>4, RequestsStay
<1> QED
    BY <1>3, <1>4, <1>5 DEF Inv

LEMMA PlayStep ==
    ASSUME Inv, Surroundings', Play
    PROVE  Inv'
<1>1. TypeOK /\ RequestsInv
    BY DEF Inv
<1>2. CASE ~service.accepted /\ service.request = None /\ service.file # None
    <2>1. service' = LoadAndPlay(service, service.file, None)
        BY <1>2 DEF Play, Played
    <2>2. service \in Service(Call) /\ service.file \in Paths
        BY <1>1, <1>2, ServiceFields DEF TypeOK
    <2>3. ~history.diverted => ForTheCurrent(service.file)
        BY <1>1, <1>2, CurrentEntryType
           DEF RequestsInv, PlaysTheCurrent, ForTheCurrent, Inv, SessionInv, ContextIsOpen
    <2>4. history.dropped \/ session.pending = None
        BY <1>1, <1>2 DEF RequestsInv, PendingIsUnderWay, UnderWay, PreparationIsTheRequests
    <2>5. history' \in History /\ UNCHANGED <<queue, session, history>>
        BY <1>1 DEF Play, TypeOK
    <2> QED
        BY <2>1, <2>2, <2>3, <2>4, <2>5, LoadedAnew
<1>3. CASE ~(~service.accepted /\ service.request = None /\ service.file # None)
    BY <1>3, IntentStep DEF Play, Played
<1> QED
    BY <1>2, <1>3

LEMMA RetryStep ==
    ASSUME Inv, Surroundings', Retry
    PROVE  Inv'
<1>1. TypeOK
    BY DEF Inv
<1>2. PICK s : s = [service EXCEPT !.refused = None]
    OBVIOUS
<1>3. s \in Service(Call) /\ s.file = service.file
    BY <1>1, <1>2 DEF TypeOK, Service
<1>4. service.refused \in Paths /\ service' = LoadAndPlay(s, service.refused, None)
    BY <1>1, <1>2, ServiceFields DEF Retry, Retried, TypeOK
<1>5. /\ history' \in History /\ history'.accepted = history.accepted
      /\ history'.dropped /\ history'.diverted
    BY <1>1 DEF Retry, TypeOK, History
<1>6. UNCHANGED <<queue, session>>
    BY DEF Retry
<1> QED
    BY <1>3, <1>4, <1>5, <1>6, LoadedAnew

(* A handover takes the place of the preparation, not of the request.      *)
LEMMA RerouteStep ==
    ASSUME Inv, Surroundings', Reroute
    PROVE  Inv'
<1>1. TypeOK /\ RequestsInv
    BY DEF Inv
<1>2. service' = PrepareForHandover(service) /\ service.file # None
    BY DEF Reroute
<1>3. /\ service' \in Service(Call)
      /\ service'.prepare # None /\ service'.prepare.purpose = "OUTPUT_HANDOVER"
      /\ service'.prepare.path = service.file /\ service'.prepare.call = None
      /\ ~service'.prepare.claimed
      /\ service'.request = service.request
      /\ service'.file = service.file /\ service'.loaded = service.loaded
      /\ service'.played = service.played
    BY <1>1, <1>2, HandoverType DEF TypeOK
<1>4. /\ history' \in History /\ history'.accepted = history.accepted
      /\ history'.diverted = history.diverted
      /\ history'.dropped = (history.dropped \/ service.prepare # None)
    <2>1. PICK b \in BOOLEAN : b = (history.dropped \/ service.prepare # None)
        OBVIOUS
    <2>2. history' = [history EXCEPT !.dropped = b]
        BY <2>1 DEF Reroute
    <2> QED
        BY <1>1, <2>1, <2>2 DEF TypeOK, History
<1>5. UNCHANGED <<queue, session>>
    BY DEF Reroute
<1>6. TypeOK'
    BY <1>1, <1>3, <1>4, <1>5, TypeFrom DEF TypeOK
<1>7. SessionInv' /\ SameCurrent
    BY <1>4, <1>5, SessionStays
<1>8. \A c : IsPending(c)' <=> IsPending(c)
    BY <1>5 DEF IsPending
<1>9. RequestsInv'
    <2>1. PlaysTheCurrent'
        BY <1>1, <1>3, <1>4, <1>5, <1>7 DEF RequestsInv, PlaysTheCurrent, SameCurrent
    <2>2. PendingIsUnderWay'
        BY <1>1, <1>3, <1>4, <1>5
           DEF RequestsInv, PendingIsUnderWay, UnderWay, IsPending
    <2>3. CallsAreOurs'
        BY <1>1, <1>3, <1>5
           DEF RequestsInv, CallsAreOurs, Speaks, Remembers, IsPending
    <2>4. PreparationIsTheRequests'
        BY <1>3 DEF PreparationIsTheRequests, IsPending
    <2>5. PlayedWhenPrepared'
        BY <1>1, <1>3, <1>4 DEF RequestsInv, PlayedWhenPrepared
    <2>6. NothingElsePlays'
        BY <1>1, <1>3, <1>4, <1>5, <1>7
           DEF RequestsInv, NothingElsePlays, ForTheCurrent, SameCurrent, IsPending
    <2> QED
        BY <2>1, <2>2, <2>3, <2>4, <2>5, <2>6 DEF RequestsInv
<1> QED
    BY <1>6, <1>7, <1>9 DEF Inv

(* Withdrawing a call forgets the candidate, or nothing.                   *)
LEMMA WithdrawnFields ==
    ASSUME TypeOK, NEW call, NEW t, t = Withdrawn(call)
    PROVE  /\ t \in Session
           /\ t.context = session.context /\ t.entries = session.entries
           /\ t.current = session.current /\ t.active = session.active
           /\ IsPending(call) => t.pending = None /\ t.queued = None
           /\ ~IsPending(call) => t = session
<1>1. session \in Session
    BY DEF TypeOK
<1>2. CASE IsPending(call)
    <2>1. t = [session EXCEPT !.pending = None, !.queued = None]
        BY <1>2 DEF Withdrawn
    <2> QED
        BY <1>1, <1>2, <2>1 DEF Session
<1>3. CASE ~IsPending(call)
    BY <1>1, <1>3 DEF Withdrawn
<1> QED
    BY <1>2, <1>3

(* Unless a request was lost, whoever withdraws the pending request of the *)
(* service withdraws what the session waits for.                           *)
LEMMA RequestIsPending ==
    ASSUME Inv, session.pending # None, ~history.dropped
    PROVE  IsPending(CallOf(service.request))
<1>1. RequestsInv /\ TypeOK
    BY DEF Inv
<1>2. UnderWay
    BY <1>1 DEF RequestsInv, PendingIsUnderWay
<1>3. CASE service.request # None /\ IsPending(service.request.call)
    BY <1>3 DEF CallOf
<1>4. CASE service.prepare # None /\ IsPending(service.prepare.call)
    <2>1. service.request # None
        BY <1>1, <1>4 DEF RequestsInv, PreparationIsTheRequests
    <2>2. service.prepare.purpose = "USER_PLAY"
        BY <1>1, <1>4 DEF RequestsInv, CallsAreOurs, Speaks, IsPending
    <2>3. service.prepare.call = service.request.call
        BY <1>1, <1>4, <2>1, <2>2 DEF RequestsInv, PreparationIsTheRequests
    <2> QED
        BY <1>4, <2>1, <2>3 DEF CallOf
<1> QED
    BY <1>2, <1>3, <1>4 DEF UnderWay

(* Stopped, or lost                                                        *)
LEMMA OverStep ==
    ASSUME Inv, Surroundings',
           service' \in Service(Call), service'.request = None, service'.prepare = None,
           service'.file = service.file,
           session' = Withdrawn(CallOf(service.request)),
           UNCHANGED <<queue, history>>
    PROVE  Inv'
<1>1. TypeOK
    BY DEF Inv
<1> DEFINE c == CallOf(service.request)
<1>2. /\ session' \in Session
      /\ session'.context = session.context /\ session'.entries = session.entries
      /\ session'.current = session.current /\ session'.active = session.active
      /\ IsPending(c) => session'.pending = None /\ session'.queued = None
      /\ ~IsPending(c) => session' = session
    BY <1>1, WithdrawnFields
<1> HIDE DEF c
<1>3. TypeOK'
    BY <1>1, <1>2, TypeFrom DEF TypeOK
<1>4. SessionInv' /\ SameCurrent
    BY <1>2, SessionStays
<1>5. session'.pending = None \/ history'.dropped
    BY <1>2, RequestIsPending DEF c
<1>6. RequestsInv'
    BY <1>2, <1>4, <1>5, NothingUnderWay
<1> QED
    BY <1>3, <1>4, <1>6 DEF Inv

LEMMA StopStep ==
    ASSUME Inv, Surroundings', StopPlayback
    PROVE  Inv'
<1>1. PICK replayable \in BOOLEAN : service' = Stopped(service, replayable)
    BY DEF StopPlayback
<1>2. service \in Service(Call)
    BY DEF Inv, TypeOK
<1>3. service' \in Service(Call) /\ service'.request = None /\ service'.prepare = None
      /\ service'.file = service.file
    BY <1>1, <1>2, StoppedType
<1> QED
    BY <1>3, OverStep DEF StopPlayback

LEMMA LostStep ==
    ASSUME Inv, Surroundings', EngineLost
    PROVE  Inv'
<1>1. service' = Lost(service)
    BY DEF EngineLost
<1>2. service \in Service(Call)
    BY DEF Inv, TypeOK
<1>3. service' \in Service(Call) /\ service'.request = None /\ service'.prepare = None
      /\ service'.file = service.file
    BY <1>1, <1>2, StoppedType
<1> QED
    BY <1>3, OverStep DEF EngineLost

-----------------------------------------------------------------------------
(* Answers                                                                 *)

(* The pending request of a preparation that is no handover is its own.    *)
LEMMA PendingPreparation ==
    ASSUME Inv, service.prepare # None, IsPending(service.prepare.call)
    PROVE  /\ service.prepare.purpose = "USER_PLAY"
           /\ service.request # None /\ service.request.call = service.prepare.call
<1>1. RequestsInv
    BY DEF Inv
<1>2. service.prepare.purpose = "USER_PLAY"
    BY <1>1 DEF RequestsInv, CallsAreOurs, Speaks, IsPending
<1> QED
    BY <1>1, <1>2 DEF RequestsInv, PreparationIsTheRequests

LEMMA PreparedStep ==
    ASSUME Inv, Surroundings', Prepared
    PROVE  Inv'
<1>1. TypeOK /\ SessionInv /\ RequestsInv
    BY DEF Inv
<1> DEFINE over == service.prepare.purpose = "OUTPUT_HANDOVER"
<1>2. /\ service.prepare # None /\ ~service.prepare.claimed
      /\ \/ service' = Continued(service)
         \/ service.prepare.purpose = "USER_PLAY" /\ service' = Claimed(service)
    BY DEF Prepared, InPreparation
<1>3. service \in Service(Call)
    BY <1>1 DEF TypeOK
<1>4. /\ service' \in Service(Call)
      /\ service'.request # None /\ service'.request.path = service.prepare.path
      /\ service'.request.purpose = service.prepare.purpose
      /\ service'.request.call = service.prepare.call
      /\ service'.file = service.file
      /\ \/ /\ service'.prepare = None /\ service'.loaded = service.prepare.path
            /\ service'.request.purpose = "USER_PLAY" => service'.played
         \/ /\ service'.prepare # None /\ service'.prepare.path = service.prepare.path
            /\ service'.prepare.purpose = "USER_PLAY"
            /\ service.prepare.purpose = "USER_PLAY"
            /\ service'.prepare.call = service.prepare.call
    <2>1. CASE service' = Continued(service)
        BY <1>2, <1>3, <2>1, ContinuedType
    <2>2. CASE service.prepare.purpose = "USER_PLAY" /\ service' = Claimed(service)
        BY <1>2, <1>3, <2>2, ClaimedType
    <2> QED
        BY <1>2, <2>1, <2>2
<1>5. /\ history' \in History /\ history'.accepted = history.accepted
      /\ history'.dropped = (history.dropped \/ (over /\ service.request # None))
      /\ history'.diverted = (history.diverted \/ (over /\ service.prepare.path # service.file))
    <2>1. PICK a \in BOOLEAN : a = (history.dropped \/ (over /\ service.request # None))
        OBVIOUS
    <2>2. PICK b \in BOOLEAN : b = (history.diverted \/ (over /\ service.prepare.path # service.file))
        OBVIOUS
    <2>3. history' = [history EXCEPT !.dropped = a, !.diverted = b]
        BY <2>1, <2>2 DEF Prepared
    <2> QED
        BY <1>1, <2>1, <2>2, <2>3 DEF TypeOK, History
<1>6. UNCHANGED <<queue, session>>
    BY DEF Prepared
<1>7. TypeOK'
    BY <1>1, <1>4, <1>5, <1>6, TypeFrom DEF TypeOK
<1>8. SessionInv' /\ SameCurrent
    BY <1>5, <1>6, SessionStays
<1>9. service.prepare.path \in Paths /\ service.prepare.path # None
    BY <1>2, <1>3, ServiceFields, NoneIsNothing
<1>10. RequestsInv'
    <2>1. PlaysTheCurrent'
        BY <1>1, <1>4, <1>5, <1>6, <1>8 DEF RequestsInv, PlaysTheCurrent, SameCurrent
    <2>2. PendingIsUnderWay'
        <3>1. SUFFICES ASSUME session.pending # None, ~history.dropped,
                              ~(over /\ service.request # None)
                       PROVE  UnderWay'
            BY <1>5, <1>6 DEF PendingIsUnderWay
        <3>2. IsPending(CallOf(service.request))
            BY <3>1, RequestIsPending
        <3>3. service.request # None /\ IsPending(service.request.call)
            BY <3>2 DEF CallOf, IsPending
        <3>4. service.prepare.call = service.request.call
            BY <1>1, <1>2, <3>1, <3>3 DEF RequestsInv, PreparationIsTheRequests
        <3> QED
            BY <1>4, <1>6, <3>3, <3>4 DEF UnderWay, IsPending
    <2>3. CallsAreOurs'
        BY <1>1, <1>2, <1>4, <1>6 DEF RequestsInv, CallsAreOurs, Speaks, Remembers, IsPending
    <2>4. PreparationIsTheRequests' /\ PlayedWhenPrepared'
        BY <1>4 DEF PreparationIsTheRequests, PlayedWhenPrepared
    <2>5. NothingElsePlays'
        <3>1. SUFFICES ASSUME ~history.diverted, over => service.prepare.path = service.file
                       PROVE  (\/ IsPending(service.request.call)
                               \/ ForTheCurrent(service.request.path))'
            BY <1>4, <1>5 DEF NothingElsePlays
        <3>2. CASE over
            <4>1. ForTheCurrent(service.prepare.path)
                BY <1>1, <1>9, <3>1, <3>2
                   DEF RequestsInv, PlaysTheCurrent, SessionInv, ContextIsOpen, ForTheCurrent
            <4> QED
                BY <1>4, <1>8, <4>1 DEF ForTheCurrent, SameCurrent
        <3>3. CASE ~over
            BY <1>1, <1>2, <1>4, <1>6, <1>8, <3>1, <3>3
               DEF RequestsInv, NothingElsePlays, ForTheCurrent, SameCurrent, IsPending
        <3> QED
            BY <3>2, <3>3
    <2> QED
        BY <2>1, <2>2, <2>3, <2>4, <2>5 DEF RequestsInv
<1> QED
    BY <1>7, <1>8, <1>10 DEF Inv

(* The preparation of a handover is over: the request goes on as it was.   *)
LEMMA HandoverOver ==
    ASSUME Inv, service.prepare # None, service.prepare.purpose = "OUTPUT_HANDOVER",
           service'.prepare = None, service'.request = service.request,
           service'.file = service.file, service'.loaded = service.loaded,
           service'.played = service.played,
           UNCHANGED session, SameCurrent, history'.diverted = history.diverted,
           ~history'.dropped => ~history.dropped
    PROVE  RequestsInv'
<1>1. TypeOK /\ RequestsInv
    BY DEF Inv
<1>2. \A c : IsPending(c)' <=> IsPending(c)
    BY DEF IsPending
<1>3. PlaysTheCurrent'
    BY <1>1 DEF RequestsInv, PlaysTheCurrent, SameCurrent
<1>4. PendingIsUnderWay'
    <2>1. ~IsPending(service.prepare.call)
        BY PendingPreparation
    <2> QED
        BY <1>1, <2>1 DEF RequestsInv, PendingIsUnderWay, UnderWay, IsPending
<1>5. CallsAreOurs'
    BY <1>1 DEF RequestsInv, CallsAreOurs, Speaks, Remembers, IsPending
<1>6. PreparationIsTheRequests' /\ PlayedWhenPrepared'
    BY <1>1 DEF RequestsInv, PreparationIsTheRequests, PlayedWhenPrepared
<1>7. NothingElsePlays'
    BY <1>1 DEF RequestsInv, NothingElsePlays, IsPending, ForTheCurrent, SameCurrent
<1> QED
    BY <1>3, <1>4, <1>5, <1>6, <1>7 DEF RequestsInv

LEMMA RaisesStep ==
    ASSUME Inv, Surroundings', Raises
    PROVE  Inv'
<1>1. TypeOK
    BY DEF Inv
<1>2. service \in Service(Call) /\ service.prepare # None
    BY <1>1 DEF TypeOK, Raises, InPreparation
<1>3. /\ history' \in History /\ history'.accepted = history.accepted
      /\ history'.dropped /\ history'.diverted = history.diverted
    BY <1>1 DEF Raises, TypeOK, History
<1>4. UNCHANGED <<queue, session>>
    BY DEF Raises
<1>5. SessionInv' /\ SameCurrent
    BY <1>3, <1>4, SessionStays
<1>6. service' \in Service(Call) /\ RequestsInv'
    <2>1. ASSUME NEW kept \in BOOLEAN, service' = ContinueRaises(service, kept)
          PROVE  service' \in Service(Call) /\ RequestsInv'
        <3>1. service' \in Service(Call) /\ service'.request = None /\ service'.prepare = None
              /\ service'.file = service.file
            BY <1>2, <2>1, ContinueRaisesType
        <3> QED
            BY <1>3, <1>4, <1>5, <3>1, NothingUnderWay
    <2>2. ASSUME NEW predecessor \in Predecessors,
                 service' = PrepareFailed(service, predecessor)
          PROVE  service' \in Service(Call) /\ RequestsInv'
        <3>1. /\ service' \in Service(Call) /\ service'.prepare = None
              /\ service'.file = service.file /\ service'.loaded = service.loaded
              /\ service.prepare.purpose = "OUTPUT_HANDOVER" =>
                     service'.request = service.request /\ service'.played = service.played
              /\ service.prepare.purpose # "OUTPUT_HANDOVER" => service'.request = None
            BY <1>2, <2>2, PrepareFailedType
        <3>2. CASE service.prepare.purpose = "OUTPUT_HANDOVER"
            BY <1>2, <1>3, <1>4, <1>5, <3>1, <3>2, HandoverOver
        <3>3. CASE service.prepare.purpose # "OUTPUT_HANDOVER"
            BY <1>3, <1>4, <1>5, <3>1, <3>3, NothingUnderWay
        <3> QED
            BY <3>1, <3>2, <3>3
    <2> QED
        BY <2>1, <2>2 DEF Raises
<1>7. TypeOK'
    BY <1>1, <1>3, <1>4, <1>6, TypeFrom DEF TypeOK
<1> QED
    BY <1>5, <1>6, <1>7 DEF Inv

LEMMA RefusedStep ==
    ASSUME Inv, Surroundings', Refused
    PROVE  Inv'
<1>1. TypeOK /\ RequestsInv
    BY DEF Inv
<1> DEFINE p == service.prepare
<1>2. service \in Service(Call) /\ p # None /\ UNCHANGED <<queue, history>>
    BY <1>1 DEF TypeOK, Refused, InPreparation
<1>3. PICK predecessor \in Predecessors, retry \in BOOLEAN :
          service' = [PrepareFailed(service, predecessor) EXCEPT
                         !.refused = IF retry THEN p.path ELSE @]
    BY DEF Refused
<1>4. PICK t : t = PrepareFailed(service, predecessor)
    OBVIOUS
<1>5. /\ t \in Service(Call) /\ t.prepare = None
      /\ t.file = service.file /\ t.loaded = service.loaded
      /\ p.purpose = "OUTPUT_HANDOVER" => t.request = service.request /\ t.played = service.played
      /\ p.purpose # "OUTPUT_HANDOVER" => t.request = None
    BY <1>2, <1>4, PrepareFailedType
<1>6. PICK r \in Paths \cup {None} : r = (IF retry THEN p.path ELSE t.refused)
    BY <1>2, <1>5, ServiceFields
<1>7. service' = [t EXCEPT !.refused = r]
    BY <1>3, <1>4, <1>6
<1>8. /\ service' \in Service(Call) /\ service'.prepare = None
      /\ service'.file = service.file /\ service'.loaded = service.loaded
      /\ p.purpose = "OUTPUT_HANDOVER" =>
             service'.request = service.request /\ service'.played = service.played
      /\ p.purpose # "OUTPUT_HANDOVER" => service'.request = None
    BY <1>5, <1>7 DEF Service
<1>9. session' = Withdrawn(p.call)
    BY DEF Refused
<1>10. /\ session' \in Session
       /\ session'.context = session.context /\ session'.entries = session.entries
       /\ session'.current = session.current /\ session'.active = session.active
       /\ IsPending(p.call) => session'.pending = None /\ session'.queued = None
       /\ ~IsPending(p.call) => session' = session
    BY <1>1, <1>9, WithdrawnFields
<1> HIDE DEF p
<1>11. TypeOK'
    BY <1>1, <1>2, <1>8, <1>10, TypeFrom DEF TypeOK
<1>12. SessionInv' /\ SameCurrent
    BY <1>2, <1>10, SessionStays
<1>13. RequestsInv'
    <2>1. CASE p.purpose = "OUTPUT_HANDOVER"
        <3>1. ~IsPending(p.call)
            BY <1>2, <2>1, PendingPreparation DEF p
        <3> QED
            BY <1>2, <1>8, <1>10, <1>12, <2>1, <3>1, HandoverOver DEF p
    <2>2. CASE p.purpose # "OUTPUT_HANDOVER"
        <3>1. session'.pending = None \/ history'.dropped
            <4>1. SUFFICES ASSUME session.pending # None, ~history.dropped
                           PROVE  IsPending(p.call)
                BY <1>2, <1>10
            <4>2. IsPending(CallOf(service.request))
                BY <4>1, RequestIsPending
            <4>3. service.request # None /\ IsPending(service.request.call)
                BY <4>2 DEF CallOf, IsPending
            <4> QED
                BY <1>1, <1>2, <2>2, <4>3 DEF RequestsInv, PreparationIsTheRequests, p
        <3> QED
            BY <1>2, <1>8, <1>10, <1>12, <2>2, <3>1, NothingUnderWay
    <2> QED
        BY <2>1, <2>2
<1> QED
    BY <1>11, <1>12, <1>13 DEF Inv

(* The engine accepts something that nobody waits for.                     *)
LEMMA IgnoredStep ==
    ASSUME Inv, Surroundings', ~Accepts(service), service.loaded # None,
           service' = [service EXCEPT !.loaded = None],
           UNCHANGED <<queue, session, history>>
    PROVE  Inv'
<1>1. TypeOK /\ RequestsInv
    BY DEF Inv
<1>2. /\ service' \in Service(Call)
      /\ service'.request = service.request /\ service'.prepare = service.prepare
      /\ service'.file = service.file /\ service'.played = service.played
    BY <1>1 DEF TypeOK, Service
<1>3. TypeOK'
    BY <1>1, <1>2, TypeFrom DEF TypeOK
<1>4. SessionInv' /\ SameCurrent
    BY SessionStays
<1>5. PendingIsUnderWay'
    <2>1. SUFFICES ASSUME session.pending # None, ~history.dropped
                   PROVE  UnderWay'
        BY DEF PendingIsUnderWay
    <2>2. UnderWay
        BY <1>1, <2>1 DEF RequestsInv, PendingIsUnderWay
    <2>3. CASE service.prepare # None /\ IsPending(service.prepare.call)
        BY <1>2, <2>3 DEF UnderWay, IsPending
    <2>4. CASE /\ service.request # None /\ IsPending(service.request.call)
               /\ service.loaded = service.request.path
        <3>1. service.request.purpose = "USER_PLAY" /\ ~service.played
            BY <2>4 DEF Accepts
        <3>2. service.prepare # None /\ service.prepare.purpose # "OUTPUT_HANDOVER"
            BY <1>1, <2>1, <2>4, <3>1 DEF RequestsInv, PlayedWhenPrepared
        <3>3. service.prepare.call = service.request.call
            BY <1>1, <2>4, <3>2 DEF RequestsInv, PreparationIsTheRequests
        <3> QED
            BY <1>2, <2>4, <3>2, <3>3 DEF UnderWay, IsPending
    <2> QED
        BY <2>2, <2>3, <2>4 DEF UnderWay
<1>6. RequestsInv'
    BY <1>2, <1>4, <1>5, RequestsStay
<1> QED
    BY <1>3, <1>4, <1>6 DEF Inv

(* A pending call always commits: its entry is still in the queue.         *)
LEMMA PendingCommits ==
    ASSUME Inv, service.request # None, IsPending(service.request.call)
    PROVE  Commits(service.request.call)
<1> DEFINE call == service.request.call
<1>1. TypeOK /\ SessionInv /\ RequestsInv
    BY DEF Inv
<1>2. call # None /\ session.pending = Candidate(call)
    BY DEF IsPending
<1>3. call \in Call /\ call.index \in 1 .. Len(call.entries)
    BY <1>1, <1>2, ServiceFields DEF TypeOK, Calls, RequestsInv, CallsAreOurs, Speaks
<1>4. Candidate(call) # None
    BY <1>3, CandidateType
<1>5. ASSUME call.context = "QUEUE" PROVE Candidate(call) \in ToSet(queue)
    <2>1. session.queued = session.pending
        BY <1>1, <1>2, <1>5 DEF RequestsInv, CallsAreOurs, Remembers
    <2> QED
        BY <1>1, <1>2, <1>4, <2>1 DEF SessionInv, PendingIsQueued
<1> QED
    BY <1>5 DEF Commits

(* The service publishes an acceptance, after an adoption or without one.  *)
AcceptedNow ==
    /\ service.request # None
    /\ service' \in Service(Call) /\ service'.request = None
    /\ service'.file = service.request.path
    /\ service'.prepare = None \/ (service'.prepare = service.prepare /\ ~Adopts(service))

(* An acceptance nobody of the session waits for is one of what plays.     *)
LEMMA AcceptedAgainStep ==
    ASSUME Inv, Surroundings', AcceptedNow, ~Commits(CallOf(service.request)),
           UNCHANGED <<queue, session, history>>
    PROVE  Inv'
<1>1. TypeOK /\ SessionInv /\ RequestsInv
    BY DEF Inv
<1>2. service \in Service(Call) /\ service.request # None
    BY <1>1 DEF TypeOK, AcceptedNow
<1>3. /\ service' \in Service(Call) /\ service'.request = None
      /\ service'.file = service.request.path
      /\ service'.prepare # None =>
             service'.prepare = service.prepare /\ ~service.prepare.claimed
    BY DEF AcceptedNow, Adopts
<1>4. TypeOK'
    BY <1>1, <1>3, TypeFrom DEF TypeOK
<1>5. SessionInv' /\ SameCurrent
    BY SessionStays
<1>6. ~IsPending(service.request.call)
    BY <1>2, PendingCommits DEF CallOf
<1>7. service.prepare # None => ~IsPending(service.prepare.call)
    BY <1>6, PendingPreparation
<1>8. PlaysTheCurrent'
    <2>1. SUFFICES ASSUME ~history.diverted
                   PROVE  session.context # "NONE" /\ CurrentEntry.path = service.request.path
        BY <1>3, <1>5 DEF PlaysTheCurrent, SameCurrent
    <2>2. ForTheCurrent(service.request.path)
        BY <1>1, <1>2, <1>6, <2>1 DEF RequestsInv, NothingElsePlays
    <2> QED
        BY <1>1, <2>2 DEF ForTheCurrent, SessionInv, ContextIsOpen
<1>9. PendingIsUnderWay'
    BY <1>2, <1>6, RequestIsPending DEF PendingIsUnderWay, CallOf
<1>10. CallsAreOurs'
    BY <1>1, <1>3 DEF RequestsInv, CallsAreOurs, Speaks, Remembers, IsPending
<1>11. PreparationIsTheRequests' /\ PlayedWhenPrepared'
    BY <1>3, <1>7 DEF PreparationIsTheRequests, PlayedWhenPrepared, IsPending
<1>12. NothingElsePlays'
    BY <1>1, <1>3, <1>5
       DEF RequestsInv, NothingElsePlays, ForTheCurrent, SameCurrent, IsPending
<1> QED
    BY <1>4, <1>5, <1>8, <1>9, <1>10, <1>11, <1>12 DEF Inv, RequestsInv

(* A commit puts the session where its candidate is.                       *)
LEMMA CommittedFields ==
    ASSUME Inv, NEW call \in Call, call.index \in 1 .. Len(call.entries), Commits(call),
           NEW e, e = Candidate(call), NEW t, t = Committed(call)
    PROVE  /\ t \in Session /\ t.pending = None /\ t.queued = None
           /\ t.context # "NONE" /\ t.current \in 1 .. Len(t.entries)
           /\ t.entries[t.current] = e
           /\ t.active = IF t.context = "QUEUE" THEN e ELSE None
           /\ t.shuffle = session.shuffle
<1> DEFINE q == call.context = "QUEUE"
<1>1. TypeOK
    BY DEF Inv
<1>2. /\ session \in Session /\ queue \in Seq(Entry)
      /\ call.entries \in Seq(Entry) /\ call.context \in Contexts \ {"NONE"}
    BY <1>1 DEF TypeOK, Call
<1>3. e \in Entry
    BY CandidateType
<1>4. PICK entries : entries = (IF q THEN queue ELSE call.entries)
    OBVIOUS
<1>5. PICK current : current = (IF q THEN IndexOf(queue, e) ELSE call.index)
    OBVIOUS
<1>6. PICK active \in Entry \cup {None} : active = (IF q THEN e ELSE None)
    BY <1>3
<1>7. entries \in Seq(Entry) /\ current \in 1 .. Len(entries) /\ entries[current] = e
    <2>1. CASE q
        BY <1>2, <1>4, <1>5, <2>1, IndexOfFinds DEF Commits
    <2>2. CASE ~q
        BY <1>2, <1>4, <1>5, <2>2 DEF Candidate
    <2> QED
        BY <2>1, <2>2
<1>8. current \in Nat
    BY <1>7
<1>9. t = [session EXCEPT !.pending = None, !.queued = None, !.context = call.context,
                          !.entries = entries, !.current = current, !.active = active]
    BY <1>4, <1>5, <1>6 DEF Committed
<1>10. /\ t \in Session /\ t.pending = None /\ t.queued = None /\ t.context = call.context
       /\ t.entries = entries /\ t.current = current /\ t.active = active
       /\ t.shuffle = session.shuffle
    BY <1>2, <1>6, <1>7, <1>8, <1>9 DEF Session
<1> QED
    BY <1>2, <1>6, <1>7, <1>10

LEMMA CommitStep ==
    ASSUME Inv, asks' \in 0 .. MaxAsks, AcceptedNow, Commits(CallOf(service.request)),
           NEW e, e = Candidate(CallOf(service.request)),
           session' = Committed(CallOf(service.request)),
           nav' = IF session.shuffle THEN RecordCommit(nav, e) ELSE nav,
           history' = [history EXCEPT !.accepted = e, !.diverted = FALSE],
           UNCHANGED queue
    PROVE  Inv'
<1>1. TypeOK /\ SessionInv /\ RequestsInv
    BY DEF Inv
<1>2. service \in Service(Call) /\ service.request # None
    BY <1>1 DEF TypeOK, AcceptedNow
<1>3. PICK call : call = service.request.call
    OBVIOUS
<1>4. CallOf(service.request) = call
    BY <1>2, <1>3 DEF CallOf
<1>5. call # None /\ Speaks(service.request)
    BY <1>1, <1>2, <1>4 DEF Commits, IsPending, RequestsInv, CallsAreOurs
<1>6. /\ call \in Call /\ call.index \in 1 .. Len(call.entries)
      /\ service.request.path = e.path
    BY <1>2, <1>3, <1>4, <1>5, ServiceFields DEF Calls, Speaks
<1>7. e \in Entry /\ e # None
    BY <1>4, <1>6, CandidateType
<1>8. /\ session' \in Session /\ session'.pending = None /\ session'.queued = None
      /\ session'.context # "NONE"
      /\ session'.current \in 1 .. Len(session'.entries)
      /\ session'.entries[session'.current] = e
      /\ session'.active = IF session'.context = "QUEUE" THEN e ELSE None
    BY <1>4, <1>6, CommittedFields
<1>9. session'.current # 0 /\ session'.current <= Len(session'.entries)
    <2>1. session'.entries \in Seq(Entry)
        BY <1>8 DEF Session
    <2> QED
        BY <1>8, <2>1, LenProperties
<1>10. CurrentEntry' = e
    BY <1>8, <1>9 DEF CurrentEntry
<1>11. /\ service' \in Service(Call) /\ service'.request = None /\ service'.file = e.path
       /\ service'.prepare # None =>
              service'.prepare = service.prepare /\ ~service.prepare.claimed
    BY <1>6 DEF AcceptedNow, Adopts
<1>12. history' \in History /\ history'.accepted = e
    BY <1>1, <1>7 DEF TypeOK, History
<1>13. IsNavigator(nav', Entry)
    <2>1. IsNavigator(nav, Entry)
        BY <1>1 DEF TypeOK
    <2> QED
        BY <1>7, <2>1, RecordCommitType
<1>14. TypeOK'
    BY <1>1, <1>8, <1>9, <1>11, <1>12, <1>13, TypeFrom DEF TypeOK, Surroundings
<1>15. SessionInv'
    BY <1>8, <1>9, <1>10, <1>12
       DEF SessionInv, CurrentIsAccepted, PendingIsQueued, ContextIsOpen
<1>16. ASSUME service'.prepare # None
       PROVE  service.prepare # None /\ Speaks(service.prepare)
              /\ ~IsPending(service.prepare.call)'
    <2>1. service.prepare # None /\ Speaks(service.prepare)
        BY <1>1, <1>11, <1>16 DEF RequestsInv, CallsAreOurs
    <2>2. service.prepare.call # None => Candidate(service.prepare.call) # None
        BY <1>2, <2>1, ServiceFields, CandidateType DEF Calls, Speaks
    <2>3. service'.prepare = service.prepare
        BY <1>11, <1>16
    <2> QED
        BY <1>8, <2>1, <2>2, <2>3 DEF IsPending
<1>17. PlaysTheCurrent' /\ PendingIsUnderWay'
    BY <1>8, <1>10, <1>11 DEF PlaysTheCurrent, PendingIsUnderWay
<1>18. CallsAreOurs'
    BY <1>11, <1>16 DEF CallsAreOurs, Speaks, Remembers
<1>19. PreparationIsTheRequests' /\ PlayedWhenPrepared'
    BY <1>11, <1>16 DEF PreparationIsTheRequests, PlayedWhenPrepared
<1>20. NothingElsePlays'
    <2>1. service.prepare # None /\ service.prepare.purpose # "OUTPUT_HANDOVER" =>
              service.prepare.path = e.path
        BY <1>1, <1>2, <1>6 DEF RequestsInv, PreparationIsTheRequests
    <2> QED
        BY <1>9, <1>10, <1>11, <2>1 DEF NothingElsePlays, ForTheCurrent
<1> QED
    BY <1>14, <1>15, <1>17, <1>18, <1>19, <1>20 DEF Inv, RequestsInv

LEMMA MediaAcceptedStep ==
    ASSUME Inv, asks' \in 0 .. MaxAsks, MediaAccepted
    PROVE  Inv'
<1> DEFINE call  == CallOf(service.request)
           heard == Adopts(service) \/ Accepts(service)
<1>1. TypeOK /\ RequestsInv
    BY DEF Inv
<1>2. queue' = queue /\ service \in Service(Call)
    BY <1>1 DEF MediaAccepted, TypeOK
<1>3. CASE ~heard
    <2>1. /\ service' = [service EXCEPT !.loaded = None] /\ service.loaded # None
          /\ UNCHANGED <<queue, session, nav, history>>
        BY <1>3 DEF MediaAccepted
    <2> QED
        BY <1>1, <1>2, <1>3, <2>1, IgnoredStep DEF TypeOK, Surroundings
<1>4. CASE heard
    <2>1. AcceptedNow
        <3>1. CASE Adopts(service)
            <4>1. service.request # None
                BY <1>1, <3>1 DEF RequestsInv, PreparationIsTheRequests, Adopts
            <4>2. service' = Adopted(service)
                BY <3>1 DEF MediaAccepted
            <4> QED
                BY <1>2, <4>1, <4>2, AdoptedType DEF AcceptedNow
        <3>2. CASE ~Adopts(service) /\ Accepts(service)
            <4>1. service.request # None
                BY <3>2 DEF Accepts
            <4>2. PICK resumes \in BOOLEAN : service' = Accepted(service, resumes)
                BY <3>2 DEF MediaAccepted
            <4> QED
                BY <1>2, <3>2, <4>1, <4>2, AcceptedType DEF AcceptedNow
        <3> QED
            BY <1>4, <3>1, <3>2
    <2>2. CASE Commits(call)
        <3>1. /\ session' = Committed(call)
              /\ nav' = IF session.shuffle THEN RecordCommit(nav, Candidate(call)) ELSE nav
              /\ history' = [history EXCEPT !.accepted = Candidate(call), !.diverted = FALSE]
            BY <1>4, <2>2 DEF MediaAccepted
        <3> QED
            BY <1>2, <2>1, <2>2, <3>1, CommitStep
    <2>3. CASE ~Commits(call)
        <3>1. UNCHANGED <<queue, session, nav, history>>
            BY <2>3 DEF MediaAccepted
        <3>2. Surroundings'
            BY <1>1, <3>1 DEF TypeOK, Surroundings
        <3> QED
            BY <2>1, <2>3, <3>1, <3>2, AcceptedAgainStep
    <2> QED
        BY <2>2, <2>3
<1> QED
    BY <1>3, <1>4

LEMMA MediaRejectedStep ==
    ASSUME Inv, Surroundings', NEW path \in Paths, MediaRejected(path)
    PROVE  Inv'
<1>1. TypeOK /\ SessionInv /\ RequestsInv
    BY DEF Inv
<1> DEFINE over == Rejects(service, path)
<1>2. service \in Service(Call) /\ UNCHANGED queue /\ service' = Rejected(service, path)
    BY <1>1 DEF TypeOK, MediaRejected
<1>3. /\ service' \in Service(Call)
      /\ service'.prepare = IF over /\ Adopts(service) THEN None ELSE service.prepare
      /\ service'.file = service.file /\ service'.played = service.played
      /\ service'.request = IF over THEN None ELSE service.request
      /\ service'.loaded = IF service.loaded = path THEN None ELSE service.loaded
    BY <1>2, RejectedType
<1>4. /\ history' \in History /\ history'.accepted = history.accepted
      /\ history'.dropped = history.dropped
      /\ history'.diverted = (history.diverted \/ (over /\ InPreparation))
    <2>1. PICK b \in BOOLEAN : b = (history.diverted \/ (over /\ InPreparation))
        OBVIOUS
    <2>2. history' = [history EXCEPT !.diverted = b]
        BY <2>1 DEF MediaRejected
    <2> QED
        BY <1>1, <2>1, <2>2 DEF TypeOK, History
<1>5. CASE over
    <2>1. session' = Withdrawn(service.request.call) /\ service.request # None
        BY <1>5 DEF MediaRejected, Rejects
    <2>2. /\ session' \in Session
          /\ session'.context = session.context /\ session'.entries = session.entries
          /\ session'.current = session.current /\ session'.active = session.active
          /\ IsPending(service.request.call) => session'.pending = None /\ session'.queued = None
          /\ ~IsPending(service.request.call) => session' = session
        BY <1>1, <2>1, WithdrawnFields
    <2>3. TypeOK'
        BY <1>1, <1>2, <1>3, <1>4, <2>2, TypeFrom DEF TypeOK
    <2>4. SessionInv' /\ SameCurrent
        BY <1>2, <1>4, <2>2, SessionStays
    <2>5. PlaysTheCurrent'
        BY <1>1, <1>3, <1>4, <2>2, <2>4 DEF RequestsInv, PlaysTheCurrent, SameCurrent
    <2>6. PendingIsUnderWay'
        BY <1>4, <2>1, <2>2, RequestIsPending DEF PendingIsUnderWay, CallOf
    <2>7. ASSUME service'.prepare # None
          PROVE  service'.prepare = service.prepare
                 /\ Speaks(service.prepare) /\ Remembers(service.prepare)
                 /\ ~IsPending(service.prepare.call)'
        <3>1. service'.prepare = service.prepare
              /\ Speaks(service.prepare) /\ Remembers(service.prepare)
            BY <1>1, <1>3, <2>7 DEF RequestsInv, CallsAreOurs
        <3>2. service.prepare.call # None => Candidate(service.prepare.call) # None
            BY <1>2, <2>7, <3>1, ServiceFields, CandidateType DEF Calls, Speaks
        <3>3. CASE IsPending(service.request.call)
            BY <1>3, <2>2, <3>1, <3>2, <3>3 DEF IsPending
        <3>4. CASE ~IsPending(service.request.call)
            BY <1>3, <2>2, <2>7, <3>1, <3>4, PendingPreparation DEF IsPending
        <3> QED
            BY <3>1, <3>3, <3>4
    <2>8. CallsAreOurs'
        BY <1>3, <1>5, <2>7 DEF CallsAreOurs, Speaks, Remembers
    <2>9. PreparationIsTheRequests' /\ PlayedWhenPrepared'
        BY <1>3, <1>5, <2>7 DEF PreparationIsTheRequests, PlayedWhenPrepared, Adopts
    <2>10. NothingElsePlays'
        BY <1>3, <1>4, <1>5 DEF NothingElsePlays, Adopts, InPreparation
    <2> QED
        BY <2>3, <2>4, <2>5, <2>6, <2>8, <2>9, <2>10 DEF Inv, RequestsInv
<1>6. CASE ~over
    <2>1. session' = session
        BY <1>6 DEF MediaRejected
    <2>2. TypeOK'
        BY <1>1, <1>2, <1>3, <1>4, <2>1, TypeFrom DEF TypeOK
    <2>3. SessionInv' /\ SameCurrent
        BY <1>2, <1>4, <2>1, SessionStays
    <2>4. history' = history
        <3>1. history'.diverted = history.diverted
            BY <1>1, <1>4, <1>6, SessionFields
        <3> QED
            BY <1>1, <1>4, <3>1 DEF TypeOK, History
    <2>5. PendingIsUnderWay'
        BY <1>1, <1>3, <1>6, <2>1, <2>4
           DEF RequestsInv, PendingIsUnderWay, UnderWay, IsPending, Rejects
    <2>6. RequestsInv'
        BY <1>3, <1>6, <2>1, <2>3, <2>4, <2>5, RequestsStay
    <2> QED
        BY <2>2, <2>3, <2>6 DEF Inv
<1> QED
    BY <1>5, <1>6

-----------------------------------------------------------------------------
(* The queue changes                                                       *)

(* The call as a request epoch leaves it that the session gave up.         *)
Lapsed(call) == IF call = None THEN None ELSE [call EXCEPT !.live = FALSE]

(* The candidate left the queue: the session forgets it, and stops.        *)
LEMMA CancelStep ==
    ASSUME Inv, Surroundings', CancelCandidate
    PROVE  Inv'
<1>1. TypeOK /\ SessionInv /\ RequestsInv
    BY DEF Inv
<1>2. session' = [session EXCEPT !.pending = None, !.queued = None]
    BY DEF CancelCandidate
<1>3. /\ session' \in Session
      /\ session'.context = session.context /\ session'.entries = session.entries
      /\ session'.current = session.current /\ session'.active = session.active
      /\ session'.pending = None /\ session'.queued = None
    BY <1>1, <1>2 DEF TypeOK, Session
<1>4. service \in Service(Call)
    BY <1>1 DEF TypeOK
<1>5. SameCurrent
    BY <1>3 DEF SameCurrent, CurrentEntry
<1>6. history'.accepted = history.accepted =>
          CurrentIsAccepted' /\ PendingIsQueued' /\ ContextIsOpen'
    BY <1>1, <1>3, <1>5
       DEF SessionInv, CurrentIsAccepted, PendingIsQueued, ContextIsOpen, SameCurrent
<1>7. ASSUME NEW replayable \in BOOLEAN, service' = Stopped(service, replayable),
             UNCHANGED history
      PROVE  Inv'
    <2>1. service' \in Service(Call) /\ service'.request = None /\ service'.prepare = None
          /\ service'.file = service.file
        BY <1>4, <1>7, StoppedType
    <2>2. RequestsInv'
        BY <1>3, <1>5, <1>7, <2>1, NothingUnderWay
    <2>3. TypeOK'
        BY <1>1, <1>3, <1>7, <2>1, TypeFrom DEF TypeOK
    <2> QED
        BY <1>6, <1>7, <2>2, <2>3 DEF Inv, SessionInv
<1>8. ASSUME service' = [service EXCEPT !.request = Stale(@), !.prepare = Stale(@)],
             history' = [history EXCEPT !.diverted = TRUE]
      PROVE  Inv'
    <2>1. ASSUME NEW r \in Request(Call) \cup Preparation(Call), r.call # None
          PROVE  /\ r # None
                 /\ Stale(r) # None /\ Stale(r).path = r.path /\ Stale(r).purpose = r.purpose
                 /\ Stale(r).call = [r.call EXCEPT !.live = FALSE]
                 /\ r \in Request(Call) => Stale(r) \in Request(Call)
                 /\ r \in Preparation(Call) =>
                        Stale(r) \in Preparation(Call) /\ Stale(r).claimed = r.claimed
        <3>1. r # None
            BY NoneIsNothing
        <3>2. PICK c : c = [r.call EXCEPT !.live = FALSE]
            OBVIOUS
        <3>3. Stale(r) = [r EXCEPT !.call = c]
            BY <2>1, <3>1, <3>2 DEF Stale
        <3>4. r.call \in Call
            BY <2>1 DEF Request, Preparation
        <3>5. c \in Call
            BY <3>2, <3>4 DEF Call
        <3>6. /\ r \in Request(Call) => Stale(r) \in Request(Call)
              /\ r \in Preparation(Call) =>
                     Stale(r) \in Preparation(Call) /\ Stale(r).claimed = r.claimed
            BY <3>3, <3>5 DEF Request, Preparation
        <3>7. Stale(r).path = r.path /\ Stale(r).purpose = r.purpose /\ Stale(r).call = c
            BY <3>3 DEF Request, Preparation
        <3> QED
            BY <3>1, <3>2, <3>6, <3>7, NoneIsNothing
    <2>2. \A r : r = None \/ r.call = None => Stale(r) = r
        BY DEF Stale
    <2>3. /\ service.request \in Request(Call) \cup {None}
          /\ service.prepare \in Preparation(Call) \cup {None}
        BY <1>4, ServiceFields
    <2>4. /\ Stale(service.request) \in Request(Call) \cup {None}
          /\ Stale(service.prepare) \in Preparation(Call) \cup {None}
        BY <2>1, <2>2, <2>3
    <2>5. /\ service' \in Service(Call)
          /\ service'.request = Stale(service.request)
          /\ service'.prepare = Stale(service.prepare)
          /\ service'.file = service.file /\ service'.played = service.played
        BY <1>4, <1>8, <2>4 DEF Service
    <2>6. history' \in History /\ history'.diverted /\ history'.accepted = history.accepted
          /\ history'.dropped = history.dropped
        BY <1>1, <1>8 DEF TypeOK, History
    <2>7. TypeOK'
        BY <1>1, <1>3, <2>5, <2>6, TypeFrom DEF TypeOK
    <2>8. ASSUME NEW r \in Request(Call) \cup Preparation(Call), Speaks(r)
          PROVE  Speaks(Stale(r)) /\ (Stale(r).call # None => ~Stale(r).call.live)
        <3>1. CASE r.call = None
            BY <2>2, <2>8, <3>1
        <3>2. CASE r.call # None
            <4>1. r.call \in Call
                BY <3>2 DEF Request, Preparation
            <4>2. PICK c : c = Stale(r).call
                OBVIOUS
            <4>3. /\ c.entries = r.call.entries /\ c.index = r.call.index /\ ~c.live
                BY <2>1, <3>2, <4>1, <4>2 DEF Call
            <4>4. Candidate(c) = Candidate(r.call)
                BY <4>3 DEF Candidate
            <4> QED
                BY <2>1, <2>8, <3>2, <4>2, <4>3, <4>4 DEF Speaks
        <3> QED
            BY <3>1, <3>2
    <2>9. \A r \in Request(Call) \cup Preparation(Call) :
              /\ Stale(r) # None /\ Stale(r).path = r.path /\ Stale(r).purpose = r.purpose
              /\ Stale(r).call = Lapsed(r.call)
              /\ r \in Preparation(Call) => Stale(r).claimed = r.claimed
        BY <2>1, <2>2, NoneIsNothing DEF Lapsed
    <2>10. ASSUME service'.request # None
           PROVE  /\ service.request # None /\ Speaks(service'.request)
                  /\ service'.request.call # None => ~service'.request.call.live
        <3>1. service.request # None
            BY <2>2, <2>5, <2>10
        <3>2. Speaks(service.request)
            BY <1>1, <3>1 DEF RequestsInv, CallsAreOurs
        <3> QED
            BY <2>3, <2>5, <2>8, <3>1, <3>2
    <2>11. ASSUME service'.prepare # None
           PROVE  /\ service.prepare # None /\ Speaks(service'.prepare)
                  /\ service'.prepare.call # None => ~service'.prepare.call.live
        <3>1. service.prepare # None
            BY <2>2, <2>5, <2>11
        <3>2. Speaks(service.prepare)
            BY <1>1, <3>1 DEF RequestsInv, CallsAreOurs
        <3> QED
            BY <2>3, <2>5, <2>8, <3>1, <3>2
    <2>12. CallsAreOurs'
        BY <2>10, <2>11 DEF CallsAreOurs, Speaks, Remembers, IsPending
    <2>13. PreparationIsTheRequests'
        <3>1. SUFFICES ASSUME service'.prepare # None
                       PROVE  /\ service'.prepare.claimed =>
                                     /\ service'.request # None
                                     /\ service'.prepare.purpose = "USER_PLAY"
                              /\ ~IsPending(service.prepare.call)'
                              /\ service'.request # None /\ service'.prepare.purpose # "OUTPUT_HANDOVER" =>
                                     /\ service'.prepare.call = service'.request.call
                                     /\ service'.prepare.path = service'.request.path
            BY DEF PreparationIsTheRequests
        <3>2. ~IsPending(service.prepare.call)'
            BY <2>11, <3>1 DEF IsPending
        <3>3. ASSUME service'.request # None, service'.prepare.purpose # "OUTPUT_HANDOVER"
              PROVE  service'.prepare.call = service'.request.call
                     /\ service'.prepare.path = service'.request.path
            <4>1. service.request # None /\ service.prepare # None
                BY <2>10, <2>11, <3>1, <3>3
            <4>2. /\ service.prepare.call = service.request.call
                  /\ service.prepare.path = service.request.path
                BY <1>1, <2>3, <2>5, <2>9, <3>3, <4>1 DEF RequestsInv, PreparationIsTheRequests
            <4>3. service'.prepare.path = service'.request.path
                BY <2>3, <2>5, <2>9, <4>1, <4>2
            <4>4. service'.prepare.call = service'.request.call
                <5>1. PICK a : a = service.prepare
                    OBVIOUS
                <5>2. PICK b : b = service.request
                    OBVIOUS
                <5>3. a \in Preparation(Call) /\ b \in Request(Call) /\ a.call = b.call
                    BY <2>3, <4>1, <4>2, <5>1, <5>2
                <5>4. Stale(a).call = Stale(b).call
                    BY <2>9, <5>3
                <5> QED
                    BY <2>5, <5>1, <5>2, <5>4
            <4> QED
                BY <4>3, <4>4
        <3>4. ASSUME service'.prepare.claimed
              PROVE  service'.request # None /\ service'.prepare.purpose = "USER_PLAY"
            <4>1. service.prepare # None /\ service.prepare \in Preparation(Call)
                BY <2>3, <2>11, <3>1
            <4>2. service.prepare.claimed
                BY <2>5, <2>9, <3>4, <4>1
            <4>3. service.request # None /\ service.prepare.purpose = "USER_PLAY"
                BY <1>1, <4>1, <4>2 DEF RequestsInv, PreparationIsTheRequests
            <4> QED
                BY <2>3, <2>5, <2>9, <4>1, <4>3
        <3> QED
            BY <3>2, <3>3, <3>4
    <2>14. PlayedWhenPrepared'
        <3>1. SUFFICES ASSUME service'.request # None, service'.request.purpose = "USER_PLAY",
                              service'.prepare # None =>
                                  service'.prepare.purpose = "OUTPUT_HANDOVER",
                              ~history.dropped
                       PROVE  service.played
            BY <2>5, <2>6 DEF PlayedWhenPrepared
        <3>2. service.request # None /\ service.request.purpose = "USER_PLAY"
            BY <2>3, <2>5, <2>9, <2>10, <3>1
        <3>3. service.prepare # None => service.prepare.purpose = "OUTPUT_HANDOVER"
            BY <2>3, <2>5, <2>9, <3>1
        <3> QED
            BY <1>1, <3>1, <3>2, <3>3 DEF RequestsInv, PlayedWhenPrepared
    <2>15. PlaysTheCurrent' /\ PendingIsUnderWay' /\ NothingElsePlays'
        BY <1>3, <2>6 DEF PlaysTheCurrent, PendingIsUnderWay, NothingElsePlays
    <2> QED
        BY <1>6, <2>6, <2>7, <2>12, <2>13, <2>14, <2>15 DEF Inv, SessionInv, RequestsInv
<1> QED
    BY <1>7, <1>8 DEF CancelCandidate

(* The session follows its entry through the queue, or leaves with it.     *)
LEMMA FollowStep ==
    ASSUME Inv, asks' \in 0 .. MaxAsks,
           NEW new \in Seq(Entry), Len(new) <= MaxQueue, queue' = new,
           session.context = "QUEUE",
           session.queued # None => session.queued \in ToSet(new),
           Follow(new)
    PROVE  Inv'
<1>1. TypeOK /\ SessionInv /\ RequestsInv
    BY DEF Inv
<1> DEFINE gone == session.active # None /\ session.active \notin ToSet(new)
<1>2. UNCHANGED <<service, history>>
    BY DEF Follow
<1>3. session \in Session /\ service \in Service(Call) /\ history \in History
      /\ IsNavigator(nav, Entry)
    BY <1>1 DEF TypeOK
<1>4. /\ CurrentEntry = history.accepted /\ session.active = CurrentEntry
      /\ CurrentEntry \in Entry \cup {None}
      /\ CurrentEntry = None <=> session.current = 0
    BY <1>1, CurrentEntryType DEF SessionInv, CurrentIsAccepted
<1>5. IsNavigator(nav', Entry)
    <2>1. IsNavigator(Synchronized(nav, ToSet(new), session.active), Entry)
        BY <1>3, RangeIsEntries, SynchronizedType
    <2> QED
        BY <2>1, ClearedType DEF Follow
<1>6. /\ session' \in Session /\ session'.current <= Len(session'.entries)
      /\ session'.pending = session.pending /\ session'.queued = session.queued
      /\ session'.context \in {"QUEUE", "SINGLE"}
      /\ session'.active = IF session'.context = "QUEUE" THEN CurrentEntry ELSE None
      /\ SameCurrent
    <2>1. CASE session.active = None
        <3>1. session.active \notin ToSet(new)
            BY <2>1, RangeIsEntries, NoneIsNothing
        <3>2. session' = session
            BY <2>1, <3>1 DEF Follow
        <3> QED
            BY <1>1, <1>4, <2>1, <3>2 DEF SameCurrent, CurrentEntry, TypeOK
    <2>2. CASE gone
        <3>1. session' = [session EXCEPT !.context = "SINGLE", !.entries = <<CurrentEntry>>,
                                         !.current = 1, !.active = None]
            BY <2>2 DEF Follow
        <3>2. CurrentEntry \in Entry /\ session.current # 0
            BY <1>4, <2>2
        <3>3. PICK e \in Entry : e = CurrentEntry
            BY <3>2
        <3>4. PICK one : one = <<e>>
            OBVIOUS
        <3>5. one \in Seq(Entry) /\ one[1] = e /\ Len(one) = 1
            BY <3>4, OneIsSeq
        <3>6. session' = [session EXCEPT !.context = "SINGLE", !.entries = one,
                                         !.current = 1, !.active = None]
            BY <3>1, <3>3, <3>4
        <3>7. /\ session'.context = "SINGLE" /\ session'.entries = one
              /\ session'.current = 1 /\ session'.active = None
              /\ session'.pending = session.pending /\ session'.queued = session.queued
            BY <1>3, <3>6 DEF Session
        <3>8. session' \in Session
            BY <1>3, <3>5, <3>6 DEF Session, Contexts
        <3>9. CurrentEntry' = CurrentEntry
            BY <3>3, <3>5, <3>7 DEF CurrentEntry
        <3>10. session'.current <= Len(session'.entries) /\ session'.current # 0
            <4>1. Len(session'.entries) = 1
                BY <3>5, <3>7, Zenon
            <4>2. 1 <= 1 /\ 1 # 0
                OBVIOUS
            <4> QED
                BY <3>7, <4>1, <4>2, Zenon
        <3>11. SameCurrent
            BY <3>2, <3>9, <3>10 DEF SameCurrent
        <3> QED
            BY <3>7, <3>8, <3>10, <3>11
    <2>3. CASE session.active \in ToSet(new)
        <3>1. CurrentEntry # None /\ session.active # None
            <4>1. session.active \in Entry
                BY <2>3, RangeIsEntries
            <4> QED
                BY <1>4, <4>1, NoneIsNothing
        <3>2. PICK i : i = IndexOf(new, session.active)
            OBVIOUS
        <3>3. i \in 1 .. Len(new) /\ new[i] = session.active
            BY <2>3, <3>2, IndexOfFinds
        <3>4. session' = [session EXCEPT !.entries = new, !.current = i]
            BY <2>3, <3>1, <3>2 DEF Follow
        <3>5. i \in Nat /\ i # 0 /\ i <= Len(new)
            BY <3>3, LenProperties
        <3>6. /\ session' \in Session
              /\ session'.context = session.context /\ session'.entries = new
              /\ session'.current = i /\ session'.active = session.active
              /\ session'.pending = session.pending /\ session'.queued = session.queued
            BY <1>3, <3>4, <3>5 DEF Session
        <3>7. CurrentEntry' = CurrentEntry
            BY <1>4, <3>3, <3>5, <3>6 DEF CurrentEntry
        <3> QED
            BY <1>4, <3>1, <3>5, <3>6, <3>7 DEF SameCurrent
    <2> QED
        BY <2>1, <2>2, <2>3
<1>7. TypeOK'
    BY <1>2, <1>3, <1>5, <1>6 DEF TypeOK
<1>8. SessionInv'
    <2>1. CurrentIsAccepted'
        BY <1>2, <1>4, <1>6 DEF CurrentIsAccepted, SameCurrent
    <2>2. PendingIsQueued'
        BY <1>1, <1>6 DEF SessionInv, PendingIsQueued
    <2>3. ContextIsOpen'
        BY <1>1, <1>6 DEF SessionInv, ContextIsOpen, SameCurrent
    <2> QED
        BY <2>1, <2>2, <2>3 DEF SessionInv
<1>9. RequestsInv'
    BY <1>2, <1>6, RequestsStay
<1> QED
    BY <1>7, <1>8, <1>9 DEF Inv

LEMMA MutateStep ==
    ASSUME Inv, asks' \in 0 .. MaxAsks,
           NEW new \in Seq(Entry), Len(new) <= MaxQueue, Mutate(new)
    PROVE  Inv'
<1>1. TypeOK /\ SessionInv /\ queue' = new
    BY DEF Inv, Mutate
<1>2. CASE session.queued # None /\ session.queued \notin ToSet(new)
    <2>1. CancelCandidate
        BY <1>2 DEF Mutate
    <2>2. nav' = nav
        BY <2>1 DEF CancelCandidate
    <2> QED
        BY <1>1, <2>1, <2>2, CancelStep DEF Surroundings, TypeOK
<1>3. CASE ~(session.queued # None /\ session.queued \notin ToSet(new))
    <2>1. CASE session.context = "QUEUE"
        BY <1>1, <1>3, <2>1, FollowStep DEF Mutate
    <2>2. CASE session.context # "QUEUE"
        <3>1. UNCHANGED <<session, nav, service, history>>
            BY <1>3, <2>2 DEF Mutate
        <3>2. TypeOK'
            BY <1>1, <3>1 DEF TypeOK
        <3>3. SameCurrent
            BY <3>1 DEF SameCurrent, CurrentEntry
        <3>4. SessionInv'
            BY <1>1, <1>3, <3>1, <3>3
               DEF SessionInv, CurrentIsAccepted, PendingIsQueued, ContextIsOpen, SameCurrent
        <3>5. RequestsInv'
            BY <3>1, <3>3, RequestsStay
        <3> QED
            BY <3>2, <3>4, <3>5 DEF Inv
    <2> QED
        BY <2>1, <2>2
<1> QED
    BY <1>2, <1>3

(* Each of the queue's operations hands it a sequence that is not too long.*)
LEMMA QueueStep ==
    ASSUME Inv, asks' \in 0 .. MaxAsks,
           \/ \E i \in 1 .. Len(queue) + 1, es \in Fresh(1) : InsertTrack(i, es[1])
           \/ \E n \in 2 .. MaxQueue : \E es \in Fresh(n) : AddMany(es) \/ ReplaceQueue(es)
           \/ \E i \in 1 .. Len(queue) : RemoveTrack(i)
           \/ \E i, j \in 1 .. Len(queue) : MoveTrack(i, j)
           \/ ClearQueue
    PROVE  Inv'
<1>1. queue \in Seq(Entry) /\ Len(queue) <= MaxQueue /\ Len(queue) \in Nat /\ MaxQueue \in Nat
    BY LenProperties, BoundsAssumption DEF Inv, TypeOK
<1>2. ASSUME NEW i \in 1 .. Len(queue) + 1, NEW es \in Fresh(1), InsertTrack(i, es[1])
      PROVE  Inv'
    <2>1. es[1] \in Entry
        BY DEF Fresh
    <2>2. PICK new : new = InsertAt(queue, i, es[1])
        OBVIOUS
    <2>3. new \in Seq(Entry) /\ Len(new) = Len(queue) + 1
        BY <1>1, <2>1, <2>2, InsertAtType
    <2>4. Len(queue) < MaxQueue /\ Mutate(new)
        BY <1>2, <2>2 DEF InsertTrack
    <2>5. Len(new) <= MaxQueue
        BY <1>1, <2>3, <2>4
    <2> QED
        BY <2>3, <2>4, <2>5, MutateStep
<1>3. ASSUME NEW n \in 2 .. MaxQueue, NEW es \in Fresh(n), AddMany(es) \/ ReplaceQueue(es)
      PROVE  Inv'
    <2>1. es \in Seq(Entry) /\ Len(es) = n
        BY TupleIsSeq DEF Fresh
    <2>2. CASE AddMany(es)
        <3>1. PICK new : new = queue \o es
            OBVIOUS
        <3>2. new \in Seq(Entry) /\ Len(new) = Len(queue) + Len(es)
            BY <1>1, <2>1, <3>1, ConcatProperties
        <3>3. Len(new) <= MaxQueue /\ Mutate(new)
            BY <2>2, <3>1, <3>2 DEF AddMany
        <3> QED
            BY <3>2, <3>3, MutateStep
    <2>3. CASE ReplaceQueue(es)
        BY <2>1, <2>3, MutateStep DEF ReplaceQueue
    <2> QED
        BY <1>3, <2>2, <2>3
<1>4. ASSUME NEW i \in 1 .. Len(queue), RemoveTrack(i)
      PROVE  Inv'
    <2>1. PICK new : new = RemoveAt(queue, i)
        OBVIOUS
    <2>2. new \in Seq(Entry) /\ Len(new) = Len(queue) - 1
        BY <1>1, <2>1, RemoveAtType
    <2>3. Len(new) <= MaxQueue /\ Mutate(new)
        BY <1>1, <1>4, <2>1, <2>2 DEF RemoveTrack
    <2> QED
        BY <2>2, <2>3, MutateStep
<1>5. ASSUME NEW i \in 1 .. Len(queue), NEW j \in 1 .. Len(queue), MoveTrack(i, j)
      PROVE  Inv'
    <2>1. PICK rest : rest = RemoveAt(queue, i)
        OBVIOUS
    <2>2. rest \in Seq(Entry) /\ Len(rest) = Len(queue) - 1
        BY <1>1, <2>1, RemoveAtType
    <2>3. queue[i] \in Entry /\ j \in 1 .. Len(rest) + 1
        BY <1>1, <2>2, EntryAt
    <2>4. PICK new : new = InsertAt(rest, j, queue[i])
        OBVIOUS
    <2>5. new \in Seq(Entry) /\ Len(new) = Len(rest) + 1
        BY <2>2, <2>3, <2>4, InsertAtType
    <2>6. Len(new) <= MaxQueue
        BY <1>1, <2>2, <2>5
    <2>7. Mutate(new)
        BY <1>5, <2>1, <2>4 DEF MoveTrack
    <2> QED
        BY <2>5, <2>6, <2>7, MutateStep
<1>6. CASE ClearQueue
    <2>1. PICK new : new = <<>>
        OBVIOUS
    <2>2. new \in Seq(Entry) /\ Len(new) = 0
        BY <2>1, NoHistory
    <2>3. Len(new) <= MaxQueue /\ Mutate(new)
        BY <1>1, <1>6, <2>1, <2>2 DEF ClearQueue
    <2> QED
        BY <2>2, <2>3, MutateStep
<1> QED
    BY <1>2, <1>3, <1>4, <1>5, <1>6

-----------------------------------------------------------------------------
(* Navigation                                                              *)

LEMMA PositionType ==
    ASSUME Inv, Navigable
    PROVE  /\ Sequence \in Seq(Entry) /\ Len(Sequence) \in Nat
           /\ Position \in 1 .. Len(Sequence)
<1>1. TypeOK
    BY DEF Inv
<1>2. /\ queue \in Seq(Entry) /\ session.entries \in Seq(Entry)
      /\ session.current \in 0 .. Len(session.entries)
    BY <1>1, SessionFields DEF TypeOK
<1>3. Position # 0
    BY DEF Navigable
<1>4. CASE session.context = "QUEUE"
    BY <1>2, <1>3, <1>4, IndexOfFinds, LenProperties DEF Sequence, Position
<1>5. CASE session.context # "QUEUE"
    BY <1>2, <1>3, <1>5, LenProperties DEF Sequence, Position
<1> QED
    BY <1>4, <1>5

(* Where the session may go, with the navigator after it.                  *)
Target(t) == t[1] \in 0 .. Len(Sequence) /\ IsNavigator(t[2], Entry)

LEMMA IndexOfRange ==
    ASSUME NEW s \in Seq(Entry), NEW e
    PROVE  IndexOf(s, e) \in 0 .. Len(s)
BY IndexOfFinds, LenProperties

LEMMA NextTargetsType ==
    ASSUME Inv, Navigable, NEW t \in NextTargets
    PROVE  Target(t)
<1>1. TypeOK /\ IsNavigator(nav, Entry)
    BY DEF Inv, TypeOK
<1>2. /\ Sequence \in Seq(Entry) /\ Len(Sequence) \in Nat
      /\ Position \in 1 .. Len(Sequence)
    BY PositionType
<1>3. CASE ~session.shuffle
    <2>1. t = <<NaturalNext, nav>>
        BY <1>3 DEF NextTargets
    <2>2. NaturalNext \in 0 .. Len(Sequence)
        BY <1>2 DEF NaturalNext
    <2> QED
        BY <1>1, <2>1, <2>2 DEF Target
<1>4. CASE session.shuffle
    <2> DEFINE cycle  == FreshCycle(Sequence, CurrentEntry)
               drawn  == IF nav.pool # EmptyBag THEN Draws(nav)
                         ELSE IF session.repeat = "ALL" THEN Draws(cycle) ELSE {}
               replay == CASE session.context # "QUEUE" -> session.current
                           [] session.context = "QUEUE" -> IF Len(queue) = 1 THEN 1 ELSE 0
    <2>1. IsNavigator(cycle, Entry)
        BY <1>1, <1>2, FreshCycleType, CurrentEntryType
    <2>2. ASSUME NEW d \in drawn
          PROVE  Target(<<IndexOf(Sequence, d[1]), d[2]>>)
        <3>1. IsNavigator(d[2], Entry)
            BY <1>1, <2>1, <2>2, DrawsType
        <3> QED
            BY <1>2, <3>1, IndexOfRange DEF Target
    <2>3. replay \in 0 .. Len(Sequence)
        <3>1. CASE session.context # "QUEUE"
            BY <1>2, <3>1 DEF Position, Sequence
        <3>2. CASE session.context = "QUEUE"
            BY <1>2, <3>2 DEF Sequence
        <3> QED
            BY <3>1, <3>2
    <2>4. t \in ShuffledNext
        BY <1>4 DEF NextTargets
    <2>5. \/ \E d \in drawn : t = <<IndexOf(Sequence, d[1]), d[2]>>
          \/ t = <<replay, cycle>>
          \/ t = <<0, nav>>
        BY <2>4 DEF ShuffledNext
    <2> HIDE DEF cycle, drawn, replay
    <2> QED
        BY <1>1, <1>2, <2>1, <2>2, <2>3, <2>5 DEF Target
<1> QED
    BY <1>3, <1>4

LEMMA NavigateStep ==
    ASSUME Inv, asks' \in 0 .. MaxAsks, Navigable,
           NEW t, Target(t), Navigate(t)
    PROVE  Inv'
<1>1. TypeOK
    BY DEF Inv
<1>2. Sequence \in Seq(Entry) /\ Len(Sequence) \in Nat
    BY PositionType
<1>3. IsNavigator(nav', Entry)
    BY DEF Navigate, Target
<1>4. CASE t[1] = 0
    <2>1. UNCHANGED <<queue, session, service, history>>
        BY <1>4 DEF Navigate
    <2>2. TypeOK'
        BY <1>1, <1>3, <2>1 DEF TypeOK
    <2>3. SessionInv' /\ SameCurrent
        BY <2>1, SessionStays
    <2>4. RequestsInv'
        BY <2>1, <2>3, RequestsStay
    <2> QED
        BY <2>2, <2>3, <2>4 DEF Inv
<1>5. CASE t[1] # 0
    <2>1. PICK i : i = t[1]
        OBVIOUS
    <2>2. i \in 1 .. Len(Sequence)
        BY <1>2, <1>5, <2>1 DEF Target
    <2>3. Requested(session.context, Sequence, i)
        BY <1>5, <2>1 DEF Navigate
    <2>4. session.context \in Contexts \ {"NONE"}
        BY <1>1, SessionFields DEF Navigable
    <2>5. session.context = "QUEUE" => Sequence[i] \in ToSet(queue)
        BY <1>2, <2>2, EntryAt DEF Sequence
    <2>6. queue' = queue
        BY <2>3 DEF Requested
    <2>7. Surroundings'
        BY <1>1, <1>3, <2>6 DEF TypeOK, Surroundings
    <2>8. PICK context : context = session.context
        OBVIOUS
    <2>9. PICK entries : entries = Sequence
        OBVIOUS
    <2> QED
        BY <1>2, <2>2, <2>3, <2>4, <2>5, <2>7, <2>8, <2>9, RequestedStep
<1> QED
    BY <1>4, <1>5

LEMMA SessionPreviousStep ==
    ASSUME Inv, asks' \in 0 .. MaxAsks, SessionPrevious
    PROVE  Inv'
<1>1. Navigable /\ IsNavigator(nav, Entry)
    BY DEF SessionPrevious, Inv, TypeOK
<1>2. /\ Sequence \in Seq(Entry) /\ Len(Sequence) \in Nat
      /\ Position \in 1 .. Len(Sequence)
    BY <1>1, PositionType
<1>3. PICK t : t = IF session.shuffle THEN ShuffledPrevious ELSE <<NaturalPrevious, nav>>
    OBVIOUS
<1>4. Target(t)
    <2>1. NaturalPrevious \in 0 .. Len(Sequence)
        BY <1>2 DEF NaturalPrevious
    <2>2. Target(ShuffledPrevious)
        <3>1. CASE Len(nav.history) < 2
            BY <1>1, <1>2, <3>1 DEF ShuffledPrevious, Target
        <3>2. CASE ~(Len(nav.history) < 2)
            BY <1>1, <1>2, <3>2, IndexOfRange, PreviousPickType DEF ShuffledPrevious, Target
        <3> QED
            BY <3>1, <3>2
    <2> QED
        BY <1>1, <1>3, <2>1, <2>2 DEF Target
<1>5. Navigate(t)
    BY <1>3 DEF SessionPrevious
<1> QED
    BY <1>1, <1>4, <1>5, NavigateStep

LEMMA EndOfMediaStep ==
    ASSUME Inv, asks' \in 0 .. MaxAsks, EndOfMedia
    PROVE  Inv'
<1>1. Navigable /\ TypeOK
    BY DEF EndOfMedia, Inv
<1>2. CASE Navigate(<<Position, nav>>)
    <2>1. Target(<<Position, nav>>)
        BY <1>1, PositionType DEF Target, TypeOK
    <2> QED
        BY <1>1, <1>2, <2>1, NavigateStep
<1>3. CASE StopPlayback
    <2>1. Surroundings'
        BY <1>1, <1>3 DEF StopPlayback, TypeOK, Surroundings
    <2> QED
        BY <1>3, <2>1, StopStep
<1>4. CASE \E t \in NextTargets : Navigate(t)
    BY <1>1, <1>4, NextTargetsType, NavigateStep
<1> QED
    BY <1>2, <1>3, <1>4 DEF EndOfMedia

(* A step that leaves the session where it is and what it waits for.       *)
OnlyTheMode ==
    /\ session'.context = session.context /\ session'.entries = session.entries
    /\ session'.current = session.current /\ session'.active = session.active
    /\ session'.pending = session.pending /\ session'.queued = session.queued

(* Repeat and shuffle change what comes next, and nothing that is.         *)
LEMMA ModeStep ==
    ASSUME Inv, asks' \in 0 .. MaxAsks,
           (\E mode \in Repeats : SetRepeat(mode)) \/ SetShuffle
    PROVE  Inv'
<1>1. TypeOK /\ session \in Session /\ IsNavigator(nav, Entry)
    BY DEF Inv, TypeOK
<1>2. UNCHANGED <<queue, service, history>>
    BY DEF SetRepeat, SetShuffle
<1>3. session' \in Session /\ OnlyTheMode
    <2>1. ASSUME NEW mode \in Repeats, SetRepeat(mode)
          PROVE  session' \in Session /\ OnlyTheMode
        <3>1. session' = [session EXCEPT !.repeat = mode]
            BY <2>1 DEF SetRepeat
        <3> QED
            BY <1>1, <3>1 DEF Session, OnlyTheMode
    <2>2. ASSUME SetShuffle PROVE session' \in Session /\ OnlyTheMode
        <3>1. PICK b \in BOOLEAN : b = ~session.shuffle
            OBVIOUS
        <3>2. session' = [session EXCEPT !.shuffle = b]
            BY <2>2, <3>1 DEF SetShuffle
        <3> QED
            BY <1>1, <3>2 DEF Session, OnlyTheMode
    <2> QED
        BY <2>1, <2>2
<1>4. IsNavigator(nav', Entry)
    <2>1. IsNavigator(FreshCycle(session.entries, CurrentEntry), Entry)
        BY <1>1, FreshCycleType, CurrentEntryType, SessionFields
    <2> QED
        BY <1>1, <2>1, ClearedType DEF SetRepeat, SetShuffle
<1>5. TypeOK'
    BY <1>1, <1>2, <1>3, <1>4 DEF TypeOK, OnlyTheMode
<1>6. SessionInv' /\ SameCurrent
    BY <1>2, <1>3, SessionStays DEF OnlyTheMode
<1>7. RequestsInv'
    BY <1>2, <1>3, <1>6, RequestsStay DEF OnlyTheMode
<1> QED
    BY <1>5, <1>6, <1>7 DEF Inv

-----------------------------------------------------------------------------
(* The theorems                                                            *)

LEMMA RestoredInv ==
    ASSUME NEW tracks \in Seq(Entry), Len(tracks) <= MaxQueue,
           NEW context \in {"NONE", "QUEUE", "ALBUM"}, NEW entries \in Seq(Entry),
           NEW current \in 0 .. Len(entries), NEW mode \in Modes,
           current = 0 <=> context = "NONE",
           asks = 0, Restored(tracks, context, entries, current, mode)
    PROVE  Inv
<1> DEFINE e == IF current = 0 THEN None ELSE entries[current]
<1>1. e \in Entry \cup {None} /\ (e = None <=> current = 0)
    <2>1. CASE current = 0
        BY <2>1
    <2>2. CASE current # 0
        <3>1. current \in 1 .. Len(entries)
            BY <2>2, LenProperties
        <3> QED
            BY <2>2, <3>1, EntryAt, NoneIsNothing
    <2> QED
        BY <2>1, <2>2
<1>2. mode[1] \in Repeats /\ mode[2] \in BOOLEAN
    BY ModesAssumption
<1>3. PICK active \in Entry \cup {None} : active = (IF context = "QUEUE" THEN e ELSE None)
    BY <1>1
<1>4. /\ queue = tracks
      /\ session = [context |-> context, entries |-> entries, current |-> current,
                    repeat |-> mode[1], shuffle |-> mode[2], active |-> active,
                    pending |-> None, queued |-> None]
      /\ nav = IF mode[2] THEN FreshCycle(entries, e) ELSE Cleared
      /\ service \in {Silent} \cup (IF e = None THEN {} ELSE {PrepareForResume(Silent, e.path)})
      /\ history = [accepted |-> e, dropped |-> FALSE, diverted |-> FALSE]
    BY <1>3 DEF Restored, Silence
<1> HIDE DEF e
<1>5. session \in Session /\ session.current <= Len(session.entries)
    <2>1. current \in Nat /\ current <= Len(entries)
        BY LenProperties
    <2>2. session \in Session
        BY <1>2, <1>4, <2>1 DEF Session, Contexts
    <2> QED
        BY <1>4, <2>1, <2>2
<1>6. IsNavigator(nav, Entry)
    <2>1. IsNavigator(FreshCycle(entries, e), Entry)
        BY <1>1, FreshCycleType
    <2> QED
        BY <1>4, <2>1, ClearedType
<1>7. history \in History /\ history.accepted = e /\ ~history.dropped /\ ~history.diverted
    BY <1>1, <1>4 DEF History
<1>8. /\ session.context = context /\ session.current = current /\ session.active = active
      /\ session.pending = None /\ session.queued = None /\ session.entries = entries
    BY <1>4
<1>9. CurrentEntry = e
    BY <1>8 DEF CurrentEntry, e
<1>10. SessionInv
    BY <1>3, <1>7, <1>8, <1>9
       DEF SessionInv, CurrentIsAccepted, PendingIsQueued, ContextIsOpen
<1>11. service \in Service(Call) /\ RequestsInv
    <2>1. CASE service = Silent
        <3>1. service.request = None /\ service.prepare = None /\ service.file = None
            BY <2>1 DEF Silent
        <3>2. RequestsInv
            BY <1>8, <3>1
               DEF RequestsInv, PlaysTheCurrent, PendingIsUnderWay, CallsAreOurs,
                   PreparationIsTheRequests, PlayedWhenPrepared, NothingElsePlays
        <3> QED
            BY <2>1, <3>2, SilentType
    <2>2. CASE e # None /\ service = PrepareForResume(Silent, e.path)
        <3>1. e.path \in Paths
            BY <1>1, <2>2 DEF Entry
        <3>2. /\ service \in Service(Call)
              /\ service.request # None /\ service.request.path = e.path
              /\ service.request.purpose = "STARTUP_RESTORE" /\ service.request.call = None
              /\ service.prepare # None /\ service.prepare.path = e.path
              /\ service.prepare.purpose = "STARTUP_RESTORE" /\ service.prepare.call = None
              /\ ~service.prepare.claimed /\ service.file = None
            BY <2>2, <3>1, ResumeType
        <3>3. ForTheCurrent(e.path)
            BY <1>1, <1>8, <1>9, <2>2 DEF ForTheCurrent
        <3>4. RequestsInv
            BY <1>8, <3>2, <3>3
               DEF RequestsInv, PlaysTheCurrent, PendingIsUnderWay, CallsAreOurs, Speaks,
                   Remembers, IsPending, PreparationIsTheRequests, PlayedWhenPrepared,
                   NothingElsePlays
        <3> QED
            BY <3>2, <3>4
    <2> QED
        BY <1>4, <2>1, <2>2
<1>12. asks \in 0 .. MaxAsks
    BY BoundsAssumption
<1> QED
    BY <1>4, <1>5, <1>6, <1>7, <1>10, <1>11, <1>12 DEF Inv, TypeOK

LEMMA DistinctType ==
    ASSUME NEW n \in Nat, NEW es \in Distinct(n)
    PROVE  es \in Seq(Entry) /\ Len(es) <= n /\ Len(es) \in Nat
<1>1. PICK m \in 0 .. n : es \in [1 .. m -> Entry]
    BY DEF Distinct
<1> QED
    BY <1>1, TupleIsSeq

LEMMA InitInv == Init => Inv
<1> SUFFICES ASSUME Init PROVE Inv
    OBVIOUS
<1>1. MaxQueue \in Nat /\ MaxContext \in Nat
    BY BoundsAssumption
<1>2. PICK tracks \in Distinct(MaxQueue), mode \in Modes :
        \/ Restored(tracks, "NONE", <<>>, 0, mode)
        \/ /\ tracks # <<>>
           /\ \E current \in 1 .. Len(tracks) :
                  Restored(tracks, "QUEUE", tracks, current, mode)
        \/ \E entries \in Distinct(MaxContext) \ {<<>>} :
               \E current \in 1 .. Len(entries) :
                      Restored(tracks, "ALBUM", entries, current, mode)
    BY DEF Init
<1>3. tracks \in Seq(Entry) /\ Len(tracks) <= MaxQueue /\ Len(tracks) \in Nat
    BY <1>1, DistinctType
<1>4. asks = 0
    BY DEF Init
<1>5. CASE Restored(tracks, "NONE", <<>>, 0, mode)
    <2>1. PICK none : none = <<>>
        OBVIOUS
    <2>2. none \in Seq(Entry) /\ 0 \in 0 .. Len(none)
        BY <2>1, NoHistory
    <2>3. Restored(tracks, "NONE", none, 0, mode)
        BY <1>5, <2>1
    <2> QED
        BY <1>3, <1>4, <2>2, <2>3, RestoredInv
<1>6. ASSUME NEW current \in 1 .. Len(tracks), Restored(tracks, "QUEUE", tracks, current, mode)
      PROVE  Inv
    <2>1. current \in 0 .. Len(tracks) /\ current # 0
        BY <1>3
    <2> QED
        BY <1>3, <1>4, <1>6, <2>1, RestoredInv
<1>7. ASSUME NEW entries \in Distinct(MaxContext), NEW current \in 1 .. Len(entries),
             Restored(tracks, "ALBUM", entries, current, mode)
      PROVE  Inv
    <2>1. entries \in Seq(Entry) /\ Len(entries) \in Nat
        BY <1>1, DistinctType
    <2>2. current \in 0 .. Len(entries) /\ current # 0
        BY <2>1
    <2> QED
        BY <1>3, <1>4, <1>7, <2>1, <2>2, RestoredInv
<1> QED
    BY <1>2, <1>5, <1>6, <1>7

LEMMA AskStep ==
    ASSUME Inv, asks < MaxAsks, asks' = asks + 1, Ask
    PROVE  Inv'
<1>1. TypeOK
    BY DEF Inv
<1>2. asks' \in 0 .. MaxAsks
    BY <1>1, BoundsAssumption DEF TypeOK
<1>3. UNCHANGED <<queue, nav>> => Surroundings'
    BY <1>1, <1>2 DEF TypeOK, Surroundings
<1>4. ASSUME NEW es \in Fresh(1), PlaySingle(es[1])
      PROVE  Inv'
    <2>1. PICK one : one = <<es[1]>>
        OBVIOUS
    <2>2. es[1] \in Entry
        BY DEF Fresh
    <2>3. one \in Seq(Entry) /\ Len(one) = 1 /\ 1 \in 1 .. Len(one)
        BY <2>1, <2>2, OneIsSeq
    <2>4. Requested("SINGLE", one, 1) /\ nav' = nav
        BY <1>4, <2>1 DEF PlaySingle
    <2>5. Surroundings'
        BY <1>3, <2>4 DEF Requested
    <2> QED
        BY <2>3, <2>4, <2>5, RequestedStep DEF Contexts
<1>5. ASSUME NEW n \in 1 .. MaxContext, NEW es \in Fresh(n), NEW i \in 1 .. n,
             PlayContext(es, i)
      PROVE  Inv'
    <2>1. es \in Seq(Entry) /\ i \in 1 .. Len(es)
        BY TupleIsSeq DEF Fresh
    <2>2. Requested("ALBUM", es, i) /\ nav' = nav
        BY <1>5 DEF PlayContext
    <2>3. Surroundings'
        BY <1>3, <2>2 DEF Requested
    <2> QED
        BY <2>1, <2>2, <2>3, RequestedStep DEF Contexts
<1>6. ASSUME NEW i \in 1 .. Len(queue), PlayQueueIndex(i)
      PROVE  Inv'
    <2>1. PICK entries : entries = queue
        OBVIOUS
    <2>2. entries \in Seq(Entry) /\ i \in 1 .. Len(entries) /\ entries[i] \in ToSet(queue)
        BY <1>1, <2>1, EntryAt DEF TypeOK
    <2>3. Requested("QUEUE", entries, i) /\ nav' = nav
        BY <1>6, <2>1 DEF PlayQueueIndex
    <2>4. Surroundings'
        BY <1>3, <2>3 DEF Requested
    <2> QED
        BY <2>2, <2>3, <2>4, RequestedStep DEF Contexts
<1>7. CASE SessionNext
    <2>1. PICK t \in NextTargets : Navigate(t)
        BY <1>7 DEF SessionNext
    <2> QED
        BY <1>2, <1>7, <2>1, NextTargetsType, NavigateStep DEF SessionNext
<1>8. CASE SessionPrevious
    BY <1>2, <1>8, SessionPreviousStep
<1>9. CASE (\E mode \in Repeats : SetRepeat(mode)) \/ SetShuffle
    BY <1>2, <1>9, ModeStep
<1>10. CASE StopPlayback
    BY <1>3, <1>10, StopStep DEF StopPlayback
<1>11. CASE Play
    BY <1>3, <1>11, PlayStep DEF Play
<1>12. CASE Resume
    BY <1>3, <1>12, IntentStep DEF Resume
<1>13. CASE Retry
    BY <1>3, <1>13, RetryStep DEF Retry
<1>14. CASE Reroute
    BY <1>3, <1>14, RerouteStep DEF Reroute
<1>15. CASE \/ \E i \in 1 .. Len(queue) + 1, es \in Fresh(1) : InsertTrack(i, es[1])
            \/ \E n \in 2 .. MaxQueue : \E es \in Fresh(n) : AddMany(es) \/ ReplaceQueue(es)
            \/ \E i \in 1 .. Len(queue) : RemoveTrack(i)
            \/ \E i, j \in 1 .. Len(queue) : MoveTrack(i, j)
            \/ ClearQueue
    BY <1>2, <1>15, QueueStep
<1> QED
    BY <1>4, <1>5, <1>6, <1>7, <1>8, <1>9, <1>10, <1>11, <1>12, <1>13, <1>14, <1>15 DEF Ask

LEMMA AnswerStep ==
    ASSUME Inv, asks' = asks, Answer
    PROVE  Inv'
<1>1. TypeOK
    BY DEF Inv
<1>2. asks' \in 0 .. MaxAsks
    BY <1>1 DEF TypeOK
<1>3. UNCHANGED <<queue, nav>> => Surroundings'
    BY <1>1, <1>2 DEF TypeOK, Surroundings
<1>4. CASE Prepared
    BY <1>3, <1>4, PreparedStep DEF Prepared
<1>5. CASE Raises
    BY <1>3, <1>5, RaisesStep DEF Raises
<1>6. CASE Refused
    BY <1>3, <1>6, RefusedStep DEF Refused
<1>7. CASE MediaAccepted
    BY <1>2, <1>7, MediaAcceptedStep
<1>8. ASSUME NEW path \in Paths, MediaRejected(path) PROVE Inv'
    BY <1>3, <1>8, MediaRejectedStep DEF MediaRejected
<1>9. CASE EngineLost
    BY <1>3, <1>9, LostStep DEF EngineLost
<1>10. CASE EndOfMedia
    BY <1>2, <1>10, EndOfMediaStep
<1> QED
    BY <1>4, <1>5, <1>6, <1>7, <1>8, <1>9, <1>10 DEF Answer

LEMMA StutterStep == Inv /\ UNCHANGED vars => Inv'
<1> SUFFICES ASSUME Inv, UNCHANGED vars PROVE Inv'
    OBVIOUS
<1>1. UNCHANGED <<queue, session, nav, service, history, asks>>
    BY DEF vars
<1>2. TypeOK'
    BY <1>1 DEF Inv, TypeOK
<1>3. SessionInv' /\ SameCurrent
    BY <1>1, SessionStays
<1>4. RequestsInv'
    BY <1>1, <1>3, RequestsStay
<1> QED
    BY <1>2, <1>3, <1>4 DEF Inv

(* The inductive invariant, for any entries, paths, bounds and faults.     *)
THEOREM Inductive == Spec => []Inv
<1>1. Inv /\ [Next]_vars => Inv'
    BY AskStep, AnswerStep, StutterStep DEF Next
<1> QED
    BY <1>1, InitInv, PTL DEF Spec

(* Whatever is inserted, removed, moved or replaced between a request, its *)
(* acceptance and now, the session's entry is the one it accepted, and a   *)
(* candidate from the queue is in it.                                      *)
THEOREM SessionConsistent == Spec => []Consistent
<1>1. Inv => Consistent
    BY DEF Inv, SessionInv, Consistent
<1> QED
    BY <1>1, Inductive, PTL

(* Unless a handover, a retry or an error of an earlier load has come      *)
(* between them, PlaybackService plays what the session calls current.     *)
THEOREM SessionPlaysTheCurrent == Spec => []PlaysTheCurrent
<1>1. Inv => PlaysTheCurrent
    BY DEF Inv, RequestsInv
<1> QED
    BY <1>1, Inductive, PTL

(* What the session waits for can still be answered, unless something      *)
(* raised or a handover or a retry took its place.                         *)
THEOREM SessionIsAnswerable == Spec => []PendingIsUnderWay
<1>1. Inv => PendingIsUnderWay
    BY DEF Inv, RequestsInv
<1> QED
    BY <1>1, Inductive, PTL

LEMMA NextOfTheAccepted ==
    ASSUME Inv, SessionNext, session.context = "QUEUE", ~session.shuffle,
           session.repeat # "ALL", NEW i, i = IndexOf(queue, history.accepted)
    PROVE  IF i \in 1 .. Len(queue) - 1
           THEN session'.pending = queue[i + 1] /\ session'.queued = queue[i + 1]
           ELSE UNCHANGED <<queue, session, nav, service, history>>
<1>1. TypeOK /\ session \in Session /\ queue \in Seq(Entry)
    BY DEF Inv, TypeOK
<1>2. session.active = history.accepted
    BY DEF Inv, SessionInv, CurrentIsAccepted
<1>3. Sequence = queue /\ Position = i
    BY <1>2 DEF Sequence, Position
<1>4. i \in 1 .. Len(queue) /\ Len(queue) \in Nat
    BY <1>3, PositionType DEF SessionNext
<1>5. Navigate(<<NaturalNext, nav>>)
    BY DEF SessionNext, NextTargets
<1>6. CASE i \in 1 .. Len(queue) - 1
    <2>1. NaturalNext = i + 1 /\ i + 1 # 0
        BY <1>3, <1>4, <1>6 DEF NaturalNext
    <2>2. Requested("QUEUE", queue, i + 1)
        BY <1>3, <1>5, <2>1 DEF Navigate
    <2>3. session' = [session EXCEPT !.pending = queue[i + 1], !.queued = queue[i + 1]]
        BY <2>2 DEF Requested
    <2> QED
        BY <1>1, <1>6, <2>3 DEF Session
<1>7. CASE i \notin 1 .. Len(queue) - 1
    <2>1. i = Len(queue)
        BY <1>4, <1>7
    <2>2. NaturalNext = 0
        BY <1>3, <1>4, <2>1 DEF NaturalNext
    <2>3. nav' = nav /\ UNCHANGED <<queue, session, service, history>>
        BY <1>5, <2>2 DEF Navigate
    <2> QED
        BY <1>7, <2>3
<1> QED
    BY <1>6, <1>7

(* next() goes to what follows the accepted entry in the queue as it is.   *)
THEOREM NextFollowsTheAccepted == Spec => NextIsTheSuccessor
<1> DEFINE Succeeds ==
        SessionNext /\ session.context = "QUEUE" /\ ~session.shuffle /\ session.repeat # "ALL" =>
            LET i == IndexOf(queue, history.accepted) IN
            IF i \in 1 .. Len(queue) - 1
            THEN session'.pending = queue[i + 1] /\ session'.queued = queue[i + 1]
            ELSE UNCHANGED <<queue, session, nav, service, history>>
<1>1. Inv => Succeeds
    BY NextOfTheAccepted
<1> HIDE DEF Succeeds
<1>2. Spec => [][Succeeds]_vars
    BY <1>1, Inductive, PTL DEF Spec
<1> QED
    BY <1>2 DEF NextIsTheSuccessor, Succeeds

=============================================================================
