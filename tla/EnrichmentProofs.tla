-------------------------- MODULE EnrichmentProofs --------------------------
(***************************************************************************)
(* The inductive invariant of the enrichment operations, for any artists,  *)
(* albums and identities and any number of operations; from it, that what  *)
(* was cleared stays cleared, and that threads, locks and generations      *)
(* implement the atomic authority over identities and knowledge.  Then the *)
(* same for the job over them, whose names are its own.                    *)
(***************************************************************************)
EXTENDS EnrichmentOperations, EnrichmentJob, FiniteSetTheorems, TLAPS

-----------------------------------------------------------------------------
(* What the operations under way become                                    *)

(* Flagging cancels those whose token is registered, and changes no more.  *)
LEMMA FlaggedOps ==
    ASSUME ops \subseteq Operation, NEW E, NEW o \in Flagged(E)
    PROVE  /\ o \in Operation
           /\ \E p \in ops :
                 /\ o.entity = p.entity /\ o.gen = p.gen /\ o.stage = p.stage
                 /\ o.id = p.id /\ o.method = p.method /\ o.rests = p.rests
                 /\ o.cancelled = (p.cancelled \/ (p.entity \in E /\ registry[p.entity] = p.gen))
<1>1. PICK p \in ops : o = IF p.entity \in E /\ registry[p.entity] = p.gen
                           THEN [p EXCEPT !.cancelled = TRUE] ELSE p
    BY DEF Flagged
<1>2. p \in Operation
    OBVIOUS
<1>3. CASE p.entity \in E /\ registry[p.entity] = p.gen
    BY <1>1, <1>2, <1>3 DEF Operation
<1>4. CASE ~(p.entity \in E /\ registry[p.entity] = p.gen)
    BY <1>1, <1>2, <1>4 DEF Operation
<1> QED
    BY <1>3, <1>4

(* Flagging keeps one operation per generation.                            *)
LEMMA OneOf ==
    ASSUME IInv, NEW E, NEW o \in Flagged(E), NEW p \in Flagged(E),
           p.entity = o.entity, p.gen = o.gen
    PROVE  p = o
<1>1. ops \subseteq Operation
    BY DEF IInv, TypeOK
<1>2. PICK u \in ops : o = IF u.entity \in E /\ registry[u.entity] = u.gen
                           THEN [u EXCEPT !.cancelled = TRUE] ELSE u
    BY DEF Flagged
<1>3. PICK v \in ops : p = IF v.entity \in E /\ registry[v.entity] = v.gen
                           THEN [v EXCEPT !.cancelled = TRUE] ELSE v
    BY DEF Flagged
<1>4. o.entity = u.entity /\ o.gen = u.gen /\ p.entity = v.entity /\ p.gen = v.gen
    BY <1>1, <1>2, <1>3 DEF Operation
<1>5. u = v
    BY <1>4 DEF IInv, OneAuthority
<1> QED
    BY <1>2, <1>3, <1>5

(* The invariant without the types. *)
Safe == /\ OneAuthority /\ ReadsStand /\ PendingIsCurrent
        /\ ProfileIsAboutIdentity /\ NoResurrection /\ WellFormed
        /\ ClearedIsOver /\ BarrierCuts

-----------------------------------------------------------------------------
(* Cancel, clear and shutdown retire what they flag                        *)

(* When no barrier is open, the operations that were uncancelled are those *)
(* that are flagged, and the generation they had is over.                  *)
LEMMA RetiredOps ==
    ASSUME IInv, barrier = None, NEW E \in SUBSET Entities, Retire(E),
           NEW o \in Flagged(E)
    PROVE  /\ o \in Operation /\ o.gen <= generation'[o.entity]
           /\ ~o.cancelled => /\ o.entity \notin E
                              /\ registry[o.entity] = o.gen /\ generation[o.entity] = o.gen
           /\ o.cancelled => generation'[o.entity] # o.gen
           /\ o.entity \in E => o.cancelled
<1>1. ops \subseteq Operation /\ generation \in [Entities -> Nat]
    BY DEF IInv, TypeOK
<1>2. PICK p \in ops :
          /\ o.entity = p.entity /\ o.gen = p.gen
          /\ o.cancelled = (p.cancelled \/ (p.entity \in E /\ registry[p.entity] = p.gen))
    BY <1>1, FlaggedOps
<1>3. o \in Operation
    BY <1>1, FlaggedOps
<1>4. o.entity \in Entities /\ o.gen \in Nat /\ p.cancelled \in BOOLEAN
    BY <1>1, <1>2, <1>3 DEF Operation
<1>5. generation'[o.entity] = IF o.entity \in E /\ registry[o.entity] = generation[o.entity]
                              THEN generation[o.entity] + 1 ELSE generation[o.entity]
    BY <1>4 DEF Retire
<1>6. /\ p.gen <= generation[p.entity]
      /\ ~p.cancelled => registry[p.entity] = p.gen /\ generation[p.entity] = p.gen
      /\ p.cancelled => generation[p.entity] # p.gen
    BY DEF IInv, OneAuthority, IsCurrent
<1>7. generation[o.entity] \in Nat
    BY <1>1, <1>4
<1>8. CASE p.cancelled
    <2>1. generation'[o.entity] # o.gen /\ o.gen <= generation'[o.entity]
        BY <1>2, <1>4, <1>5, <1>6, <1>7, <1>8
    <2> QED
        BY <1>2, <1>3, <1>8, <2>1
<1>9. CASE ~p.cancelled /\ o.entity \in E
    <2>1. o.cancelled
        BY <1>2, <1>6, <1>9
    <2>2. generation'[o.entity] = o.gen + 1
        BY <1>2, <1>5, <1>6, <1>9
    <2>3. generation'[o.entity] # o.gen /\ o.gen <= generation'[o.entity]
        BY <1>4, <2>2
    <2> QED
        BY <1>3, <2>1, <2>3
<1>10. CASE ~p.cancelled /\ o.entity \notin E
    <2>1. ~o.cancelled /\ generation'[o.entity] = generation[o.entity]
        BY <1>2, <1>5, <1>10
    <2>2. o.gen <= generation'[o.entity]
        BY <1>2, <1>6, <2>1
    <2> QED
        BY <1>2, <1>3, <1>6, <1>10, <2>1, <2>2
<1> QED
    BY <1>8, <1>9, <1>10

(* Retiring keeps the requests that wait in step with the generations.     *)
LEMMA RetiredRequests ==
    ASSUME IInv, NEW E \in SUBSET Entities, Retire(E)
    PROVE  PendingIsCurrent' /\ ProfileIsAboutIdentity'
<1>1. generation \in [Entities -> Nat] /\ pending \in [Entities -> Request \cup {None}]
    BY DEF IInv, TypeOK
<1>2. SUFFICES ASSUME NEW e \in Entities, pending'[e] # None
               PROVE  pending'[e].gen = generation'[e] /\ IsAbout(e, pending[e].id)'
    BY DEF PendingIsCurrent, ProfileIsAboutIdentity, Retire, IInv, IsAbout
<1>3. pending'[e] = pending[e] /\ pending[e] # None
    BY <1>1, <1>2 DEF Retire
<1>4. pending[e].gen = generation[e] /\ IsAbout(e, pending[e].id)
    BY <1>3 DEF IInv, PendingIsCurrent
<1>5. ~(e \in E /\ registry[e] = generation[e])
    BY <1>2, <1>3, <1>4 DEF Retire
<1>6. generation'[e] = generation[e]
    BY <1>1, <1>5 DEF Retire
<1> QED
    BY <1>3, <1>4, <1>6 DEF IsAbout, Retire

(* What retires also keeps the rest of the invariant.                      *)
LEMMA Retires ==
    ASSUME IInv, barrier = None, NEW E \in SUBSET Entities, Retire(E),
           ops' \subseteq Flagged(E), registry' = registry, clearedAt' = clearedAt,
           \/ barrier' = None
           \/ \E e \in E : barrier' = [entity |-> e, intent |-> "clear", id |-> None]
    PROVE  Safe'
<1>1. \A o \in ops' :
          /\ o \in Operation /\ o.gen <= generation'[o.entity]
          /\ ~o.cancelled => /\ o.entity \notin E
                             /\ registry[o.entity] = o.gen /\ generation[o.entity] = o.gen
          /\ o.cancelled => generation'[o.entity] # o.gen
          /\ o.entity \in E => o.cancelled
    BY RetiredOps
<1>2. generation \in [Entities -> Nat] /\ ops \subseteq Operation
    BY DEF IInv, TypeOK
<1>3. \A e \in Entities : e \notin E => generation'[e] = generation[e]
    BY DEF Retire
<1>4. \A e \in Entities : generation[e] <= generation'[e]
    BY <1>2 DEF Retire
<1>5. \A o \in ops' : \E p \in ops :
          /\ o.entity = p.entity /\ o.gen = p.gen /\ o.stage = p.stage
          /\ o.id = p.id /\ o.rests = p.rests
          /\ o.cancelled = (p.cancelled \/ (p.entity \in E /\ registry[p.entity] = p.gen))
    BY <1>2, FlaggedOps
<1>6. \A o \in ops' : o.entity \in Entities
    BY <1>1 DEF Operation
<1>7. \A o \in ops' : IsCurrent(o)' => ~o.cancelled /\ generation[o.entity] = o.gen
    BY <1>1, <1>6 DEF IsCurrent, Operation
<1>8. OneAuthority'
    <2>1. \A o, p \in ops' : p.entity = o.entity /\ p.gen = o.gen => p = o
        BY OneOf
    <2>2. \A o \in ops' :
              /\ o.gen <= generation'[o.entity]
              /\ ~o.cancelled => registry'[o.entity] = o.gen /\ IsCurrent(o)'
              /\ ~(o.cancelled /\ IsCurrent(o)')
        BY <1>1, <1>3, <1>6, <1>7 DEF IsCurrent
    <2> QED
        BY <2>1, <2>2 DEF OneAuthority
<1>9. ReadsStand'
    <2>1. SUFFICES ASSUME NEW o \in ops', IsCurrent(o)'
                   PROVE  /\ o.stage \in {"known", "refining"} => IsAbout(o.entity, o.id)'
                          /\ o.stage \in {"refining", "resolving"} => ~IsManual(o.entity)'
        BY DEF ReadsStand
    <2>2. PICK p \in ops : /\ o.entity = p.entity /\ o.gen = p.gen /\ o.stage = p.stage
                           /\ o.id = p.id
        BY <1>5
    <2>3. IsCurrent(p)
        BY <1>7, <2>1, <2>2 DEF IsCurrent
    <2> QED
        BY <2>2, <2>3 DEF IInv, ReadsStand, IsAbout, IsManual, Retire
<1>10. NoResurrection'
    BY DEF IInv, NoResurrection, Retire
<1>11. WellFormed'
    BY <1>5 DEF IInv, WellFormed
<1>12. ClearedIsOver'
    <2>1. \A e \in Entities : clearedAt'[e] <= generation'[e]
        <3>1. SUFFICES ASSUME NEW e \in Entities PROVE clearedAt[e] <= generation'[e]
            OBVIOUS
        <3>2. /\ clearedAt[e] \in Nat /\ generation[e] \in Nat /\ generation'[e] \in Nat
              /\ clearedAt[e] <= generation[e] /\ generation[e] <= generation'[e]
            BY <1>2, <1>4 DEF IInv, TypeOK, ClearedIsOver, Retire
        <3> QED
            BY <3>2
    <2>2. \A o \in ops' : IsCurrent(o)' => o.gen > clearedAt'[o.entity]
        <3>1. SUFFICES ASSUME NEW o \in ops', IsCurrent(o)' PROVE o.gen > clearedAt[o.entity]
            OBVIOUS
        <3>2. PICK p \in ops : o.entity = p.entity /\ o.gen = p.gen
            BY <1>5
        <3>3. IsCurrent(p)
            BY <1>7, <3>1, <3>2 DEF IsCurrent
        <3> QED
            BY <3>2, <3>3 DEF IInv, ClearedIsOver
    <2>3. \A o \in ops' : barrier' # None /\ barrier'.intent = "clear"
                          /\ barrier'.entity = o.entity => ~IsCurrent(o)'
        BY <1>1, <1>7
    <2>4. barrier' # None /\ barrier'.intent = "confirm" => barrier'.id # None
        OBVIOUS
    <2> QED
        BY <2>1, <2>2, <2>3, <2>4 DEF ClearedIsOver
<1>13. BarrierCuts'
    BY <1>1 DEF BarrierCuts
<1> QED
    BY <1>8, <1>9, <1>10, <1>11, <1>12, <1>13, RetiredRequests DEF Safe

-----------------------------------------------------------------------------
(* The other intents of the owner                                          *)

(* A new operation is the only one that may commit for its entity.         *)
LEMMA BeginIsSafe ==
    ASSUME IInv, NEW e \in Entities, Begin(e)
    PROVE  Safe'
<1> PICK new : new = [entity |-> e, gen |-> generation[e] + 1, cancelled |-> FALSE,
                      stage |-> "queued", id |-> None, method |-> "AUTO", rests |-> None]
    OBVIOUS
<1>1. /\ generation \in [Entities -> Nat] /\ ops \subseteq Operation
      /\ registry \in [Entities -> Nat \cup {None}] /\ clearedAt \in [Entities -> Nat]
      /\ pending \in [Entities -> Request \cup {None}]
    BY DEF IInv, TypeOK
<1>2. /\ barrier = None /\ barrier' = None /\ clearedAt' = clearedAt
      /\ identity' = identity /\ profile' = profile
      /\ ops' = Flagged({e}) \cup {new}
    BY DEF Begin, OwnerIsFree
<1>3. /\ generation[e] \in Nat /\ generation'[e] = generation[e] + 1
      /\ registry'[e] = generation[e] + 1 /\ pending'[e] = None
      /\ \A d \in Entities : d # e => /\ generation'[d] = generation[d]
                                      /\ registry'[d] = registry[d]
                                      /\ pending'[d] = pending[d]
    BY <1>1 DEF Begin
<1>4. \A o \in Flagged({e}) :
          /\ o \in Operation
          /\ \E p \in ops :
                /\ o.entity = p.entity /\ o.gen = p.gen /\ o.stage = p.stage
                /\ o.id = p.id /\ o.rests = p.rests
                /\ o.cancelled = (p.cancelled \/ (p.entity \in {e} /\ registry[p.entity] = p.gen))
    BY <1>1, FlaggedOps
<1>5. \A o \in Flagged({e}) :
          /\ o.entity \in Entities /\ o.gen \in Nat
          /\ o.gen <= generation[o.entity]
          /\ o.entity = e => o.cancelled /\ o.gen # generation'[e]
    <2>1. SUFFICES ASSUME NEW o \in Flagged({e})
                   PROVE  /\ o.entity \in Entities /\ o.gen \in Nat
                          /\ o.gen <= generation[o.entity]
                          /\ o.entity = e => o.cancelled /\ o.gen # generation'[e]
        OBVIOUS
    <2>2. PICK p \in ops :
              /\ o.entity = p.entity /\ o.gen = p.gen
              /\ o.cancelled = (p.cancelled \/ (p.entity \in {e} /\ registry[p.entity] = p.gen))
        BY <1>4, <2>1
    <2>3. o.entity \in Entities /\ o.gen \in Nat /\ p.cancelled \in BOOLEAN
        BY <1>1, <1>4, <2>1 DEF Operation
    <2>4. /\ p.gen <= generation[p.entity]
          /\ ~p.cancelled => registry[p.entity] = p.gen
        BY DEF IInv, OneAuthority
    <2>5. o.entity = e => o.gen # generation'[e]
        BY <1>3, <2>2, <2>3, <2>4
    <2> QED
        BY <2>2, <2>3, <2>4, <2>5
<1>6. new.entity = e /\ new.gen = generation'[e] /\ ~new.cancelled /\ new.stage = "queued"
      /\ new.rests = None
    BY <1>3
<1>7. \A o \in Flagged({e}) : IsCurrent(o)' => /\ o.entity # e
                                               /\ generation[o.entity] = o.gen
    BY <1>3, <1>5 DEF IsCurrent
<1>8. OneAuthority'
    <2>1. \A o, p \in ops' : p.entity = o.entity /\ p.gen = o.gen => p = o
        <3>1. SUFFICES ASSUME NEW o \in ops', NEW p \in ops',
                              p.entity = o.entity, p.gen = o.gen
                       PROVE  p = o
            OBVIOUS
        <3>2. CASE o = new \/ p = new
            BY <1>2, <1>5, <1>6, <3>1, <3>2
        <3>3. CASE o \in Flagged({e}) /\ p \in Flagged({e})
            BY <1>1, <3>1, <3>3, OneOf
        <3> QED
            BY <1>2, <3>2, <3>3
    <2>2. ASSUME NEW o \in Flagged({e})
          PROVE  /\ o.gen <= generation'[o.entity]
                 /\ ~o.cancelled => registry'[o.entity] = o.gen /\ IsCurrent(o)'
                 /\ ~(o.cancelled /\ IsCurrent(o)')
        <3>1. PICK p \in ops :
                  /\ o.entity = p.entity /\ o.gen = p.gen
                  /\ o.cancelled = (p.cancelled \/ (p.entity \in {e} /\ registry[p.entity] = p.gen))
            BY <1>4, <2>2
        <3>2. /\ ~p.cancelled => registry[p.entity] = p.gen /\ generation[p.entity] = p.gen
              /\ p.cancelled => generation[p.entity] # p.gen
            BY <1>2 DEF IInv, OneAuthority, IsCurrent
        <3>3. p.cancelled \in BOOLEAN
            BY <1>1 DEF Operation
        <3>4. CASE o.entity = e
            <4>1. o.cancelled
                BY <1>5, <2>2, <3>4
            <4>2. o.gen <= generation[e] /\ o.gen \in Nat
                BY <1>5, <2>2, <3>4
            <4>3. o.gen # generation'[o.entity] /\ o.gen <= generation'[o.entity]
                BY <1>3, <3>4, <4>2
            <4> QED
                BY <4>1, <4>3 DEF IsCurrent
        <3>5. CASE o.entity # e
            BY <1>3, <1>5, <2>2, <3>1, <3>2, <3>3, <3>5 DEF IsCurrent
        <3> QED
            BY <3>4, <3>5
    <2>3. /\ new.gen <= generation'[new.entity]
          /\ registry'[new.entity] = new.gen /\ IsCurrent(new)'
        BY <1>3, <1>6 DEF IsCurrent
    <2> QED
        BY <1>2, <1>6, <2>1, <2>2, <2>3 DEF OneAuthority
<1>9. ReadsStand'
    <2>1. SUFFICES ASSUME NEW o \in Flagged({e}), IsCurrent(o)'
                   PROVE  /\ o.stage \in {"known", "refining"} => IsAbout(o.entity, o.id)'
                          /\ o.stage \in {"refining", "resolving"} => ~IsManual(o.entity)'
        BY <1>2, <1>6 DEF ReadsStand
    <2>2. PICK p \in ops : /\ o.entity = p.entity /\ o.gen = p.gen /\ o.stage = p.stage
                           /\ o.id = p.id
        BY <1>4
    <2>3. IsCurrent(p)
        BY <1>7, <2>1, <2>2 DEF IsCurrent
    <2> QED
        BY <1>2, <2>2, <2>3 DEF IInv, ReadsStand, IsAbout, IsManual
<1>10. PendingIsCurrent'
    BY <1>2, <1>3 DEF IInv, PendingIsCurrent, IsAbout
<1>11. ProfileIsAboutIdentity' /\ NoResurrection'
    BY <1>2 DEF IInv, ProfileIsAboutIdentity, IsAbout, NoResurrection
<1>12. WellFormed'
    <2>1. \A o \in Flagged({e}) : /\ o.stage \in {"known", "refining", "fetching"} => o.id # None
                                  /\ o.rests # None => o.entity \in Albums
        BY <1>4 DEF IInv, WellFormed
    <2> QED
        BY <1>2, <1>6, <2>1 DEF WellFormed
<1>13. ClearedIsOver'
    <2>1. \A d \in Entities : clearedAt[d] <= generation[d] /\ clearedAt[d] \in Nat
                              /\ generation[d] \in Nat
        BY <1>1 DEF IInv, ClearedIsOver
    <2>2. \A d \in Entities : clearedAt[d] <= generation'[d]
        BY <1>3, <2>1
    <2>3. ASSUME NEW o \in Flagged({e}), IsCurrent(o)'
          PROVE  o.gen > clearedAt[o.entity]
        <3>1. PICK p \in ops : o.entity = p.entity /\ o.gen = p.gen
            BY <1>4, <2>3
        <3>2. IsCurrent(p)
            BY <1>7, <2>3, <3>1 DEF IsCurrent
        <3> QED
            BY <3>1, <3>2 DEF IInv, ClearedIsOver
    <2>4. new.gen > clearedAt[new.entity]
        BY <1>3, <1>6, <2>1
    <2> QED
        BY <1>2, <2>2, <2>3, <2>4 DEF ClearedIsOver
<1>14. BarrierCuts'
    BY <1>2 DEF BarrierCuts
<1> QED
    BY <1>8, <1>9, <1>10, <1>11, <1>12, <1>13, <1>14 DEF Safe

(* Between the two steps of a manual barrier the cancelled operation may   *)
(* still be current, and its entity is the one the barrier is about.       *)
LEMMA ContradictIsSafe ==
    ASSUME IInv, NEW e \in Entities, Contradict(e)
    PROVE  Safe'
<1>1. generation \in [Entities -> Nat] /\ ops \subseteq Operation
    BY DEF IInv, TypeOK
<1>2. /\ barrier = None /\ clearedAt' = clearedAt /\ registry' = registry
      /\ identity' = identity /\ profile' = profile /\ generation' = generation
      /\ pending' = pending /\ ops' = Flagged({e})
    BY DEF Contradict, OwnerIsFree, service
<1>3. /\ barrier' # None /\ barrier'.entity = e /\ barrier'.intent # "clear"
      /\ barrier'.intent = "confirm" => barrier'.id # None
    <2>1. CASE barrier' \in [entity : {e}, intent : {"confirm"}, id : ExternalIds]
        <3>1. barrier' \in Barrier
            BY <2>1 DEF Barrier
        <3> QED
            BY <2>1, <3>1, NoneAssumption
    <2>2. CASE barrier' \in [entity : {e}, intent : {"reset"}, id : {None}]
        <3>1. barrier' \in Barrier
            BY <2>2 DEF Barrier
        <3> QED
            BY <2>2, <3>1, NoneAssumption
    <2> QED
        BY <2>1, <2>2 DEF Contradict
<1>4. \A o \in ops' : \E p \in ops :
          /\ o.entity = p.entity /\ o.gen = p.gen /\ o.stage = p.stage
          /\ o.id = p.id /\ o.rests = p.rests
          /\ o.cancelled = (p.cancelled \/ (p.entity \in {e} /\ registry[p.entity] = p.gen))
    BY <1>1, <1>2, FlaggedOps
<1>5. \A p \in ops : /\ p.gen <= generation[p.entity] /\ p.cancelled \in BOOLEAN
                     /\ ~p.cancelled => registry[p.entity] = p.gen /\ IsCurrent(p)
                     /\ p.cancelled => ~IsCurrent(p)
    BY <1>1, <1>2 DEF IInv, OneAuthority, Operation
<1>6. OneAuthority'
    <2>1. \A o, p \in ops' : p.entity = o.entity /\ p.gen = o.gen => p = o
        BY <1>2, OneOf
    <2>2. ASSUME NEW o \in ops'
          PROVE  /\ o.gen <= generation[o.entity]
                 /\ ~o.cancelled => registry[o.entity] = o.gen /\ IsCurrent(o)
                 /\ o.cancelled /\ IsCurrent(o) => o.entity = e
        <3>1. PICK p \in ops :
                  /\ o.entity = p.entity /\ o.gen = p.gen
                  /\ o.cancelled = (p.cancelled \/ (p.entity \in {e} /\ registry[p.entity] = p.gen))
            BY <1>4, <2>2
        <3> QED
            BY <1>5, <3>1 DEF IsCurrent
    <2> QED
        BY <1>2, <1>3, <2>1, <2>2 DEF OneAuthority, IsCurrent
<1>7. ReadsStand'
    <2>1. SUFFICES ASSUME NEW o \in ops', IsCurrent(o)
                   PROVE  /\ o.stage \in {"known", "refining"} => IsAbout(o.entity, o.id)
                          /\ o.stage \in {"refining", "resolving"} => ~IsManual(o.entity)
        BY <1>2 DEF ReadsStand, IsCurrent, IsAbout, IsManual
    <2>2. PICK p \in ops : o.entity = p.entity /\ o.gen = p.gen /\ o.stage = p.stage /\ o.id = p.id
        BY <1>4
    <2>3. IsCurrent(p)
        BY <2>1, <2>2 DEF IsCurrent
    <2> QED
        BY <2>2, <2>3 DEF IInv, ReadsStand
<1>8. PendingIsCurrent' /\ ProfileIsAboutIdentity' /\ NoResurrection'
    BY <1>2 DEF IInv, PendingIsCurrent, ProfileIsAboutIdentity, NoResurrection, IsAbout
<1>9. WellFormed'
    BY <1>4 DEF IInv, WellFormed
<1>10. ClearedIsOver'
    <2>1. ASSUME NEW o \in ops', IsCurrent(o)
          PROVE  o.gen > clearedAt[o.entity]
        <3>1. PICK p \in ops : o.entity = p.entity /\ o.gen = p.gen
            BY <1>4, <2>1
        <3> QED
            BY <2>1, <3>1 DEF IInv, ClearedIsOver, IsCurrent
    <2>2. \A d \in Entities : clearedAt[d] <= generation[d]
        BY DEF IInv, ClearedIsOver
    <2> QED
        BY <1>2, <1>3, <2>1, <2>2 DEF ClearedIsOver, IsCurrent
<1>11. BarrierCuts'
    <2>1. ASSUME NEW o \in ops', o.entity = e
          PROVE  o.cancelled
        <3>1. PICK p \in ops :
                  /\ o.entity = p.entity /\ o.gen = p.gen
                  /\ o.cancelled = (p.cancelled \/ (p.entity \in {e} /\ registry[p.entity] = p.gen))
            BY <1>4, <2>1
        <3> QED
            BY <1>5, <2>1, <3>1
    <2> QED
        BY <1>3, <2>1 DEF BarrierCuts
<1> QED
    BY <1>6, <1>7, <1>8, <1>9, <1>10, <1>11 DEF Safe

(* The barrier of the service: the epoch advances, and whatever was under  *)
(* way for the entity is of an earlier one.                                *)
LEMMA BarrierIsSafe ==
    ASSUME IInv, barrier # None, barrier' = None, ops' = ops, registry' = registry,
           NEW e \in Entities, e = barrier.entity,
           generation' = [generation EXCEPT ![e] = @ + 1],
           pending' = [pending EXCEPT ![e] = None],
           \A d \in Entities : d # e => /\ identity'[d] = identity[d]
                                        /\ profile'[d] = profile[d]
                                        /\ clearedAt'[d] = clearedAt[d],
           profile'[e] # None => /\ profile'[e] = profile[e] /\ clearedAt'[e] = clearedAt[e]
                                 /\ IsAbout(e, profile[e].id)',
           clearedAt'[e] \in {clearedAt[e], generation[e]}
    PROVE  Safe'
<1>1. /\ generation \in [Entities -> Nat] /\ ops \subseteq Operation
      /\ clearedAt \in [Entities -> Nat] /\ pending \in [Entities -> Request \cup {None}]
    BY DEF IInv, TypeOK
<1>2. /\ generation[e] \in Nat /\ generation'[e] = generation[e] + 1 /\ pending'[e] = None
      /\ \A d \in Entities : d # e => /\ generation'[d] = generation[d]
                                      /\ pending'[d] = pending[d]
    BY <1>1
<1>3. \A o \in ops : /\ o.entity \in Entities /\ o.gen \in Nat /\ o.cancelled \in BOOLEAN
                     /\ o.gen <= generation[o.entity] /\ generation[o.entity] \in Nat
                     /\ o.entity = e => o.cancelled
    BY <1>1 DEF IInv, OneAuthority, BarrierCuts, Operation
<1>4. \A o \in ops : IsCurrent(o)' => o.entity # e /\ IsCurrent(o)
    BY <1>2, <1>3 DEF IsCurrent
<1>5. OneAuthority'
    <2>1. SUFFICES ASSUME NEW o \in ops
                   PROVE  /\ o.gen <= generation'[o.entity]
                          /\ ~o.cancelled => registry[o.entity] = o.gen /\ IsCurrent(o)'
                          /\ ~(o.cancelled /\ IsCurrent(o)')
                          /\ \A p \in ops : p.entity = o.entity /\ p.gen = o.gen => p = o
        BY DEF OneAuthority
    <2>2. /\ ~o.cancelled => registry[o.entity] = o.gen /\ IsCurrent(o)
          /\ o.cancelled /\ IsCurrent(o) => o.entity = e
          /\ \A p \in ops : p.entity = o.entity /\ p.gen = o.gen => p = o
        BY DEF IInv, OneAuthority
    <2>3. o.gen <= generation'[o.entity]
        BY <1>2, <1>3
    <2>4. ~o.cancelled => IsCurrent(o)'
        BY <1>2, <1>3, <2>2 DEF IsCurrent
    <2> QED
        BY <1>4, <2>2, <2>3, <2>4
<1>6. ReadsStand'
    BY <1>3, <1>4 DEF IInv, ReadsStand, IsAbout, IsManual
<1>7. PendingIsCurrent'
    BY <1>2 DEF IInv, PendingIsCurrent, IsAbout
<1>8. ProfileIsAboutIdentity' /\ NoResurrection'
    BY DEF IInv, ProfileIsAboutIdentity, NoResurrection, IsAbout
<1>9. WellFormed'
    BY DEF IInv, WellFormed
<1>10. ClearedIsOver'
    <2>1. \A d \in Entities : clearedAt[d] <= generation[d] /\ clearedAt[d] \in Nat
                              /\ generation[d] \in Nat
        BY <1>1 DEF IInv, ClearedIsOver
    <2>2. \A d \in Entities : clearedAt'[d] <= generation'[d]
        BY <1>2, <2>1
    <2>3. \A o \in ops : IsCurrent(o)' => o.gen > clearedAt'[o.entity]
        BY <1>3, <1>4 DEF IInv, ClearedIsOver
    <2> QED
        BY <2>2, <2>3 DEF ClearedIsOver
<1>11. BarrierCuts'
    BY DEF BarrierCuts
<1> QED
    BY <1>5, <1>6, <1>7, <1>8, <1>9, <1>10, <1>11 DEF Safe

(* The user's identity replaces the one there was; a profile of the same   *)
(* identity stays.                                                         *)
LEMMA ConfirmIsSafe ==
    ASSUME IInv, Confirm
    PROVE  Safe'
<1>1. /\ barrier # None /\ barrier \in Barrier /\ barrier.entity \in Entities
      /\ identity \in [Entities -> Identity \cup {None}]
      /\ profile \in [Entities -> Profile \cup {None}]
    BY DEF IInv, TypeOK, Confirm, Barrier
<1>2. PICK e \in Entities : e = barrier.entity
    BY <1>1
<1>3. /\ identity' = [identity EXCEPT ![e] = [id |-> barrier.id, method |-> "MANUAL"]]
      /\ profile' = [profile EXCEPT ![e] = KeptProfile(e, barrier.id)]
      /\ clearedAt' = clearedAt
    BY <1>2 DEF Confirm
<1>4. [id |-> barrier.id, method |-> "MANUAL"] # None
    <2>1. barrier.id \in ExternalIds
        BY <1>1 DEF IInv, ClearedIsOver, Confirm, Barrier
    <2>2. [id |-> barrier.id, method |-> "MANUAL"] \in Identity
        BY <2>1 DEF Identity
    <2> QED
        BY <2>2, NoneAssumption
<1>5. profile'[e] # None => profile'[e] = profile[e] /\ IsAbout(e, profile[e].id)'
    <2>1. SUFFICES ASSUME profile'[e] # None
                   PROVE  profile'[e] = profile[e] /\ profile[e].id = barrier.id
        BY <1>1, <1>3, <1>4 DEF IsAbout
    <2>2. profile'[e] = KeptProfile(e, barrier.id)
        BY <1>1, <1>3
    <2>3. profile'[e] = profile[e] /\ (IsAbout(e, barrier.id) \/ identity[e] = None)
        BY <2>1, <2>2 DEF KeptProfile
    <2>4. IsAbout(e, profile[e].id)
        BY <2>1, <2>3 DEF IInv, ProfileIsAboutIdentity
    <2> QED
        BY <2>3, <2>4 DEF IsAbout
<1>6. \A d \in Entities : d # e => identity'[d] = identity[d] /\ profile'[d] = profile[d]
    BY <1>1, <1>3
<1> QED
    BY <1>1, <1>2, <1>3, <1>5, <1>6, BarrierIsSafe DEF Confirm

(* A reset leaves nothing of the entity.                                   *)
LEMMA ResetIsSafe ==
    ASSUME IInv, Reset
    PROVE  Safe'
<1>1. /\ barrier # None /\ barrier.entity \in Entities
      /\ identity \in [Entities -> Identity \cup {None}]
      /\ profile \in [Entities -> Profile \cup {None}]
      /\ clearedAt \in [Entities -> Nat]
    BY DEF IInv, TypeOK, Reset, Barrier
<1>2. PICK e \in Entities : e = barrier.entity
    BY <1>1
<1>3. /\ identity' = [identity EXCEPT ![e] = None] /\ profile' = [profile EXCEPT ![e] = None]
      /\ clearedAt' = [clearedAt EXCEPT ![e] = generation[e]]
    BY <1>2 DEF Reset
<1>4. /\ profile'[e] = None /\ clearedAt'[e] = generation[e]
      /\ \A d \in Entities : d # e => /\ identity'[d] = identity[d]
                                      /\ profile'[d] = profile[d]
                                      /\ clearedAt'[d] = clearedAt[d]
    BY <1>1, <1>3
<1> QED
    BY <1>1, <1>2, <1>4, BarrierIsSafe DEF Reset

(* Clearing leaves the generation alone: what it cleared stays cleared     *)
(* because the intent retired that generation before.                      *)
LEMMA ClearIsSafe ==
    ASSUME IInv, Clear
    PROVE  Safe'
<1>1. /\ barrier # None /\ barrier.entity \in Entities /\ barrier.intent = "clear"
      /\ profile \in [Entities -> Profile \cup {None}] /\ ops \subseteq Operation
      /\ clearedAt \in [Entities -> Nat] /\ generation \in [Entities -> Nat]
    BY DEF IInv, TypeOK, Clear, Barrier
<1>2. PICK e \in Entities : e = barrier.entity
    BY <1>1
<1>3. /\ profile' = [profile EXCEPT ![e] = None] /\ barrier' = None
      /\ clearedAt' = [clearedAt EXCEPT ![e] = generation[e]]
      /\ generation' = generation /\ identity' = identity /\ pending' = pending
      /\ registry' = registry /\ ops' = ops
    BY <1>2 DEF Clear
<1>4. \A o \in ops : IsCurrent(o) => o.entity # e /\ o.entity \in Entities
    BY <1>1, <1>2 DEF IInv, ClearedIsOver, Operation
<1>5. OneAuthority'
    BY <1>1, <1>3 DEF IInv, OneAuthority, IsCurrent
<1>6. ReadsStand' /\ PendingIsCurrent' /\ WellFormed' /\ BarrierCuts'
    BY <1>3 DEF IInv, ReadsStand, PendingIsCurrent, WellFormed, BarrierCuts, IsCurrent,
                IsAbout, IsManual
<1>7. ProfileIsAboutIdentity' /\ NoResurrection'
    BY <1>1, <1>3 DEF IInv, ProfileIsAboutIdentity, NoResurrection, IsAbout
<1>8. ClearedIsOver'
    <2>1. \A d \in Entities : clearedAt'[d] <= generation'[d]
        BY <1>1, <1>3 DEF IInv, ClearedIsOver
    <2>2. \A o \in ops : IsCurrent(o) => o.gen > clearedAt'[o.entity]
        BY <1>1, <1>3, <1>4 DEF IInv, ClearedIsOver
    <2> QED
        BY <1>3, <2>1, <2>2 DEF ClearedIsOver, IsCurrent
<1> QED
    BY <1>5, <1>6, <1>7, <1>8 DEF Safe

-----------------------------------------------------------------------------
(* The worker of an operation                                              *)

(* The only operation of its entity that may commit is the current one.    *)
LEMMA OnlyCurrent ==
    ASSUME IInv, NEW o \in ops, NEW p \in ops, IsCurrent(o), IsCurrent(p),
           p.entity = o.entity
    PROVE  p = o
BY DEF IInv, OneAuthority, IsCurrent

(* The end of an operation takes the token only when it is its own, and no *)
(* other operation had its generation.                                     *)
LEMMA EndIsSafe ==
    ASSUME IInv, NEW o \in ops, End(o),
           \/ generation' = generation
           \/ generation' = [generation EXCEPT ![o.entity] = IF @ = o.gen THEN @ + 1 ELSE @]
    PROVE  /\ OneAuthority' /\ WellFormed' /\ ClearedIsOver' /\ BarrierCuts'
           /\ \A p \in ops' : p \in ops /\ p # o /\ (IsCurrent(p)' => IsCurrent(p))
<1>1. /\ generation \in [Entities -> Nat] /\ ops \subseteq Operation
      /\ registry \in [Entities -> Nat \cup {None}] /\ clearedAt \in [Entities -> Nat]
    BY DEF IInv, TypeOK
<1>2. /\ ops' = ops \ {o} /\ barrier' = barrier /\ clearedAt' = clearedAt
      /\ registry' = [registry EXCEPT ![o.entity] = IF @ = o.gen THEN None ELSE @]
    BY DEF End
<1>3. o.entity \in Entities /\ o.gen \in Nat
    BY <1>1 DEF Operation
<1>4. \A p \in ops' :
          /\ p \in ops /\ p # o /\ p.entity \in Entities /\ p.gen \in Nat
          /\ generation[p.entity] \in Nat /\ p.gen <= generation[p.entity]
          /\ p.entity = o.entity => p.gen # o.gen
    BY <1>1, <1>2 DEF IInv, OneAuthority, Operation
<1>5. \A d \in Entities :
          /\ generation'[d] \in {generation[d], generation[d] + 1}
          /\ generation'[d] # generation[d] => d = o.entity /\ generation[d] = o.gen
          /\ registry'[d] # registry[d] => d = o.entity /\ registry[d] = o.gen
    BY <1>1, <1>2, <1>3
<1>6. \A p \in ops' : IsCurrent(p)' => IsCurrent(p)
    BY <1>4, <1>5 DEF IsCurrent
<1>7. \A p \in ops' : p.gen <= generation'[p.entity]
    BY <1>4, <1>5
<1>8. \A p \in ops' : IsCurrent(p) => IsCurrent(p)'
    BY <1>4, <1>5 DEF IsCurrent
<1>9. \A p \in ops' : registry[p.entity] = p.gen => registry'[p.entity] = p.gen
    BY <1>4, <1>5
<1>10. OneAuthority'
    <2>1. SUFFICES ASSUME NEW p \in ops'
                   PROVE  /\ p.gen <= generation'[p.entity]
                          /\ ~p.cancelled => registry'[p.entity] = p.gen /\ IsCurrent(p)'
                          /\ p.cancelled /\ IsCurrent(p)' =>
                               /\ barrier # None /\ barrier.entity = p.entity
                               /\ barrier.intent # "clear"
                          /\ \A q \in ops' : q.entity = p.entity /\ q.gen = p.gen => q = p
        BY <1>2 DEF OneAuthority
    <2>2. /\ ~p.cancelled => registry[p.entity] = p.gen /\ IsCurrent(p)
          /\ p.cancelled /\ IsCurrent(p) =>
               barrier # None /\ barrier.entity = p.entity /\ barrier.intent # "clear"
          /\ \A q \in ops : q.entity = p.entity /\ q.gen = p.gen => q = p
        BY <1>4 DEF IInv, OneAuthority
    <2> QED
        BY <1>4, <1>6, <1>7, <1>8, <1>9, <2>2
<1>11. WellFormed' /\ BarrierCuts'
    BY <1>2 DEF IInv, WellFormed, BarrierCuts
<1>12. ClearedIsOver'
    <2>1. \A d \in Entities : clearedAt[d] <= generation[d] /\ clearedAt[d] \in Nat
                              /\ generation[d] \in Nat
        BY <1>1 DEF IInv, ClearedIsOver
    <2>2. \A d \in Entities : clearedAt[d] <= generation'[d]
        BY <1>5, <2>1
    <2>3. \A p \in ops' : /\ IsCurrent(p)' => p.gen > clearedAt[p.entity]
                          /\ barrier # None /\ barrier.intent = "clear"
                             /\ barrier.entity = p.entity => ~IsCurrent(p)'
        BY <1>4, <1>6 DEF IInv, ClearedIsOver
    <2>4. barrier # None /\ barrier.intent = "confirm" => barrier.id # None
        BY DEF IInv, ClearedIsOver
    <2> QED
        BY <1>2, <2>2, <2>3, <2>4 DEF ClearedIsOver
<1> QED
    BY <1>4, <1>6, <1>10, <1>11, <1>12

(* An operation that ends without a word to the repository leaves what was *)
(* read and what is waited for in step with the generations.               *)
LEMMA QuietEnd ==
    ASSUME IInv, NEW o \in ops, End(o), identity' = identity, profile' = profile,
           \/ RetireGeneration(o)
           \/ /\ generation' = generation
              /\ \A d \in Entities : pending'[d] \in {pending[d], None}
    PROVE  Safe'
<1>1. /\ generation \in [Entities -> Nat] /\ pending \in [Entities -> Request \cup {None}]
      /\ o.entity \in Entities /\ clearedAt' = clearedAt
    BY DEF IInv, TypeOK, Operation, End
<1>2. /\ OneAuthority' /\ WellFormed' /\ ClearedIsOver' /\ BarrierCuts'
      /\ \A p \in ops' : p \in ops /\ p # o /\ (IsCurrent(p)' => IsCurrent(p))
    BY EndIsSafe DEF RetireGeneration
<1>3. ReadsStand'
    BY <1>2 DEF IInv, ReadsStand, IsAbout, IsManual
<1>4. PendingIsCurrent'
    <2>1. SUFFICES ASSUME NEW d \in Entities, pending'[d] # None
                   PROVE  pending'[d].gen = generation'[d] /\ IsAbout(d, pending[d].id)'
        BY DEF PendingIsCurrent
    <2>2. pending'[d] = pending[d]
        BY <1>1, <2>1 DEF RetireGeneration
    <2>3. pending[d].gen = generation[d] /\ IsAbout(d, pending[d].id)
        BY <2>1, <2>2 DEF IInv, PendingIsCurrent
    <2>4. generation'[d] = generation[d]
        BY <1>1, <2>1, <2>2, <2>3 DEF RetireGeneration, IsCurrent
    <2> QED
        BY <2>2, <2>3, <2>4 DEF IsAbout
<1>5. ProfileIsAboutIdentity' /\ NoResurrection'
    BY <1>1 DEF IInv, ProfileIsAboutIdentity, NoResurrection, IsAbout
<1> QED
    BY <1>2, <1>3, <1>4, <1>5 DEF Safe

(* An identity that is revoked takes its profile and its request along.    *)
LEMMA UnresolvedIsSafe ==
    ASSUME IInv, NEW o \in ops, Unresolved(o)
    PROVE  Safe'
<1>1. /\ identity \in [Entities -> Identity \cup {None}]
      /\ profile \in [Entities -> Profile \cup {None}]
      /\ pending \in [Entities -> Request \cup {None}]
      /\ ops \subseteq Operation /\ o.entity \in Entities /\ clearedAt' = clearedAt
      /\ generation' = generation
    BY DEF IInv, TypeOK, Operation, End, Unresolved, Revoke
<1>2. ~IsManual(o.entity) /\ IsCurrent(o)
    BY DEF IInv, ReadsStand, Unresolved
<1>3. /\ OneAuthority' /\ WellFormed' /\ ClearedIsOver' /\ BarrierCuts'
      /\ \A p \in ops' : p \in ops /\ p # o /\ (IsCurrent(p)' => IsCurrent(p))
    BY <1>1, EndIsSafe DEF Unresolved
<1>4. /\ identity'[o.entity] = None /\ pending'[o.entity] = None
      /\ profile'[o.entity] # None => identity[o.entity] = None /\ profile'[o.entity] = profile[o.entity]
      /\ \A d \in Entities : d # o.entity => /\ identity'[d] = identity[d]
                                             /\ profile'[d] = profile[d]
                                             /\ pending'[d] = pending[d]
    BY <1>1, <1>2 DEF Unresolved, Revoke
<1>5. profile'[o.entity] = None
    BY <1>1, <1>4 DEF IInv, ProfileIsAboutIdentity, IsAbout
<1>6. ReadsStand'
    <2>1. \A p \in ops' : IsCurrent(p)' => p.entity # o.entity /\ p.entity \in Entities
        BY <1>1, <1>2, <1>3, OnlyCurrent DEF Operation
    <2> QED
        BY <1>3, <1>4, <2>1 DEF IInv, ReadsStand, IsAbout, IsManual
<1>7. PendingIsCurrent'
    BY <1>1, <1>4 DEF IInv, PendingIsCurrent, IsAbout
<1>8. ProfileIsAboutIdentity' /\ NoResurrection'
    BY <1>1, <1>4, <1>5 DEF IInv, ProfileIsAboutIdentity, NoResurrection, IsAbout
<1> QED
    BY <1>3, <1>6, <1>7, <1>8 DEF Safe

(* A delivery is about the identity the entity has, and was begun after    *)
(* the last clearing.                                                      *)
LEMMA DeliverIsSafe ==
    ASSUME IInv, NEW o \in ops, Deliver(o)
    PROVE  Safe'
<1>1. /\ profile \in [Entities -> Profile \cup {None}]
      /\ pending \in [Entities -> Request \cup {None}]
      /\ ops \subseteq Operation /\ o.entity \in Entities /\ clearedAt' = clearedAt
      /\ generation' = generation /\ identity' = identity
    BY DEF IInv, TypeOK, Operation, End, Deliver
<1>2. IsAbout(o.entity, o.id) /\ o.gen > clearedAt[o.entity]
    BY DEF IInv, ClearedIsOver, Deliver, MayDeliver
<1>3. /\ OneAuthority' /\ WellFormed' /\ ClearedIsOver' /\ BarrierCuts'
      /\ \A p \in ops' : p \in ops /\ p # o /\ (IsCurrent(p)' => IsCurrent(p))
    BY <1>1, EndIsSafe DEF Deliver
<1>4. /\ pending'[o.entity] = None
      /\ profile'[o.entity] \in {profile[o.entity], [id |-> o.id, by |-> o.gen]}
      /\ \A d \in Entities : d # o.entity => /\ profile'[d] = profile[d]
                                             /\ pending'[d] = pending[d]
    BY <1>1 DEF Deliver
<1>5. ReadsStand'
    BY <1>1, <1>3 DEF IInv, ReadsStand, IsAbout, IsManual
<1>6. PendingIsCurrent'
    BY <1>1, <1>4 DEF IInv, PendingIsCurrent, IsAbout
<1>7. ProfileIsAboutIdentity' /\ NoResurrection'
    BY <1>1, <1>2, <1>4 DEF IInv, ProfileIsAboutIdentity, NoResurrection, IsAbout
<1> QED
    BY <1>3, <1>5, <1>6, <1>7 DEF Safe

(* An operation that goes on keeps its entity, its generation and its      *)
(* authority.                                                              *)
LEMMA MoveIsSafe ==
    ASSUME IInv, NEW o \in ops, NEW moved, Moves(o, moved), generation' = generation,
           moved.entity = o.entity, moved.gen = o.gen, moved.cancelled = o.cancelled
    PROVE  /\ OneAuthority' /\ ClearedIsOver' /\ BarrierCuts'
           /\ \A p \in ops' : p = moved \/ (p \in ops /\ p # o)
<1>1. /\ ops' = (ops \ {o}) \cup {moved} /\ registry' = registry /\ barrier' = barrier
      /\ clearedAt' = clearedAt
    BY DEF Moves
<1>2. \A p \in ops' : \E q \in ops :
          /\ p.entity = q.entity /\ p.gen = q.gen /\ p.cancelled = q.cancelled
          /\ p = IF q = o THEN moved ELSE q
    BY <1>1
<1>3. OneAuthority'
    <2>1. ASSUME NEW p \in ops', NEW q \in ops', q.entity = p.entity, q.gen = p.gen
          PROVE  q = p
        <3>1. PICK u \in ops : p.entity = u.entity /\ p.gen = u.gen
                               /\ p = IF u = o THEN moved ELSE u
            BY <1>2
        <3>2. PICK v \in ops : q.entity = v.entity /\ q.gen = v.gen
                               /\ q = IF v = o THEN moved ELSE v
            BY <1>2
        <3>3. u = v
            BY <2>1, <3>1, <3>2 DEF IInv, OneAuthority
        <3> QED
            BY <3>1, <3>2, <3>3
    <2>2. ASSUME NEW p \in ops'
          PROVE  /\ p.gen <= generation[p.entity]
                 /\ ~p.cancelled => registry[p.entity] = p.gen /\ IsCurrent(p)
                 /\ p.cancelled /\ IsCurrent(p) =>
                      barrier # None /\ barrier.entity = p.entity /\ barrier.intent # "clear"
        <3>1. PICK u \in ops :
                  p.entity = u.entity /\ p.gen = u.gen /\ p.cancelled = u.cancelled
            BY <1>2
        <3> QED
            BY <3>1 DEF IInv, OneAuthority, IsCurrent
    <2> QED
        BY <1>1, <2>1, <2>2 DEF OneAuthority, IsCurrent
<1>4. ClearedIsOver'
    <2>1. ASSUME NEW p \in ops'
          PROVE  /\ IsCurrent(p) => p.gen > clearedAt[p.entity]
                 /\ barrier # None /\ barrier.intent = "clear" /\ barrier.entity = p.entity =>
                      ~IsCurrent(p)
        <3>1. PICK u \in ops : p.entity = u.entity /\ p.gen = u.gen
            BY <1>2
        <3> QED
            BY <3>1 DEF IInv, ClearedIsOver, IsCurrent
    <2>2. /\ \A d \in Entities : clearedAt[d] <= generation[d]
          /\ barrier # None /\ barrier.intent = "confirm" => barrier.id # None
        BY DEF IInv, ClearedIsOver
    <2> QED
        BY <1>1, <2>1, <2>2 DEF ClearedIsOver, IsCurrent
<1>5. BarrierCuts'
    BY <1>1, <1>2 DEF IInv, BarrierCuts
<1> QED
    BY <1>1, <1>3, <1>4, <1>5

(* What an operation saw is so when it saw it.                             *)
LEMMA Seen ==
    ASSUME IInv, NEW o \in ops, Look(o)
    PROVE  \E moved \in Operation :
              /\ Moves(o, moved)
              /\ moved.entity = o.entity /\ moved.gen = o.gen /\ moved.cancelled = o.cancelled
              /\ moved.stage \in {"known", "refining"} => IsAbout(o.entity, moved.id)
              /\ moved.stage \in {"refining", "resolving"} => ~IsManual(o.entity)
              /\ moved.stage \in {"known", "refining", "fetching"} => moved.id # None
              /\ moved.rests # None => moved.entity \in Albums
<1> DEFINE e == o.entity
           found == identity[e]
           Embedded == found # None /\ found.method = "EMBEDDED_HINT"
           Asks(m) == /\ m \in Operation
                      /\ m.entity = e /\ m.gen = o.gen /\ m.cancelled = o.cancelled
                      /\ m.stage \in {"known", "refining"} => IsAbout(e, m.id)
                      /\ m.stage \in {"refining", "resolving"} => ~IsManual(e)
                      /\ m.stage \in {"known", "refining", "fetching"} => m.id # None
                      /\ m.rests # None => m.entity \in Albums
<1>1. /\ o \in Operation /\ e \in Entities
      /\ identity \in [Entities -> Identity \cup {None}]
      /\ o.rests # None => e \in Albums
    BY DEF IInv, TypeOK, Operation, WellFormed
<1>2. found # None => found.id \in ExternalIds /\ found.id # None /\ IsAbout(e, found.id)
    BY <1>1, NoneAssumption DEF Identity, IsAbout
<1>3. ASSUME IsManual(e) \/ Embedded
      PROVE  Asks([o EXCEPT !.stage = "known", !.id = found.id])
    <2>1. found # None
        BY <1>3 DEF IsManual
    <2> QED
        BY <1>1, <1>2, <2>1 DEF Operation, Stages, Asking
<1>4. ASSUME Embedded
      PROVE  Asks([o EXCEPT !.stage = "refining", !.id = found.id,
                            !.method = "EMBEDDED_HINT"])
    <2>1. ~IsManual(e)
        BY <1>4 DEF IsManual
    <2> QED
        BY <1>1, <1>2, <1>4, <2>1 DEF Operation, Stages, Asking, Automatic
<1>5. ASSUME ~IsManual(e), NEW m \in {"EMBEDDED_HINT", "AUTO"},
             NEW rests \in ExternalIds \cup {None}, rests # None => e \in Albums
      PROVE  Asks([o EXCEPT !.stage = "resolving", !.rests = rests, !.method = m])
    BY <1>1, <1>5 DEF Operation, Stages, Asking, Automatic
<1>6. ASSUME e \in Albums, identity[ArtistOf[e]] # None
      PROVE  identity[ArtistOf[e]].id \in ExternalIds
    <2>1. ArtistOf[e] \in Entities
        BY <1>6, ArtistOfAssumption DEF Entities
    <2> QED
        BY <1>1, <1>6, <2>1 DEF Identity
<1>7. \E m : Asks(m) /\ Moves(o, m)
    <2>1. PICK hints \in {"none", "edition", "identity"} :
            \/ /\ IsManual(e) \/ (Embedded /\ hints = "none")
               /\ Moves(o, [o EXCEPT !.stage = "known", !.id = found.id])
            \/ /\ Embedded /\ hints = "edition"
               /\ Moves(o, [o EXCEPT !.stage = "refining", !.id = found.id,
                                     !.method = "EMBEDDED_HINT"])
            \/ /\ ~IsManual(e)
               /\ \E rests \in {None} \cup
                      (IF (IF e \in Albums THEN identity[ArtistOf[e]] ELSE None) = None THEN {}
                       ELSE {(IF e \in Albums THEN identity[ArtistOf[e]] ELSE None).id}) :
                    Moves(o, [o EXCEPT !.stage = "resolving", !.rests = rests,
                                !.method = IF hints = "identity" THEN "EMBEDDED_HINT"
                                           ELSE "AUTO"])
        BY DEF Look
    <2>2. CASE /\ IsManual(e) \/ (Embedded /\ hints = "none")
               /\ Moves(o, [o EXCEPT !.stage = "known", !.id = found.id])
        BY <1>3, <2>2
    <2>3. CASE /\ Embedded /\ hints = "edition"
               /\ Moves(o, [o EXCEPT !.stage = "refining", !.id = found.id,
                                     !.method = "EMBEDDED_HINT"])
        BY <1>4, <2>3
    <2>4. ASSUME ~IsManual(e),
                 NEW rests \in {None} \cup
                      (IF (IF e \in Albums THEN identity[ArtistOf[e]] ELSE None) = None THEN {}
                       ELSE {(IF e \in Albums THEN identity[ArtistOf[e]] ELSE None).id}),
                 NEW m \in {"EMBEDDED_HINT", "AUTO"},
                 Moves(o, [o EXCEPT !.stage = "resolving", !.rests = rests, !.method = m])
          PROVE  \E n : Asks(n) /\ Moves(o, n)
        <3>1. rests \in ExternalIds \cup {None} /\ (rests # None => e \in Albums)
            BY <1>6, <2>4
        <3>2. Asks([o EXCEPT !.stage = "resolving", !.rests = rests, !.method = m])
            BY <1>5, <2>4, <3>1
        <3> QED
            BY <2>4, <3>2
    <2> QED
        BY <2>1, <2>2, <2>3, <2>4
<1> QED
    BY <1>7

(* A first look changes nothing that others see.                           *)
LEMMA LookIsSafe ==
    ASSUME IInv, NEW o \in ops, Look(o)
    PROVE  Safe'
<1>1. PICK moved \in Operation :
          /\ Moves(o, moved)
          /\ moved.entity = o.entity /\ moved.gen = o.gen /\ moved.cancelled = o.cancelled
          /\ moved.stage \in {"known", "refining"} => IsAbout(o.entity, moved.id)
          /\ moved.stage \in {"refining", "resolving"} => ~IsManual(o.entity)
          /\ moved.stage \in {"known", "refining", "fetching"} => moved.id # None
          /\ moved.rests # None => moved.entity \in Albums
    BY Seen
<1>2. /\ generation' = generation /\ identity' = identity /\ profile' = profile
      /\ pending' = pending /\ clearedAt' = clearedAt
    BY <1>1 DEF Look, service, Moves
<1>3. /\ OneAuthority' /\ ClearedIsOver' /\ BarrierCuts'
      /\ \A p \in ops' : p = moved \/ (p \in ops /\ p # o)
    BY <1>1, <1>2, MoveIsSafe
<1>4. ReadsStand'
    BY <1>1, <1>2, <1>3 DEF IInv, ReadsStand, IsAbout, IsManual, IsCurrent
<1>5. PendingIsCurrent' /\ ProfileIsAboutIdentity' /\ NoResurrection'
    BY <1>2 DEF IInv, PendingIsCurrent, ProfileIsAboutIdentity, NoResurrection, IsAbout
<1>6. WellFormed'
    BY <1>1, <1>3 DEF IInv, WellFormed
<1> QED
    BY <1>3, <1>4, <1>5, <1>6 DEF Safe

(* A registered request is current and about the identity it was made for. *)
LEMMA RegisterIsSafe ==
    ASSUME IInv, NEW o \in ops, IsCurrent(o), NEW x \in ExternalIds, Registers(o, x),
           \A d \in Entities : d # o.entity => identity'[d] = identity[d] /\ profile'[d] = profile[d],
           IsAbout(o.entity, x)',
           profile'[o.entity] # None => profile'[o.entity] = profile[o.entity]
                                        /\ profile[o.entity].id = x
    PROVE  Safe'
<1> DEFINE moved == [o EXCEPT !.stage = "fetching", !.id = x]
<1>1. /\ o \in Operation /\ o.entity \in Entities /\ ops \subseteq Operation
      /\ pending \in [Entities -> Request \cup {None}]
    BY DEF IInv, TypeOK, Operation
<1>2. /\ moved.entity = o.entity /\ moved.gen = o.gen /\ moved.cancelled = o.cancelled
      /\ moved.stage = "fetching" /\ moved.id = x /\ moved.rests = o.rests
    BY <1>1 DEF Operation
<1>3. /\ generation' = generation /\ clearedAt' = clearedAt /\ Moves(o, moved)
      /\ pending' = [pending EXCEPT ![o.entity] = [gen |-> o.gen, id |-> x]]
    BY DEF Registers, Moves
<1> HIDE DEF moved
<1>4. /\ OneAuthority' /\ ClearedIsOver' /\ BarrierCuts'
      /\ \A p \in ops' : p = moved \/ (p \in ops /\ p # o)
    BY <1>2, <1>3, MoveIsSafe
<1>5. ReadsStand'
    <2>1. SUFFICES ASSUME NEW p \in ops', IsCurrent(p)'
                   PROVE  /\ p.stage \in {"known", "refining"} => IsAbout(p.entity, p.id)'
                          /\ p.stage \in {"refining", "resolving"} => ~IsManual(p.entity)'
        BY DEF ReadsStand
    <2>2. CASE p = moved
        BY <1>2, <2>2
    <2>3. CASE p \in ops /\ p # o
        <3>1. IsCurrent(p)
            BY <1>3, <2>1 DEF IsCurrent
        <3>2. p.entity # o.entity /\ p.entity \in Entities
            BY <1>1, <2>3, <3>1, OnlyCurrent DEF Operation
        <3> QED
            BY <2>3, <3>1, <3>2 DEF IInv, ReadsStand, IsAbout, IsManual
    <2> QED
        BY <1>4, <2>2, <2>3
<1>6. PendingIsCurrent'
    <2>1. SUFFICES ASSUME NEW d \in Entities, pending'[d] # None
                   PROVE  pending'[d].gen = generation'[d] /\ IsAbout(d, pending[d].id)'
        BY DEF PendingIsCurrent
    <2>2. CASE d = o.entity
        <3>1. pending'[d] = [gen |-> o.gen, id |-> x]
            BY <1>1, <1>3, <2>2
        <3> QED
            BY <1>3, <2>2, <3>1 DEF IsCurrent, IsAbout
    <2>3. CASE d # o.entity
        <3>1. pending'[d] = pending[d]
            BY <1>1, <1>3, <2>3
        <3> QED
            BY <1>3, <2>1, <2>3, <3>1 DEF IInv, PendingIsCurrent, IsAbout
    <2> QED
        BY <2>2, <2>3
<1>7. ProfileIsAboutIdentity' /\ NoResurrection'
    BY <1>1, <1>3 DEF IInv, ProfileIsAboutIdentity, NoResurrection, IsAbout
<1>8. WellFormed'
    <2>1. x # None /\ (o.rests # None => o.entity \in Albums)
        BY NoneAssumption DEF IInv, WellFormed
    <2> QED
        BY <1>2, <1>4, <2>1 DEF IInv, WellFormed
<1> QED
    BY <1>4, <1>5, <1>6, <1>7, <1>8 DEF Safe

(* A request for an identity that is already there.                        *)
LEMMA KnownIsSafe ==
    ASSUME IInv, NEW o \in ops, Known(o)
    PROVE  Safe'
<1>1. IsAbout(o.entity, o.id) /\ o.id \in ExternalIds /\ o.entity \in Entities
    BY DEF IInv, TypeOK, Operation, ReadsStand, WellFormed, Known
<1>2. profile[o.entity] # None => profile[o.entity].id = o.id
    BY <1>1 DEF IInv, ProfileIsAboutIdentity, IsAbout
<1>3. Registers(o, o.id) /\ identity' = identity /\ profile' = profile /\ IsCurrent(o)
    BY DEF Known
<1> QED
    BY <1>1, <1>2, <1>3, RegisterIsSafe DEF IsAbout

(* What becomes of the identity and the profile of an entity resolved      *)
LEMMA Resolution ==
    ASSUME IInv, NEW o \in ops, NEW x \in ExternalIds, Resolved(o, x)
    PROVE  /\ [id |-> x, method |-> o.method] \in Identity /\ o.entity \in Entities
           /\ identity'[o.entity] = [id |-> x, method |-> o.method]
           /\ IsAbout(o.entity, x)' /\ ~IsManual(o.entity)
           /\ profile'[o.entity] = IF IsAbout(o.entity, x) THEN profile[o.entity] ELSE None
           /\ profile'[o.entity] # None => profile[o.entity].id = x
<1>1. /\ identity \in [Entities -> Identity \cup {None}]
      /\ profile \in [Entities -> Profile \cup {None}]
      /\ o \in Operation /\ o.entity \in Entities /\ o.method \in Automatic
    BY DEF IInv, TypeOK, Operation
<1>2. [id |-> x, method |-> o.method] \in Identity
    BY <1>1 DEF Identity
<1>3. identity'[o.entity] = [id |-> x, method |-> o.method]
    BY <1>1 DEF Resolved
<1>4. IsAbout(o.entity, x)'
    BY <1>2, <1>3, NoneAssumption DEF IsAbout
<1>5. ~IsManual(o.entity)
    BY DEF IInv, ReadsStand, Resolved
<1>6. profile[o.entity] # None => IsAbout(o.entity, profile[o.entity].id)
    BY <1>1 DEF IInv, ProfileIsAboutIdentity
<1>7. profile'[o.entity] = KeptProfile(o.entity, x)
    BY <1>1 DEF Resolved
<1>8. profile'[o.entity] = IF IsAbout(o.entity, x) THEN profile[o.entity] ELSE None
    BY <1>6, <1>7 DEF KeptProfile, IsAbout
<1>9. profile'[o.entity] # None => profile[o.entity].id = x
    BY <1>6, <1>8 DEF IsAbout
<1> QED
    BY <1>1, <1>2, <1>3, <1>4, <1>5, <1>8, <1>9

(* A request for an identity that was resolved.                            *)
LEMMA ResolvedIsSafe ==
    ASSUME IInv, NEW o \in ops, NEW x \in ExternalIds, Resolved(o, x)
    PROVE  Safe'
<1>1. /\ identity \in [Entities -> Identity \cup {None}]
      /\ profile \in [Entities -> Profile \cup {None}]
      /\ Registers(o, x) /\ IsCurrent(o)
    BY DEF IInv, TypeOK, Resolved
<1>2. \A d \in Entities : d # o.entity => identity'[d] = identity[d] /\ profile'[d] = profile[d]
    BY <1>1 DEF Resolved
<1>3. profile'[o.entity] # None => profile'[o.entity] = profile[o.entity]
                                   /\ profile[o.entity].id = x
    BY Resolution
<1> QED
    BY <1>1, <1>2, <1>3, Resolution, RegisterIsSafe

-----------------------------------------------------------------------------
(* The types                                                               *)

LEMMA OwnerTypes ==
    ASSUME IInv, Owner
    PROVE  TypeOK'
<1>1. TypeOK
    BY DEF IInv
<1>2. \A E : \A o \in Flagged(E) : o \in Operation
    BY <1>1, FlaggedOps DEF TypeOK
<1>3. ASSUME NEW E, Retire(E)
      PROVE  /\ generation' \in [Entities -> Nat]
             /\ pending' \in [Entities -> Request \cup {None}]
             /\ identity' = identity /\ profile' = profile
    BY <1>1, <1>3 DEF TypeOK, Retire
<1>4. ASSUME NEW e \in Entities, Begin(e) PROVE TypeOK'
    <2>1. [entity |-> e, gen |-> generation[e] + 1, cancelled |-> FALSE, stage |-> "queued",
           id |-> None, method |-> "AUTO", rests |-> None] \in Operation
        BY <1>1 DEF TypeOK, Operation, Stages, Automatic
    <2>2. ops' \subseteq Operation
        BY <1>2, <1>4, <2>1 DEF Begin
    <2>3. generation[e] + 1 \in Nat
        BY <1>1 DEF TypeOK
    <2>4. begins' \in 0..MaxBegins
        BY <1>1, <1>4, BoundsAssumption DEF Begin, TypeOK
    <2>5. /\ generation' \in [Entities -> Nat]
          /\ pending' \in [Entities -> Request \cup {None}]
          /\ registry' \in [Entities -> Nat \cup {None}]
        BY <1>1, <1>4, <2>3 DEF Begin, TypeOK
    <2> QED
        BY <1>1, <1>4, <2>2, <2>4, <2>5 DEF Begin, TypeOK
<1>5. ASSUME NEW e \in Entities, Contradict(e) PROVE TypeOK'
    <2>1. barrier' \in Barrier
        BY <1>5 DEF Contradict, Barrier
    <2>2. barriers' \in 0..MaxBarriers
        BY <1>1, <1>5, BoundsAssumption DEF Contradict, TypeOK
    <2> QED
        BY <1>1, <1>2, <1>5, <2>1, <2>2 DEF Contradict, TypeOK, service
<1>6. ASSUME NEW e \in Entities, ClearKnowledge(e) PROVE TypeOK'
    <2>1. barrier' \in Barrier
        BY <1>6 DEF ClearKnowledge, Barrier
    <2>2. barriers' \in 0..MaxBarriers
        BY <1>1, <1>6, BoundsAssumption DEF ClearKnowledge, TypeOK
    <2> QED
        BY <1>1, <1>2, <1>3, <1>6, <2>1, <2>2 DEF ClearKnowledge, TypeOK
<1>7. ASSUME NEW E, Cancel(E) PROVE TypeOK'
    BY <1>1, <1>2, <1>3, <1>7 DEF Cancel, TypeOK, bounds
<1>8. ASSUME Shutdown PROVE TypeOK'
    BY <1>1, <1>2, <1>3, <1>8 DEF Shutdown, TypeOK, bounds
<1>9. ASSUME Confirm PROVE TypeOK'
    <2>1. barrier \in Barrier /\ barrier.id \in ExternalIds
        BY <1>1, <1>9 DEF Confirm, IInv, ClearedIsOver, TypeOK, Barrier
    <2>2. [id |-> barrier.id, method |-> "MANUAL"] \in Identity
        BY <2>1 DEF Identity
    <2>3. /\ identity' \in [Entities -> Identity \cup {None}]
          /\ profile' \in [Entities -> Profile \cup {None}]
        BY <1>1, <1>9, <2>2 DEF Confirm, TypeOK, KeptProfile
    <2>4. generation' \in [Entities -> Nat]
        <3>1. generation \in [Entities -> Nat]
            BY <1>1 DEF TypeOK
        <3>2. PICK e \in Entities : generation' = [generation EXCEPT ![e] = @ + 1]
            BY <1>9, <2>1 DEF Confirm, Barrier
        <3> QED
            BY <3>1, <3>2
    <2>5. pending' \in [Entities -> Request \cup {None}]
        BY <1>1, <1>9 DEF Confirm, TypeOK
    <2> QED
        BY <1>1, <1>9, <2>3, <2>4, <2>5 DEF Confirm, TypeOK, bounds
<1>10. ASSUME Reset PROVE TypeOK'
    <2>1. barrier.entity \in Entities
        BY <1>1, <1>10 DEF Reset, TypeOK, Barrier
    <2> QED
        BY <1>1, <1>10, <2>1 DEF Reset, TypeOK, bounds
<1>11. ASSUME Clear PROVE TypeOK'
    <2>1. barrier.entity \in Entities
        BY <1>1, <1>11 DEF Clear, TypeOK, Barrier
    <2> QED
        BY <1>1, <1>11, <2>1 DEF Clear, TypeOK, bounds
<1> QED
    BY <1>4, <1>5, <1>6, <1>7, <1>8, <1>9, <1>10, <1>11 DEF Owner, CancelSome

(* Every step of a worker keeps the types.                                 *)
LEMMA WorkerTypes ==
    ASSUME IInv, NEW o \in ops, Worker(o)
    PROVE  TypeOK'
<1>1. TypeOK /\ o \in Operation /\ o.entity \in Entities /\ o.gen \in Nat
    BY DEF IInv, TypeOK, Operation
<1>2. ASSUME End(o), generation' \in [Entities -> Nat],
             pending' \in [Entities -> Request \cup {None}],
             identity' \in [Entities -> Identity \cup {None}],
             profile' \in [Entities -> Profile \cup {None}]
      PROVE  TypeOK'
    BY <1>1, <1>2 DEF End, TypeOK, bounds
<1>3. ASSUME NEW m \in Operation, Moves(o, m), generation' = generation,
             pending' \in [Entities -> Request \cup {None}],
             identity' \in [Entities -> Identity \cup {None}],
             profile' \in [Entities -> Profile \cup {None}]
      PROVE  TypeOK'
    BY <1>1, <1>3 DEF Moves, TypeOK, bounds
<1>4. ASSUME RetireGeneration(o)
      PROVE  /\ generation' \in [Entities -> Nat]
             /\ pending' \in [Entities -> Request \cup {None}]
             /\ identity' = identity /\ profile' = profile
    BY <1>1, <1>4 DEF RetireGeneration, TypeOK
<1>5. CASE Notice(o) \/ CommitRefused(o)
    BY <1>1, <1>2, <1>4, <1>5 DEF Notice, CommitRefused, TypeOK
<1>6. CASE Superseded(o) \/ DependencyLost(o) \/ Stale(o)
    BY <1>1, <1>2, <1>6 DEF Superseded, DependencyLost, Stale, TypeOK, service
<1>7. CASE Unresolved(o)
    BY <1>1, <1>2, <1>7 DEF Unresolved, Revoke, TypeOK
<1>8. CASE Deliver(o)
    <2>1. o.id # None
        BY <1>8 DEF Deliver, IInv, WellFormed
    <2>2. [id |-> o.id, by |-> o.gen] \in Profile
        BY <1>1, <2>1 DEF Operation, Profile
    <2> QED
        BY <1>1, <1>2, <1>8, <2>2 DEF Deliver, TypeOK
<1>9. CASE Fail(o)
    <2>1. CASE RetireGeneration(o)
        BY <1>1, <1>2, <1>4, <1>9, <2>1 DEF Fail, TypeOK
    <2>2. CASE /\ pending' = [pending EXCEPT ![o.entity] =
                                IF @ # None /\ @.gen = o.gen THEN None ELSE @]
               /\ UNCHANGED <<generation, identity, profile>>
        BY <1>1, <1>2, <1>9, <2>2 DEF Fail, TypeOK
    <2> QED
        BY <1>9, <2>1, <2>2 DEF Fail
<1>10. CASE Look(o)
    <2>1. PICK moved \in Operation : Moves(o, moved)
        BY <1>10, Seen
    <2> QED
        BY <1>1, <1>3, <1>10, <2>1 DEF Look, service, TypeOK
<1>11. ASSUME NEW x \in ExternalIds, Registers(o, x),
              identity' \in [Entities -> Identity \cup {None}],
              profile' \in [Entities -> Profile \cup {None}]
       PROVE  TypeOK'
    <2>1. [o EXCEPT !.stage = "fetching", !.id = x] \in Operation
        BY <1>1 DEF Operation, Stages
    <2>2. [gen |-> o.gen, id |-> x] \in Request
        BY <1>1 DEF Request
    <2>3. pending' \in [Entities -> Request \cup {None}]
        BY <1>1, <1>11, <2>2 DEF Registers, TypeOK
    <2> QED
        BY <1>3, <1>11, <2>1, <2>3 DEF Registers
<1>12. CASE Known(o)
    <2>1. o.id \in ExternalIds
        BY <1>1, <1>12 DEF Known, IInv, WellFormed, Operation
    <2> QED
        BY <1>1, <1>11, <1>12, <2>1 DEF Known, TypeOK
<1>13. ASSUME NEW x \in ExternalIds, Resolved(o, x) PROVE TypeOK'
    <2>1. [id |-> x, method |-> o.method] \in Identity
        BY <1>13, Resolution
    <2> QED
        BY <1>1, <1>11, <1>13, <2>1 DEF Resolved, KeptProfile, TypeOK
<1> QED
    BY <1>5, <1>6, <1>7, <1>8, <1>9, <1>10, <1>12, <1>13 DEF Worker, Gate

-----------------------------------------------------------------------------
(* The invariant                                                           *)

LEMMA InitSafe == Init => IInv
<1> SUFFICES ASSUME Init PROVE IInv
    OBVIOUS
<1>1. TypeOK
    <2>1. begins \in 0..MaxBegins /\ barriers \in 0..MaxBarriers
        BY BoundsAssumption DEF Init
    <2>2. generation \in [Entities -> Nat] /\ clearedAt \in [Entities -> Nat]
        BY DEF Init
    <2>3. /\ identity \in [Entities -> Identity \cup {None}]
          /\ profile \in [Entities -> Profile \cup {None}]
          /\ pending \in [Entities -> Request \cup {None}]
          /\ registry \in [Entities -> Nat \cup {None}]
        BY DEF Init
    <2> QED
        BY <2>1, <2>2, <2>3 DEF Init, TypeOK
<1>2. /\ OneAuthority /\ ReadsStand /\ PendingIsCurrent /\ ProfileIsAboutIdentity
      /\ NoResurrection /\ WellFormed /\ ClearedIsOver /\ BarrierCuts
    BY DEF Init, OneAuthority, ReadsStand, PendingIsCurrent, ProfileIsAboutIdentity,
           NoResurrection, WellFormed, ClearedIsOver, BarrierCuts
<1> QED
    BY <1>1, <1>2 DEF IInv

(* Every intent of the owner keeps the invariant.                          *)
LEMMA OwnerIsSafe ==
    ASSUME IInv, Owner
    PROVE  Safe'
<1>1. ASSUME NEW e \in Entities, ClearKnowledge(e) PROVE Safe'
    <2>1. {e} \in SUBSET Entities
        OBVIOUS
    <2> QED
        BY <1>1, <2>1, Retires DEF ClearKnowledge, OwnerIsFree
<1>2. ASSUME NEW E \in SUBSET Entities, Cancel(E) PROVE Safe'
    BY <1>2, Retires DEF Cancel, OwnerIsFree
<1>3. ASSUME CancelSome PROVE Safe'
    <2>1. Entities \in SUBSET Entities /\ \A e \in Entities : {e} \in SUBSET Entities
        OBVIOUS
    <2> QED
        BY <1>2, <1>3, <2>1 DEF CancelSome
<1>4. ASSUME Shutdown PROVE Safe'
    <2>1. Entities \in SUBSET Entities /\ ops' \subseteq Flagged(Entities)
        BY <1>4 DEF Shutdown
    <2> QED
        BY <1>4, <2>1, Retires DEF Shutdown, OwnerIsFree
<1> QED
    BY <1>1, <1>3, <1>4, BeginIsSafe, ContradictIsSafe, ConfirmIsSafe, ResetIsSafe, ClearIsSafe
       DEF Owner

(* Every step of a worker keeps the invariant.                             *)
LEMMA WorkerIsSafe ==
    ASSUME IInv, NEW o \in ops, Worker(o)
    PROVE  Safe'
<1>1. CASE Notice(o) \/ CommitRefused(o)
    BY <1>1, QuietEnd DEF Notice, CommitRefused, RetireGeneration
<1>2. CASE Superseded(o) \/ DependencyLost(o) \/ Stale(o)
    BY <1>2, QuietEnd DEF Superseded, DependencyLost, Stale, service
<1>3. CASE Fail(o)
    <2>1. CASE RetireGeneration(o)
        BY <1>3, <2>1, QuietEnd DEF Fail, RetireGeneration
    <2>2. CASE /\ pending' = [pending EXCEPT ![o.entity] =
                                IF @ # None /\ @.gen = o.gen THEN None ELSE @]
               /\ UNCHANGED <<generation, identity, profile>>
        <3>1. \A d \in Entities : pending'[d] \in {pending[d], None}
            BY <2>2 DEF IInv, TypeOK
        <3> QED
            BY <1>3, <2>2, <3>1, QuietEnd DEF Fail
    <2> QED
        BY <1>3, <2>1, <2>2 DEF Fail
<1> QED
    BY <1>1, <1>2, <1>3, UnresolvedIsSafe, DeliverIsSafe, LookIsSafe, KnownIsSafe,
       ResolvedIsSafe DEF Worker, Gate

(* The invariant is inductive.                                             *)
LEMMA StepIsSafe == IInv /\ [Next]_vars => IInv'
<1> SUFFICES ASSUME IInv, [Next]_vars PROVE IInv'
    OBVIOUS
<1>1. CASE Owner
    BY <1>1, OwnerIsSafe, OwnerTypes DEF Safe, IInv
<1>2. ASSUME NEW o \in ops, Worker(o) PROVE IInv'
    BY <1>2, WorkerIsSafe, WorkerTypes DEF Safe, IInv
<1>3. CASE UNCHANGED vars
    BY <1>3 DEF vars, bounds, IInv, TypeOK, OneAuthority, ReadsStand, PendingIsCurrent,
                ProfileIsAboutIdentity, NoResurrection, WellFormed, ClearedIsOver,
                BarrierCuts, IsCurrent, IsAbout, IsManual
<1> QED
    BY <1>1, <1>2, <1>3 DEF Next

(* Two locks and one generation per entity keep one authority: whatever    *)
(* operations the user begins, supersedes, cancels or contradicts, what a  *)
(* worker read stands at its gate, only the current request waits, and a   *)
(* profile is about the identity its entity has.                           *)
THEOREM InvariantHolds == Spec => []IInv
<1> QED
    BY InitSafe, StepIsSafe, PTL DEF Spec

(* What the user cleared is never brought back by a worker under way.      *)
THEOREM ClearedStaysCleared == Spec => []NoResurrection
<1>1. IInv => NoResurrection
    BY DEF IInv
<1> QED
    BY <1>1, InvariantHolds, PTL

-----------------------------------------------------------------------------
(* The refinement                                                          *)

(* The abstract knowledge of an entity is what its profile is about.       *)
Told(e) == IF profile[e] = None THEN None ELSE profile[e].id

(* A step that gives one entity another identity is a step of Becomes.     *)
LEMMA BecomesStep ==
    ASSUME IInv, NEW e \in Entities, NEW i \in Identity \cup {None},
           identity' = [identity EXCEPT ![e] = i],
           profile' = [profile EXCEPT ![e] = IF i # None /\ IsAbout(e, i.id)
                                             THEN profile[e] ELSE None]
    PROVE  Authority!Becomes(e, i)
<1>1. profile \in [Entities -> Profile \cup {None}]
    BY DEF IInv, TypeOK
<1>2. \A d \in Entities :
          Told(d)' = IF d = e THEN (IF i # None /\ IsAbout(e, i.id) THEN Told(e) ELSE None)
                     ELSE Told(d)
    BY <1>1 DEF Told
<1>3. [d \in Entities |-> Told(d)'] =
      [[d \in Entities |-> Told(d)] EXCEPT
          ![e] = IF i # None /\ IsAbout(e, i.id) THEN @ ELSE None]
    BY <1>2
<1> QED
    BY <1>3 DEF Authority!Becomes, Authority!IsAbout, IsAbout, Told

(* A confirmation is the user's decision.                                  *)
LEMMA ConfirmRefines ==
    ASSUME IInv, Confirm
    PROVE  Authority!Next
<1>1. /\ barrier \in Barrier /\ barrier.id \in ExternalIds
      /\ profile \in [Entities -> Profile \cup {None}]
    BY DEF IInv, TypeOK, Confirm, ClearedIsOver, Barrier
<1>2. PICK e \in Entities : e = barrier.entity
    BY <1>1 DEF Barrier
<1>3. PICK i \in Identity : i = [id |-> barrier.id, method |-> "MANUAL"]
    BY <1>1 DEF Identity
<1>4. KeptProfile(e, barrier.id) = IF i # None /\ IsAbout(e, i.id) THEN profile[e] ELSE None
    <2>1. i # None /\ i.id = barrier.id
        BY <1>3, NoneAssumption
    <2>2. profile[e] # None => identity[e] # None
        BY DEF IInv, ProfileIsAboutIdentity, IsAbout
    <2> QED
        BY <2>1, <2>2 DEF KeptProfile
<1>5. Authority!Becomes(e, i)
    BY <1>2, <1>3, <1>4, BecomesStep DEF Confirm
<1> QED
    BY <1>1, <1>3, <1>5 DEF Authority!Next, Authority!Confirm

(* A reset is the user's decision.                                         *)
LEMMA ResetRefines ==
    ASSUME IInv, Reset
    PROVE  Authority!Next
<1>1. PICK e \in Entities : e = barrier.entity
    BY DEF IInv, TypeOK, Reset, Barrier
<1>2. Authority!Becomes(e, None)
    BY <1>1, BecomesStep DEF Reset
<1> QED
    BY <1>2 DEF Authority!Next, Authority!Reset

(* A clearing forgets.                                                     *)
LEMMA ClearRefines ==
    ASSUME IInv, Clear
    PROVE  Authority!Next
<1>1. PICK e \in Entities : e = barrier.entity
    BY DEF IInv, TypeOK, Clear, Barrier
<1>2. profile' = [profile EXCEPT ![e] = None] /\ identity' = identity
    BY <1>1 DEF Clear
<1>3. \A d \in Entities : Told(d)' = IF d = e THEN None ELSE Told(d)
    BY <1>2 DEF IInv, TypeOK, Told
<1>4. [d \in Entities |-> Told(d)'] = [[d \in Entities |-> Told(d)] EXCEPT ![e] = None]
    BY <1>3
<1> QED
    BY <1>2, <1>4 DEF Authority!Next, Authority!Forget, Told

(* A resolution that found nothing revokes what was not the user's.        *)
LEMMA UnresolvedRefines ==
    ASSUME IInv, NEW o \in ops, Unresolved(o)
    PROVE  Authority!Next
<1>1. o.entity \in Entities /\ profile \in [Entities -> Profile \cup {None}]
    BY DEF IInv, TypeOK, Operation
<1>2. ~IsManual(o.entity)
    BY DEF IInv, ReadsStand, Unresolved
<1>3. profile[o.entity] # None => identity[o.entity] # None
    BY <1>1 DEF IInv, ProfileIsAboutIdentity, IsAbout
<1>4. /\ identity' = [identity EXCEPT ![o.entity] = None]
      /\ profile' = [profile EXCEPT ![o.entity] = None]
    BY <1>1, <1>2, <1>3 DEF Unresolved, Revoke
<1>5. Authority!Becomes(o.entity, None)
    BY <1>1, <1>4, BecomesStep
<1>6. ~Authority!IsManual(o.entity)
    BY <1>2 DEF IsManual, Authority!IsManual
<1> QED
    BY <1>1, <1>5, <1>6 DEF Authority!Next, Authority!Revoke

(* A resolution decides, and never over the user.                          *)
LEMMA ResolvedRefines ==
    ASSUME IInv, NEW o \in ops, NEW x \in ExternalIds, Resolved(o, x)
    PROVE  Authority!Next
<1>1. PICK i \in Identity : i = [id |-> x, method |-> o.method]
    BY Resolution
<1>2. /\ o.entity \in Entities /\ ~IsManual(o.entity) /\ o.method \in Automatic
      /\ i # None /\ i.id = x
    BY <1>1, Resolution, NoneAssumption DEF IInv, TypeOK, Operation
<1>3. KeptProfile(o.entity, x) = IF i # None /\ IsAbout(o.entity, i.id)
                                 THEN profile[o.entity] ELSE None
    <2>1. profile[o.entity] # None => identity[o.entity] # None
        BY <1>2 DEF IInv, ProfileIsAboutIdentity, IsAbout
    <2> QED
        BY <1>2, <2>1 DEF KeptProfile
<1>4. Authority!Becomes(o.entity, i)
    BY <1>1, <1>2, <1>3, BecomesStep DEF Resolved
<1>5. ~Authority!IsManual(o.entity) /\ o.method \in Authority!Automatic
    BY <1>2 DEF IsManual, Authority!IsManual, Automatic, Authority!Automatic
<1> QED
    BY <1>1, <1>2, <1>4, <1>5 DEF Authority!Next, Authority!Resolve

(* A delivery learns about the identity there is, or fails to be stored.   *)
LEMMA DeliverRefines ==
    ASSUME IInv, NEW o \in ops, Deliver(o)
    PROVE  Authority!Next \/ UNCHANGED <<identity, profile>>
<1>1. /\ o.entity \in Entities /\ o.id \in ExternalIds /\ o.gen \in Nat
      /\ profile \in [Entities -> Profile \cup {None}]
    BY DEF IInv, TypeOK, Operation, Deliver, WellFormed
<1>2. identity[o.entity] # None /\ identity[o.entity].id = o.id /\ identity' = identity
    BY DEF Deliver, MayDeliver, IsAbout
<1>3. CASE profile' = [profile EXCEPT ![o.entity] = [id |-> o.id, by |-> o.gen]]
    <2>1. [id |-> o.id, by |-> o.gen] # None
        BY <1>1, NoneAssumption DEF Profile
    <2>2. \A d \in Entities : Told(d)' = IF d = o.entity THEN o.id ELSE Told(d)
        BY <1>1, <1>3, <2>1 DEF Told
    <2>3. [d \in Entities |-> Told(d)'] =
          [[d \in Entities |-> Told(d)] EXCEPT ![o.entity] = identity[o.entity].id]
        BY <1>2, <2>2
    <2> QED
        BY <1>1, <1>2, <2>3 DEF Authority!Next, Authority!Learn, Told
<1> QED
    BY <1>2, <1>3 DEF Deliver

(* The owner's other intents change nothing abstract.                      *)
LEMMA OwnerRefines ==
    ASSUME IInv, Owner
    PROVE  Authority!Next \/ UNCHANGED <<identity, profile>>
BY ConfirmRefines, ResetRefines, ClearRefines
   DEF Owner, Begin, Contradict, ClearKnowledge, CancelSome, Cancel, Shutdown, Retire, service

(* The worker's other steps change nothing abstract.                       *)
LEMMA WorkerRefines ==
    ASSUME IInv, NEW o \in ops, Worker(o)
    PROVE  Authority!Next \/ UNCHANGED <<identity, profile>>
BY UnresolvedRefines, ResolvedRefines, DeliverRefines
   DEF Worker, Gate, Notice, Look, CommitRefused, Stale, Fail, Superseded, DependencyLost,
       Known, RetireGeneration, service

(* Threads, locks and generations implement the atomic authority: the      *)
(* user's identity is never replaced or removed by a worker, and what the  *)
(* library knows is always about the identity it has.                      *)
THEOREM KnowledgeRefinement == Spec => ImplementsKnowledge
<1>1. Init => Authority!Init
    BY DEF Init, Authority!Init
<1>2. UNCHANGED <<identity, profile>> => UNCHANGED Authority!vars
    BY DEF Authority!vars
<1>3. IInv /\ [Next]_vars => [Authority!Next]_(Authority!vars)
    <2>1. SUFFICES ASSUME IInv, [Next]_vars
                   PROVE  Authority!Next \/ UNCHANGED <<identity, profile>>
        BY <1>2
    <2>2. CASE UNCHANGED vars
        BY <2>2 DEF vars
    <2> QED
        BY <2>1, <2>2, OwnerRefines, WorkerRefines DEF Next
<1> QED
    BY <1>1, <1>3, InvariantHolds, PTL DEF Spec, ImplementsKnowledge, Authority!Spec

-----------------------------------------------------------------------------
(***************************************************************************)
(* The job.  Its inductive invariant, for any artists, albums and          *)
(* MaxPending: in a first run that nobody cancelled, each entity is in     *)
(* one place, and each slot is held for an entity in work or for one whose *)
(* end the job did not hear.                                               *)
(***************************************************************************)

FirstRun == starts = 1 /\ ~job.cancel

Waiting == IF Draining THEN job.pending ELSE {}

(* Before the first run nothing is there.                                  *)
Fresh ==
    starts = 0 =>
        /\ thread = "idle" /\ job.state = "IDLE"
        /\ job.terminal = {} /\ asked = {} /\ ~unheard

(* The pool is empty when start() has returned.                            *)
PoolIsOfARun ==
    /\ IsFiniteSet(pool) /\ IsFiniteSet(asked)
    /\ thread = "idle" => pool = {}
    /\ thread # "idle" => starts # 0

(* Without a cancel the state of the job follows the thread.               *)
StateFollows ==
    FirstRun =>
        /\ thread = "idle" => job.state \in Final
        /\ thread = "preparing" => job.state = "PREPARING"
        /\ Draining \/ thread = "closing" => job.state = "RUNNING"

(* An entity waits, is in work once, or has ended.                         *)
OnePlace ==
    FirstRun =>
        /\ \A v, w \in pool : v.entity = w.entity => v = w
        /\ \A o, p \in asked : o.entity = p.entity => o = p
        /\ \A w \in pool, o \in asked : w.entity # o.entity
        /\ \A e \in InWork : e \notin job.terminal \cup Waiting
        /\ job.terminal \cap Waiting = {}

(* No phase looks at the entities of the other.                            *)
OnePhase ==
    FirstRun =>
        /\ thread = "preparing" => job.terminal = {}
        /\ thread = "artists" => job.terminal \cup job.pending \cup InWork \subseteq Artists
        /\ thread = "albums" => job.pending \cup InWork \subseteq Albums

(* Every slot is held for an entity in work, or for one whose end was not  *)
(* heard.                                                                  *)
Slots ==
    FirstRun /\ Draining =>
        /\ job.inflight <= MaxPending
        /\ job.inflight >= Cardinality(pool) + Cardinality(asked)
        /\ unheard <=> job.inflight # Cardinality(pool) + Cardinality(asked)

(* Unless an end was not heard, no entity is forgotten.                    *)
AllAccounted ==
    FirstRun =>
        /\ ~Draining => InWork = {} /\ ~unheard
        /\ thread = "artists" =>
              /\ Albums \subseteq known \cup job.albums
              /\ unheard \/ Artists \subseteq known \cup job.terminal \cup job.pending \cup InWork
        /\ thread = "albums" =>
              /\ Artists \subseteq known \cup job.terminal
              /\ unheard \/ Albums \subseteq known \cup job.terminal \cup job.pending \cup InWork
        /\ thread \in {"closing", "idle"} => Entities \subseteq known \cup job.terminal

JobInv == /\ JobTypeOK /\ Fresh /\ PoolIsOfARun /\ StateFollows /\ OnePlace /\ OnePhase
        /\ Slots /\ AllAccounted

-----------------------------------------------------------------------------
(* Entities and their number                                               *)

(* Where no entity occurs twice, there are as many entities as entries.    *)
LEMMA AsManyEntities ==
    ASSUME NEW S, IsFiniteSet(S), \A v, w \in S : v.entity = w.entity => v = w
    PROVE  LET T == {w.entity : w \in S}
           IN  IsFiniteSet(T) /\ Cardinality(T) = Cardinality(S)
<1> DEFINE T == {w.entity : w \in S}
           f == [w \in S |-> w.entity]
<1>1. f \in Surjection(S, T)
    BY DEF Surjection
<1>2. f \in Injection(S, T)
    BY DEF Injection, IsInjective
<1> HIDE DEF f, T
<1>3. IsFiniteSet(T) /\ Cardinality(T) = Cardinality(S)
    BY <1>1, <1>2, FS_Surjection
<1> QED
    BY <1>3 DEF T

(* In a first run there are as many entities in work as pool and           *)
(* coordinator have entries.                                               *)
LEMMA InWorkCounted ==
    ASSUME JobInv, FirstRun
    PROVE  Cardinality(InWork) = Cardinality(pool) + Cardinality(asked)
<1> DEFINE P == {w.entity : w \in pool}
           A == {o.entity : o \in asked}
<1>1. IsFiniteSet(pool) /\ IsFiniteSet(asked)
    BY DEF JobInv, PoolIsOfARun
<1>2. \A v, w \in pool : v.entity = w.entity => v = w
    BY DEF JobInv, OnePlace
<1>3. \A o, p \in asked : o.entity = p.entity => o = p
    BY DEF JobInv, OnePlace
<1>4. IsFiniteSet(P) /\ Cardinality(P) = Cardinality(pool)
    BY <1>1, <1>2, AsManyEntities
<1>5. IsFiniteSet(A) /\ Cardinality(A) = Cardinality(asked)
    BY <1>1, <1>3, AsManyEntities
<1>6. P \cap A = {}
    BY DEF JobInv, OnePlace
<1>7. InWork = P \cup A
    BY DEF InWork
<1> HIDE DEF P, A
<1>8. Cardinality(P \cup A) = Cardinality(P) + Cardinality(A) - Cardinality(P \cap A)
    BY <1>4, <1>5, FS_Union
<1>9. Cardinality(P \cap A) = 0
    BY <1>6, FS_EmptySet
<1>10. Cardinality(pool) \in Nat /\ Cardinality(asked) \in Nat
    BY <1>1, FS_CardinalityType
<1> QED
    BY <1>4, <1>5, <1>7, <1>8, <1>9, <1>10

(* The invariant is what the properties need.                              *)
LEMMA JobInvConsistent == JobInv => Consistent
<1> SUFFICES ASSUME JobInv PROVE Consistent
    OBVIOUS
<1>1. SlotsAreWork
    <2> SUFFICES ASSUME Draining, starts = 1, ~job.cancel, ~unheard
                 PROVE  /\ job.inflight = Cardinality(pool) + Cardinality(asked)
                        /\ job.inflight = Cardinality(InWork) /\ job.inflight <= MaxPending
                        /\ InWork \subseteq (IF thread = "artists" THEN Artists ELSE Albums)
        BY DEF SlotsAreWork
    <2>1. FirstRun
        BY DEF FirstRun
    <2>2. job.inflight = Cardinality(pool) + Cardinality(asked) /\ job.inflight <= MaxPending
        BY <2>1 DEF JobInv, Slots
    <2>3. InWork \subseteq (IF thread = "artists" THEN Artists ELSE Albums)
        BY <2>1 DEF JobInv, OnePhase, Draining
    <2> QED
        BY <2>1, <2>2, <2>3, InWorkCounted
<1>2. CompletedIsComplete
    <2> SUFFICES ASSUME job.state \in Final, starts = 1, ~job.cancel
                 PROVE  Entities \subseteq known \cup job.terminal /\ asked = {} /\ pool = {}
        BY DEF CompletedIsComplete
    <2>1. FirstRun
        BY DEF FirstRun
    <2>2. thread \notin {"preparing", "artists", "albums", "closing"}
        BY <2>1 DEF JobInv, StateFollows, Draining, Final
    <2>3. thread = "idle"
        BY <2>2 DEF JobInv, JobTypeOK
    <2> QED
        BY <2>1, <2>3 DEF JobInv, AllAccounted, Draining, InWork
<1> QED
    BY <1>1, <1>2 DEF Consistent, JobInv

-----------------------------------------------------------------------------
(* The thread inside start()                                               *)

(* The job starts with nothing in work.                                    *)
LEMMA JobInitInv == JobInit => JobInv
<1> SUFFICES ASSUME JobInit PROVE JobInv
    OBVIOUS
<1>1. JobTypeOK
    <2>1. job \in Job
        BY DEF JobInit, Job, States, Final
    <2>2. starts \in 0..MaxStarts
        BY JobBoundsAssumption DEF JobInit
    <2> QED
        BY <2>1, <2>2 DEF JobInit, JobTypeOK
<1>2. PoolIsOfARun
    BY FS_EmptySet DEF JobInit, PoolIsOfARun
<1>3. Fresh
    BY DEF JobInit, Fresh
<1>4. ~FirstRun
    BY DEF JobInit, FirstRun
<1> QED
    BY <1>1, <1>2, <1>3, <1>4 DEF JobInv, StateFollows, OnePlace, OnePhase, Slots, AllAccounted

(* The first call of start() finds nothing in work; a later one is no      *)
(* first run.                                                              *)
LEMMA StartKeeps == ASSUME JobInv, Start PROVE JobInv'
<1>1. JobTypeOK'
    <2>1. job' = [job EXCEPT !.state = "PREPARING", !.cancel = FALSE, !.processed = 0, !.failed = 0]
        BY DEF Start
    <2>2. job' = [state |-> "PREPARING", pending |-> job.pending, albums |-> job.albums,
                  inflight |-> job.inflight, terminal |-> job.terminal, cancel |-> FALSE,
                  processed |-> 0, failed |-> 0]
        BY <2>1 DEF JobInv, JobTypeOK, Job
    <2>3. job' \in Job
        BY <2>2 DEF JobInv, JobTypeOK, Job, States
    <2>4. starts' \in 0..MaxStarts
        BY JobBoundsAssumption DEF JobInv, JobTypeOK, Start
    <2> QED
        BY <2>3, <2>4 DEF JobInv, JobTypeOK, Start
<1>2. pool' = pool /\ asked' = asked /\ pool = {} /\ starts' = starts + 1 /\ starts \in Nat
    BY JobBoundsAssumption DEF JobInv, JobTypeOK, PoolIsOfARun, Start
<1>3. starts' # 0
    BY <1>2
<1>4. PoolIsOfARun'
    BY <1>2, <1>3 DEF JobInv, PoolIsOfARun
<1>5. FirstRun' => /\ thread' = "preparing" /\ job'.state = "PREPARING" /\ job'.terminal = {}
                   /\ pool' = {} /\ asked' = {} /\ ~unheard'
    <2> SUFFICES ASSUME FirstRun' PROVE /\ thread' = "preparing" /\ job'.state = "PREPARING"
                                        /\ job'.terminal = {} /\ pool' = {} /\ asked' = {} /\ ~unheard'
        OBVIOUS
    <2>1. starts = 0
        BY <1>2 DEF FirstRun
    <2> QED
        BY <1>2, <2>1 DEF Start, JobInv, Fresh, JobTypeOK
<1>6. StateFollows' /\ Slots'
    BY <1>5 DEF StateFollows, Slots, Draining
<1>7. OnePlace' /\ OnePhase' /\ AllAccounted'
    BY <1>5 DEF OnePlace, OnePhase, AllAccounted, Draining, Waiting, InWork
<1> QED
    BY <1>1, <1>3, <1>4, <1>6, <1>7 DEF JobInv, Fresh

(* But for start(), a first run that is not cancelled was not before.      *)
LEMMA StillFirstRun ==
    ASSUME JobInv, starts' = starts, job'.cancel = job.cancel
    PROVE  /\ FirstRun' <=> FirstRun
           /\ starts # 0 => Fresh'
    BY DEF FirstRun, Fresh

(* What is known is not asked for.                                         *)
LEMMA PreparedKeeps == ASSUME JobInv, Prepared PROVE JobInv'
<1>1. JobTypeOK'
    <2>1. job' = [job EXCEPT !.state = "RUNNING", !.inflight = 0,
                             !.pending = Artists \ known, !.albums = Albums \ known]
        BY DEF Prepared
    <2>2. job' = [state |-> "RUNNING", pending |-> Artists \ known, albums |-> Albums \ known,
                  inflight |-> 0, terminal |-> job.terminal, cancel |-> job.cancel,
                  processed |-> job.processed, failed |-> job.failed]
        BY <2>1 DEF JobInv, JobTypeOK, Job
    <2>3. job' \in Job
        BY <2>2 DEF JobInv, JobTypeOK, Job, States, Entities
    <2> QED
        BY <2>3 DEF JobInv, JobTypeOK, Prepared
<1>2. /\ pool' = pool /\ asked' = asked /\ starts' = starts /\ known' = known /\ unheard' = unheard
      /\ thread = "preparing" /\ thread' = "artists"
      /\ job'.pending = Artists \ known /\ job'.albums = Albums \ known /\ job'.inflight = 0
      /\ job'.terminal = job.terminal /\ job'.cancel = job.cancel /\ job'.state = "RUNNING"
    BY DEF JobInv, JobTypeOK, Job, Prepared
<1>3. starts # 0
    BY <1>2 DEF JobInv, PoolIsOfARun
<1>4. PoolIsOfARun'
    BY <1>2, <1>3 DEF JobInv, PoolIsOfARun
<1>5. (FirstRun' <=> FirstRun) /\ Fresh'
    BY <1>2, <1>3, StillFirstRun
<1> SUFFICES ASSUME FirstRun
             PROVE  StateFollows' /\ OnePlace' /\ OnePhase' /\ Slots' /\ AllAccounted'
    BY <1>1, <1>4, <1>5 DEF JobInv, StateFollows, OnePlace, OnePhase, Slots, AllAccounted
<1>6. pool = {} /\ asked = {} /\ job.terminal = {} /\ ~unheard
    BY <1>2 DEF JobInv, AllAccounted, OnePhase, Draining, InWork
<1>7. StateFollows'
    BY <1>2 DEF StateFollows
<1>8. OnePlace' /\ OnePhase'
    BY <1>2, <1>6 DEF OnePlace, OnePhase, Waiting, Draining, InWork
<1>9. Slots'
    BY <1>2, <1>6, FS_EmptySet, JobBoundsAssumption DEF Slots
<1>10. AllAccounted'
    BY <1>2, <1>6 DEF AllAccounted, Draining
<1> QED
    BY <1>7, <1>8, <1>9, <1>10

(* An entity leaves the queue for the pool and takes a slot.               *)
LEMMA AdmitKeeps == ASSUME JobInv, NEW e \in Entities, Admit(e) PROVE JobInv'
<1> DEFINE new == [entity |-> e, checked |-> FALSE]
<1>0. new \in [entity : Entities, checked : BOOLEAN] /\ new.entity = e
    OBVIOUS
<1> HIDE DEF new
<1>1. JobTypeOK'
    <2>1. job.pending \ {e} \in SUBSET Entities /\ job.inflight + 1 \in Int
        BY DEF JobInv, JobTypeOK, Job
    <2>2. job' \in Job
        BY <2>1 DEF JobInv, JobTypeOK, Job, Admit
    <2> QED
        BY <1>0, <2>2 DEF JobInv, JobTypeOK, Admit, new
<1>2. /\ pool' = pool \cup {new} /\ asked' = asked /\ starts' = starts /\ known' = known
      /\ unheard' = unheard /\ thread' = thread /\ Draining /\ e \in job.pending
      /\ job'.pending = job.pending \ {e} /\ job'.albums = job.albums
      /\ job'.inflight = job.inflight + 1 /\ job.inflight < MaxPending /\ job.inflight \in Int
      /\ job'.terminal = job.terminal /\ job'.cancel = job.cancel /\ job'.state = job.state
    BY DEF JobInv, JobTypeOK, Job, Admit, new
<1>3. starts # 0 /\ thread # "idle"
    BY <1>2 DEF JobInv, PoolIsOfARun, Draining
<1>4. PoolIsOfARun'
    BY <1>2, <1>3, FS_AddElement DEF JobInv, PoolIsOfARun
<1>5. (FirstRun' <=> FirstRun) /\ Fresh'
    BY <1>2, <1>3, StillFirstRun
<1> SUFFICES ASSUME FirstRun
             PROVE  StateFollows' /\ OnePlace' /\ OnePhase' /\ Slots' /\ AllAccounted'
    BY <1>1, <1>4, <1>5 DEF JobInv, StateFollows, OnePlace, OnePhase, Slots, AllAccounted
<1>6. InWork' = InWork \cup {e} /\ e \notin InWork /\ e \notin job.terminal
    <2>1. Waiting = job.pending
        BY <1>2 DEF Waiting
    <2>2. e \notin InWork /\ e \notin job.terminal
        BY <1>2, <2>1 DEF JobInv, OnePlace
    <2> QED
        BY <1>0, <1>2, <2>2 DEF InWork
<1>7. StateFollows'
    BY <1>2 DEF JobInv, StateFollows, Draining
<1>8. OnePlace'
    <2>1. \A w \in pool : w.entity # e
        BY <1>6 DEF InWork
    <2>2. \A o \in asked : o.entity # e
        BY <1>6 DEF InWork
    <2>3. Waiting' = Waiting \ {e}
        BY <1>2 DEF Waiting, Draining
    <2> QED
        BY <1>0, <1>2, <1>6, <2>1, <2>2, <2>3 DEF JobInv, OnePlace
<1>9. OnePhase'
    BY <1>2, <1>6 DEF JobInv, OnePhase
<1>10. Slots'
    <2>1. new \notin pool
        BY <1>0, <1>6 DEF InWork
    <2>2. Cardinality(pool') = Cardinality(pool) + 1
        BY <1>2, <2>1, FS_AddElement DEF JobInv, PoolIsOfARun
    <2>3. Cardinality(pool) \in Nat /\ Cardinality(asked) \in Nat
        BY FS_CardinalityType DEF JobInv, PoolIsOfARun
    <2> QED
        BY <1>2, <2>2, <2>3, JobBoundsAssumption DEF JobInv, Slots, JobTypeOK
<1>11. AllAccounted'
    BY <1>2, <1>6 DEF JobInv, AllAccounted, Draining
<1> QED
    BY <1>7, <1>8, <1>9, <1>10, <1>11

(* A phase ends with nothing in work, or with the first run cancelled.     *)
LEMMA PhaseEndsKeeps == ASSUME JobInv, PhaseEnds PROVE JobInv'
<1>1. /\ pool' = pool /\ asked' = asked /\ starts' = starts /\ known' = known
      /\ unheard' = unheard /\ cancels' = cancels /\ Draining /\ Drained
    BY DEF PhaseEnds
<1>2. starts # 0 /\ thread # "idle"
    BY <1>1 DEF JobInv, PoolIsOfARun, Draining
<1>3. CASE thread = "artists" /\ ~job.cancel
    <2>1. thread' = "albums" /\ job' = [job EXCEPT !.pending = job.albums]
        BY <1>3 DEF PhaseEnds
    <2>2. job.albums \in SUBSET Albums /\ job.albums \in SUBSET Entities
        BY DEF JobInv, JobTypeOK, Job, Entities
    <2>3. job' \in Job
        BY <2>1, <2>2 DEF JobInv, JobTypeOK, Job
    <2>4. /\ job'.pending = job.albums /\ job'.albums = job.albums /\ job'.inflight = job.inflight
          /\ job'.terminal = job.terminal /\ job'.cancel = job.cancel /\ job'.state = job.state
        BY <2>1 DEF JobInv, JobTypeOK, Job
    <2>5. JobTypeOK' /\ PoolIsOfARun'
        BY <1>1, <1>2, <2>1, <2>3 DEF JobInv, JobTypeOK, PoolIsOfARun
    <2>6. (FirstRun' <=> FirstRun) /\ Fresh'
        BY <1>1, <1>2, <2>4, StillFirstRun
    <2> SUFFICES ASSUME FirstRun
                 PROVE  StateFollows' /\ OnePlace' /\ OnePhase' /\ Slots' /\ AllAccounted'
        BY <2>5, <2>6 DEF JobInv, StateFollows, OnePlace, OnePhase, Slots, AllAccounted
    <2>7. job.pending = {} /\ job.inflight = 0
        BY <1>1, <1>3 DEF Drained
    <2>8. pool = {} /\ asked = {} /\ ~unheard
        <3>1. Cardinality(pool) \in Nat /\ Cardinality(asked) \in Nat
            BY FS_CardinalityType DEF JobInv, PoolIsOfARun
        <3>2. 0 >= Cardinality(pool) + Cardinality(asked)
            BY <1>1, <2>7 DEF JobInv, Slots
        <3>3. Cardinality(pool) = 0 /\ Cardinality(asked) = 0
            BY <3>1, <3>2
        <3>4. ~unheard
            BY <1>1, <2>7, <3>3 DEF JobInv, Slots
        <3> QED
            BY <3>3, <3>4, FS_EmptySet DEF JobInv, PoolIsOfARun
    <2>9. job.terminal \subseteq Artists
        BY <1>3 DEF JobInv, OnePhase
    <2>10. StateFollows'
        BY <1>1, <2>1, <2>4 DEF JobInv, StateFollows, Draining
    <2>11. OnePlace'
        BY <1>1, <2>1, <2>2, <2>4, <2>8, <2>9, KeysAssumption DEF OnePlace, Waiting, Draining, InWork
    <2>12. OnePhase'
        BY <1>1, <2>1, <2>2, <2>4, <2>8 DEF OnePhase, InWork
    <2>13. Slots'
        BY <1>1, <2>4, <2>7, <2>8, FS_EmptySet, JobBoundsAssumption DEF Slots
    <2>14. AllAccounted'
        BY <1>1, <1>3, <2>1, <2>4, <2>7, <2>8 DEF JobInv, AllAccounted, Draining, InWork
    <2> QED
        BY <2>10, <2>11, <2>12, <2>13, <2>14
<1>4. CASE ~(thread = "artists" /\ ~job.cancel)
    <2>1. thread' = "closing" /\ job' = job
        BY <1>4 DEF PhaseEnds
    <2>2. JobTypeOK' /\ PoolIsOfARun'
        BY <1>1, <1>2, <2>1 DEF JobInv, JobTypeOK, PoolIsOfARun
    <2>3. (FirstRun' <=> FirstRun) /\ Fresh'
        BY <1>1, <1>2, <2>1, StillFirstRun
    <2> SUFFICES ASSUME FirstRun
                 PROVE  StateFollows' /\ OnePlace' /\ OnePhase' /\ Slots' /\ AllAccounted'
        BY <2>2, <2>3 DEF JobInv, StateFollows, OnePlace, OnePhase, Slots, AllAccounted
    <2>4. thread = "albums" /\ job.pending = {} /\ job.inflight = 0
        BY <1>1, <1>4 DEF Drained, Draining, FirstRun
    <2>5. pool = {} /\ asked = {} /\ ~unheard
        <3>1. Cardinality(pool) \in Nat /\ Cardinality(asked) \in Nat
            BY FS_CardinalityType DEF JobInv, PoolIsOfARun
        <3>2. 0 >= Cardinality(pool) + Cardinality(asked)
            BY <1>1, <2>4 DEF JobInv, Slots
        <3>3. Cardinality(pool) = 0 /\ Cardinality(asked) = 0
            BY <3>1, <3>2
        <3>4. ~unheard
            BY <1>1, <2>4, <3>3 DEF JobInv, Slots
        <3> QED
            BY <3>3, <3>4, FS_EmptySet DEF JobInv, PoolIsOfARun
    <2>6. StateFollows' /\ Slots'
        BY <1>1, <2>1 DEF JobInv, StateFollows, Slots, Draining
    <2>7. OnePlace' /\ OnePhase'
        BY <1>1, <2>1, <2>5 DEF OnePlace, OnePhase, Waiting, Draining, InWork
    <2>8. AllAccounted'
        BY <1>1, <2>1, <2>4, <2>5 DEF JobInv, AllAccounted, Draining, InWork, Entities
    <2> QED
        BY <2>6, <2>7, <2>8
<1> QED
    BY <1>3, <1>4

(* The verdict is a final state.                                           *)
LEMMA FinishKeeps == ASSUME JobInv, Finish PROVE JobInv'
<1>1. /\ pool' = pool /\ asked' = asked /\ starts' = starts /\ known' = known
      /\ unheard' = unheard /\ cancels' = cancels /\ thread = "closing" /\ thread' = "idle" /\ pool = {}
    BY DEF Finish
<1>2. starts # 0
    BY <1>1 DEF JobInv, PoolIsOfARun
<1>3. /\ job' \in Job /\ job'.terminal = job.terminal /\ job'.cancel = job.cancel
      /\ job.state = "RUNNING" => job'.state \in Final
    BY DEF JobInv, JobTypeOK, Finish, Job, Verdict, States, Final
<1>4. JobTypeOK' /\ PoolIsOfARun'
    BY <1>1, <1>3 DEF JobInv, JobTypeOK, PoolIsOfARun
<1>5. (FirstRun' <=> FirstRun) /\ Fresh'
    BY <1>1, <1>2, <1>3, StillFirstRun
<1> SUFFICES ASSUME FirstRun
             PROVE  StateFollows' /\ OnePlace' /\ OnePhase' /\ Slots' /\ AllAccounted'
    BY <1>4, <1>5 DEF JobInv, StateFollows, OnePlace, OnePhase, Slots, AllAccounted
<1>6. InWork = {} /\ InWork' = InWork
    BY <1>1 DEF JobInv, AllAccounted, Draining, InWork
<1>7. StateFollows' /\ Slots'
    BY <1>1, <1>3 DEF JobInv, StateFollows, Slots, Draining
<1>8. OnePlace' /\ OnePhase'
    BY <1>1, <1>6 DEF JobInv, OnePlace, OnePhase, Waiting, Draining
<1>9. AllAccounted'
    BY <1>1, <1>3, <1>6 DEF JobInv, AllAccounted, Draining
<1> QED
    BY <1>7, <1>8, <1>9

-----------------------------------------------------------------------------
(* Slots that are released                                                 *)

(* Releasing ends the entity, and gives its slot back unless it had ended. *)
LEMMA ReleasedIs ==
    ASSUME job \in Job, NEW e \in Entities
    PROVE  /\ Released(e) \in Job
           /\ Released(e).state = job.state /\ Released(e).cancel = job.cancel
           /\ Released(e).pending = job.pending /\ Released(e).albums = job.albums
           /\ Released(e).terminal = job.terminal \cup {e}
           /\ e \notin job.terminal => Released(e).inflight = job.inflight - 1
<1>1. job.terminal \cup {e} \in SUBSET Entities /\ job.inflight - 1 \in Int
    BY DEF Job
<1> QED
    BY <1>1 DEF Released, Job

(* Counting an outcome releases the slot.                                  *)
LEMMA CountedIs ==
    ASSUME job \in Job, NEW e \in Entities, NEW outcome
    PROVE  /\ Counted(e, outcome) \in Job
           /\ Counted(e, outcome).state = job.state /\ Counted(e, outcome).cancel = job.cancel
           /\ Counted(e, outcome).pending = job.pending /\ Counted(e, outcome).albums = job.albums
           /\ Counted(e, outcome).terminal = job.terminal \cup {e}
           /\ e \notin job.terminal => Counted(e, outcome).inflight = job.inflight - 1
<1> DEFINE r == Released(e)
           n == IF outcome = "FAILED" THEN r.failed + 1 ELSE r.failed
<1>1. /\ r \in Job
      /\ r.state = job.state /\ r.cancel = job.cancel
      /\ r.pending = job.pending /\ r.albums = job.albums
      /\ r.terminal = job.terminal \cup {e}
      /\ e \notin job.terminal => r.inflight = job.inflight - 1
    BY ReleasedIs
<1>2. Counted(e, outcome) = [r EXCEPT !.processed = r.processed + 1, !.failed = n]
    BY DEF Counted
<1> HIDE DEF r
<1>3. n \in Nat /\ r.processed + 1 \in Nat
    BY <1>1 DEF Job
<1> HIDE DEF n
<1>4. Counted(e, outcome) \in Job
    BY <1>1, <1>2, <1>3 DEF Job
<1> QED
    BY <1>1, <1>2, <1>4 DEF Job

(* When an entity in work ends, its slot is free and it is accounted for:  *)
(* whether the pool gave it up or the coordinator's answer was heard.      *)
LEMMA EndedKeeps ==
    ASSUME JobInv, FirstRun, FirstRun', NEW e \in InWork,
           thread' = thread, unheard' = unheard, known \subseteq known',
           pool' \subseteq pool, asked' \subseteq asked, InWork' = InWork \ {e},
           PoolIsOfARun',
           Cardinality(pool') + Cardinality(asked') = Cardinality(pool) + Cardinality(asked) - 1,
           job'.state = job.state, job'.pending = job.pending, job'.albums = job.albums,
           job'.terminal = job.terminal \cup {e},
           e \notin job.terminal => job'.inflight = job.inflight - 1
    PROVE  StateFollows' /\ OnePlace' /\ OnePhase' /\ Slots' /\ AllAccounted'
<1>1. Draining
    BY DEF JobInv, AllAccounted
<1>2. e \notin job.terminal /\ e \notin Waiting /\ Waiting' = Waiting
    BY DEF JobInv, OnePlace, Waiting, Draining
<1>3. StateFollows'
    BY DEF JobInv, StateFollows, Draining
<1>4. OnePlace'
    BY <1>2 DEF JobInv, OnePlace
<1>5. OnePhase'
    BY <1>1 DEF JobInv, OnePhase, Draining
<1>6. Slots'
    <2>1. Cardinality(pool) \in Nat /\ Cardinality(asked) \in Nat
        BY FS_CardinalityType DEF JobInv, PoolIsOfARun
    <2>2. Cardinality(pool') \in Nat /\ Cardinality(asked') \in Nat
        BY FS_CardinalityType DEF PoolIsOfARun
    <2>3. job'.inflight = job.inflight - 1 /\ job.inflight \in Int
        BY <1>2 DEF JobInv, JobTypeOK, Job
    <2>4. /\ job.inflight <= MaxPending
          /\ job.inflight >= Cardinality(pool) + Cardinality(asked)
          /\ unheard <=> job.inflight # Cardinality(pool) + Cardinality(asked)
        BY <1>1 DEF JobInv, Slots
    <2>5. /\ job'.inflight <= MaxPending
          /\ job'.inflight >= Cardinality(pool') + Cardinality(asked')
          /\ job'.inflight # Cardinality(pool') + Cardinality(asked')
                <=> job.inflight # Cardinality(pool) + Cardinality(asked)
        BY <2>1, <2>2, <2>3, <2>4, JobBoundsAssumption
    <2> QED
        BY <2>4, <2>5 DEF Slots
<1>7. AllAccounted'
    BY <1>1 DEF JobInv, AllAccounted, Draining
<1> QED
    BY <1>3, <1>4, <1>5, <1>6, <1>7

-----------------------------------------------------------------------------
(* The pool                                                                *)

(* An entity that is not asked for gives its slot back.                    *)
LEMMA RunLocallyKeeps == ASSUME JobInv, NEW w \in pool, RunLocally(w) PROVE JobInv'
<1>1. /\ pool' = pool \ {w} /\ asked' = asked /\ starts' = starts /\ known' = known
      /\ unheard' = unheard /\ cancels' = cancels /\ thread' = thread /\ job' = Released(w.entity)
    BY DEF RunLocally
<1>2. w.entity \in Entities /\ job \in Job
    BY DEF JobInv, JobTypeOK
<1>3. /\ job' \in Job /\ job'.state = job.state /\ job'.cancel = job.cancel
      /\ job'.pending = job.pending /\ job'.albums = job.albums
      /\ job'.terminal = job.terminal \cup {w.entity}
      /\ w.entity \notin job.terminal => job'.inflight = job.inflight - 1
    BY <1>1, <1>2, ReleasedIs
<1>4. JobTypeOK'
    BY <1>1, <1>3 DEF JobInv, JobTypeOK
<1>5. starts # 0
    BY DEF JobInv, PoolIsOfARun
<1>6. PoolIsOfARun' /\ Cardinality(pool') = Cardinality(pool) - 1
    BY <1>1, <1>5, FS_RemoveElement DEF JobInv, PoolIsOfARun
<1>7. (FirstRun' <=> FirstRun) /\ Fresh'
    BY <1>1, <1>3, <1>5, StillFirstRun
<1> SUFFICES ASSUME FirstRun
             PROVE  StateFollows' /\ OnePlace' /\ OnePhase' /\ Slots' /\ AllAccounted'
    BY <1>4, <1>6, <1>7 DEF JobInv, StateFollows, OnePlace, OnePhase, Slots, AllAccounted
<1>8. w.entity \in InWork
    BY DEF InWork
<1>9. InWork' = InWork \ {w.entity}
    BY <1>1 DEF JobInv, OnePlace, InWork
<1>10. Cardinality(pool') + Cardinality(asked') = Cardinality(pool) + Cardinality(asked) - 1
    BY <1>1, <1>6, FS_CardinalityType DEF JobInv, PoolIsOfARun
<1> QED
    BY <1>1, <1>3, <1>6, <1>7, <1>8, <1>9, <1>10, EndedKeeps

(* Past the cancel check an entity is in the pool as before.               *)
LEMMA CheckKeeps == ASSUME JobInv, NEW w \in pool, Check(w) PROVE JobInv'
<1> DEFINE v == [w EXCEPT !.checked = TRUE]
<1>1. /\ pool' = (pool \ {w}) \cup {v} /\ asked' = asked /\ starts' = starts /\ known' = known
      /\ unheard' = unheard /\ cancels' = cancels /\ thread' = thread /\ job' = job /\ ~job.cancel
    BY DEF Check
<1>2. v \in [entity : Entities, checked : BOOLEAN] /\ v.entity = w.entity
    BY DEF JobInv, JobTypeOK
<1> HIDE DEF v
<1>3. JobTypeOK'
    BY <1>1, <1>2 DEF JobInv, JobTypeOK
<1>4. starts # 0 /\ thread # "idle"
    BY DEF JobInv, PoolIsOfARun
<1>5. PoolIsOfARun'
    <2>1. IsFiniteSet(pool \ {w})
        BY FS_RemoveElement DEF JobInv, PoolIsOfARun
    <2> QED
        BY <1>1, <1>4, <2>1, FS_AddElement DEF JobInv, PoolIsOfARun
<1>6. (FirstRun' <=> FirstRun) /\ Fresh'
    BY <1>1, <1>4, StillFirstRun
<1> SUFFICES ASSUME FirstRun
             PROVE  StateFollows' /\ OnePlace' /\ OnePhase' /\ Slots' /\ AllAccounted'
    BY <1>3, <1>5, <1>6 DEF JobInv, StateFollows, OnePlace, OnePhase, Slots, AllAccounted
<1>7. InWork' = InWork
    BY <1>1, <1>2 DEF InWork
<1>8. v \notin pool \ {w}
    BY <1>2 DEF JobInv, OnePlace
<1>9. Cardinality(pool') = Cardinality(pool)
    <2>1. /\ IsFiniteSet(pool \ {w}) /\ Cardinality(pool \ {w}) = Cardinality(pool) - 1
          /\ Cardinality(pool) \in Nat
        BY FS_RemoveElement, FS_CardinalityType DEF JobInv, PoolIsOfARun
    <2>2. Cardinality(pool') = Cardinality(pool \ {w}) + 1
        BY <1>1, <1>8, <2>1, FS_AddElement
    <2> QED
        BY <2>1, <2>2
<1>10. StateFollows' /\ OnePhase' /\ Slots'
    BY <1>1, <1>7, <1>9 DEF JobInv, StateFollows, OnePhase, Slots, Draining
<1>11. OnePlace'
    BY <1>1, <1>2, <1>7 DEF JobInv, OnePlace, Waiting, Draining
<1>12. AllAccounted'
    BY <1>1, <1>7 DEF JobInv, AllAccounted, Draining
<1> QED
    BY <1>10, <1>11, <1>12

(* The entity passes from the pool to the coordinator, and keeps its slot. *)
(* In a first run it supersedes no operation.                              *)
LEMMA AskKeeps == ASSUME JobInv, NEW w \in pool, Ask(w) PROVE JobInv'
<1> DEFINE superseded == { IF o.entity = w.entity THEN [o EXCEPT !.cancelled = TRUE] ELSE o : o \in asked }
           new == [entity |-> w.entity, run |-> starts, cancelled |-> FALSE]
           Op == [entity : Entities, run : 1..MaxStarts, cancelled : BOOLEAN]
<1>1. /\ pool' = pool \ {w} /\ asked' = superseded \cup {new} /\ starts' = starts /\ known' = known
      /\ unheard' = unheard /\ cancels' = cancels /\ thread' = thread /\ job' = job
    BY DEF Ask
<1>2. starts # 0 /\ thread # "idle"
    BY DEF JobInv, PoolIsOfARun
<1>3. new \in Op /\ new.entity = w.entity
    BY <1>2, JobBoundsAssumption DEF JobInv, JobTypeOK
<1>4. superseded \subseteq Op
    BY DEF JobInv, JobTypeOK
<1>5. IsFiniteSet(superseded)
    <2>1. IsFiniteSet(asked)
        BY DEF JobInv, PoolIsOfARun
    <2> DEFINE f == [o \in asked |-> IF o.entity = w.entity THEN [o EXCEPT !.cancelled = TRUE] ELSE o]
    <2>2. f \in Surjection(asked, superseded)
        BY DEF Surjection
    <2> HIDE DEF f, superseded
    <2> QED
        BY <2>1, <2>2, FS_Surjection
<1>6. FirstRun => superseded = asked
    <2> SUFFICES ASSUME FirstRun PROVE superseded = asked
        OBVIOUS
    <2>1. \A o \in asked : o.entity # w.entity
        BY DEF JobInv, OnePlace
    <2> QED
        BY <2>1
<1> HIDE DEF superseded, new, Op
<1>7. JobTypeOK'
    BY <1>1, <1>3, <1>4 DEF JobInv, JobTypeOK, Op
<1>8. PoolIsOfARun'
    <2>1. IsFiniteSet(pool')
        BY <1>1, FS_RemoveElement DEF JobInv, PoolIsOfARun
    <2>2. IsFiniteSet(asked')
        BY <1>1, <1>5, FS_AddElement
    <2> QED
        BY <1>1, <1>2, <2>1, <2>2 DEF PoolIsOfARun
<1>9. (FirstRun' <=> FirstRun) /\ Fresh'
    BY <1>1, <1>2, StillFirstRun
<1> SUFFICES ASSUME FirstRun
             PROVE  StateFollows' /\ OnePlace' /\ OnePhase' /\ Slots' /\ AllAccounted'
    BY <1>7, <1>8, <1>9 DEF JobInv, StateFollows, OnePlace, OnePhase, Slots, AllAccounted
<1>10. asked' = asked \cup {new}
    BY <1>1, <1>6
<1>11. \A o \in asked : o.entity # w.entity
    BY DEF JobInv, OnePlace
<1>12. \A u \in pool' : u.entity # w.entity
    BY <1>1 DEF JobInv, OnePlace
<1>13. InWork' = InWork
    BY <1>1, <1>3, <1>10 DEF InWork
<1>14. Cardinality(pool') + Cardinality(asked') = Cardinality(pool) + Cardinality(asked)
    <2>1. /\ Cardinality(pool') = Cardinality(pool) - 1
          /\ Cardinality(pool) \in Nat /\ Cardinality(asked) \in Nat
        BY <1>1, FS_RemoveElement, FS_CardinalityType DEF JobInv, PoolIsOfARun
    <2>2. Cardinality(asked') = Cardinality(asked) + 1
        BY <1>3, <1>10, <1>11, FS_AddElement DEF JobInv, PoolIsOfARun
    <2> QED
        BY <2>1, <2>2
<1>15. StateFollows' /\ OnePhase' /\ Slots'
    BY <1>1, <1>13, <1>14 DEF JobInv, StateFollows, OnePhase, Slots, Draining
<1>16. OnePlace'
    BY <1>1, <1>3, <1>10, <1>11, <1>12, <1>13 DEF JobInv, OnePlace, Waiting, Draining
<1>17. AllAccounted'
    BY <1>1, <1>13 DEF JobInv, AllAccounted, Draining
<1> QED
    BY <1>15, <1>16, <1>17

-----------------------------------------------------------------------------
(* The coordinator's threads                                               *)

(* An answer that the job hears ends the entity, whatever its outcome.     *)
LEMMA HeardKeeps == ASSUME JobInv, NEW o \in asked, NEW outcome, Heard(o, outcome) PROVE JobInv'
<1>1. /\ pool' = pool /\ asked' = asked \ {o} /\ starts' = starts
      /\ unheard' = unheard /\ cancels' = cancels /\ thread' = thread
    BY DEF Heard
<1>2. o.entity \in Entities /\ job \in Job
    BY DEF JobInv, JobTypeOK
<1>3. known \subseteq known' /\ known' \subseteq Entities
    BY <1>2 DEF Heard, JobInv, JobTypeOK
<1>4. /\ Counted(o.entity, outcome) \in Job
      /\ Counted(o.entity, outcome).state = job.state /\ Counted(o.entity, outcome).cancel = job.cancel
      /\ Counted(o.entity, outcome).pending = job.pending /\ Counted(o.entity, outcome).albums = job.albums
      /\ Counted(o.entity, outcome).terminal = job.terminal \cup {o.entity}
      /\ o.entity \notin job.terminal => Counted(o.entity, outcome).inflight = job.inflight - 1
    BY <1>2, CountedIs
<1>5. job' = Counted(o.entity, outcome) \/ job' = job
    BY DEF Heard
<1>6. job' \in Job /\ job'.cancel = job.cancel
    BY <1>2, <1>4, <1>5
<1>7. JobTypeOK'
    BY <1>1, <1>3, <1>6 DEF JobInv, JobTypeOK
<1>8. starts # 0
    BY DEF JobInv, Fresh
<1>9. PoolIsOfARun' /\ Cardinality(asked') = Cardinality(asked) - 1
    BY <1>1, <1>8, FS_RemoveElement DEF JobInv, PoolIsOfARun
<1>10. (FirstRun' <=> FirstRun) /\ Fresh'
    BY <1>1, <1>6, <1>8, StillFirstRun
<1> SUFFICES ASSUME FirstRun
             PROVE  StateFollows' /\ OnePlace' /\ OnePhase' /\ Slots' /\ AllAccounted'
    BY <1>7, <1>9, <1>10 DEF JobInv, StateFollows, OnePlace, OnePhase, Slots, AllAccounted
<1>11. o.entity \in InWork
    BY DEF InWork
<1>12. InWork' = InWork \ {o.entity}
    BY <1>1 DEF JobInv, OnePlace, InWork
<1>13. Cardinality(pool') + Cardinality(asked') = Cardinality(pool) + Cardinality(asked) - 1
    BY <1>1, <1>9, FS_CardinalityType DEF JobInv, PoolIsOfARun
<1>14. job.state = "RUNNING" /\ ~job.cancel
    BY <1>11 DEF JobInv, AllAccounted, StateFollows, FirstRun
<1>15. job' = Counted(o.entity, outcome)
    BY <1>14 DEF Heard
<1> QED
    BY <1>1, <1>3, <1>4, <1>9, <1>10, <1>11, <1>12, <1>13, <1>15, EndedKeeps

(* An end that is not heard leaves its slot taken: the phase cannot end.   *)
LEMMA UnheardKeeps == ASSUME JobInv, NEW o \in asked, Unheard(o) PROVE JobInv'
<1>1. /\ pool' = pool /\ asked' = asked \ {o} /\ starts' = starts /\ unheard' = TRUE
      /\ known' = known /\ cancels' = cancels /\ thread' = thread /\ job' = job
    BY DEF Unheard
<1>2. JobTypeOK'
    BY <1>1 DEF JobInv, JobTypeOK
<1>3. starts # 0
    BY DEF JobInv, Fresh
<1>4. PoolIsOfARun' /\ Cardinality(asked') = Cardinality(asked) - 1
    BY <1>1, <1>3, FS_RemoveElement DEF JobInv, PoolIsOfARun
<1>5. (FirstRun' <=> FirstRun) /\ Fresh'
    BY <1>1, <1>3, StillFirstRun
<1> SUFFICES ASSUME FirstRun
             PROVE  StateFollows' /\ OnePlace' /\ OnePhase' /\ Slots' /\ AllAccounted'
    BY <1>2, <1>4, <1>5 DEF JobInv, StateFollows, OnePlace, OnePhase, Slots, AllAccounted
<1>6. InWork' \subseteq InWork
    BY <1>1 DEF InWork
<1>7. Draining
    BY DEF JobInv, AllAccounted, InWork
<1>8. Slots'
    <2>1. Cardinality(pool) \in Nat /\ Cardinality(asked) \in Nat /\ job.inflight \in Int
        BY FS_CardinalityType DEF JobInv, PoolIsOfARun, JobTypeOK, Job
    <2>2. /\ job.inflight <= MaxPending
          /\ job.inflight >= Cardinality(pool) + Cardinality(asked)
        BY <1>7 DEF JobInv, Slots
    <2> QED
        BY <1>1, <1>4, <2>1, <2>2 DEF Slots
<1>9. StateFollows'
    BY <1>1 DEF JobInv, StateFollows, Draining
<1>10. OnePlace'
    BY <1>1, <1>6 DEF JobInv, OnePlace, Waiting, Draining
<1>11. OnePhase'
    BY <1>1, <1>6 DEF JobInv, OnePhase
<1>12. AllAccounted'
    BY <1>1, <1>7 DEF JobInv, AllAccounted, Draining
<1> QED
    BY <1>8, <1>9, <1>10, <1>11, <1>12

-----------------------------------------------------------------------------
(* Other threads                                                           *)

(* A cancel, by the user or by the shutdown, ends what is claimed of the   *)
(* first run.                                                              *)
LEMMA CancelKeeps == ASSUME JobInv, CancelJob \/ ShutdownJob PROVE JobInv'
<1>1. /\ pool' = pool /\ asked' = asked /\ starts' = starts /\ known' = known
      /\ unheard' = unheard /\ cancels' = TRUE /\ thread' = thread
    BY DEF CancelJob, ShutdownJob
<1>2. job' \in Job /\ job'.cancel = TRUE
    <2>1. CASE CancelJob
        BY <2>1 DEF JobInv, JobTypeOK, Job, CancelJob, States
    <2>2. CASE ShutdownJob
        <3> DEFINE s == IF job.state \in {"RUNNING", "PREPARING", "CANCELLING"} THEN "CANCELLED"
                        ELSE job.state
        <3>1. job' = [job EXCEPT !.cancel = TRUE, !.state = s]
            BY <2>2 DEF ShutdownJob
        <3>2. s \in States
            BY DEF JobInv, JobTypeOK, Job, States, Final
        <3> HIDE DEF s
        <3> QED
            BY <3>1, <3>2 DEF JobInv, JobTypeOK, Job
    <2> QED
        BY <2>1, <2>2
<1>3. JobTypeOK'
    BY <1>1, <1>2 DEF JobInv, JobTypeOK
<1>4. PoolIsOfARun'
    BY <1>1 DEF JobInv, PoolIsOfARun
<1>5. ~FirstRun'
    BY <1>2 DEF FirstRun
<1>6. CASE CancelJob
    <2>1. starts # 0
        BY <1>6 DEF JobInv, Fresh, CancelJob
    <2> QED
        BY <1>1, <1>3, <1>4, <1>5, <2>1 DEF JobInv, Fresh, StateFollows, OnePlace, OnePhase, Slots,
                                            AllAccounted
<1>7. CASE ShutdownJob
    <2>1. job'.terminal = job.terminal /\ (job.state = "IDLE" => job'.state = "IDLE")
        BY <1>7 DEF ShutdownJob, JobInv, JobTypeOK, Job
    <2>2. Fresh'
        BY <1>1, <2>1 DEF JobInv, Fresh
    <2> QED
        BY <1>3, <1>4, <1>5, <2>2 DEF JobInv, StateFollows, OnePlace, OnePhase, Slots, AllAccounted
<1> QED
    BY <1>6, <1>7

(* Cancelling what was begun changes no entity.                            *)
LEMMA CancelAllKeeps == ASSUME JobInv, CancelAll PROVE JobInv'
<1> DEFINE f == [o \in asked |-> [o EXCEPT !.cancelled = TRUE]]
<1>1. /\ pool' = pool /\ starts' = starts /\ known' = known /\ job' = job
      /\ unheard' = unheard /\ cancels' = FALSE /\ thread' = thread
      /\ asked' = { [o EXCEPT !.cancelled = TRUE] : o \in asked }
    BY DEF CancelAll
<1>2. asked' \subseteq [entity : Entities, run : 1..MaxStarts, cancelled : BOOLEAN]
    BY <1>1 DEF JobInv, JobTypeOK
<1>3. JobTypeOK'
    BY <1>1, <1>2 DEF JobInv, JobTypeOK
<1>4. /\ \A o \in asked : f[o] \in asked' /\ f[o].entity = o.entity
      /\ \A p \in asked' : \E o \in asked : p = f[o]
    BY <1>1 DEF JobInv, JobTypeOK
<1>5. f \in Surjection(asked, asked')
    BY <1>4 DEF Surjection
<1>6. asked = {} => asked' = {}
    BY <1>1
<1> HIDE DEF f
<1>7. InWork' = InWork
    <2>1. {o.entity : o \in asked'} = {o.entity : o \in asked}
        BY <1>4
    <2> QED
        BY <1>1, <2>1 DEF InWork
<1>8. IsFiniteSet(asked') /\ (Cardinality(asked') = Cardinality(asked) <=> f \in Injection(asked, asked'))
    BY <1>5, FS_Surjection DEF JobInv, PoolIsOfARun
<1>9. PoolIsOfARun'
    BY <1>1, <1>8 DEF JobInv, PoolIsOfARun
<1>10. Fresh' /\ (FirstRun' <=> FirstRun)
    BY <1>1, <1>6 DEF JobInv, Fresh, FirstRun
<1> SUFFICES ASSUME FirstRun
             PROVE  StateFollows' /\ OnePlace' /\ OnePhase' /\ Slots' /\ AllAccounted'
    BY <1>3, <1>9, <1>10 DEF JobInv, StateFollows, OnePlace, OnePhase, Slots, AllAccounted
<1>11. \A o, p \in asked : o.entity = p.entity => o = p
    BY DEF JobInv, OnePlace
<1>12. f \in Injection(asked, asked')
    BY <1>4, <1>5, <1>11 DEF Injection, IsInjective, Surjection
<1>13. Cardinality(asked') = Cardinality(asked)
    BY <1>8, <1>12
<1>14. StateFollows' /\ OnePhase' /\ Slots'
    BY <1>1, <1>7, <1>13 DEF JobInv, StateFollows, OnePhase, Slots, Draining
<1>15. OnePlace'
    <2>1. \A o, p \in asked' : o.entity = p.entity => o = p
        BY <1>4, <1>11
    <2>2. \A w \in pool, o \in asked' : w.entity # o.entity
        BY <1>4 DEF JobInv, OnePlace
    <2> QED
        BY <1>1, <1>7, <2>1, <2>2 DEF JobInv, OnePlace, Waiting, Draining
<1>16. AllAccounted'
    BY <1>1, <1>7 DEF JobInv, AllAccounted, Draining
<1> QED
    BY <1>14, <1>15, <1>16

-----------------------------------------------------------------------------
(* Theorems                                                                *)

(* Every step of the job keeps the inductive invariant.                    *)
THEOREM JobInductive == JobInv /\ [JobNext]_jobVars => JobInv'
<1> SUFFICES ASSUME JobInv, [JobNext]_jobVars PROVE JobInv'
    OBVIOUS
<1>1. CASE Start
    BY <1>1, StartKeeps
<1>2. CASE StartThread
    <2>1. CASE Prepared
        BY <2>1, PreparedKeeps
    <2>2. ASSUME NEW e \in Entities, Admit(e) PROVE JobInv'
        BY <2>2, AdmitKeeps
    <2>3. CASE PhaseEnds
        BY <2>3, PhaseEndsKeeps
    <2>4. CASE Finish
        BY <2>4, FinishKeeps
    <2> QED
        BY <1>2, <2>1, <2>2, <2>3, <2>4 DEF StartThread
<1>3. ASSUME NEW w \in pool, RunLocally(w) \/ Check(w) \/ Ask(w) PROVE JobInv'
    BY <1>3, RunLocallyKeeps, CheckKeeps, AskKeeps
<1>4. ASSUME NEW o \in asked, (\E outcome : Heard(o, outcome)) \/ Unheard(o) PROVE JobInv'
    BY <1>4, HeardKeeps, UnheardKeeps
<1>5. CASE CancelJob \/ ShutdownJob
    BY <1>5, CancelKeeps
<1>6. CASE CancelAll
    BY <1>6, CancelAllKeeps
<1>7. CASE UNCHANGED jobVars
    BY <1>7 DEF jobVars, JobInv, JobTypeOK, Fresh, PoolIsOfARun, StateFollows, OnePlace, OnePhase, Slots,
                AllAccounted, FirstRun, Waiting, Draining, InWork
<1> QED
    BY <1>1, <1>2, <1>3, <1>4, <1>5, <1>6, <1>7 DEF JobNext, PoolThread, Answer

(* Consistent: for any library and any MaxPending, while a first run is    *)
(* not cancelled each slot it holds is one entity in work, at most         *)
(* MaxPending at once and artists before albums; and when it has ended,    *)
(* every entity is known or was answered, and none is in work.             *)
THEOREM JobConsistent == JobSpec => []Consistent
<1>1. JobInit => JobInv
    BY JobInitInv
<1>2. JobInv /\ [JobNext]_jobVars => JobInv'
    BY JobInductive
<1>3. JobInv => Consistent
    BY JobInvConsistent
<1> QED
    BY <1>1, <1>2, <1>3, PTL DEF JobSpec

=============================================================================
