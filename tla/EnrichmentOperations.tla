------------------------ MODULE EnrichmentOperations ------------------------
(***************************************************************************)
(* EnrichmentCoordinator over EnrichmentService: online enrichment of      *)
(* artists and albums by worker threads that the user may supersede,       *)
(* cancel, contradict (confirm or reset an identity) or clear at any time. *)
(* The coordinator holds a token for the operation under way of each       *)
(* entity; the service holds the generation that alone may commit, the     *)
(* identities, the knowledge and the requests that wait for a delivery.    *)
(*                                                                         *)
(* A worker reads without a lock (Look), asks the provider, passes the     *)
(* request gate of the service (Gate), fetches, and passes the commit gate *)
(* (Commit).  The checkpoints between its fetches are one (Notice), since  *)
(* nothing is shared between them.  An album identity is one opaque value  *)
(* for release group and edition.  The user's intents come from the owner  *)
(* thread, one after the other; those that end in a barrier of the service *)
(* take two steps, since workers run between them.                         *)
(***************************************************************************)
EXTENDS EnrichmentEntities, Naturals, FiniteSets

CONSTANTS
    ArtistOf,      \* album -> artist
    ExternalIds, None,
    MaxBegins,     \* bound on the operations begun
    MaxBarriers    \* bound on confirm, reset and clear

ASSUME ArtistOfAssumption == ArtistOf \in [Albums -> Artists]
ASSUME BoundsAssumption == MaxBegins \in Nat /\ MaxBarriers \in Nat

VARIABLES
    generation,  \* service: the generation of each entity that may commit
    identity,    \* repository: its identity
    profile,     \* repository: its profile: what it is about, who delivered it
    pending,     \* service, ledger: its request that waits for a delivery
    registry,    \* coordinator: the generation of its token
    ops,         \* the operations queued or running
    barrier,     \* owner thread: an intent whose token is cancelled already
    closed,      \* coordinator: shutting down
    clearedAt,   \* history: its generation when its knowledge was last cleared
    begins, barriers

service == <<generation, identity, profile, pending>>
bounds == <<begins, barriers>>
vars == <<generation, identity, profile, pending, registry, ops, barrier, closed,
          clearedAt, begins, barriers>>

Automatic == {"AUTO", "EMBEDDED_HINT"}
Identity == [id : ExternalIds, method : Automatic \cup {"MANUAL"}]
Profile == [id : ExternalIds, by : Nat]
Request == [gen : Nat, id : ExternalIds]

Asking == {"known", "refining", "resolving"}
Stages == Asking \cup {"queued", "fetching"}

(* id: the identity it saw, later the one it requested.  rests: the        *)
(* identity of the artist that the resolution of an album relied on.       *)
Operation == [entity : Entities, gen : Nat, cancelled : BOOLEAN, stage : Stages,
              id : ExternalIds \cup {None}, method : Automatic,
              rests : ExternalIds \cup {None}]

Barrier == [entity : Entities, intent : {"confirm", "reset", "clear"},
            id : ExternalIds \cup {None}]

ASSUME NoneAssumption ==
    None \notin ExternalIds \cup Nat \cup Identity \cup Profile \cup Request \cup Barrier

TypeOK ==
    /\ generation \in [Entities -> Nat]
    /\ identity \in [Entities -> Identity \cup {None}]
    /\ profile \in [Entities -> Profile \cup {None}]
    /\ pending \in [Entities -> Request \cup {None}]
    /\ registry \in [Entities -> Nat \cup {None}]
    /\ ops \subseteq Operation
    /\ barrier \in Barrier \cup {None}
    /\ closed \in BOOLEAN
    /\ clearedAt \in [Entities -> Nat]
    /\ begins \in 0..MaxBegins /\ barriers \in 0..MaxBarriers

Init ==
    /\ generation = [e \in Entities |-> 0]
    /\ identity = [e \in Entities |-> None]
    /\ profile = [e \in Entities |-> None]
    /\ pending = [e \in Entities |-> None]
    /\ registry = [e \in Entities |-> None]
    /\ ops = {}
    /\ barrier = None
    /\ closed = FALSE
    /\ clearedAt = [e \in Entities |-> 0]
    /\ begins = 0 /\ barriers = 0

-----------------------------------------------------------------------------
(* Helpers of the service, under its authority lock.                       *)

IsManual(e) == identity[e] # None /\ identity[e].method = "MANUAL"
IsAbout(e, x) == identity[e] # None /\ identity[e].id = x
IsCurrent(o) == generation[o.entity] = o.gen

(* retire_operation: only the current generation can be retired, and its   *)
(* request goes with it.                                                   *)
Retire(E) ==
    /\ generation' = [e \in Entities |->
           IF e \in E /\ registry[e] = generation[e] THEN generation[e] + 1 ELSE generation[e]]
    /\ pending' = [e \in Entities |->
           IF /\ e \in E /\ registry[e] = generation[e]
              /\ pending[e] # None /\ pending[e].gen = generation[e]
           THEN None ELSE pending[e]]
    /\ UNCHANGED <<identity, profile>>

RetireGeneration(o) ==
    /\ generation' = [generation EXCEPT ![o.entity] = IF @ = o.gen THEN @ + 1 ELSE @]
    /\ pending' = [pending EXCEPT ![o.entity] =
                     IF @ # None /\ @.gen = o.gen /\ IsCurrent(o) THEN None ELSE @]
    /\ UNCHANGED <<identity, profile>>

(* _persist_*_identity_transition: the profile goes when the identity is   *)
(* another one.                                                            *)
KeptProfile(e, x) == IF IsAbout(e, x) \/ identity[e] = None THEN profile[e] ELSE None

(* _revoke_*_identity                                                      *)
Revoke(e) ==
    /\ pending' = [pending EXCEPT ![e] = None]
    /\ identity' = [identity EXCEPT ![e] = IF IsManual(e) THEN @ ELSE None]
    /\ profile' = [profile EXCEPT ![e] =
                     IF IsManual(e) \/ identity[e] = None THEN @ ELSE None]
    /\ UNCHANGED generation

(* token.cancel() of the operations under way of E                         *)
Flagged(E) == { IF o.entity \in E /\ registry[o.entity] = o.gen
                THEN [o EXCEPT !.cancelled = TRUE] ELSE o : o \in ops }

(* The terminal report of an operation and _end_operation, the finally of  *)
(* its worker.                                                             *)
End(o) ==
    /\ ops' = ops \ {o}
    /\ registry' = [registry EXCEPT ![o.entity] = IF @ = o.gen THEN None ELSE @]
    /\ UNCHANGED <<barrier, closed, clearedAt, bounds>>

Moves(o, moved) ==
    /\ ops' = (ops \ {o}) \cup {moved}
    /\ UNCHANGED <<registry, barrier, closed, clearedAt, bounds>>

-----------------------------------------------------------------------------
(* Intents of the owner thread.                                            *)

OwnerIsFree == barrier = None /\ ~closed

(* enrich_artist, enrich_album and their refresh: _begin_operation is one  *)
(* linearization point.                                                    *)
Begin(e) ==
    /\ OwnerIsFree /\ begins < MaxBegins
    /\ generation' = [generation EXCEPT ![e] = @ + 1]
    /\ pending' = [pending EXCEPT ![e] = None]
    /\ registry' = [registry EXCEPT ![e] = generation[e] + 1]
    /\ ops' = Flagged({e}) \cup
              {[entity |-> e, gen |-> generation[e] + 1, cancelled |-> FALSE,
                stage |-> "queued", id |-> None, method |-> "AUTO", rests |-> None]}
    /\ begins' = begins + 1
    /\ UNCHANGED <<identity, profile, barrier, closed, clearedAt, barriers>>

(* cancel_artist, cancel_album (E a singleton) and cancel_all.             *)
Cancel(E) ==
    /\ OwnerIsFree
    /\ Retire(E)
    /\ ops' = Flagged(E)
    /\ UNCHANGED <<registry, barrier, closed, clearedAt, bounds>>

CancelSome == (\E e \in Entities : Cancel({e})) \/ Cancel(Entities)

(* confirm_*_identity and reset_*_identity cancel the token before the     *)
(* barrier of the service; the Clear intent of the detail page cancels the *)
(* operation.                                                              *)
Contradict(e) ==
    /\ OwnerIsFree /\ barriers < MaxBarriers
    /\ barrier' \in [entity : {e}, intent : {"confirm"}, id : ExternalIds]
                    \cup [entity : {e}, intent : {"reset"}, id : {None}]
    /\ ops' = Flagged({e})
    /\ barriers' = barriers + 1
    /\ UNCHANGED <<service, registry, closed, clearedAt, begins>>

ClearKnowledge(e) ==
    /\ OwnerIsFree /\ barriers < MaxBarriers
    /\ Retire({e})
    /\ ops' = Flagged({e})
    /\ barrier' = [entity |-> e, intent |-> "clear", id |-> None]
    /\ barriers' = barriers + 1
    /\ UNCHANGED <<registry, closed, clearedAt, begins>>

ConfirmInTheSameEpoch ==
    /\ barrier # None /\ barrier.intent = "confirm"
    /\ LET e == barrier.entity IN
         /\ pending' = [pending EXCEPT ![e] = None]
         /\ profile' = [profile EXCEPT ![e] = KeptProfile(e, barrier.id)]
         /\ identity' = [identity EXCEPT ![e] = [id |-> barrier.id, method |-> "MANUAL"]]
    /\ barrier' = None
    /\ UNCHANGED <<generation, registry, ops, closed, clearedAt, bounds>>

(* The manual barriers: the epoch advances, the request is invalidated and *)
(* the user's identity persisted, or everything removed, at once.          *)
Confirm ==
    /\ barrier # None /\ barrier.intent = "confirm"
    /\ LET e == barrier.entity IN
         /\ generation' = [generation EXCEPT ![e] = @ + 1]
         /\ pending' = [pending EXCEPT ![e] = None]
         /\ profile' = [profile EXCEPT ![e] = KeptProfile(e, barrier.id)]
         /\ identity' = [identity EXCEPT ![e] = [id |-> barrier.id, method |-> "MANUAL"]]
    /\ barrier' = None
    /\ UNCHANGED <<registry, ops, closed, clearedAt, bounds>>

Reset ==
    /\ barrier # None /\ barrier.intent = "reset"
    /\ LET e == barrier.entity IN
         /\ generation' = [generation EXCEPT ![e] = @ + 1]
         /\ pending' = [pending EXCEPT ![e] = None]
         /\ profile' = [profile EXCEPT ![e] = None]
         /\ identity' = [identity EXCEPT ![e] = None]
         /\ clearedAt' = [clearedAt EXCEPT ![e] = generation[e]]
    /\ barrier' = None
    /\ UNCHANGED <<registry, ops, closed, bounds>>

Clear ==
    /\ barrier # None /\ barrier.intent = "clear"
    /\ profile' = [profile EXCEPT ![barrier.entity] = None]
    /\ clearedAt' = [clearedAt EXCEPT ![barrier.entity] = generation[barrier.entity]]
    /\ barrier' = None
    /\ UNCHANGED <<generation, identity, pending, registry, ops, closed, bounds>>

(* shutdown: admission closes, every operation is retired, and the         *)
(* executor drops what no worker has started.                              *)
Shutdown ==
    /\ OwnerIsFree
    /\ closed' = TRUE
    /\ Retire(Entities)
    /\ ops' = { o \in Flagged(Entities) : o.stage # "queued" }
    /\ UNCHANGED <<registry, barrier, clearedAt, bounds>>

-----------------------------------------------------------------------------
(* The worker of an operation: _run_artist and _run_album.                 *)

(* A checkpoint sees the cancellation.                                     *)
Notice(o) ==
    /\ o.cancelled /\ o.stage \in {"queued", "fetching"}
    /\ RetireGeneration(o)
    /\ End(o)

(* request_*_enrichment reads the identity without the lock, and the tags  *)
(* of the files may hold identities (hints): a manual identity, or one     *)
(* that came from tags that are gone, is taken as it is; the edition of an *)
(* album may be refined; anything else is resolved anew, for an album      *)
(* perhaps with the identity of its artist as evidence.                    *)
Look(o) ==
    /\ o.stage = "queued" /\ ~o.cancelled
    /\ \E hints \in {"none", "edition", "identity"} :
         LET e == o.entity
             found == identity[e]
             embedded == found # None /\ found.method = "EMBEDDED_HINT"
             artist == IF e \in Albums THEN identity[ArtistOf[e]] ELSE None
         IN /\ hints = "edition" => e \in Albums
            /\ \/ /\ IsManual(e) \/ (embedded /\ hints = "none")
                  /\ Moves(o, [o EXCEPT !.stage = "known", !.id = found.id])
               \/ /\ embedded /\ hints = "edition"
                  /\ Moves(o, [o EXCEPT !.stage = "refining", !.id = found.id,
                                        !.method = "EMBEDDED_HINT"])
               \/ /\ ~IsManual(e) /\ (embedded => hints = "identity")
                  /\ \E rests \in {None} \cup (IF artist = None THEN {} ELSE {artist.id}) :
                       Moves(o, [o EXCEPT !.stage = "resolving", !.rests = rests,
                                   !.method = IF hints = "identity" THEN "EMBEDDED_HINT"
                                              ELSE "AUTO"])
    /\ UNCHANGED service

RestsOnArtist(o) == o.rests # None => IsAbout(ArtistOf[o.entity], o.rests)

(* The request gate: short_circuit, the commit gate of request_*_          *)
(* enrichment, _refine_embedded_album_release.                             *)
Superseded(o) ==
    /\ o.stage \in Asking
    /\ ~IsCurrent(o)
    /\ End(o)
    /\ UNCHANGED service

(* The artist is no longer who the resolution of the album took it for.    *)
DependencyLost(o) ==
    /\ o.stage = "resolving" /\ IsCurrent(o)
    /\ ~RestsOnArtist(o)
    /\ End(o)
    /\ UNCHANGED service

Unresolved(o) ==
    /\ o.stage \in {"refining", "resolving"} /\ IsCurrent(o)
    /\ Revoke(o.entity)
    /\ End(o)

Registers(o, x) ==
    /\ pending' = [pending EXCEPT ![o.entity] = [gen |-> o.gen, id |-> x]]
    /\ Moves(o, [o EXCEPT !.stage = "fetching", !.id = x])
    /\ UNCHANGED generation

Known(o) ==
    /\ o.stage = "known" /\ IsCurrent(o)
    /\ Registers(o, o.id)
    /\ UNCHANGED <<identity, profile>>

ResolvedLate(o, x) ==
    /\ o.stage \in {"refining", "resolving"}
    /\ RestsOnArtist(o)
    /\ identity' = [identity EXCEPT ![o.entity] = [id |-> x, method |-> o.method]]
    /\ profile' = [profile EXCEPT ![o.entity] = KeptProfile(o.entity, x)]
    /\ Registers(o, x)

Resolved(o, x) ==
    /\ o.stage \in {"refining", "resolving"} /\ IsCurrent(o)
    /\ RestsOnArtist(o)
    /\ identity' = [identity EXCEPT ![o.entity] = [id |-> x, method |-> o.method]]
    /\ profile' = [profile EXCEPT ![o.entity] = KeptProfile(o.entity, x)]
    /\ Registers(o, x)

Gate(o) == \/ Superseded(o) \/ DependencyLost(o) \/ Unresolved(o) \/ Known(o)
           \/ \E x \in ExternalIds : Resolved(o, x)

(* _commit_artist, _commit_album: the coordinator's gate.                  *)
HasAuthority(o) == ~closed /\ ~o.cancelled /\ registry[o.entity] = o.gen

CommitRefused(o) ==
    /\ o.stage = "fetching" /\ ~HasAuthority(o)
    /\ RetireGeneration(o)
    /\ End(o)

(* deliver_*_profile: the service's own gate.                              *)
MayDeliver(o) ==
    /\ IsCurrent(o)
    /\ IsAbout(o.entity, o.id)
    /\ RestsOnArtist(o)
    /\ pending[o.entity] = [gen |-> o.gen, id |-> o.id]

Stale(o) ==
    /\ o.stage = "fetching" /\ HasAuthority(o)
    /\ ~MayDeliver(o)
    /\ End(o)
    /\ UNCHANGED service

(* The request is consumed; the profile may fail to be stored.             *)
Deliver(o) ==
    /\ o.stage = "fetching" /\ HasAuthority(o)
    /\ MayDeliver(o)
    /\ pending' = [pending EXCEPT ![o.entity] = None]
    /\ \/ profile' = [profile EXCEPT ![o.entity] = [id |-> o.id, by |-> o.gen]]
       \/ UNCHANGED profile
    /\ End(o)
    /\ UNCHANGED <<generation, identity>>

(* _terminal_failure, _terminal_unexpected: whoever claims the authority   *)
(* first decides whether this was a failure (OFFLINE, FAILED) or came too  *)
(* late (CANCELLED); either way the worker takes back its own request.     *)
Fail(o) ==
    /\ o.stage # "queued"
    /\ \/ HasAuthority(o) /\ RetireGeneration(o)
       \/ /\ ~HasAuthority(o)
          /\ pending' = [pending EXCEPT ![o.entity] =
                           IF @ # None /\ @.gen = o.gen THEN None ELSE @]
          /\ UNCHANGED <<generation, identity, profile>>
    /\ End(o)

-----------------------------------------------------------------------------
Owner == \/ \E e \in Entities : Begin(e) \/ Contradict(e) \/ ClearKnowledge(e)
         \/ CancelSome \/ Confirm \/ Reset \/ Clear \/ Shutdown

Worker(o) == Notice(o) \/ Look(o) \/ Gate(o) \/ CommitRefused(o) \/ Stale(o)
             \/ Deliver(o) \/ Fail(o)

Next == Owner \/ \E o \in ops : Worker(o)

Spec == Init /\ [][Next]_vars

-----------------------------------------------------------------------------
(* Two locks, one truth: an operation that nobody cancelled is the one the *)
(* coordinator holds the token of and the one whose generation the service *)
(* lets commit; a cancelled one may commit no more, except between the two *)
(* steps of a manual barrier.                                              *)
OneAuthority ==
    \A o \in ops :
      /\ o.gen <= generation[o.entity]
      /\ ~o.cancelled => registry[o.entity] = o.gen /\ IsCurrent(o)
      /\ o.cancelled /\ IsCurrent(o) =>
           barrier # None /\ barrier.entity = o.entity /\ barrier.intent # "clear"
      /\ \A p \in ops : p.entity = o.entity /\ p.gen = o.gen => p = o

(* What a worker read without the lock is still so when its generation is  *)
(* still current at the gate: no lock is held between, only the epoch.     *)
ReadsStand ==
    \A o \in ops : IsCurrent(o) =>
      /\ o.stage \in {"known", "refining"} => IsAbout(o.entity, o.id)
      /\ o.stage \in {"refining", "resolving"} => ~IsManual(o.entity)

(* A request waits only for the generation that may commit, and only for   *)
(* the identity the entity has: nothing a user contradicted is waited for. *)
PendingIsCurrent ==
    \A e \in Entities : pending[e] # None =>
      pending[e].gen = generation[e] /\ IsAbout(e, pending[e].id)

(* A profile is about the identity of its entity.                          *)
ProfileIsAboutIdentity ==
    \A e \in Entities : profile[e] # None => IsAbout(e, profile[e].id)

(* Knowledge that the user cleared, or that went with a reset, is never    *)
(* brought back by a worker that was under way: only an operation begun    *)
(* afterwards delivers.                                                    *)
NoResurrection ==
    \A e \in Entities : profile[e] # None => profile[e].by > clearedAt[e]

(* The stage of an operation and what it holds agree.                      *)
WellFormed ==
    \A o \in ops :
      /\ o.stage \in {"known", "refining", "fetching"} => o.id # None
      /\ o.rests # None => o.entity \in Albums

(* A cleared entity is one whose generation is over or was never begun.    *)
ClearedIsOver ==
    /\ \A e \in Entities : clearedAt[e] <= generation[e]
    /\ \A o \in ops : IsCurrent(o) => o.gen > clearedAt[o.entity]
    /\ \A o \in ops : barrier # None /\ barrier.intent = "clear"
                      /\ barrier.entity = o.entity => ~IsCurrent(o)
    /\ barrier # None /\ barrier.intent = "confirm" => barrier.id # None

(* Whatever worked on the entity of a barrier was cancelled before it.     *)
BarrierCuts ==
    barrier # None => \A o \in ops : o.entity = barrier.entity => o.cancelled

(* The inductive invariant that the theorems of EnrichmentProofs rest on.  *)
IInv == /\ TypeOK /\ OneAuthority /\ ReadsStand /\ PendingIsCurrent
        /\ ProfileIsAboutIdentity /\ NoResurrection /\ WellFormed
        /\ ClearedIsOver /\ BarrierCuts

(* Threads, locks and generations implement the atomic authority: above    *)
(* all, no worker replaces or removes an identity the user confirmed.      *)
Authority == INSTANCE KnowledgeAuthority
                WITH knowledge <- [e \in Entities |->
                                     IF profile[e] = None THEN None ELSE profile[e].id]

ImplementsKnowledge == Authority!Spec
=============================================================================
