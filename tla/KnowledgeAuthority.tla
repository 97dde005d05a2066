------------------------- MODULE KnowledgeAuthority -------------------------
(***************************************************************************)
(* What the online enrichment promises about what it knows, one atomic     *)
(* step per decision.  Every artist and album of the library has at most   *)
(* one external identity and at most one knowledge profile, and a profile  *)
(* is always about the identity.  A MANUAL identity belongs to the user:   *)
(* no automatic resolution replaces or removes it.                         *)
(***************************************************************************)
CONSTANTS Entities,     \* the artists and albums of the library
          ExternalIds,  \* identities at the provider
          None          \* no identity, no profile

VARIABLES identity,     \* enrichment_repository: the identity of each entity
          knowledge     \* enrichment_repository: the identity its profile is about

vars == <<identity, knowledge>>

Automatic == {"AUTO", "EMBEDDED_HINT"}
Identities == [id : ExternalIds, method : Automatic \cup {"MANUAL"}]

Init == /\ identity = [e \in Entities |-> None]
        /\ knowledge = [e \in Entities |-> None]

IsManual(e) == identity[e] # None /\ identity[e].method = "MANUAL"
IsAbout(e, x) == identity[e] # None /\ identity[e].id = x

\* A profile about another identity goes when the identity changes.
Becomes(e, i) ==
  /\ identity' = [identity EXCEPT ![e] = i]
  /\ knowledge' = [knowledge EXCEPT ![e] = IF i # None /\ IsAbout(e, i.id) THEN @ ELSE None]

\* The user decides, always.
Confirm(e) == \E x \in ExternalIds : Becomes(e, [id |-> x, method |-> "MANUAL"])
Reset(e) == Becomes(e, None)

\* The provider's evidence decides, but never over the user.
Resolve(e) == /\ ~IsManual(e)
              /\ \E x \in ExternalIds, m \in Automatic : Becomes(e, [id |-> x, method |-> m])
Revoke(e) == /\ ~IsManual(e)
             /\ Becomes(e, None)

Learn(e) == /\ identity[e] # None
            /\ knowledge' = [knowledge EXCEPT ![e] = identity[e].id]
            /\ UNCHANGED identity
Forget(e) == /\ knowledge' = [knowledge EXCEPT ![e] = None]
             /\ UNCHANGED identity

Next == \E e \in Entities :
          Confirm(e) \/ Reset(e) \/ Resolve(e) \/ Revoke(e) \/ Learn(e) \/ Forget(e)

Spec == Init /\ [][Next]_vars

(* A profile is about the identity of its entity, and of no other: what    *)
(* the library shows is never the biography of a namesake.                 *)
KnowledgeIsAboutTheIdentity ==
  \A e \in Entities : knowledge[e] # None => IsAbout(e, knowledge[e])
=============================================================================
