-------------------------- MODULE ShuffleNavigator --------------------------
(***************************************************************************)
(* The shuffle bookkeeping of a playback session as a record, and the      *)
(* methods of ShuffleNavigator as operators from record to record.  The    *)
(* pool is a list in the code; since the next entry is drawn from it at    *)
(* random only how often an entry occurs in it matters, and it is a bag.   *)
(***************************************************************************)
EXTENDS SequencesExt

CONSTANT None    \* Python's None

IsNavigator(nav, entries) ==
    /\ DOMAIN nav = {"pool", "history"}
    /\ IsABag(nav.pool) /\ DOMAIN nav.pool \subseteq entries
    /\ nav.history \in Seq(entries)

Cleared == [pool |-> EmptyBag, history |-> <<>>]

(* reset and regenerate: a fresh cycle of everything but the current entry *)
FreshCycle(entries, current) ==
    [pool    |-> SetToBag(ToSet(entries) \ {current}),
     history |-> IF current = None THEN <<>> ELSE <<current>>]

(* pop_next, once for each entry it may draw *)
Draws(nav) == {<<e, [nav EXCEPT !.pool = @ (-) SetToBag({e})]>> : e \in DOMAIN nav.pool}

Without(bag, S) == Restrict(bag, DOMAIN bag \ S)

RecordCommit(nav, e) ==
    [pool    |-> Without(nav.pool, {e}),
     history |-> IF nav.history # <<>> /\ Last(nav.history) = e
                 THEN nav.history
                 ELSE Append(nav.history, e)]

(* Guard: history has at least two entries.  The current one goes back to  *)
(* the pool; the target is the new last entry of the history.              *)
PreviousPick(nav) ==
    [pool    |-> nav.pool (+) SetToBag({Last(nav.history)}),
     history |-> Front(nav.history)]

(* The positions of s that hold one of S keep their order.                 *)
Retained(s, S) ==
    LET kept    == {i \in DOMAIN s : s[i] \in S}
        Rank(i) == Cardinality({j \in kept : j <= i})
    IN  [n \in 1 .. Cardinality(kept) |-> s[CHOOSE i \in kept : Rank(i) = n]]

(* What on_queue_changed does to the pool and the history: entries that    *)
(* left the queue are dropped, and those that joined it are added.         *)
Synchronized(nav, live, active) ==
    LET pool    == Without(nav.pool, DOMAIN nav.pool \ live)
        history == Retained(nav.history, live)
    IN  [pool    |-> pool (+) SetToBag(live \ (DOMAIN pool \cup ToSet(history) \cup {active})),
         history |-> history]

=============================================================================
