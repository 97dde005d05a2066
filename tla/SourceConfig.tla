---------------------------- MODULE SourceConfig ----------------------------
(***************************************************************************)
(* The scan-affecting configuration of the music sources, as               *)
(* SourceScanCoordinator keeps it: one record per LibrarySourceId and a    *)
(* process-local epoch that counts its changes (the "ABA seal").  This     *)
(* module has no state of its own: SourceAuthority says what the           *)
(* configuration means for the catalog, SourceScan what the code does.     *)
(***************************************************************************)
EXTENDS Integers, FiniteSets

CONSTANTS
    Sources,   \* the LibrarySourceIds that exist or may be created
    Roots,     \* directories a source can be rooted at
    NoRoot,    \* the root of a source that is not configured
    Overlap    \* pairs of roots one of which contains, or aliases, the other

ASSUME SourcesAssumption == IsFiniteSet(Sources)

ASSUME RootsAssumption ==
    /\ NoRoot \notin Roots
    /\ Overlap \subseteq Roots \X Roots
    /\ \A r \in Roots : <<r, r>> \in Overlap
    /\ \A p \in Overlap : <<p[2], p[1]>> \in Overlap

-----------------------------------------------------------------------------

Lifecycles == {"none", "active", "retired"}

(* root / enabled / lifecycle: the signature whose change bumps the epoch. *)
ConfigRecord == [root : Roots \cup {NoRoot}, enabled : BOOLEAN, lifecycle : Lifecycles]

Unconfigured == [root |-> NoRoot, enabled |-> FALSE, lifecycle |-> "none"]

NewSource(r) == [root |-> r, enabled |-> TRUE, lifecycle |-> "active"]

Configured(c) == c.lifecycle # "none"

(* The authorization boundary of a scan and of its commit. *)
Runnable(c) == c.lifecycle = "active" /\ c.enabled

(* No configured source other than those in "except" overlaps r. *)
RootIsFree(cfg, r, except) ==
    \A s \in Sources \ except :
        Configured(cfg[s]) => <<r, cfg[s].root>> \notin Overlap

(* The epochs after the catalog went from cfg to new: _remember_sources    *)
(* compares the signatures of the sources it already knew.                 *)
EpochsAfter(cfg, new, ep) ==
    [s \in Sources |-> IF Configured(cfg[s]) /\ new[s] # cfg[s]
                       THEN ep[s] + 1
                       ELSE ep[s]]

-----------------------------------------------------------------------------

(* Which epoch a source's durable rows, and its rows in the visible        *)
(* Library, were scanned under.                                            *)
EarlierRun == -1   \* rows hydrated from an earlier process
Hidden     == -2   \* the source is not in the visible Library at all

RowsEpoch      == Nat \cup {EarlierRun}
PublishedEpoch == RowsEpoch \cup {Hidden}

(* "UNREACHABLE" stands for the availabilities an error can record         *)
(* (MISSING_ROOT, ACCESS_DENIED, IO_ERROR, OFFLINE).                       *)
Availability == {"UNKNOWN", "AVAILABLE", "UNREACHABLE"}

=============================================================================
