--------------------------- MODULE SourceAuthority ---------------------------
(***************************************************************************)
(* What the source scan promises, without queue, worker or message: the    *)
(* user edits the configuration of a source, and a scan is one atomic      *)
(* step that reconciles the rows of a runnable source with the             *)
(* configuration it has at that moment.  SourceScan implements this        *)
(* although its scans read the configuration on one thread, long before    *)
(* they commit on another.                                                 *)
(***************************************************************************)
EXTENDS SourceConfig

VARIABLES
    config,      \* source -> its durable configuration
    epoch,       \* source -> number of scan-affecting changes so far
    catalog,     \* source -> epoch its durable rows describe
    published,   \* source -> epoch its visible rows describe
    obs          \* source -> last physical observation

authorityVars == <<config, epoch, catalog, published, obs>>

Init ==
    /\ config \in [Sources -> ConfigRecord]
    /\ epoch = [s \in Sources |-> 0]
    /\ catalog = [s \in Sources |-> EarlierRun]
    /\ published = [s \in Sources |->
                       IF config[s].lifecycle = "active" THEN EarlierRun ELSE Hidden]
    /\ obs = [s \in Sources |-> "UNKNOWN"]

(* A change of configuration makes the last observation worthless, and     *)
(* takes a retired source out of the visible Library.                      *)
Reconfigure(s) ==
    \E c \in ConfigRecord :
        /\ Configured(c)
        /\ config' = [config EXCEPT ![s] = c]
        /\ epoch' = EpochsAfter(config, config', epoch)
        /\ obs' = [obs EXCEPT ![s] = "UNKNOWN"]
        /\ published' = [published EXCEPT
                            ![s] = IF c.lifecycle = "retired" THEN Hidden ELSE @]
        /\ UNCHANGED catalog

(* The whole scan at once.  Publication is derived from the catalog and    *)
(* may fail after it.                                                      *)
Reconcile(s) ==
    /\ Runnable(config[s])
    /\ catalog' = [catalog EXCEPT ![s] = epoch[s]]
    /\ obs' = [obs EXCEPT ![s] = "AVAILABLE"]
    /\ \E shown \in {epoch[s], published[s]} :
           published' = [published EXCEPT ![s] = shown]
    /\ UNCHANGED <<config, epoch>>

ObserveFailure(s) ==
    /\ Runnable(config[s])
    /\ obs' = [obs EXCEPT ![s] = "UNREACHABLE"]
    /\ UNCHANGED <<config, epoch, catalog, published>>

Next == \E s \in Sources : Reconfigure(s) \/ Reconcile(s) \/ ObserveFailure(s)

Spec == Init /\ [][Next]_authorityVars

=============================================================================
