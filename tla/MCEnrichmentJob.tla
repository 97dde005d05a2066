--------------------------- MODULE MCEnrichmentJob ---------------------------
(* Instances of EnrichmentJob for TLC.                                     *)
EXTENDS EnrichmentJob, TLC

CONSTANTS a1, a2, b1, b2

=============================================================================
