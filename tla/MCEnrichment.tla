---------------------------- MODULE MCEnrichment ----------------------------
(* Instances of EnrichmentOperations for TLC: an album and its artist.     *)
EXTENDS EnrichmentOperations, TLC

CONSTANTS a1, b1, x1, x2

MCArtistOf == b1 :> a1

=============================================================================
