------------------------- MODULE EnrichmentEntities -------------------------
(* What is enriched: the artists and the albums of the library.  The       *)
(* coordinator and the job over it speak about the same entities.          *)
CONSTANTS Artists, Albums

Entities == Artists \cup Albums

=============================================================================
