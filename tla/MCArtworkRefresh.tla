-------------------------- MODULE MCArtworkRefresh --------------------------
(* Instances of ArtworkRefresh for TLC: two sources with a track each,     *)
(* which may be in one album or in two.                                    *)
EXTENDS ArtworkRefresh, TLC

CONSTANTS t1, t2, s1, s2, a1, a2, v1

MCSourceOf == (t1 :> s1) @@ (t2 :> s2)

=============================================================================
