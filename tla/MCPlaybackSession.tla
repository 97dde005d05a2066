-------------------------- MODULE MCPlaybackSession --------------------------
(***************************************************************************)
(* Instances of PlaybackSession for TLC.  Ids and paths are interchangeable*)
(***************************************************************************)
EXTENDS PlaybackSession

CONSTANTS n1, n2, n3, p1, p2

ModesRestored == {<<"NONE", FALSE>>, <<"ALL", TRUE>>}

Symmetry == Permutations(Ids) \cup Permutations(Paths)

=============================================================================
