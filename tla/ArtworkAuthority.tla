-------------------------- MODULE ArtworkAuthority --------------------------
(***************************************************************************)
(* What the refresh of album artwork promises, without generations,        *)
(* worker or message.  The Library changes; each change asks for the       *)
(* albums to be probed, and shows what the cache has meanwhile.  A request *)
(* is answered at most once, and before the next one.  The answer sees     *)
(* every file as it was at some time since the request: a picture is shown *)
(* when a member had it, and taken away only when every member is          *)
(* observable and had none ("negative evidence must be EXHAUSTIVE").       *)
(***************************************************************************)

CONSTANTS Tracks, Albums, Sources, Arts, None, SourceOf

(* What a probe finds at a track: a picture (embedded in the file or next  *)
(* to it), none, or nothing that can be trusted.                           *)
Observations == Arts \cup {"absent", "unreadable"}

Libraries == [album    : [Tracks -> Albums \cup {None}],  \* of a track in the Library
              missing  : SUBSET Tracks,                   \* media not AVAILABLE
              observed : SUBSET Sources]                  \* source positively AVAILABLE

Members(library, a) == {t \in Tracks : library.album[t] = a}

Current(library) == {a \in Albums : Members(library, a) # {}}

Observable(library, t) == SourceOf[t] \in library.observed /\ t \notin library.missing

(* _enrich_albums_cached_only: what is shown is what the cache has.        *)
Cached(library, manifest) ==
    [a \in Albums |-> IF a \in Current(library) THEN manifest[a] ELSE None]

Nothing == [t \in Tracks |-> {}]

VARIABLES
    library,
    art,       \* what is on disk at each track
    seen,      \* what was there since the last request, until it is answered
    manifest,  \* the cache: album -> picture or None
    shown,     \* album -> picture the Library shows, or None
    answered   \* the last request was answered

authorityVars == <<library, art, seen, manifest, shown, answered>>

Init ==
    /\ library \in Libraries
    /\ art \in [Tracks -> Observations]
    /\ seen = Nothing
    /\ manifest \in [Albums -> Arts \cup {None}]
    /\ shown = Cached(library, manifest)
    /\ answered = TRUE

FilesChange ==
    /\ art' \in [Tracks -> Observations]
    /\ seen' = IF answered THEN seen ELSE [t \in Tracks |-> seen[t] \cup {art'[t]}]
    /\ UNCHANGED <<library, manifest, shown, answered>>

Request ==
    /\ library' \in Libraries
    /\ answered' \in BOOLEAN
    /\ seen' = IF answered' THEN Nothing ELSE [t \in Tracks |-> {art[t]}]
    /\ shown' = Cached(library', manifest)
    /\ UNCHANGED <<art, manifest>>

GoesMissing ==
    /\ library' \in Libraries
    /\ library' = [library EXCEPT !.missing = library'.missing]
    /\ UNCHANGED <<art, seen, manifest, shown, answered>>

Justified(a, picture) ==
    \/ picture = manifest[a]
    \/ picture \in Arts /\ \E t \in Members(library, a) : picture \in seen[t]
    \/ /\ picture = None
       /\ \A t \in Members(library, a) : Observable(library, t) /\ "absent" \in seen[t]

Answer ==
    /\ ~answered
    /\ answered' = TRUE
    /\ manifest' \in [Albums -> Arts \cup {None}]
    /\ \A a \in Albums :
          IF a \in Current(library) THEN Justified(a, manifest'[a])
                                    ELSE manifest'[a] = manifest[a]
    /\ shown' = Cached(library, manifest')
    /\ seen' = Nothing
    /\ UNCHANGED <<library, art>>

Next == FilesChange \/ Request \/ GoesMissing \/ Answer

Spec == Init /\ [][Next]_authorityVars

=============================================================================
