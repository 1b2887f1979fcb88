------------------------------ MODULE Sources -------------------------------
(***************************************************************************)
(* The requests that create a data source with its indexer. Each reads     *)
(* what it needs (the source of the preset, the default skillset, the      *)
(* default index profile) and inserts what it did not find; no constraint  *)
(* of the database keeps two requests from doing so side by side.          *)
(*                                                                         *)
(* The default skillset and the default index profile are looked up and    *)
(* made in the same way, one after the other: one count stands for both.   *)
(***************************************************************************)
EXTENDS Naturals

CONSTANTS
    Source,   \* ids of sources; a uuid4 is drawn once
    Preset,   \* keys of the shipped presets
    Owner     \* requests that may run side by side

VARIABLES
    sources,   \* the kind of each source that exists, with its indexer
    drawn,     \* ids given out so far
    profiles,  \* default profiles of the tenant
    asks,      \* what a request has read and will insert, as a set of at most one
    crossed    \* a request began while another one was open

vars == <<sources, drawn, profiles, asks, crossed>>

\* A source is a clone of a preset or a folder.
Folder == {}
Kind == {Folder} \cup {{k} : k \in Preset}
Ask == [id : Source, kind : Kind, fresh : BOOLEAN]

\* An open request has its id to itself, and the id is not in use.
Pending == UNION {asks[o] : o \in Owner}

TypeOK ==
    /\ drawn \subseteq Source
    /\ DOMAIN sources \subseteq drawn
    /\ sources \in [DOMAIN sources -> Kind]
    /\ profiles \in Nat
    /\ asks \in [Owner -> SUBSET Ask]
    /\ crossed \in BOOLEAN
    /\ \A a \in Pending : a.id \in drawn /\ a.id \notin DOMAIN sources
    /\ \A o \in Owner : \A a, b \in asks[o] : a = b

Init ==
    /\ sources = [s \in {} |-> Folder]
    /\ drawn = {}
    /\ profiles = 0
    /\ asks = [o \in Owner |-> {}]
    /\ crossed = FALSE
-----------------------------------------------------------------------------
SourcesOf(k) == {s \in DOMAIN sources : sources[s] = k}

\* Fault: each click makes a source.
NotLookedUp(k) == TRUE
\* enable_preset returns the indexer it finds, and scalar_one_or_none raises on two.
NotEnabled(k) == SourcesOf(k) = {}

\* The reads of a request; scalar_one_or_none raises on two default profiles.
Read(o, s, k) ==
    /\ asks[o] = {}
    /\ s \notin drawn
    /\ k # Folder => NotEnabled(k)
    /\ profiles < 2
    /\ drawn' = drawn \cup {s}
    /\ asks' = [asks EXCEPT ![o] = {[id |-> s, kind |-> k, fresh |-> profiles = 0]}]
    /\ crossed' = (crossed \/ Pending # {})
    /\ UNCHANGED <<sources, profiles>>

\* Fault: the request can be sent again.
InsertKept(o) ==
    \E a \in asks[o] :
        /\ sources' = [s \in DOMAIN sources \cup {a.id} |->
                         IF s = a.id THEN a.kind ELSE sources[s]]
        /\ profiles' = IF a.fresh THEN profiles + 1 ELSE profiles
        /\ UNCHANGED <<drawn, asks, crossed>>
\* Its inserts, in one commit.
Insert(o) ==
    \E a \in asks[o] :
        /\ sources' = [s \in DOMAIN sources \cup {a.id} |->
                         IF s = a.id THEN a.kind ELSE sources[s]]
        /\ profiles' = IF a.fresh THEN profiles + 1 ELSE profiles
        /\ asks' = [asks EXCEPT ![o] = {}]
        /\ UNCHANGED <<drawn, crossed>>

\* The request fails, or its client goes away.
Abort(o) ==
    /\ asks[o] # {}
    /\ asks' = [asks EXCEPT ![o] = {}]
    /\ UNCHANGED <<sources, drawn, profiles, crossed>>

\* delete_indexer: the source goes with the indexer, the profiles stay.
Delete(s) ==
    /\ s \in DOMAIN sources
    /\ sources' = [t \in DOMAIN sources \ {s} |-> sources[t]]
    /\ UNCHANGED <<drawn, profiles, asks, crossed>>

Next ==
    \/ \E o \in Owner, s \in Source, k \in Kind : Read(o, s, k)
    \/ \E o \in Owner : Insert(o) \/ Abort(o)
    \/ \E s \in Source : Delete(s)

Spec == Init /\ [][Next]_vars
-----------------------------------------------------------------------------
\* As long as no two requests overlap, a preset has at most one source and the tenant
\* one default profile: the scalar_one_or_none of every later request has one row to
\* return (routes/ingestion.py:42-76, 152-168).
FoundOnce ==
    ~crossed =>
        /\ profiles <= 1
        /\ \A k \in Kind \ {Folder} : \A s, t \in SourcesOf(k) : s = t
=============================================================================
