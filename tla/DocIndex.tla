------------------------------ MODULE DocIndex ------------------------------
(***************************************************************************)
(* What the document index of one tenant promises to a reader (a search, a *)
(* citation, the documents list), whatever ingests, failures and deletes   *)
(* are under way: each source URI is either absent or one entry, an entry  *)
(* keeps its id for as long as it exists, and the text found under it is   *)
(* nothing at all or one complete version: never a mixture.                *)
(*                                                                         *)
(* The promise is weaker than "the last ingested version": an update that  *)
(* fails half way leaves the entry with no text (Blank).                   *)
(***************************************************************************)
CONSTANTS
    Uri,       \* source URIs of the tenant
    Content,   \* distinct document contents
    DocId,     \* document ids
    NoText,    \* contents that parse to no text at all (a scanned PDF)
    None       \* "no such entry"

VARIABLE index

Entry == [id : DocId, hash : Content, text : SUBSET Content, active : BOOLEAN]

\* The text chunks a content yields, as the set of contents they come from.
TextOf(c) == {c} \ NoText

TypeOK == index \in [Uri -> Entry \cup {None}]

Init == index = [u \in Uri |-> None]

\* A new entry appears under an id no other entry has, complete.
Create(u, c) ==
    /\ index[u] = None
    /\ \E d \in DocId, a \in BOOLEAN :
        /\ \A v \in Uri : index[v] # None => index[v].id # d
        /\ index' = [index EXCEPT ![u] =
                       [id |-> d, hash |-> c, text |-> TextOf(c), active |-> a]]

\* The text of an entry disappears; the entry stays.
Blank(u) ==
    /\ index[u] # None
    /\ index' = [index EXCEPT ![u].text = {}]

\* A blanked entry gets its new version, all of it at once, under the same
\* id. An entry that was marked superseded stays marked.
Replace(u, c) ==
    /\ index[u] # None
    /\ index[u].text = {}
    /\ \E a \in BOOLEAN :
        /\ a => index[u].active
        /\ index' = [index EXCEPT ![u] =
                       [id |-> @.id, hash |-> c, text |-> TextOf(c), active |-> a]]

\* The entry and its text disappear together.
Remove(u) ==
    /\ index[u] # None
    /\ index' = [index EXCEPT ![u] = None]

Next ==
    \E u \in Uri :
        \/ \E c \in Content : Create(u, c) \/ Replace(u, c)
        \/ Blank(u)
        \/ Remove(u)

Spec == Init /\ [][Next]_index
=============================================================================
