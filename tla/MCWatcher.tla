----------------------------- MODULE MCWatcher ------------------------------
(***************************************************************************)
(* Watcher on small instances: two events of one feed or of two, linking   *)
(* to one page (a publication re-announced under a new guid).              *)
(***************************************************************************)
EXTENDS Watcher, TLC

CONSTANTS e1, e2, fca, pra, u1

OneFeed == e1 :> fca @@ e2 :> fca
TwoFeeds == e1 :> fca @@ e2 :> pra
OnePage == e1 :> u1 @@ e2 :> u1

\* Sound for the invariants with OneFeed and OnePage: nothing tells the pollers,
\* the events, the contents or the ids apart.
Symmetry ==
    Permutations(Poller) \cup Permutations(Event) \cup Permutations(Content)
        \cup Permutations(DocId)
=============================================================================
