----------------------------- MODULE AuditTrail -----------------------------
(***************************************************************************)
(* The audit log: which requests leave a row, and how an owner pages       *)
(* through the rows. A row is written by the route (record_action), by     *)
(* AuditMiddleware after the response, by both or by neither; each write   *)
(* is a transaction of its own, stamped when it begins, and a failure is   *)
(* swallowed. Stamps are the ticks of a clock and are never equal.         *)
(***************************************************************************)
EXTENDS Naturals, FiniteSets

CONSTANTS
    Request,  \* requests that may run side by side
    Limit,    \* rows of a page
    MaxClock, \* bound: rows stamped
    None

VARIABLES
    clock,    \* stamps given
    requests, \* what is left of each request: the rows still to be written
    rows,     \* audit_log
    since,    \* stamps up to here are older than the days asked for
    paging,   \* where the page the owner looks at is
    crossed   \* a row was committed between the count and the page

vars == <<clock, requests, rows, since, paging, crossed>>

\* What the path and its handler make of a request. An ask is in _RICH_AUDITED_PATHS; a
\* change of a document is told by its route and, having the prefix, by the middleware; a
\* fetch only by the middleware. A signed link is 70 characters of an action that holds
\* 64, and a file behind one comes without a principal.
Kind == {"ask", "change", "fetch", "link", "file", "other"}
RichlyTold == {"ask", "change"}
Prefixed == {"ask", "change", "fetch", "link", "file"}
RichPath == {"ask"}
HasPrincipal == Kind \ {"file"}
Fits == Kind \ {"link"}

Stamp == 1..MaxClock
Write == [by : {"route", "middleware"}, kind : Kind, at : Stamp]
Telling == [kind : Kind, left : SUBSET {"route", "middleware"}, open : Write \cup {None}]
Page == [step : {"count", "page", "shown"}, offset : Nat, total : Nat,
         start : SUBSET Stamp, seen : SUBSET Stamp]

TypeOK ==
    /\ clock \in 0..MaxClock
    /\ requests \in [Request -> Telling \cup {None}]
    /\ rows \subseteq [by : {"route", "middleware"}, kind : Kind, at : Stamp, of : Request]
    /\ since \in 0..MaxClock
    /\ paging \in Page \cup {None}
    /\ crossed \in BOOLEAN

Init == clock = 0 /\ requests = [r \in Request |-> None] /\ rows = {} /\ since = 0
        /\ paging = None /\ crossed = FALSE
-----------------------------------------------------------------------------
(* ---- Rows ------------------------------------------------------------------ *)

\* Fault: what a route tells in detail is told by the middleware too.
ShouldAuditPrefix(k) == k \in Prefixed
\* _should_audit.
ShouldAudit(k) == k \in Prefixed /\ k \notin RichPath

\* The response is computed: what is left is the telling. A handler that fails tells
\* nothing itself.
Serve(r, k, succeeds) ==
    /\ requests[r] = None
    /\ requests' = [requests EXCEPT ![r] =
          [kind |-> k, open |-> None,
           left |-> {w \in {"route"} : k \in RichlyTold /\ succeeds}
                    \cup {w \in {"middleware"} : ShouldAudit(k) /\ k \in HasPrincipal}]]
    /\ UNCHANGED <<clock, rows, since, paging, crossed>>

\* The insert opens its transaction, and created_at is the time of that; the route comes
\* before the middleware.
Tell(r, by) ==
    /\ requests[r] # None /\ requests[r].open = None
    /\ by \in requests[r].left /\ (by = "middleware" => "route" \notin requests[r].left)
    /\ clock < MaxClock
    /\ clock' = clock + 1
    /\ requests' = [requests EXCEPT ![r].left = @ \ {by},
                       ![r].open = [by |-> by, kind |-> requests[r].kind, at |-> clock + 1]]
    /\ UNCHANGED <<rows, since, paging, crossed>>

Told(r) ==
    /\ requests[r] # None /\ requests[r].open # None
    /\ requests' = [requests EXCEPT ![r].open = None]

Commit(r) ==
    /\ Told(r) /\ requests[r].open.kind \in Fits
    /\ LET w == requests[r].open IN
       rows' = rows \cup {[by |-> w.by, kind |-> w.kind, at |-> w.at, of |-> r]}
    /\ crossed' = (crossed \/ (paging # None /\ paging.step = "page"))
    /\ UNCHANGED <<clock, since, paging>>

Lose(r) == Told(r) /\ UNCHANGED <<clock, rows, since, paging, crossed>>

(* ---- Pages ----------------------------------------------------------------- *)

Listed == {w.at : w \in {w \in rows : w.at > since}}

\* The days asked for are counted back from now, by every request for a page again.
DayPasses ==
    /\ since < clock /\ (paging # None => paging.step = "shown")
    /\ since' = since + 1
    /\ UNCHANGED <<clock, requests, rows, paging, crossed>>

\* The owner opens the first page, or the next one while the total says there is one.
Turn ==
    /\ \/ /\ paging = None
          /\ paging' = [step |-> "count", offset |-> 0, total |-> 0,
                        start |-> Listed, seen |-> {}]
       \/ /\ paging # None /\ paging.step = "shown"
          /\ paging.offset + Limit < paging.total
          /\ paging' = [paging EXCEPT !.step = "count", !.offset = @ + Limit]
    /\ UNCHANGED <<clock, requests, rows, since, crossed>>

\* list_audit counts, and then selects the page: two statements.
Count ==
    /\ paging # None /\ paging.step = "count"
    /\ paging' = [paging EXCEPT !.step = "page", !.total = Cardinality(Listed)]
    /\ UNCHANGED <<clock, requests, rows, since, crossed>>

\* Fault: the oldest first.
RankUp(s) == Cardinality({t \in Listed : t < s})
\* The newest first: the rows before one in the list.
Rank(s) == Cardinality({t \in Listed : t > s})

ShowPage ==
    /\ paging # None /\ paging.step = "page"
    /\ paging' = [paging EXCEPT !.step = "shown", !.seen = @ \cup
          {s \in Listed : Rank(s) >= paging.offset /\ Rank(s) < paging.offset + Limit}]
    /\ UNCHANGED <<clock, requests, rows, since, crossed>>

Next ==
    \/ \E r \in Request, k \in Kind, succeeds \in BOOLEAN : Serve(r, k, succeeds)
    \/ \E r \in Request, by \in {"route", "middleware"} : Tell(r, by)
    \/ \E r \in Request : Commit(r) \/ Lose(r)
    \/ DayPasses \/ Turn \/ Count \/ ShowPage

Spec == Init /\ [][Next]_vars
-----------------------------------------------------------------------------
AtTheEnd == paging # None /\ paging.step = "shown" /\ paging.offset + Limit >= paging.total

\* An owner who pages to the end has seen every row there was at the beginning that is
\* not older than the days asked for: rows that arrive meanwhile, late ones too, and rows
\* that grow too old push none across a page break, unless one arrived between a count
\* and its page. What a route tells in detail the middleware does not tell again
\* (routes/audit.py:86-112, middleware/audit.py:26-99).
PagesMissNothing ==
    /\ AtTheEnd /\ ~crossed =>
          \A s \in paging.start : s > since => s \in paging.seen
    /\ \A v, w \in rows : v.of = w.of /\ v.kind = "ask" => v = w
=============================================================================
