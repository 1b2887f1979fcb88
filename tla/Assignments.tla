---------------------------- MODULE Assignments -----------------------------
(***************************************************************************)
(* Who must take which training module, and the records that prove it:     *)
(* assign_module and submit_training. Two assigns of one module may        *)
(* overlap, and a learner may submit twice.                                *)
(***************************************************************************)
EXTENDS Naturals, FiniteSets

CONSTANTS
    Module,      \* modules the tenant has saved
    User,        \* its staff
    Owner,       \* assign requests that may run side by side
    Id,          \* ids of assignments; a uuid4 is drawn once
    MaxRecords,  \* bound: records
    None

VARIABLES
    rows,     \* training_assignments
    records,  \* training_records, in the order of their commits
    txn       \* what an assign request has read

vars == <<rows, records, txn>>

Row == [id : Id, module : Module, user : User, status : {"assigned", "completed"}]
Record == [n : 1..MaxRecords, module : Module, user : User, assignment : Id \cup {None},
           verdict : {"passed", "failed", "none"}]
Txn == [module : Module, insert : SUBSET [id : Id, user : User]]

TypeOK ==
    /\ rows \subseteq Row
    /\ records \subseteq Record
    /\ txn \in [Owner -> Txn \cup {None}]

Init == rows = {} /\ records = {} /\ txn = [o \in Owner |-> None]
-----------------------------------------------------------------------------
Assigned(m) == {r.user : r \in {r \in rows : r.module = m}}
Drawn == {r.id : r \in rows}
         \cup UNION {{i.id : i \in txn[o].insert} : o \in {o \in Owner : txn[o] # None}}

\* The users that do not have the module yet get a row each.
AssignReads(o, m, users) ==
    /\ txn[o] = None
    /\ \E ids \in [users \ Assigned(m) -> Id \ Drawn] :
          /\ \A u, v \in DOMAIN ids : ids[u] = ids[v] => u = v
          /\ txn' = [txn EXCEPT ![o] = [module |-> m,
                        insert |-> {[id |-> ids[u], user |-> u] : u \in DOMAIN ids}]]
    /\ UNCHANGED <<rows, records>>

\* Fault: a module and a user may have several rows.
NotUnique(t) == TRUE
\* uq_training_assignment_module_user.
Unique(t) == \A i \in t.insert : i.user \notin Assigned(t.module)

AssignCommits(o) ==
    /\ txn[o] # None /\ Unique(txn[o])
    /\ rows' = rows \cup {[id |-> i.id, module |-> txn[o].module, user |-> i.user,
                           status |-> "assigned"] : i \in txn[o].insert}
    /\ txn' = [txn EXCEPT ![o] = None]
    /\ UNCHANGED records

\* One row too many, and the whole request fails; so it does with the database.
AssignFails(o) ==
    /\ txn[o] # None
    /\ txn' = [txn EXCEPT ![o] = None]
    /\ UNCHANGED <<rows, records>>

\* Fault: only a pass completes the assignment, and leaves a record.
SubmitPassed(u, m, a, verdict) ==
    /\ Cardinality(records) < MaxRecords
    /\ verdict = "passed"
       => records' = records \cup {[n |-> Cardinality(records) + 1, module |-> m, user |-> u,
                                    assignment |-> a, verdict |-> verdict]}
    /\ verdict # "passed" => UNCHANGED records
    /\ rows' = {IF r.id = a THEN [r EXCEPT !.status = "completed"] ELSE r : r \in rows}
    /\ UNCHANGED txn
\* The submission has been graded; whatever the verdict, one commit writes the record and
\* completes the assignment it names. Whose assignment it is, and of which module, is not
\* looked at; the foreign key refuses one that does not exist.
Submit(u, m, a, verdict) ==
    /\ Cardinality(records) < MaxRecords
    /\ records' = records \cup {[n |-> Cardinality(records) + 1, module |-> m, user |-> u,
                                 assignment |-> a, verdict |-> verdict]}
    /\ rows' = {IF r.id = a THEN [r EXCEPT !.status = "completed"] ELSE r : r \in rows}
    /\ UNCHANGED txn

Next ==
    \/ \E o \in Owner, m \in Module, users \in (SUBSET User) \ {{}} : AssignReads(o, m, users)
    \/ \E o \in Owner : AssignCommits(o) \/ AssignFails(o)
    \/ \E u \in User, m \in Module, a \in {r.id : r \in rows} \cup {None},
          verdict \in {"passed", "failed", "none"} : Submit(u, m, a, verdict)

Spec == Init /\ [][Next]_vars
-----------------------------------------------------------------------------
\* However assigns overlap and fail and however often a learner submits, a user has a
\* module at most once, and an assignment is completed exactly when there is a record that
\* names it: the proof a regulator asks for (training.py:294-344, 443-459,
\* db/models.py:741-807).
CompletionsAreProven ==
    /\ \A r, s \in rows : r.module = s.module /\ r.user = s.user => r = s
    /\ \A r \in rows :
          (r.status = "completed") = (\E p \in records : p.assignment = r.id)
    /\ \A p \in records : p.assignment # None => \E r \in rows : r.id = p.assignment
=============================================================================
