------------------------------ MODULE Prompts -------------------------------
(***************************************************************************)
(* The versions of one prompt: PromptRegistry.save_version and activate,   *)
(* and the two readers, get for the calls and list_all for the page.       *)
(*                                                                         *)
(* A version is its number: rows are never deleted, so the rows are        *)
(* 1..saved, created in that order. An UPDATE without a version number     *)
(* works on the rows committed when it began, and waits for the row locks  *)
(* of the requests it meets; a save that finds its number taken is rolled  *)
(* back by the unique constraint.                                          *)
(***************************************************************************)
EXTENDS Naturals, FiniteSets

CONSTANTS
    Owner,       \* requests that may run side by side
    MaxVersions, \* bound: versions saved
    None

VARIABLES
    saved,   \* rows of the prompt
    active,  \* those with is_active
    txn,     \* the open request of each owner
    choice,  \* the version chosen by the last commit that chose one, 0 for the default
    crossed  \* a row was activated behind an UPDATE that had begun without it

vars == <<saved, active, txn, choice, crossed>>

Version == 1..MaxVersions
Txn == [kind : {"save", "activate"}, version : Version, activates : BOOLEAN,
        step : {"read", "updating", "updated"}, rows : SUBSET Version]

TypeOK ==
    /\ saved \in 0..MaxVersions
    /\ active \subseteq 1..saved
    /\ txn \in [Owner -> Txn \cup {None}]
    /\ choice \in 0..saved
    /\ crossed \in BOOLEAN

Init == saved = 0 /\ active = {} /\ txn = [o \in Owner |-> None] /\ choice = 0
        /\ crossed = FALSE
-----------------------------------------------------------------------------
Open == {o \in Owner : txn[o] # None}
Close(o) == txn' = [txn EXCEPT ![o] = None]
Begin(o, kind, v, activates) ==
    /\ o \notin Open
    /\ txn' = [txn EXCEPT ![o] = [kind |-> kind, version |-> v, activates |-> activates,
                                  step |-> "read", rows |-> {}]]
    /\ UNCHANGED <<saved, active, choice, crossed>>

\* It counts the rows it finds, to number its own.
SaveReads(o, activates) ==
    saved < MaxVersions /\ Begin(o, "save", saved + 1, activates)

\* Without the version it answers 404.
ActivateReads(o, v) == v \in 1..saved /\ Begin(o, "activate", v, TRUE)

UpdateBegins(o) ==
    /\ o \in Open /\ txn[o].step = "read" /\ txn[o].activates
    /\ txn' = [txn EXCEPT ![o].step = "updating", ![o].rows = 1..saved]
    /\ UNCHANGED <<saved, active, choice, crossed>>

LockedByOthers(o) ==
    UNION {txn[b].rows : b \in {b \in Open \ {o} : txn[b].step = "updated"}}

UpdateEnds(o) ==
    /\ o \in Open /\ txn[o].step = "updating"
    /\ txn[o].rows \cap LockedByOthers(o) = {}
    /\ txn' = [txn EXCEPT ![o].step = "updated"]
    /\ UNCHANGED <<saved, active, choice, crossed>>

Ready(o) == o \in Open /\ (txn[o].activates => txn[o].step = "updated")

\* Fault: the version chosen is added to those that are active.
ChosenBeside(o) ==
    IF txn[o].activates
    THEN /\ active' = active \cup {txn[o].version}
         /\ choice' = txn[o].version
    ELSE UNCHANGED <<active, choice>>
\* The rows of the first UPDATE off, the version chosen on.
Chosen(o) ==
    IF txn[o].activates
    THEN /\ active' = (active \ txn[o].rows) \cup {txn[o].version}
         /\ choice' = txn[o].version
    ELSE UNCHANGED <<active, choice>>

\* An activation that waits does not see the row that is chosen now.
Behind(o) ==
    \E b \in Open \ {o} :
        /\ txn[b].kind = "activate" /\ txn[b].step = "updating"
        /\ txn[o].activates /\ txn[o].version \notin txn[b].rows

Save(o) ==
    /\ Ready(o) /\ txn[o].kind = "save" /\ txn[o].version = saved + 1
    /\ saved' = saved + 1
    /\ Chosen(o)
    /\ crossed' = (crossed \/ Behind(o))
    /\ Close(o)

Activate(o) ==
    /\ Ready(o) /\ txn[o].kind = "activate"
    /\ Chosen(o)
    /\ crossed' = (crossed \/ Behind(o))
    /\ Close(o)
    /\ UNCHANGED saved

\* The number is taken, the database fails, or the client goes away.
Fail(o) == o \in Open /\ Close(o) /\ UNCHANGED <<saved, active, choice, crossed>>

Next ==
    \E o \in Owner :
        \/ \E activates \in BOOLEAN : SaveReads(o, activates)
        \/ \E v \in Version : ActivateReads(o, v)
        \/ UpdateBegins(o) \/ UpdateEnds(o)
        \/ Save(o) \/ Activate(o) \/ Fail(o)

Spec == Init /\ [][Next]_vars
-----------------------------------------------------------------------------
\* get takes the newest active row, list_all the first in order of creation; the code's
\* own text stands in for none.
Served == IF active = {} THEN 0 ELSE CHOOSE v \in active : \A w \in active : w <= v
Shown == IF active = {} THEN 0 ELSE CHOOSE v \in active : \A w \in active : v <= w

\* The version the calls are answered with and the version the owner is shown as active
\* are the one that was chosen last, however requests overlap and fail, unless a row was
\* saved and made active while an activation that began without it was waiting
\* (prompts.py:100-111, 152-188, 190-246).
LastChoiceServes == ~crossed => Served = choice /\ Shown = choice
=============================================================================
