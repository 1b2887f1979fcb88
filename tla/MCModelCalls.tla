---------------------------- MODULE MCModelCalls ----------------------------
(***************************************************************************)
(* The two places that come back to the model until they are done: the     *)
(* agent's loop, under the quota, and the queue of summaries, which the    *)
(* sweep fills again. They share nothing here, so that a behaviour is one  *)
(* of either, the side.                                                    *)
(***************************************************************************)
EXTENDS MCGateway

CONSTANTS Doc, PipelineRun, Worker, Batch, MaxText

VARIABLES side, auto, text, summary, queue, work, run, excused

Sums == INSTANCE Summaries

sumVars == <<auto, text, summary, queue, work, run, excused>>

MCInit ==
    /\ Init /\ Sums!Init
    /\ side \in {"gateway", "summaries"} /\ (side = "gateway" => ~auto)

MCNext ==
    /\ UNCHANGED side
    /\ \/ side = "gateway" /\ Next /\ UNCHANGED sumVars
       \/ side = "summaries" /\ Sums!Next /\ UNCHANGED vars

\* The side that stands still is fair as it is: an idle caller has nothing to proceed with,
\* no ingest and no task is under way, and the sweep is off.
MCSpec ==
    /\ MCInit
    /\ [][MCNext]_<<side, vars, sumVars>>
    /\ Fairness /\ Sums!Fairness

\* The property of Summaries, of its behaviours: see there.
BacklogDrains == Sums!BacklogDrains
=============================================================================
