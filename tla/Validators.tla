----------------------------- MODULE Validators -----------------------------
(***************************************************************************)
(* The two validators: RulePackValidator scores a document against the     *)
(* requirements of a pack, ValidatorPipeline the claims of a report        *)
(* against the corpus. Both go through a list, one retrieval and one call  *)
(* of the model for each entry, and sum the verdicts up to a light.        *)
(*                                                                         *)
(* A pack is the severities of its requirements. The verdicts are counted  *)
(* as they come, the red ones of a duty once more; who gave them is kept   *)
(* apart: the model, or the validator itself when the call failed or the   *)
(* reply could not be read.                                                *)
(***************************************************************************)
EXTENDS Naturals, Sequences

CONSTANTS
    MaxClaims,  \* bound: claims of a report, max_items
    None

VARIABLES
    job,       \* the pack, or the number of claims
    done,      \* entries gone through
    counts,    \* verdicts so far, by who gave them
    mustReds,  \* the red ones of requirements of severity must
    report     \* the light and the score of the finished job

vars == <<job, done, counts, mustReds, report>>

Musts(n) == [i \in 1..n |-> "must"]

FcaConsumerDuty == Musts(7)
HmrcAml == Musts(8)
UkGdpr == Musts(8)
UkDebtCollectionsLetter == Musts(9) \o <<"should", "must", "should">>
Packs == {FcaConsumerDuty, HmrcAml, UkGdpr, UkDebtCollectionsLetter}

Light == {"green", "amber", "red"}
\* supported, contradicted and unsupported are the green, red and amber of a claim.
Verdict == Light \cup {"n/a"}
Scorer == {"model", "validator"}
Job == [list : Packs \cup {Musts(0)}, claims : 0..MaxClaims]
Result == [light : Light, score : 0..1000]

TypeOK ==
    /\ job \in Job \cup {None}
    /\ done \in Nat
    /\ counts \in [Scorer -> [Verdict -> Nat]]
    /\ mustReds \in Nat
    /\ report \in Result \cup {None}

Zero == [by \in Scorer |-> [verdict \in Verdict |-> 0]]
Init == job = None /\ done = 0 /\ counts = Zero /\ mustReds = 0 /\ report = None
-----------------------------------------------------------------------------
Of(verdict) == counts["model"][verdict] + counts["validator"][verdict]
Entries == IF job.list = <<>> THEN job.claims ELSE Len(job.list)
Severity(i) == IF job.list = <<>> THEN "claim" ELSE job.list[i]

\* run_validation, of a pack it has.
Run(pack) ==
    /\ job = None
    /\ job' = [list |-> pack, claims |-> 0]
    /\ UNCHANGED <<done, counts, mustReds, report>>

\* validate_report extracts the claims; a reply that is no array is no claims.
ExtractClaims(n) ==
    /\ job = None
    /\ job' = [list |-> <<>>, claims |-> n]
    /\ UNCHANGED <<done, counts, mustReds, report>>

\* Fault: what was not scored does not apply.
NotScoredApplies == "n/a"
\* A failed call, a reply that is no JSON or an unknown verdict counts as amber, and as
\* unsupported for a claim.
NotScored == "amber"

Count(verdict, by) ==
    /\ job # None /\ done < Entries /\ report = None
    /\ (Severity(done + 1) = "claim" => verdict # "n/a")
    /\ counts' = [counts EXCEPT ![by][verdict] = @ + 1]
    /\ mustReds' = IF verdict = "red" /\ Severity(done + 1) = "must" THEN mustReds + 1
                   ELSE mustReds
    /\ done' = done + 1
    /\ UNCHANGED <<job, report>>

Adjudicate(verdict) == Count(verdict, "model")
NotAdjudicated == Count(NotScored, "validator")

\* What is not caught ends the whole run: a claim whose call or retrieval fails, and of a
\* pack, a reply that is JSON but no object, or whose excerpts are no list.
Aborts ==
    /\ job # None /\ done < Entries
    /\ job' = None /\ done' = 0 /\ counts' = Zero /\ mustReds' = 0
    /\ UNCHANGED report

Applicable == Of("green") + Of("amber") + Of("red")

\* green / applicable against 0.7 and 0.4, and 0 when nothing applies.
PackLight ==
    IF mustReds > 0 THEN "red"
    ELSE IF Applicable > 0 /\ 10 * Of("green") >= 7 * Applicable THEN "green"
    ELSE IF Applicable > 0 /\ 10 * Of("green") >= 4 * Applicable THEN "amber"
    ELSE "red"

\* _traffic_light, of max(claims, 1).
ClaimsLight ==
    IF Of("red") > 0 THEN "red"
    ELSE IF Entries > 0 /\ 10 * Of("green") >= 7 * Entries THEN "green" ELSE "amber"

\* round(score, 3), in thousandths; claims get no score.
Score ==
    IF job.list = <<>> \/ Applicable = 0 THEN 0
    ELSE (2000 * Of("green") + Applicable) \div (2 * Applicable)

Report ==
    /\ job # None /\ done = Entries /\ report = None
    /\ report' = [light |-> IF job.list = <<>> THEN ClaimsLight ELSE PackLight,
                  score |-> Score]
    /\ UNCHANGED <<job, done, counts, mustReds>>

Next ==
    \/ \E pack \in Packs : Run(pack)
    \/ \E n \in 0..MaxClaims : ExtractClaims(n)
    \/ \E verdict \in Verdict : Adjudicate(verdict)
    \/ NotAdjudicated \/ Aborts \/ Report

Spec == Init /\ [][Next]_vars
-----------------------------------------------------------------------------
ByModel(verdict) == counts["model"][verdict]

\* A green light was earned, whatever calls failed on the way: the model itself found at
\* least seven tenths of all it did not declare inapplicable in order, that was something,
\* and no duty and no claim to be contradicted. A failure never helps a document
\* (rule_pack_validator.py:128-159, 228-272, pipeline.py:92-109, 210-266).
GreenIsEarned ==
    report # None /\ report.light = "green" =>
        /\ 10 * ByModel("green") >= 7 * (Entries - ByModel("n/a")) /\ ByModel("green") > 0
        /\ mustReds = 0
        /\ job.list = <<>> => ByModel("red") = 0
=============================================================================
