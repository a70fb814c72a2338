------------------------------- MODULE MCSearch -------------------------------
(* The two halves of a search that must come to an end, which share no     *)
(* variable: where candidates come from (Research), and what becomes of    *)
(* each (CandidateVerification).  'half' is the one that runs.             *)
EXTENDS MCCandidateVerification, Research

CONSTANTS a, b, c, d

VARIABLE half

(* Two searches over four cases, with lists on both sides of every limit.  *)
(* A compilation may hold two parts of one case, so the catalog may name   *)
(* it twice; the web may name what the catalog has, and more than the      *)
(* limit allows.                                                           *)
Lists == {<<>>, <<a, a>>, <<a, b, a, c>>}
Finds == {<<b>>, <<b, a, c, d>>}

SearchInit == half \in {"research", "verification"} /\ ResearchInit /\ Init

ResearchRuns == half = "research" /\ ResearchNext /\ UNCHANGED <<half, vars>>
Verification(step) == half = "verification" /\ step /\ UNCHANGED <<half, researchVars>>
SearchNext ==
    \/ ResearchRuns
    \/ \E candidate \in Candidate, url \in Url : Verification(Begin(candidate, url))
    \/ Verification(Proceed)

(* What has not begun owes no step, so the fairness of the one asks        *)
(* nothing of the other.                                                   *)
SearchSpec ==
    /\ SearchInit /\ [][SearchNext]_<<half, vars, researchVars>>
    /\ ResearchFairness /\ Fairness
===============================================================================
