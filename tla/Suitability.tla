----------------------------- MODULE Suitability -----------------------------
(***************************************************************************)
(* How well a judgment fits a course, as it is computed twice: by the      *)
(* catalog search that proposes a case (app/catalog/provider.py), and by   *)
(* the workflow when its PDF is verified (ScoringPolicy.score).  Both rest *)
(* on assess_subject_relevance (app/ranking/relevance.py).                 *)
(*                                                                         *)
(* Of a text is kept how many concepts of the course profile are in it,    *)
(* which parts of a judgment, and its length.  Concepts only appear as a   *)
(* text gets longer: _concept_hit looks for tokens anywhere in it.         *)
(***************************************************************************)
EXTENDS Integers, FiniteSets

CONSTANTS
    Mode,           \* subject.relevance_mode: "direct" or "methodological"
    MaxHits,        \* bound of the model: hits of each kind
    Lengths         \* text lengths, around the thresholds

ASSUME SuitabilityAssumption ==
    Mode \subseteq {"direct", "methodological"} /\ MaxHits \in Nat /\ Lengths \subseteq Nat

VARIABLES
    mode,           \* relevance_mode of the course
    text            \* what the gate counts in the text

suitabilityVars == <<mode, text>>

Least(a, b) == IF a < b THEN a ELSE b
AtLeastZero(n) == IF n < 0 THEN 0 ELSE n

(* Facts, reasoning, disposition and identification of a judgment.         *)
Parts == {"facts", "reasoning", "disposition", "source"}

SuitabilityInit ==
    /\ mode \in Mode
    /\ text = [keywords |-> 0, priorities |-> 0, avoided |-> 0, parts |-> {}, length |-> 0]

(* A longer text: what was found is still found.                           *)
Extend ==
    /\ \E length \in Lengths, k \in {0, 1}, p \in {0, 1}, a \in {0, 1}, part \in SUBSET Parts :
          /\ length > text.length /\ Cardinality(part) <= 1
          /\ text.keywords + k <= MaxHits /\ text.priorities + p <= MaxHits
          /\ text.avoided + a <= MaxHits
          /\ text' = [keywords |-> text.keywords + k, priorities |-> text.priorities + p,
                      avoided |-> text.avoided + a, parts |-> text.parts \cup part,
                      length |-> length]
    /\ UNCHANGED mode

SuitabilitySpec == SuitabilityInit /\ [][Extend]_suitabilityVars

-----------------------------------------------------------------------------
(* _assess_direct                                                          *)
DirectScore(t) ==
    AtLeastZero(Least(40, 8 + t.keywords * 11 + t.priorities * 5) - t.avoided * 8)
DirectAccepted(t) ==
    (t.keywords >= 1 \/ t.priorities >= 2) /\ DirectScore(t) >= 18

(* _assess_methodological                                                  *)
MutLengthScore(n) == IF n >= 1200 THEN 6 ELSE IF n >= 2500 THEN 10 ELSE IF n >= 5000 THEN 13 ELSE 9
LengthScore(n) ==
    IF n >= 5000 THEN 13 ELSE IF n >= 2500 THEN 10 ELSE IF n >= 1200 THEN 6 ELSE 0
MethodScore(t) ==
    AtLeastZero(Least(40, 9 + Cardinality(t.parts) * 5 + LengthScore(t.length)) - t.avoided * 8)
MethodAccepted(t) ==
    Cardinality(t.parts) >= 3 /\ t.length >= 1200 /\ MethodScore(t) >= 24

Relevance(m, t) == IF m = "direct" THEN DirectScore(t) ELSE MethodScore(t)
Accepted(m, t) == IF m = "direct" THEN DirectAccepted(t) ELSE MethodAccepted(t)
MatchedTerms(m, t) ==
    IF m = "direct" THEN Least(8, t.keywords + t.priorities) ELSE Cardinality(t.parts)

-----------------------------------------------------------------------------
(* What the catalog writes into a candidate, from the relevance, the       *)
(* matched terms, the score of the retrieval and the length.               *)
Clarity(numbered) == IF numbered THEN 18 ELSE 14
Reasoning(length) == IF length >= 1800 THEN 13 ELSE 10
MutCommentary(matched, retrieval) == 9 + matched * 2 + retrieval \div 30
Commentary(matched, retrieval) == Least(15, 9 + matched * 2 + retrieval \div 30)
Estimate(relevance, matched, retrieval, length, numbered) ==
    Least(96, relevance + Clarity(numbered) + Reasoning(length) + Commentary(matched, retrieval) + 10)

(* ScoringPolicy.score with the weights of config/scoring.yaml.            *)
Component(value, maximum) == AtLeastZero(Least(maximum, value))
Total(relevance, clarity, reasoning, commentary, official) ==
    Least(100, Component(relevance, 40) + Component(clarity, 20) + Component(reasoning, 15)
                 + Component(commentary, 15) + (IF official THEN 10 ELSE 0))

-----------------------------------------------------------------------------
(* The order the catalog promises is the order the student gets: for the   *)
(* same text from an official PDF, the final score is the estimate,        *)
(* neither cut by a weight of its own nor by either limit of the sum.      *)
EstimateIsFinal ==
    \A retrieval \in {0, 29, 30, 400}, numbered \in BOOLEAN :
        LET relevance == Relevance(mode, text)
            matched == MatchedTerms(mode, text)
        IN  Total(relevance, Clarity(numbered), Reasoning(text.length),
                  Commentary(matched, retrieval), TRUE)
              = Estimate(relevance, matched, retrieval, text.length, numbered)

(* More of a judgment makes it fit worse only by the patterns to avoid     *)
(* that it brings, by no more than their penalty each: the workflow, which *)
(* reads more of the text than the catalog did, refuses a case the catalog *)
(* accepted only for such a pattern and a score that is too low with it -  *)
(* never for the length, a part it misses or a concept it no longer finds. *)
PassMark(m) == IF m = "direct" THEN 18 ELSE 24
MoreTextFitsBetter ==
    [][LET brought == text'.avoided - text.avoided IN
       /\ Relevance(mode, text') >= Relevance(mode, text) - 8 * brought
       /\ Accepted(mode, text) /\ ~Accepted(mode, text') =>
            brought > 0 /\ Relevance(mode, text') < PassMark(mode)]_suitabilityVars
===============================================================================
