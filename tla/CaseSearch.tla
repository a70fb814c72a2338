------------------------------ MODULE CaseSearch ------------------------------
(***************************************************************************)
(* The loop of CaseWorkflowService.prepare (app/services/case_workflow.py) *)
(* over rounds of research and the candidates of a round, up to the        *)
(* ranking and the decision of app/ranking/selection.py.                   *)
(*                                                                         *)
(* A round brings any list of candidates, or an exception.  A candidate    *)
(* has an identity it claims and what its verified PDF turns out to be: a  *)
(* digest, and the number and court of the case, if both are known.  What  *)
(* a candidate goes through is in CandidateVerification, what becomes of   *)
(* the decision in CaseWorkflow.                                           *)
(***************************************************************************)
EXTENDS Integers, FiniteSets, SequencesExt

CONSTANTS
    Proposal,       \* what a provider may propose: [identity, sha, key, score]
    NoKey,          \* the key of a case without number or without court
    Rounds,         \* max(1, settings.search_retry_rounds)
    PerRound,       \* settings.search_candidate_limit
    Display,        \* settings.candidate_display_count
    AutoScore,      \* settings.auto_accept_score
    Margin          \* min_auto_accept_margin of config/scoring.yaml

ASSUME CaseSearchAssumption ==
    /\ \A p \in Proposal : p.score \in Nat
    /\ {Rounds, PerRound, Display} \subseteq Nat \ {0}
    /\ {AutoScore, Margin} \subseteq Nat

VARIABLES
    round,      \* rounds begun
    queue,      \* candidates of the round still to be verified
    seen,       \* seen_identity
    verified,   \* the prepared cases, in the order they were verified
    lapsed,     \* how many of them were reserved longer ago than ttl_minutes
    outcome     \* "searching", "failed" or the decision

caseVars == <<round, queue, seen, verified, lapsed, outcome>>

Searching == [mode |-> "searching", cases |-> <<>>]

CaseInit ==
    /\ round = 0 /\ queue = <<>> /\ seen = {} /\ verified = <<>> /\ lapsed = 0
    /\ outcome = Searching

(* verified.sort(key=final_score, reverse=True), stable: behind those with *)
(* a better score, and those of the same score that were before it.        *)
InFront(cases, i) ==
    {j \in DOMAIN cases :
        \/ cases[j].score > cases[i].score
        \/ cases[j].score = cases[i].score /\ j < i}
MutRanked(cases) == cases
Ranked(cases) ==
    [n \in DOMAIN cases |->
        cases[CHOOSE i \in DOMAIN cases : Cardinality(InFront(cases, i)) = n - 1]]

(* select_candidates with require_margin, as configured.                   *)
Clear(ranked) == Len(ranked) > 1 => ranked[1].score - ranked[2].score >= Margin
MutSelect(ranked) ==
    IF ranked[1].score >= AutoScore
    THEN [mode |-> "auto", cases |-> SubSeq(ranked, 1, 1)]
    ELSE [mode |-> "manual", cases |-> SubSeq(ranked, 1, IF Display < Len(ranked) THEN Display ELSE Len(ranked))]
Select(ranked) ==
    IF ranked[1].score >= AutoScore /\ Clear(ranked)
    THEN [mode |-> "auto", cases |-> SubSeq(ranked, 1, 1)]
    ELSE [mode |-> "manual",
          cases |-> SubSeq(ranked, 1, IF Display < Len(ranked) THEN Display ELSE Len(ranked))]

Decide ==
    outcome' = IF verified = <<>>
               THEN [mode |-> "failed", cases |-> <<>>]
               ELSE Select(Ranked(verified))

(* The rounds go on until enough cases are verified; an empty one counts,  *)
(* and is not asked for that number.                                       *)
Continues == round < Rounds /\ (round > 0 => Len(verified) < Display)

StartRound ==
    /\ outcome = Searching /\ queue = <<>> /\ Continues
    /\ round' = round + 1
    /\ \E n \in 0..PerRound : queue' \in [1..n -> Proposal]
    /\ UNCHANGED <<seen, verified, lapsed, outcome>>

(* The provider raised: what earlier rounds brought is used.               *)
MutRoundFails ==
    /\ outcome = Searching /\ queue = <<>> /\ Continues
    /\ round' = round + 1
    /\ outcome' = [mode |-> "failed", cases |-> <<>>]
    /\ UNCHANGED <<queue, seen, verified, lapsed>>
RoundFails ==
    /\ outcome = Searching /\ queue = <<>> /\ Continues
    /\ round' = round + 1
    /\ Decide
    /\ UNCHANGED <<queue, seen, verified, lapsed>>

(* The unique indexes of case_reservations: the digest, or number and      *)
(* court where both are known.                                             *)
Collide(p, q) ==
    \/ p.sha = q.sha
    \/ p.key = q.key /\ p.key # NoKey

(* reserve_case deletes the rows that are too old, then the indexes refuse *)
(* a case that collides with one of those left.                            *)
MutHeld(candidate) == \E i \in (lapsed + 1)..Len(verified) : verified[i].sha = candidate.sha
Held(candidate) == \E i \in (lapsed + 1)..Len(verified) : Collide(verified[i], candidate)

(* A reservation gets too old while the search goes on, the oldest first.  *)
ReservationLapses ==
    /\ outcome = Searching /\ lapsed < Len(verified)
    /\ lapsed' = lapsed + 1
    /\ UNCHANGED <<round, queue, seen, verified, outcome>>

(* Given up for any reason, or verified and reserved.                      *)
NextCandidate ==
    /\ outcome = Searching /\ queue # <<>>
    /\ queue' = Tail(queue)
    /\ seen' = seen \cup {Head(queue).identity}
    /\ \/ /\ Head(queue).identity \notin seen
          /\ ~Held(Head(queue))
          /\ verified' = Append(verified, Head(queue))
       \/ UNCHANGED verified
    /\ UNCHANGED <<round, lapsed, outcome>>

Ends ==
    /\ outcome = Searching /\ queue = <<>> /\ ~Continues
    /\ Decide
    /\ UNCHANGED <<round, queue, seen, verified, lapsed>>

CaseNext == StartRound \/ RoundFails \/ ReservationLapses \/ NextCandidate \/ Ends

CaseSpec == CaseInit /\ [][CaseNext]_caseVars

-----------------------------------------------------------------------------
Decided == outcome.mode \in {"auto", "manual"}
Chosen == ToSet(outcome.cases)

(* A case is taken without asking the student only if it passes the score  *)
(* and beats every other verified case by the margin, however many rounds  *)
(* it took and in whatever order they were verified.                       *)
AutoIsClear ==
    outcome.mode = "auto" =>
        LET case == outcome.cases[1] IN
        /\ case.score >= AutoScore
        /\ \A other \in ToSet(verified) \ {case} : case.score >= other.score + Margin

(* Otherwise the student sees the best of the verified cases, best first,  *)
(* as many as are displayed, and always at least one.                      *)
ShownAreBest ==
    Decided =>
        /\ outcome.cases # <<>> /\ Chosen \subseteq ToSet(verified)
        /\ \A i, j \in DOMAIN outcome.cases : i < j => outcome.cases[i].score >= outcome.cases[j].score
        /\ \A hidden \in ToSet(verified) \ Chosen : \A shown \in Chosen : hidden.score <= shown.score
        /\ outcome.mode = "manual" =>
             Len(outcome.cases) = IF Display < Len(verified) THEN Display ELSE Len(verified)

(* Two verified cases are one case to the indexes, whatever identities     *)
(* they claimed and in whatever rounds they came, only when the first was  *)
(* reserved so long ago that its row no longer counted; and a search that  *)
(* verified a case does not fail because a later round did.                *)
BatchIsSound ==
    /\ \A i, j \in DOMAIN verified : i < j /\ Collide(verified[i], verified[j]) => i <= lapsed
    /\ outcome.mode = "failed" => verified = <<>>
===============================================================================
