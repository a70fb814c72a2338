----------------------------- MODULE CaseDelivery -----------------------------
(***************************************************************************)
(* What the bot promises about one verified case, whatever its handlers,   *)
(* sessions and tables look like: it is held for a user, its judgment is   *)
(* delivered, then its commentary, then it is recorded as used.  A case    *)
(* may be let go of before it is recorded and never comes back; a recorded *)
(* case stays recorded.                                                    *)
(***************************************************************************)
CONSTANT Case

VARIABLE stage

Stage == {"new", "held", "judged", "delivered", "recorded", "gone"}

Init == stage = [c \in Case |-> "new"]

Move(c, from, to) ==
    /\ stage[c] = from
    /\ stage' = [stage EXCEPT ![c] = to]

Hold(c) == Move(c, "new", "held")
DeliverJudgment(c) == Move(c, "held", "judged")
DeliverCommentary(c) == Move(c, "judged", "delivered")
Record(c) == Move(c, "delivered", "recorded")

(* A new search, a pick of another case or a restart lets go of several.   *)
LetGo(S) ==
    /\ \A c \in S : stage[c] \notin {"recorded", "gone"}
    /\ stage' = [c \in Case |-> IF c \in S THEN "gone" ELSE stage[c]]

Next ==
    \/ \E c \in Case : Hold(c) \/ DeliverJudgment(c) \/ DeliverCommentary(c) \/ Record(c)
    \/ \E S \in SUBSET Case : LetGo(S)

Spec == Init /\ [][Next]_stage
===============================================================================
