---------------------------- MODULE MCCaseWorkflow ----------------------------
(* CaseWorkflow on small instances.                                        *)
EXTENDS CaseWorkflow, TLC

CONSTANTS j1, j2, j3

(* j1 and j3 are two PDFs of one judgment: other digests, one case number  *)
(* and court.  The header of j2 shows no case number.                      *)
DistinctSha == [j \in Judgment |-> j]
SharedKey == [j \in Judgment |-> IF j = j2 THEN None ELSE "k"]

Symmetry == Permutations(Token) \cup Permutations(Handler) \cup Permutations(User)

(* States that differ only in what no step reads again and no property of  *)
(* the run looks at: what was delivered, buttons and leftovers of tokens   *)
(* that are gone, the judgment such a token once stood for.                *)
Alive(t) ==
    \/ t \in files \cup reserved \cup history
    \/ \E u \in User : t \in session[u].all
    \/ \E h \in Handler : t \in SearchHolds(h) \cup task[h].drop \cup {task[h].token, task[h].row}

WhatMatters ==
    <<[t \in Token |-> IF Alive(t) THEN judgment[t] ELSE judgment[t] = None],
      [t \in Token |-> IF Alive(t) THEN owner[t] ELSE None],
      reserved, aged, history, files, session, lock, task,
      {t \in picks : Alive(t)}, {t \in regens : Alive(t)},
      {t \in abandoned : t \in files \cup reserved}>>
===============================================================================
