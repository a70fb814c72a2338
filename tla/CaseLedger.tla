------------------------------ MODULE CaseLedger ------------------------------
(***************************************************************************)
(* The two tables that keep a judgment from being handed out twice:        *)
(* case_history (a judgment used once, in any course) and                  *)
(* case_reservations (a judgment some search or session holds now).  Every *)
(* operator below is one transaction of app/db/database.py on its own      *)
(* connection, so it is one atomic step for the rest of the program.       *)
(*                                                                         *)
(* A row is named by the token of the prepared case it was written for;    *)
(* judgment[t] is what that token stands for.  Two judgments collide when  *)
(* they have one PDF digest, or one case number and court, both present    *)
(* (LOWER and TRIM are part of the key).                                   *)
(***************************************************************************)
EXTENDS Naturals, FiniteSets

CONSTANTS
    Token,      \* secrets.token_urlsafe values
    Judgment,   \* verified judgments a search can come up with
    Sha,        \* [Judgment -> digests]
    CaseKey,    \* [Judgment -> (number, court) pairs, or None if either is missing]
    None        \* no token, no judgment, no user, no handler

ASSUME NoneIsNothing == None \notin Token \cup Judgment

VARIABLES
    judgment,   \* [Token -> Judgment or None]: what a token stands for
    reserved,   \* tokens with a row in case_reservations
    aged,       \* those of them whose reserved_at is older than ttl_minutes
    history     \* tokens with a row in case_history

ledgerVars == <<judgment, reserved, aged, history>>

Collide(j, k) ==
    \/ Sha[j] = Sha[k]
    \/ CaseKey[j] = CaseKey[k] /\ CaseKey[j] # None

Issued == {t \in Token : judgment[t] # None}

LedgerTypeOK ==
    /\ judgment \in [Token -> Judgment \cup {None}]
    /\ reserved \subseteq Issued
    /\ aged \subseteq reserved
    /\ history \subseteq Issued

LedgerInit ==
    /\ judgment = [t \in Token |-> None]
    /\ reserved = {}
    /\ aged = {}
    /\ history = {}

-------------------------------------------------------------------------------

(* A fresh random token for a candidate that passed the first checks.      *)
Issue(t, j) ==
    /\ judgment[t] = None
    /\ judgment' = [judgment EXCEPT ![t] = j]
    /\ UNCHANGED <<reserved, aged, history>>

(* The candidate was given up before anything was stored under its token.  *)
Forget(t) ==
    /\ t \notin reserved \cup history
    /\ judgment' = [judgment EXCEPT ![t] = None]
    /\ UNCHANGED <<reserved, aged, history>>

(* is_case_used *)
MutUsed(j) == \E t \in history : Sha[judgment[t]] = Sha[j]
Used(j) == \E t \in history : Collide(judgment[t], j)

(* The rows left after the DELETE that opens reserve_case.                 *)
MutKeepsNothing(R) == {}
Unexpired(R) == R \ aged

(* The unique indexes of case_reservations let the INSERT through.         *)
CanReserve(t) == \A r \in Unexpired(reserved) : ~Collide(judgment[r], judgment[t])

(* reserve_case: delete what expired and insert, in one transaction.  When *)
(* the INSERT is refused the rollback undoes the DELETE too.               *)
ReserveCase(t) ==
    /\ CanReserve(t)
    /\ reserved' = Unexpired(reserved) \cup {t}
    /\ aged' = {}
    /\ UNCHANGED <<judgment, history>>

(* release_reservation and release_reservations *)
Release(T) ==
    /\ reserved' = reserved \ T
    /\ aged' = aged \ T
    /\ UNCHANGED <<judgment, history>>

(* record_case: INSERT OR IGNORE under the unique indexes of case_history. *)
RecordCase(t) ==
    /\ history' = IF Used(judgment[t]) THEN history ELSE history \cup {t}
    /\ UNCHANGED <<judgment, reserved, aged>>

(* Time passes: a reservation outlives its 30 minutes.                     *)
Age(t) ==
    /\ t \in reserved \ aged
    /\ aged' = aged \cup {t}
    /\ UNCHANGED <<judgment, reserved, history>>

LedgerNext ==
    \/ \E t \in Token, j \in Judgment : Issue(t, j)
    \/ \E t \in Token :
          \/ Forget(t)
          \/ judgment[t] # None /\ t \notin reserved /\ ReserveCase(t)
          \/ judgment[t] # None /\ RecordCase(t)
          \/ Age(t)
    \/ \E T \in SUBSET Token : Release(T)

LedgerSpec == LedgerInit /\ [][LedgerNext]_ledgerVars

-------------------------------------------------------------------------------

(* What the indexes promise every user of the bot: no two rows of          *)
(* case_history and no two rows of case_reservations stand for one         *)
(* judgment, whichever digest or case number each was found under.         *)
LedgerExclusive ==
    \A t, u \in Token :
        /\ t # u
        /\ {t, u} \subseteq reserved \/ {t, u} \subseteq history
        => ~Collide(judgment[t], judgment[u])
===============================================================================
