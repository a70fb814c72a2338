----------------------------- MODULE StatusTicker -----------------------------
(***************************************************************************)
(* StatusTicker (app/bot/progress.py): one Telegram message that a task    *)
(* edits every few seconds while a handler works, which changes its phase, *)
(* may render at once and ends it with a text of its own.                  *)
(*                                                                         *)
(* An edit is a request: Telegram carries out the pending ones in any      *)
(* order, or refuses one, and the answer resumes who waits for it.  stop() *)
(* cancels the task; a request it had sent stays on its way.               *)
(***************************************************************************)
EXTENDS Integers, FiniteSets

CONSTANTS
    MaxPhase,       \* bound of the model: phases of the work
    MaxElapsed      \* bound of the model: seconds rendered

ASSUME TickerAssumption == MaxPhase \in Nat \ {0} /\ MaxElapsed \in Nat

VARIABLES
    phase, elapsed, \* what the next rendering says
    last,           \* _last_text
    ticker,         \* the task: "none", "sleep" or "edit"
    handler,        \* "new", "starting", "working", "rendering", "stopping", "stopped"
    requests,       \* pending edits
    message,        \* the text the student sees
    ended,          \* observed: Telegram showed the final text
    late            \* observed: an abandoned edit was carried out after that

tickerVars == <<phase, elapsed, last, ticker, handler, requests, message, ended, late>>

Initial == <<0, 0>>
Final == <<MaxPhase + 1, 0>>
Text == <<phase, elapsed>>

TickerInit ==
    /\ phase = 1 /\ elapsed = 0
    /\ last = Initial /\ message = Initial
    /\ ticker = "none" /\ handler = "new"
    /\ requests = {}
    /\ ended = FALSE /\ late = FALSE

Edit(by, text) == requests' = requests \cup {[by |-> by, text |-> text]}

Start ==
    /\ handler = "new"
    /\ handler' = "starting"
    /\ Edit("handler", Text)
    /\ UNCHANGED <<phase, elapsed, last, ticker, message, ended, late>>

(* _render, unless the text is the one that was sent last.                 *)
SetPhase ==
    /\ handler = "working" /\ phase < MaxPhase
    /\ phase' = phase + 1
    /\ \/ UNCHANGED <<handler, requests>>
       \/ handler' = "rendering" /\ Edit("handler", <<phase + 1, elapsed>>)
    /\ UNCHANGED <<elapsed, last, ticker, message, ended, late>>

Loop ==
    /\ ticker = "sleep" /\ Text # last
    /\ ticker' = "edit"
    /\ Edit("task", Text)
    /\ UNCHANGED <<phase, elapsed, last, handler, message, ended, late>>

SecondPasses ==
    /\ elapsed < MaxElapsed
    /\ elapsed' = elapsed + 1
    /\ UNCHANGED <<phase, last, ticker, handler, requests, message, ended, late>>

(* Cancels the task, with or without a final text to show.                 *)
MutStop ==
    /\ handler = "working"
    /\ UNCHANGED ticker
    /\ \/ handler' = "stopped" /\ UNCHANGED requests
       \/ handler' = "stopping" /\ Edit("handler", Final)
    /\ UNCHANGED <<phase, elapsed, last, message, ended, late>>
Stop ==
    /\ handler = "working"
    /\ ticker' = "none"
    /\ LET abandoned == {[r EXCEPT !.by = IF @ = "task" THEN "nobody" ELSE @] : r \in requests} IN
       \/ handler' = "stopped" /\ requests' = abandoned
       \/ handler' = "stopping" /\ requests' = abandoned \cup {[by |-> "handler", text |-> Final]}
    /\ UNCHANGED <<phase, elapsed, last, message, ended, late>>

(* Telegram edits the message, or refuses or fails; _safe_edit hides which. *)
CarriesOut(r) ==
    \/ /\ message' = r.text
       /\ ended' = (ended \/ r.text = Final)
       /\ late' = (late \/ (ended /\ r.by = "nobody"))
    \/ UNCHANGED <<message, ended, late>>

Answer(r) ==
    /\ r \in requests
    /\ requests' = requests \ {r}
    /\ CarriesOut(r)
    /\ last' = IF r.by = "nobody" \/ r.text = Final THEN last ELSE r.text
    /\ ticker' = IF r.by = "task" \/ handler = "starting" THEN "sleep" ELSE ticker
    /\ handler' = IF r.by # "handler" THEN handler
                  ELSE IF handler = "stopping" THEN "stopped" ELSE "working"
    /\ UNCHANGED <<phase, elapsed>>

TickerNext ==
    \/ Start \/ SetPhase \/ Loop \/ SecondPasses \/ Stop
    \/ \E r \in requests : Answer(r)

TickerSpec == TickerInit /\ [][TickerNext]_tickerVars

-----------------------------------------------------------------------------
(* What the student reads at the end is the outcome: the final text, once  *)
(* shown, is replaced at most once, by the one request the cancelled task  *)
(* may have sent before and Telegram carried out later, after which        *)
(* nothing is on its way; and a stopped ticker leaves nobody behind who    *)
(* could send another one.                                                 *)
FinalTextStays ==
    /\ ended /\ ~late => message = Final
    /\ late => ended /\ requests = {}
    /\ handler = "stopped" =>
          /\ ticker = "none" /\ Cardinality(requests) <= 1
          /\ \A r \in requests : r.by = "nobody"
===============================================================================
