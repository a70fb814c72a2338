-------------------------- MODULE CommentaryWriting --------------------------
(***************************************************************************)
(* AssignmentService.generate_docx (app/services/assignment_service.py):   *)
(* drafts of a commentary, each checked by validate_commentary, and the    *)
(* Word file of one, checked by validate_docx_file                         *)
(* (app/commentary/validation.py).                                         *)
(*                                                                         *)
(* Of a draft is kept what is wrong with it, of a judgment what the checks *)
(* of its commentary need and whether its verified metadata have words     *)
(* that no file may have.                                                  *)
(***************************************************************************)
EXTENDS Integers, SequencesExt

CONSTANT ValidationAttempts     \* max(1, settings.commentary_validation_attempts)

ASSUME WritingAssumption == ValidationAttempts \in Nat \ {0}

VARIABLES
    judgment,   \* [numbered, tainted]: has a case number; metadata with a marker
    attempt, hint, draft,
    writer,     \* "drafting", "rendering", "checking", "returned" or "raised"
    docx,       \* the file in the temporary directory: its draft, or NoFile
    refusals    \* observed: what the drafts so far were refused for

writingVars == <<judgment, attempt, hint, draft, writer, docx, refusals>>

(* In the order the checks look for it: an empty section, a forbidden word *)
(* or formatting, another case's number, an article the judgment has not.  *)
Defects == <<"empty", "marker", "foreign", "article">>
NoFile == {"no file"}
NoDraft == {"no draft"}

WritingInit ==
    /\ judgment \in [numbered: BOOLEAN, tainted: BOOLEAN]
    /\ attempt = 1 /\ hint = "none" /\ draft = NoDraft
    /\ writer = "drafting" /\ docx = NoFile
    /\ refusals = <<>>

(* validate_commentary raises for the first; a foreign number is one only  *)
(* when the case has a number itself.                                      *)
Refusals(d) == {defect \in d : defect = "foreign" => judgment.numbered}
FirstRefusal(d) ==
    Defects[CHOOSE i \in DOMAIN Defects :
               /\ Defects[i] \in Refusals(d)
               /\ \A j \in 1..(i - 1) : Defects[j] \notin Refusals(d)]

MutDraft ==
    /\ writer = "drafting"
    /\ \E d \in SUBSET ToSet(Defects) :
          /\ draft' = d
          /\ \/ Refusals(d) = {} /\ writer' = "rendering" /\ UNCHANGED <<attempt, hint, refusals>>
             \/ /\ Refusals(d) # {}
                /\ refusals' = Append(refusals, FirstRefusal(d))
                /\ IF attempt >= ValidationAttempts
                   THEN writer' = "rendering" /\ UNCHANGED <<attempt, hint>>
                   ELSE /\ attempt' = attempt + 1
                        /\ hint' = FirstRefusal(d)
                        /\ UNCHANGED writer
    /\ UNCHANGED <<judgment, docx>>
Draft ==
    /\ writer = "drafting"
    /\ \E d \in SUBSET ToSet(Defects) :
          /\ draft' = d
          /\ \/ Refusals(d) = {} /\ writer' = "rendering" /\ UNCHANGED <<attempt, hint, refusals>>
             \/ /\ Refusals(d) # {}
                /\ refusals' = Append(refusals, FirstRefusal(d))
                /\ IF attempt >= ValidationAttempts
                   THEN writer' = "raised" /\ UNCHANGED <<attempt, hint>>
                   ELSE /\ attempt' = attempt + 1
                        /\ hint' = FirstRefusal(d)
                        /\ UNCHANGED writer
    /\ UNCHANGED <<judgment, docx>>

(* The generator raises on an answer it cannot parse.                      *)
DraftFails ==
    /\ writer = "drafting"
    /\ writer' = "raised"
    /\ UNCHANGED <<judgment, attempt, hint, draft, docx, refusals>>

(* In a thread; a failing write may leave a file behind.                   *)
Render ==
    /\ writer = "rendering"
    /\ \/ writer' = "checking" /\ docx' = draft
       \/ writer' = "raised" /\ docx' \in {docx, draft}
    /\ UNCHANGED <<judgment, attempt, hint, draft, refusals>>

(* Text, no forbidden word anywhere, the metadata there; if not, it raises *)
(* and the file stays, because its path is not returned.                   *)
CheckDocx ==
    /\ writer = "checking"
    /\ \/ ~judgment.tainted /\ "marker" \notin docx /\ writer' = "returned"
       \/ writer' = "raised"
    /\ UNCHANGED <<judgment, attempt, hint, draft, docx, refusals>>

WritingNext == Draft \/ DraftFails \/ Render \/ CheckDocx

WritingSpec == WritingInit /\ [][WritingNext]_writingVars

-----------------------------------------------------------------------------
(* A file that is returned is the last draft, which passed every check     *)
(* that applies to its judgment; each further attempt was told what the    *)
(* one before it was refused for, and the attempts are not exceeded; and   *)
(* no draft a check had anything against ever becomes a file, returned or  *)
(* left behind.                                                            *)
ReturnedIsChecked ==
    /\ writer = "returned" =>
          /\ docx = draft /\ ~judgment.tainted
          /\ docx \cap {"empty", "marker", "article"} = {}
          /\ "foreign" \in docx => ~judgment.numbered
    /\ attempt <= ValidationAttempts /\ Len(refusals) <= attempt
    /\ attempt > 1 => hint = refusals[attempt - 1]
    /\ docx # NoFile => writer \in {"checking", "returned", "raised"} /\ Refusals(docx) = {}
===============================================================================
