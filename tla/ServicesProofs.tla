---------------------------- MODULE ServicesProofs ----------------------------
(***************************************************************************)
(* Theorems about the small machines beside the workflow: the status       *)
(* message of a search, the suitability of a judgment, the writing of a    *)
(* commentary, the header of a page, the choice among the cases found, the *)
(* page ranges of a compilation and the stream of a response.              *)
(***************************************************************************)
EXTENDS StatusTicker, Suitability, CommentaryWriting, JudicialHeaders,
        CaseSearch, JudgmentRanges, ResponseStream, JudgmentBoundariesProofs,
        SequenceTheorems

-----------------------------------------------------------------------------
(* StatusTicker.  Only the handler's last request carries the final text;  *)
(* the handler has at most one request under way, and none of the task's   *)
(* survives the start or the end of the ticker.                            *)
Edits == [by: {"handler", "task", "nobody"}, text: Int \X Int]

TickerStates ==
    /\ phase \in 1..MaxPhase /\ elapsed \in Int
    /\ requests \subseteq Edits
    /\ ticker \in {"none", "sleep", "edit"}
    /\ handler \in {"new", "starting", "working", "rendering", "stopping", "stopped"}
    /\ handler \in {"new", "starting", "stopping", "stopped"} => ticker = "none"

WhoseRequests ==
    /\ handler = "new" => requests = {}
    /\ \A r \in requests :
          /\ handler = "starting" => r.by = "handler"
          /\ r.by = "handler" => handler \in {"starting", "rendering", "stopping"}
          /\ r.by = "task" => handler \in {"working", "rendering"} /\ ticker = "edit"
          /\ r.by = "nobody" => handler \in {"stopping", "stopped"} /\ ~late
    /\ \A r, s \in requests : r.by = s.by => r = s
    /\ late => ended

OneFinal ==
    /\ \A r \in requests : r.text = Final <=> (r.by = "handler" /\ handler = "stopping")
    /\ ended => handler = "stopped" /\ (late \/ message = Final)

TickerInv == TickerStates /\ WhoseRequests /\ OneFinal

LEMMA TickerStep == TickerInv /\ [TickerNext]_tickerVars => TickerInv'
<1> SUFFICES ASSUME TickerInv, [TickerNext]_tickerVars
             PROVE  TickerInv'
    OBVIOUS
<1> USE TickerAssumption DEF TickerInv, TickerStates, WhoseRequests, OneFinal, Edits
<1>1. CASE Start
    BY <1>1 DEF Start, Edit, Text, Final
<1>2. CASE SetPhase
    BY <1>2 DEF SetPhase, Edit, Text, Final
<1>3. CASE Loop
    BY <1>3 DEF Loop, Edit, Text, Final
<1>4. CASE SecondPasses
    BY <1>4 DEF SecondPasses, Final
<1>5. CASE Stop
  <2> DEFINE abandoned == {[r EXCEPT !.by = IF @ = "task" THEN "nobody" ELSE @] : r \in requests}
  <2>1. \A a \in abandoned : a \in Edits /\ a.by = "nobody" /\ a.text # Final
      BY <1>5 DEF Stop
  <2>2. Final \in Int \X Int
      BY DEF Final
  <2>3. /\ handler = "working" /\ ticker' = "none"
        /\ UNCHANGED <<phase, elapsed, last, message, ended, late>>
        /\ \/ handler' = "stopped" /\ requests' = abandoned
           \/ handler' = "stopping" /\ requests' = abandoned \cup {[by |-> "handler", text |-> Final]}
      BY <1>5 DEF Stop
  <2>4. Final' = Final
      BY DEF Final
  <2>5. ~ended /\ ~late /\ \A r \in requests : r.by = "task"
      BY <2>3
  <2>6. \A a, b \in abandoned : a = b
      BY <2>5
  <2> HIDE DEF abandoned
  <2> QED
      BY <2>1, <2>2, <2>3, <2>4, <2>5, <2>6
<1>6. CASE \E r \in requests : Answer(r)
  <2> PICK r \in requests : Answer(r)
      BY <1>6
  <2>1. Final' = Final
      BY DEF Final
  <2>2. TickerStates'
      BY DEF Answer, CarriesOut
  <2>3. WhoseRequests'
    <3>1. requests' = requests \ {r} /\ \A s \in requests' : s.by # r.by
        BY DEF Answer
    <3>2. late' => late \/ (ended /\ r.by = "nobody")
        BY DEF Answer, CarriesOut
    <3>3. late' => ended'
        BY DEF Answer, CarriesOut
    <3>4. \A s \in requests' : s.by = "nobody" => handler' \in {"stopping", "stopped"} /\ ~late'
        BY <3>1, <3>2 DEF Answer
    <3>5. /\ handler' # "new"
          /\ \A s \in requests' :
                /\ handler' = "starting" => s.by = "handler"
                /\ s.by = "handler" => handler' \in {"starting", "rendering", "stopping"}
                /\ s.by = "task" => handler' \in {"working", "rendering"} /\ ticker' = "edit"
        BY <3>1 DEF Answer
    <3> QED
        BY <3>1, <3>3, <3>4, <3>5
  <2>4. \A s \in requests' : s.text = Final <=> (s.by = "handler" /\ handler' = "stopping")
    <3> SUFFICES ASSUME NEW s \in requests, s # r
                 PROVE  s.text = Final <=> (s.by = "handler" /\ handler' = "stopping")
        BY DEF Answer
    <3>1. CASE r.by = "handler"
      <4>1. s.by # "handler"
          BY <3>1
      <4> QED
          BY <4>1
    <3>2. CASE r.by # "handler"
        BY <3>2 DEF Answer
    <3> QED
        BY <3>1, <3>2
  <2>5. ended' => handler' = "stopped" /\ (late' \/ message' = Final)
    <3>1. CASE UNCHANGED <<message, ended, late>>
        BY <3>1 DEF Answer
    <3>2. CASE /\ message' = r.text
               /\ ended' = (ended \/ r.text = Final)
               /\ late' = (late \/ (ended /\ r.by = "nobody"))
      <4>1. r.text = Final => handler' = "stopped"
          BY DEF Answer
      <4>2. ended => handler' = "stopped" /\ r.by = "nobody"
          BY DEF Answer
      <4> QED
          BY <3>2, <4>1, <4>2
    <3> QED
        BY <3>1, <3>2 DEF Answer, CarriesOut
  <2>6. OneFinal'
      BY <2>1, <2>4, <2>5 DEF OneFinal
  <2> QED
      BY <2>2, <2>3, <2>6
<1>7. CASE UNCHANGED tickerVars
    BY <1>7 DEF tickerVars, Final
<1> QED
    BY <1>1, <1>2, <1>3, <1>4, <1>5, <1>6, <1>7 DEF TickerNext

(* Once the student reads the outcome no later edit of the handler or of   *)
(* the running task replaces it, and the one request of the abandoned task *)
(* at most once, whatever Telegram does with the requests.                 *)
THEOREM OutcomeStaysShown == TickerSpec => []FinalTextStays
<1>1. TickerInit => TickerInv
    BY TickerAssumption DEF TickerInit, TickerInv, TickerStates, WhoseRequests, OneFinal
<1>2. TickerInv => FinalTextStays
  <2> SUFFICES ASSUME TickerInv
               PROVE  FinalTextStays
      OBVIOUS
  <2> USE DEF TickerInv, TickerStates, WhoseRequests, OneFinal, Edits
  <2>1. handler = "stopped" => ticker = "none" /\ \A r \in requests : r.by = "nobody"
      OBVIOUS
  <2>2. late => ended /\ requests = {}
      BY <2>1
  <2>3. handler = "stopped" => Cardinality(requests) <= 1
    <3>1. CASE requests = {}
        BY <3>1, FS_EmptySet
    <3>2. ASSUME NEW r \in requests, handler = "stopped"
          PROVE  Cardinality(requests) = 1
      <4>1. requests = {r}
          BY <2>1, <3>2
      <4> QED
          BY <4>1, FS_Singleton
    <3> QED
        BY <3>1, <3>2
  <2> QED
      BY <2>1, <2>2, <2>3 DEF FinalTextStays
<1> QED
    BY <1>1, <1>2, TickerStep, PTL DEF TickerSpec

-----------------------------------------------------------------------------
(* Suitability.                                                            *)
Counted == [keywords: Nat, priorities: Nat, avoided: Nat, parts: SUBSET Parts, length: Nat]
SuitabilityType == mode \in {"direct", "methodological"} /\ text \in Counted

LEMMA PartsCounted ==
    ASSUME NEW some \in SUBSET Parts
    PROVE  IsFiniteSet(some) /\ Cardinality(some) \in Nat
<1>1. IsFiniteSet({"facts"})
    BY FS_Singleton
<1>2. IsFiniteSet({"facts"} \cup {"reasoning"})
    BY <1>1, FS_AddElement
<1>3. IsFiniteSet({"facts"} \cup {"reasoning"} \cup {"disposition"})
    BY <1>2, FS_AddElement
<1>4. IsFiniteSet({"facts"} \cup {"reasoning"} \cup {"disposition"} \cup {"source"})
    BY <1>3, FS_AddElement
<1>5. Parts = {"facts"} \cup {"reasoning"} \cup {"disposition"} \cup {"source"}
    BY DEF Parts
<1>6. IsFiniteSet(Parts)
    BY <1>4, <1>5
<1> QED
    BY <1>6, FS_Subset, FS_CardinalityType

LEMMA ScoreBounds ==
    ASSUME NEW sum \in Nat, NEW malus \in Nat
    PROVE  AtLeastZero(Least(40, sum) - malus * 8) \in 0..40
<1>1. Least(40, sum) \in 0..40
    BY DEF Least
<1>2. malus * 8 \in Nat
    OBVIOUS
<1> QED
    BY <1>1, <1>2 DEF AtLeastZero

LEMMA SuitabilityStep == SuitabilityType /\ [Extend]_suitabilityVars => SuitabilityType'
<1> SUFFICES ASSUME SuitabilityType, [Extend]_suitabilityVars
             PROVE  SuitabilityType'
    OBVIOUS
<1> QED
    BY SuitabilityAssumption DEF SuitabilityType, Counted, Extend, suitabilityVars

LEMMA SuitabilityTyped == SuitabilitySpec => []SuitabilityType
<1>1. SuitabilityInit => SuitabilityType
    BY SuitabilityAssumption DEF SuitabilityInit, SuitabilityType, Counted
<1> QED
    BY <1>1, SuitabilityStep, PTL DEF SuitabilitySpec

(* For any text the score the workflow gives is the estimate the catalog   *)
(* ranked it by.                                                           *)
THEOREM EstimateIsTheScore == SuitabilitySpec => []EstimateIsFinal
<1>1. SuitabilityType => EstimateIsFinal
  <2> SUFFICES ASSUME SuitabilityType,
                      NEW retrieval \in {0, 29, 30, 400}, NEW numbered \in BOOLEAN
               PROVE  LET relevance == Relevance(mode, text)
                          matched == MatchedTerms(mode, text)
                      IN  Total(relevance, Clarity(numbered), Reasoning(text.length),
                                Commentary(matched, retrieval), TRUE)
                            = Estimate(relevance, matched, retrieval, text.length, numbered)
      BY DEF EstimateIsFinal
  <2> DEFINE relevance == Relevance(mode, text)
             matched == MatchedTerms(mode, text)
  <2>0. /\ text.keywords \in Nat /\ text.priorities \in Nat /\ text.avoided \in Nat
        /\ text.length \in Nat /\ Cardinality(text.parts) \in Nat
      BY PartsCounted DEF SuitabilityType, Counted
  <2>6. DirectScore(text) \in 0..40
      BY <2>0, ScoreBounds DEF DirectScore
  <2>7. LengthScore(text.length) \in 0..13
      BY <2>0 DEF LengthScore
  <2>8. MethodScore(text) \in 0..40
      BY <2>0, <2>7, ScoreBounds DEF MethodScore
  <2>1. relevance \in 0..40 /\ matched \in Nat
      BY <2>0, <2>6, <2>8 DEF Relevance, MatchedTerms, Least
  <2>2. retrieval \div 30 \in Nat
      OBVIOUS
  <2>3. Commentary(matched, retrieval) \in 0..15
      BY <2>1, <2>2 DEF Commentary, Least
  <2>4. Clarity(numbered) \in {14, 18} /\ Reasoning(text.length) \in {10, 13}
      BY DEF Clarity, Reasoning
  <2> HIDE DEF relevance, matched
  <2>5. Total(relevance, Clarity(numbered), Reasoning(text.length),
              Commentary(matched, retrieval), TRUE)
          = Estimate(relevance, matched, retrieval, text.length, numbered)
      BY <2>1, <2>3, <2>4 DEF Total, Estimate, Component, Least, AtLeastZero
  <2> QED
      BY <2>5 DEF relevance, matched
<1> QED
    BY <1>1, SuitabilityTyped, PTL

(* A judgment the catalog accepted from the beginning of its text is       *)
(* refused for the rest of it only if that rest has patterns to avoid and  *)
(* their penalty takes the score below the mark.                           *)
THEOREM MoreTextIsNoWorse == SuitabilitySpec => MoreTextFitsBetter
<1> DEFINE brought == text'.avoided - text.avoided
           Better == /\ Relevance(mode, text') >= Relevance(mode, text) - 8 * brought
                     /\ Accepted(mode, text) /\ ~Accepted(mode, text') =>
                          brought > 0 /\ Relevance(mode, text') < PassMark(mode)
<1>1. SuitabilityType /\ SuitabilityType' /\ [Extend]_suitabilityVars => [Better]_suitabilityVars
  <2> SUFFICES ASSUME SuitabilityType, SuitabilityType', Extend
               PROVE  Better
      OBVIOUS
  <2>1. /\ text.keywords \in Nat /\ text.priorities \in Nat /\ text.avoided \in Nat
        /\ text.length \in Nat /\ text'.length \in Nat
        /\ text'.keywords \in Nat /\ text'.priorities \in Nat /\ text'.avoided \in Nat
        /\ text.parts \in SUBSET Parts /\ text'.parts \in SUBSET Parts
      BY DEF SuitabilityType, Counted
  <2>2. /\ text'.keywords >= text.keywords /\ text'.priorities >= text.priorities
        /\ text'.length > text.length /\ text.parts \subseteq text'.parts
      BY <2>1, SuitabilityAssumption DEF Extend
  <2>3. /\ Cardinality(text.parts) \in Nat /\ Cardinality(text'.parts) \in Nat
        /\ Cardinality(text.parts) <= Cardinality(text'.parts)
      BY <2>1, <2>2, PartsCounted, FS_Subset
  <2>4. brought \in Nat /\ text'.avoided = text.avoided + brought /\ mode' = mode
      BY <2>1 DEF Extend
  <2> HIDE DEF brought
  <2>5. /\ LengthScore(text.length) \in 0..13 /\ LengthScore(text'.length) \in 0..13
        /\ LengthScore(text.length) <= LengthScore(text'.length)
      BY <2>1, <2>2 DEF LengthScore
  <2>6. ASSUME NEW a \in Nat, NEW b \in Nat, a <= b
        PROVE  /\ AtLeastZero(Least(40, b) - text'.avoided * 8)
                     >= AtLeastZero(Least(40, a) - text.avoided * 8) - 8 * brought
               /\ brought = 0 => AtLeastZero(Least(40, b) - text'.avoided * 8)
                     >= AtLeastZero(Least(40, a) - text.avoided * 8)
    <3>1. Least(40, a) \in Nat /\ Least(40, b) \in Nat /\ Least(40, a) <= Least(40, b)
        BY <2>6 DEF Least
    <3> QED
        BY <2>1, <2>4, <3>1 DEF AtLeastZero
  <2>7. /\ DirectScore(text) \in Int /\ DirectScore(text') \in Int
        /\ DirectScore(text') >= DirectScore(text) - 8 * brought
        /\ brought = 0 => DirectScore(text') >= DirectScore(text)
    <3> DEFINE a == 8 + text.keywords * 11 + text.priorities * 5
               b == 8 + text'.keywords * 11 + text'.priorities * 5
    <3>1. a \in Nat /\ b \in Nat /\ a <= b
        BY <2>1, <2>2
    <3>2. /\ DirectScore(text) = AtLeastZero(Least(40, a) - text.avoided * 8)
          /\ DirectScore(text') = AtLeastZero(Least(40, b) - text'.avoided * 8)
        BY DEF DirectScore
    <3>3. DirectScore(text) \in Int /\ DirectScore(text') \in Int
        BY <2>1 DEF DirectScore, Least, AtLeastZero
    <3> HIDE DEF a, b
    <3> QED
        BY <2>6, <3>1, <3>2, <3>3
  <2>8. /\ MethodScore(text) \in Int /\ MethodScore(text') \in Int
        /\ MethodScore(text') >= MethodScore(text) - 8 * brought
        /\ brought = 0 => MethodScore(text') >= MethodScore(text)
    <3> DEFINE a == 9 + Cardinality(text.parts) * 5 + LengthScore(text.length)
               b == 9 + Cardinality(text'.parts) * 5 + LengthScore(text'.length)
    <3>1. a \in Nat /\ b \in Nat /\ a <= b
        BY <2>3, <2>5
    <3>2. /\ MethodScore(text) = AtLeastZero(Least(40, a) - text.avoided * 8)
          /\ MethodScore(text') = AtLeastZero(Least(40, b) - text'.avoided * 8)
        BY DEF MethodScore
    <3>3. MethodScore(text) \in Int /\ MethodScore(text') \in Int
        BY <2>1, <2>3, <2>5 DEF MethodScore, Least, AtLeastZero
    <3> HIDE DEF a, b
    <3> QED
        BY <2>6, <3>1, <3>2, <3>3
  <2>9. DirectAccepted(text) /\ ~DirectAccepted(text') => brought > 0 /\ DirectScore(text') < 18
      BY <2>1, <2>2, <2>4, <2>7 DEF DirectAccepted
  <2>10. MethodAccepted(text) /\ ~MethodAccepted(text') => brought > 0 /\ MethodScore(text') < 24
      BY <2>1, <2>2, <2>3, <2>4, <2>8 DEF MethodAccepted
  <2> QED
      BY <2>7, <2>8, <2>9, <2>10 DEF Relevance, Accepted, PassMark, brought
<1> QED
    BY <1>1, SuitabilityTyped, PTL DEF SuitabilitySpec, MoreTextFitsBetter

-----------------------------------------------------------------------------
(* CommentaryWriting.  A file there is is the last draft, and that had     *)
(* nothing to refuse; a draft that is refused is counted with its attempt. *)
WritingType ==
    /\ judgment \in [numbered: BOOLEAN, tainted: BOOLEAN]
    /\ attempt \in 1..ValidationAttempts
    /\ writer \in {"drafting", "rendering", "checking", "returned", "raised"}
    /\ refusals \in Seq(ToSet(Defects))

Attempts ==
    /\ Len(refusals) \in {attempt - 1, attempt}
    /\ writer # "raised" => Len(refusals) = attempt - 1
    /\ attempt > 1 => hint = refusals[attempt - 1]

Files ==
    /\ writer \in {"drafting", "rendering"} => docx = NoFile
    /\ writer \in {"rendering", "checking", "returned"} => Refusals(draft) = {}
    /\ writer \in {"checking", "returned"} => docx = draft
    /\ writer = "returned" => ~judgment.tainted
    /\ docx # NoFile => Refusals(docx) = {}

WritingInv == WritingType /\ Attempts /\ Files

LEMMA FirstIsADefect ==
    ASSUME NEW d \in SUBSET ToSet(Defects), Refusals(d) # {}
    PROVE  FirstRefusal(d) \in ToSet(Defects)
<1> DEFINE First(i) == /\ Defects[i] \in Refusals(d)
                       /\ \A j \in 1..(i - 1) : Defects[j] \notin Refusals(d)
<1>1. DOMAIN Defects = {1, 2, 3, 4}
    BY DEF Defects
<1>2. PICK k \in {1, 2, 3, 4} : Defects[k] \in Refusals(d)
    BY <1>1 DEF Refusals, ToSet
<1>3. \E i \in {1, 2, 3, 4} : First(i)
  <2>1. CASE Defects[1] \in Refusals(d)
    <3>1. First(1)
        BY <2>1
    <3> QED
        BY <3>1
  <2>2. CASE Defects[1] \notin Refusals(d) /\ Defects[2] \in Refusals(d)
    <3>1. First(2)
      <4>1. 1..(2 - 1) = {1}
          OBVIOUS
      <4> QED
          BY <2>2, <4>1
    <3> QED
        BY <3>1
  <2>3. CASE /\ Defects[1] \notin Refusals(d) /\ Defects[2] \notin Refusals(d)
             /\ Defects[3] \in Refusals(d)
    <3>1. First(3)
      <4>1. 1..(3 - 1) = {1, 2}
          OBVIOUS
      <4> QED
          BY <2>3, <4>1
    <3> QED
        BY <3>1
  <2>4. CASE /\ Defects[1] \notin Refusals(d) /\ Defects[2] \notin Refusals(d)
             /\ Defects[3] \notin Refusals(d)
    <3>1. First(4)
      <4>1. k = 4
          BY <1>2, <2>4
      <4>2. 1..(4 - 1) = {1, 2, 3}
          OBVIOUS
      <4> QED
          BY <1>2, <2>4, <4>1, <4>2
    <3> QED
        BY <3>1
  <2> QED
      BY <2>1, <2>2, <2>3, <2>4
<1> HIDE DEF First
<1>4. (CHOOSE i \in DOMAIN Defects : First(i)) \in DOMAIN Defects
    BY <1>1, <1>3
<1>5. FirstRefusal(d) = Defects[CHOOSE i \in DOMAIN Defects : First(i)]
    BY DEF FirstRefusal, First
<1> QED
    BY <1>4, <1>5 DEF ToSet

LEMMA WritingStep == WritingInv /\ [WritingNext]_writingVars => WritingInv'
<1> SUFFICES ASSUME WritingInv, [WritingNext]_writingVars
             PROVE  WritingInv'
    OBVIOUS
<1> USE WritingAssumption DEF WritingInv, WritingType
<1>1. CASE Draft
  <2> PICK d \in SUBSET ToSet(Defects) :
          /\ draft' = d
          /\ \/ Refusals(d) = {} /\ writer' = "rendering" /\ UNCHANGED <<attempt, hint, refusals>>
             \/ /\ Refusals(d) # {}
                /\ refusals' = Append(refusals, FirstRefusal(d))
                /\ IF attempt >= ValidationAttempts
                   THEN writer' = "raised" /\ UNCHANGED <<attempt, hint>>
                   ELSE /\ attempt' = attempt + 1
                        /\ hint' = FirstRefusal(d)
                        /\ UNCHANGED writer
      BY <1>1 DEF Draft
  <2>1. writer = "drafting" /\ UNCHANGED <<judgment, docx>>
      BY <1>1 DEF Draft
  <2>2. Refusals(d)' = Refusals(d)
      BY <2>1 DEF Refusals
  <2>3. Files'
      BY <2>1, <2>2 DEF Files
  <2>4. CASE Refusals(d) = {}
      BY <2>1, <2>3, <2>4 DEF Attempts
  <2>5. CASE Refusals(d) # {}
    <3>1. /\ refusals' \in Seq(ToSet(Defects)) /\ Len(refusals') = Len(refusals) + 1
          /\ refusals'[Len(refusals) + 1] = FirstRefusal(d)
          /\ \A i \in 1..Len(refusals) : refusals'[i] = refusals[i]
        BY <2>5, FirstIsADefect
    <3>2. Len(refusals) = attempt - 1
        BY <2>1 DEF Attempts
    <3>3. CASE attempt >= ValidationAttempts
      <4>1. WritingType'
          BY <2>1, <2>5, <3>1, <3>3
      <4>2. Attempts'
        <5>1. attempt' = attempt /\ hint' = hint /\ Len(refusals') = attempt /\ writer' = "raised"
            BY <2>5, <3>1, <3>2, <3>3
        <5>2. attempt > 1 => hint = refusals'[attempt - 1]
            BY <3>1, <3>2 DEF Attempts
        <5> QED
            BY <5>1, <5>2 DEF Attempts
      <4> QED
          BY <2>3, <4>1, <4>2
    <3>4. CASE ~(attempt >= ValidationAttempts)
      <4>1. WritingType'
          BY <2>1, <2>5, <3>1, <3>4
      <4>2. Attempts'
        <5>1. /\ attempt' = attempt + 1 /\ hint' = FirstRefusal(d) /\ Len(refusals') = attempt
              /\ writer' # "raised"
            BY <2>1, <2>5, <3>1, <3>2, <3>4
        <5>2. refusals'[attempt] = FirstRefusal(d)
            BY <3>1, <3>2
        <5> QED
            BY <5>1, <5>2 DEF Attempts
      <4> QED
          BY <2>3, <4>1, <4>2
    <3> QED
        BY <3>3, <3>4
  <2> QED
      BY <2>4, <2>5
<1>2. CASE DraftFails
    BY <1>2 DEF DraftFails, Attempts, Files, Refusals
<1>3. CASE Render
    BY <1>3 DEF Render, Attempts, Files, Refusals
<1>4. CASE CheckDocx
    BY <1>4 DEF CheckDocx, Attempts, Files, Refusals
<1>5. CASE UNCHANGED writingVars
    BY <1>5 DEF writingVars, Attempts, Files, Refusals
<1> QED
    BY <1>1, <1>2, <1>3, <1>4, <1>5 DEF WritingNext

(* For any number of attempts, a file that is returned passed every check. *)
THEOREM ReturnedFileIsChecked == WritingSpec => []ReturnedIsChecked
<1>1. WritingInit => WritingInv
    BY WritingAssumption DEF WritingInit, WritingInv, WritingType, Attempts, Files
<1>2. WritingInv => ReturnedIsChecked
  <2> SUFFICES ASSUME WritingInv
               PROVE  ReturnedIsChecked
      OBVIOUS
  <2>1. writer = "returned" => /\ docx = draft /\ ~judgment.tainted
                               /\ docx \cap {"empty", "marker", "article"} = {}
                               /\ "foreign" \in docx => ~judgment.numbered
      BY DEF WritingInv, WritingType, Files, Refusals
  <2>2. attempt <= ValidationAttempts /\ Len(refusals) <= attempt
      BY WritingAssumption DEF WritingInv, WritingType, Attempts
  <2>3. attempt > 1 => hint = refusals[attempt - 1]
      BY DEF WritingInv, Attempts
  <2>4. docx # NoFile => writer \in {"checking", "returned", "raised"} /\ Refusals(docx) = {}
      BY DEF WritingInv, WritingType, Files
  <2> QED
      BY <2>1, <2>2, <2>3, <2>4 DEF ReturnedIsChecked
<1> QED
    BY <1>1, <1>2, WritingStep, PTL DEF WritingSpec

-----------------------------------------------------------------------------
(* JudicialHeaders.  Of a text, no two labels are at one place, and what a *)
(* step adds to the labels is behind those there are.                      *)
Label == [kind: Kinds, at: Nat \ {0}, valid: BOOLEAN]
Names == Markers \cup UNION {With(marker) : marker \in Markers}
HeadText == [markers: SUBSET Names, labels: SUBSET Label]

Placed(L) == L \subseteq Label /\ \A a, b \in L : a.at = b.at => a = b
Behind(L, M) == L \subseteq M /\ \A new \in M \ L : \A old \in L : old.at < new.at

IsText(t) == Placed(t.labels) /\ IsFiniteSet(t.markers)
Extends(t, u) == t.markers \subseteq u.markers /\ Behind(t.labels, u.labels)

HeadersInv == sample \in [Ways -> HeadText] /\ \A way \in Ways : IsText(sample[way])
Grows == \A way \in Ways : Extends(sample[way], sample'[way])

LEMMA FewMarkers == ASSUME NEW marker PROVE IsFiniteSet(With(marker))
<1> DEFINE inner ==
        CASE marker = "instrument number" -> {"instrument"}
          [] marker = "confirmation number" -> {"confirmation"}
          [] marker = "administrative appeal" -> {"appeal court"}
          [] marker = "the insurance committee" -> {"insurance committee"}
          [] marker = "first decision number" -> {"decision number"}
          [] marker = "topic class" -> {"class"}
          [] OTHER -> {}
<1>1. \E name : inner \subseteq {name}
    OBVIOUS
<1>2. PICK name : inner \subseteq {name}
    BY <1>1
<1>3. IsFiniteSet(inner)
  <2>1. IsFiniteSet({name})
      BY FS_Singleton
  <2> HIDE DEF inner
  <2> QED
      BY <1>2, <2>1, FS_Subset
<1>4. With(marker) = {marker} \cup inner
    BY DEF With
<1> HIDE DEF inner
<1>5. IsFiniteSet(inner \cup {marker})
    BY <1>3, FS_AddElement
<1>6. With(marker) = inner \cup {marker}
    BY <1>4
<1> QED
    BY <1>5, <1>6

LEMMA HeadersStep ==
    HeadersInv /\ [HeadersNext]_headerVars => HeadersInv' /\ Grows
<1> SUFFICES ASSUME HeadersInv, [HeadersNext]_headerVars
             PROVE  HeadersInv' /\ Grows
    OBVIOUS
<1> DEFINE Fine == HeadersInv' /\ Grows
<1> HIDE DEF Fine
<1>1. ASSUME NEW way \in Ways, AddMarker(way)
      PROVE  Fine
  <2> PICK marker \in Markers \ sample[way].markers :
          sample' = [sample EXCEPT ![way].markers = @ \cup With(marker)]
      BY <1>1 DEF AddMarker
  <2>1. sample[way] \in HeadText /\ IsText(sample[way])
      BY DEF HeadersInv
  <2>2. /\ sample'[way].markers = sample[way].markers \cup With(marker)
        /\ sample'[way].labels = sample[way].labels
        /\ sample'[way] \in HeadText
        /\ \A other \in Ways \ {way} : sample'[other] = sample[other]
        /\ sample' \in [Ways -> HeadText]
    <3>1. With(marker) \subseteq Names
        BY DEF Names
    <3> QED
        BY <2>1, <3>1 DEF HeadersInv, HeadText
  <2>3. IsText(sample'[way])
    <3>1. IsFiniteSet(sample[way].markers \cup With(marker))
        BY <2>1, FewMarkers, FS_Union DEF IsText
    <3> QED
        BY <2>1, <2>2, <3>1 DEF IsText
  <2>4. Extends(sample[way], sample'[way])
      BY <2>2 DEF Extends, Behind
  <2> QED
      BY <2>2, <2>3, <2>4 DEF Fine, HeadersInv, Grows, Extends, Behind
<1>2. ASSUME NEW way \in Ways, AddLabel(way)
      PROVE  Fine
  <2> PICK kind \in Kinds, at \in Offsets, valid \in BOOLEAN :
          /\ \A other \in sample[way].labels : other.at < at
          /\ sample' = [sample EXCEPT ![way].labels =
                           @ \cup {[kind |-> kind, at |-> at, valid |-> valid]}]
      BY <1>2 DEF AddLabel
  <2> DEFINE new == [kind |-> kind, at |-> at, valid |-> valid]
  <2>1. sample[way] \in HeadText /\ IsText(sample[way])
      BY DEF HeadersInv
  <2>2. new \in Label /\ new.at = at
      BY HeadersAssumption DEF Label
  <2>3. \A other \in sample[way].labels : other.at < new.at
      BY <2>2
  <2> HIDE DEF new
  <2>4. /\ sample'[way].labels = sample[way].labels \cup {new}
        /\ sample'[way].markers = sample[way].markers
        /\ sample'[way] \in HeadText
        /\ \A other \in Ways \ {way} : sample'[other] = sample[other]
        /\ sample' \in [Ways -> HeadText]
      BY <2>1, <2>2 DEF HeadersInv, HeadText, new
  <2>5. Placed(sample'[way].labels)
    <3>1. sample[way].labels \subseteq Label
        BY <2>1 DEF IsText, Placed
    <3>2. new.at \in Nat /\ \A other \in sample[way].labels : other.at \in Nat
        BY <2>2, <3>1 DEF Label
    <3> QED
        BY <2>1, <2>2, <2>3, <2>4, <3>1, <3>2 DEF IsText, Placed
  <2>6. IsText(sample'[way])
      BY <2>1, <2>4, <2>5 DEF IsText
  <2>7. Extends(sample[way], sample'[way])
      BY <2>3, <2>4 DEF Extends, Behind
  <2> QED
      BY <2>4, <2>6, <2>7 DEF Fine, HeadersInv, Grows, Extends, Behind
<1>3. ASSUME UNCHANGED headerVars
      PROVE  Fine
    BY <1>3 DEF headerVars, Fine, HeadersInv, Grows, Extends, Behind
<1> QED
    BY <1>1, <1>2, <1>3 DEF HeadersNext, Fine

(* The first label of a kind stays the first.                              *)
FirstIn(L, kind) ==
    LET those == {label \in L : label.kind = kind}
        first == CHOOSE label \in those : \A other \in those : label.at <= other.at
    IN  IF those # {} /\ first.at <= MaxLabelOffset /\ first.valid THEN first.at ELSE 0

LEMMA FirstStays ==
    ASSUME NEW L, NEW M, Placed(L), Placed(M), Behind(L, M), NEW kind,
           FirstIn(L, kind) # 0
    PROVE  FirstIn(M, kind) = FirstIn(L, kind)
<1> DEFINE those(X) == {label \in X : label.kind = kind}
           IsFirst(X, l) == \A other \in those(X) : l.at <= other.at
           first(X) == CHOOSE l \in those(X) : IsFirst(X, l)
<1>1. those(L) # {}
    BY DEF FirstIn
<1>2. \E l \in those(L) : IsFirst(L, l)
  <2> DEFINE places == {l.at : l \in those(L)}
  <2>1. places \subseteq Nat /\ places # {}
      BY <1>1 DEF Placed, Label
  <2>2. PICK i \in places : \A j \in places : i <= j
      BY <2>1, LeastExists
  <2> QED
      BY <2>2
<1>3. first(L) \in those(L) /\ IsFirst(L, first(L))
    BY <1>2
<1>4. first(L) \in those(M) /\ IsFirst(M, first(L))
  <2>1. first(L) \in those(M)
      BY <1>3 DEF Behind
  <2>2. ASSUME NEW other \in those(M)
        PROVE  first(L).at <= other.at
    <3>1. first(L) \in Label /\ other \in Label
        BY <2>1 DEF Placed
    <3>2. CASE other \in L
        BY <1>3, <3>2
    <3>3. CASE other \notin L
      <4>1. first(L).at < other.at
          BY <1>3, <3>3 DEF Behind
      <4> HIDE DEF first, those
      <4> QED
          BY <3>1, <4>1 DEF Label
    <3> QED
        BY <3>2, <3>3
  <2> QED
      BY <2>1, <2>2
<1>5. first(M) \in those(M) /\ IsFirst(M, first(M))
    BY <1>4
<1>6. first(M) = first(L)
  <2>1. first(M).at <= first(L).at /\ first(L).at <= first(M).at
      BY <1>4, <1>5
  <2>2. first(M) \in M /\ first(L) \in M
      BY <1>4, <1>5
  <2> HIDE DEF first
  <2> QED
      BY <2>1, <2>2 DEF Placed, Label
<1>7. FirstIn(L, kind) = IF those(L) # {} /\ first(L).at <= MaxLabelOffset /\ first(L).valid
                           THEN first(L).at ELSE 0
    BY DEF FirstIn
<1>8. FirstIn(M, kind) = IF those(M) # {} /\ first(M).at <= MaxLabelOffset /\ first(M).valid
                           THEN first(M).at ELSE 0
    BY DEF FirstIn
<1>9. those(M) # {}
    BY <1>4
<1> HIDE DEF those, first
<1> QED
    BY <1>1, <1>6, <1>7, <1>8, <1>9

(* So does the first usable number of a case.                              *)
OffsetsIn(L) ==
    {label.at : label \in {l \in L : /\ l.kind \in {"case", "claim"}
                                    /\ l.valid /\ l.at <= MaxLabelOffset}}
FirstCaseIn(L) == IF OffsetsIn(L) = {} THEN 0 ELSE Min(OffsetsIn(L))

LEMMA LeastIsMin ==
    ASSUME NEW S, NEW i \in S, S \subseteq Nat, \A j \in S : i <= j
    PROVE  Min(S) = i
<1>1. Min(S) \in S /\ \A j \in S : Min(S) <= j
    BY DEF Min
<1>2. Min(S) \in Nat /\ i \in Nat /\ Min(S) <= i /\ i <= Min(S)
    BY <1>1
<1> QED
    BY <1>2

LEMMA FirstCaseStays ==
    ASSUME NEW L, NEW M, Placed(L), Placed(M), Behind(L, M)
    PROVE  /\ FirstCaseIn(L) \in Nat /\ FirstCaseIn(M) \in Nat
           /\ FirstCaseIn(L) # 0 => FirstCaseIn(M) = FirstCaseIn(L)
<1>1. ASSUME NEW X, Placed(X)
      PROVE  OffsetsIn(X) \subseteq Nat \ {0}
    BY <1>1 DEF OffsetsIn, Placed, Label
<1>2. ASSUME NEW X, Placed(X), OffsetsIn(X) # {}
      PROVE  \E i \in OffsetsIn(X) : FirstCaseIn(X) = i /\ \A j \in OffsetsIn(X) : i <= j
  <2>1. OffsetsIn(X) \subseteq Nat
      BY <1>1, <1>2
  <2>2. PICK i \in OffsetsIn(X) : \A j \in OffsetsIn(X) : i <= j
      BY <1>2, <2>1, LeastExists
  <2>3. Min(OffsetsIn(X)) = i
      BY <2>1, <2>2, LeastIsMin
  <2> QED
      BY <1>2, <2>2, <2>3 DEF FirstCaseIn
<1>3. FirstCaseIn(L) \in Nat /\ FirstCaseIn(M) \in Nat
    BY <1>1, <1>2 DEF FirstCaseIn
<1>4. ASSUME FirstCaseIn(L) # 0
      PROVE  FirstCaseIn(M) = FirstCaseIn(L)
  <2>1. OffsetsIn(L) # {}
      BY <1>4 DEF FirstCaseIn
  <2>2. PICK i \in OffsetsIn(L) : FirstCaseIn(L) = i /\ \A j \in OffsetsIn(L) : i <= j
      BY <1>2, <2>1
  <2>3. i \in OffsetsIn(M)
      BY <2>2 DEF OffsetsIn, Behind
  <2>4. OffsetsIn(M) \subseteq Nat
      BY <1>1
  <2>5. ASSUME NEW j \in OffsetsIn(M)
        PROVE  i <= j
    <3> PICK new \in M : j = new.at /\ new.kind \in {"case", "claim"}
                          /\ new.valid /\ new.at <= MaxLabelOffset
        BY DEF OffsetsIn
    <3>1. CASE new \in L
        BY <2>2, <3>1 DEF OffsetsIn
    <3>2. CASE new \notin L
      <4>1. i < j
          BY <3>2 DEF OffsetsIn, Behind
      <4> QED
          BY <2>3, <2>4, <4>1
    <3> QED
        BY <3>1, <3>2
  <2>6. Min(OffsetsIn(M)) = i
      BY <2>3, <2>4, <2>5, LeastIsMin
  <2> QED
      BY <2>2, <2>3, <2>6 DEF FirstCaseIn
<1> QED
    BY <1>3, <1>4

(* More text has no fewer markers.                                         *)
LEMMA HitsGrow ==
    ASSUME NEW K, NEW N, IsFiniteSet(N), K \subseteq N, NEW S
    PROVE  /\ Cardinality(K \cap S) \in Nat /\ Cardinality(N \cap S) \in Nat
           /\ Cardinality(K \cap S) <= Cardinality(N \cap S)
<1>1. IsFiniteSet(N \cap S)
    BY FS_Subset
<1>2. IsFiniteSet(K \cap S)
    BY <1>1, FS_Subset
<1>3. (K \cap S) \in SUBSET (N \cap S)
    OBVIOUS
<1>4. Cardinality(K \cap S) <= Cardinality(N \cap S)
    BY <1>1, <1>3, FS_Subset
<1> QED
    BY <1>1, <1>2, <1>4, FS_CardinalityType

(* A grammar reads in a longer text what it read in the beginning of it.   *)
LEMMA ReadingsStay ==
    ASSUME NEW t, NEW u, IsText(t), IsText(u), Extends(t, u)
    PROVE  \A g \in 1..10 : Readings(t)[g] # 0 => Readings(u)[g] = Readings(t)[g]
<1> DEFINE Keeps(g) == Readings(t)[g] # 0 => Readings(u)[g] = Readings(t)[g]
<1>1. ASSUME NEW kind, FirstOf(t, kind) # 0
      PROVE  FirstOf(u, kind) = FirstOf(t, kind)
  <2>1. FirstOf(t, kind) = FirstIn(t.labels, kind) /\ FirstOf(u, kind) = FirstIn(u.labels, kind)
      BY DEF FirstOf, FirstIn
  <2> QED
      BY <1>1, <2>1, FirstStays DEF IsText, Extends
<1>2. /\ FirstCase(t) \in Nat /\ FirstCase(u) \in Nat
      /\ FirstCase(t) # 0 => FirstCase(u) = FirstCase(t)
  <2>1. FirstCase(t) = FirstCaseIn(t.labels) /\ FirstCase(u) = FirstCaseIn(u.labels)
      BY DEF FirstCase, FirstCaseIn, CaseOffsets, OffsetsIn
  <2> QED
      BY <2>1, FirstCaseStays DEF IsText, Extends
<1>3. ASSUME NEW S
      PROVE  Hits(t, S) \in Nat /\ Hits(u, S) \in Nat /\ Hits(t, S) <= Hits(u, S)
    BY HitsGrow DEF Hits, IsText, Extends
<1>4. ASSUME NEW S, NEW n \in Nat, Hits(t, S) >= n
      PROVE  Hits(u, S) >= n
    BY <1>3, <1>4
<1>5. \A marker : marker \in t.markers => marker \in u.markers
    BY DEF Extends
<1>6. IsLegacy(t) => IsLegacy(u)
  <2>1. \A S : t.markers \cap S # {} => u.markers \cap S # {}
      BY <1>5
  <2>2. "instrument" \in t.markers => "instrument" \in u.markers
      BY <1>5
  <2>3. /\ Hits(t, LegacyMarkers) \in Nat /\ Hits(u, LegacyMarkers) \in Nat
        /\ Hits(t, LegacyMarkers) <= Hits(u, LegacyMarkers)
      BY <1>3
  <2>4. t.markers \cap LegacyHeadings # {} => u.markers \cap LegacyHeadings # {}
      BY <2>1
  <2>5. LegacyConfidence(t) >= 5 => LegacyConfidence(u) >= 5
      BY <2>2, <2>3, <2>4 DEF LegacyConfidence, If
  <2>6. t.markers \cap (LegacyHeadings \cup AppealMetadata) # {}
          => u.markers \cap (LegacyHeadings \cup AppealMetadata) # {}
      BY <2>1
  <2> QED
      BY <2>2, <2>5, <2>6 DEF IsLegacy
<1> HIDE DEF Keeps
<1>11. Keeps(1)
    BY <1>1, <1>4 DEF Keeps, Readings, If
<1>12. Keeps(2)
    BY <1>1, <1>4 DEF Keeps, Readings, If
<1>13. Keeps(3)
    BY <1>1, <1>4 DEF Keeps, Readings, If
<1>14. Keeps(4)
    BY <1>1, <1>4 DEF Keeps, Readings, If
<1>15. Keeps(5)
  <2> DEFINE name == "first instance"
  <2>1. /\ Readings(t)[5] = If(name \in t.markers /\ FirstCase(t) <= 2000, FirstCase(t))
        /\ Readings(u)[5] = If(name \in u.markers /\ FirstCase(u) <= 2000, FirstCase(u))
      BY DEF Readings
  <2>2. name \in t.markers => name \in u.markers
      BY <1>5
  <2> HIDE DEF name
  <2> QED
      BY <1>2, <2>1, <2>2 DEF Keeps, If
<1>16. Keeps(6)
    BY <1>2, <1>4 DEF Keeps, Readings, If
<1>17. Keeps(7)
    BY <1>2, <1>4 DEF Keeps, Readings, If
<1>18. Keeps(8)
    BY <1>2, <1>6 DEF Keeps, Readings, If
<1>19. Keeps(9)
    BY <1>2, <1>4 DEF Keeps, Readings, If
<1>20. Keeps(10)
    BY <1>1, <1>4 DEF Keeps, Readings, If
<1> QED
    BY <1>11, <1>12, <1>13, <1>14, <1>15, <1>16, <1>17, <1>18, <1>19, <1>20 DEF Keeps

(* The grammar of a text is the first that reads a number in it.           *)
LEMMA FirstGrammar ==
    ASSUME NEW t
    PROVE  /\ Grammar(t) \in 1..11
           /\ Grammar(t) # NoHeader => Readings(t)[Grammar(t)] # 0
           /\ \A g \in 1..10 : Readings(t)[g] # 0 => Grammar(t) <= g
<1> DEFINE reads == {g \in 1..10 : Readings(t)[g] # 0} \cup {11}
<1>1. Grammar(t) = Min(reads)
    BY DEF Grammar, NoHeader
<1>2. reads \subseteq Nat /\ reads # {}
    OBVIOUS
<1>3. PICK i \in reads : \A j \in reads : i <= j
    BY <1>2, LeastExists
<1>4. Grammar(t) = i
    BY <1>1, <1>2, <1>3, LeastIsMin
<1> QED
    BY <1>3, <1>4 DEF NoHeader

(* More text leaves the number or has an earlier grammar read one.         *)
LEMMA GrammarStays ==
    ASSUME NEW t, NEW u, IsText(t), IsText(u), Extends(t, u), Grammar(t) # NoHeader
    PROVE  /\ Grammar(u) # NoHeader /\ NumberIn(t) # 0
           /\ \/ Grammar(u) = Grammar(t) /\ NumberIn(u) = NumberIn(t)
              \/ Grammar(u) < Grammar(t)
<1>1. Grammar(t) \in 1..10 /\ Readings(t)[Grammar(t)] # 0
    BY FirstGrammar DEF NoHeader
<1>2. Readings(u)[Grammar(t)] = Readings(t)[Grammar(t)]
    BY <1>1, ReadingsStay
<1>3. Grammar(u) <= Grammar(t) /\ Grammar(u) \in 1..11
    BY <1>1, <1>2, FirstGrammar
<1> QED
    BY <1>1, <1>2, <1>3 DEF NumberIn, NoHeader

(* The number of a page, whichever way it was read, changes only when a    *)
(* grammar that is asked earlier now reads one, however many markers and   *)
(* labels there are.                                                       *)
THEOREM HeaderOfAPageStays == HeadersSpec => HeaderStays
<1> DEFINE Stays == HeaderNumber # 0 =>
                        \/ AskedInTurn' = AskedInTurn /\ HeaderNumber' = HeaderNumber
                        \/ AskedInTurn' < AskedInTurn
<1>1. HeadersInv /\ [HeadersNext]_headerVars => HeadersInv' /\ [Stays]_headerVars
  <2> SUFFICES ASSUME HeadersInv, [HeadersNext]_headerVars
               PROVE  HeadersInv' /\ Stays
      OBVIOUS
  <2>1. HeadersInv' /\ Grows
      BY HeadersStep
  <2>2. /\ IsText(Direct) /\ IsText(Direct') /\ Extends(Direct, Direct')
        /\ IsText(Reversed) /\ IsText(Reversed') /\ Extends(Reversed, Reversed')
      BY <2>1 DEF HeadersInv, Grows, Direct, Reversed, Ways
  <2>3. /\ Grammar(Direct) \in 1..11 /\ Grammar(Direct') \in 1..11
        /\ Grammar(Reversed) \in 1..11 /\ Grammar(Reversed') \in 1..11
      BY FirstGrammar
  <2>4. /\ AskedInTurn = IF Grammar(Direct) # NoHeader
                         THEN Grammar(Direct) ELSE 10 + Grammar(Reversed)
        /\ AskedInTurn' = IF Grammar(Direct') # NoHeader
                          THEN Grammar(Direct') ELSE 10 + Grammar(Reversed')
        /\ HeaderNumber = IF Grammar(Direct) # NoHeader
                          THEN NumberIn(Direct) ELSE NumberIn(Reversed)
        /\ HeaderNumber' = IF Grammar(Direct') # NoHeader
                           THEN NumberIn(Direct') ELSE NumberIn(Reversed')
      BY DEF AskedInTurn, HeaderNumber
  <2>5. CASE Grammar(Direct) # NoHeader
    <3>1. /\ Grammar(Direct') # NoHeader
          /\ \/ Grammar(Direct') = Grammar(Direct) /\ NumberIn(Direct') = NumberIn(Direct)
             \/ Grammar(Direct') < Grammar(Direct)
        BY <2>2, <2>5, GrammarStays
    <3> QED
        BY <2>1, <2>4, <2>5, <3>1
  <2>6. CASE Grammar(Direct) = NoHeader /\ Grammar(Reversed) # NoHeader
    <3>1. /\ Grammar(Reversed') # NoHeader
          /\ \/ /\ Grammar(Reversed') = Grammar(Reversed)
                /\ NumberIn(Reversed') = NumberIn(Reversed)
             \/ Grammar(Reversed') < Grammar(Reversed)
        BY <2>2, <2>6, GrammarStays
    <3> QED
        BY <2>1, <2>3, <2>4, <2>6, <3>1 DEF NoHeader
  <2>7. CASE Grammar(Direct) = NoHeader /\ Grammar(Reversed) = NoHeader
    <3>1. HeaderNumber = 0
        BY <2>4, <2>7 DEF NumberIn
    <3> QED
        BY <2>1, <3>1
  <2> QED
      BY <2>1, <2>5, <2>6, <2>7
<1>2. HeadersInit => HeadersInv
    BY FS_EmptySet DEF HeadersInit, HeadersInv, IsText, Placed, HeadText
<1> QED
    BY <1>1, <1>2, PTL DEF HeadersSpec, HeaderStays

-----------------------------------------------------------------------------
(* CaseSearch.                                                             *)
SearchInv ==
    /\ queue \in Seq(Proposal) /\ verified \in Seq(Proposal)
    /\ round \in Nat /\ lapsed \in 0..Len(verified)
    /\ BatchIsSound

LEMMA DecideIsSound == Decide => (outcome'.mode = "failed" => verified = <<>>)
<1> SUFFICES ASSUME Decide, verified # <<>>
             PROVE  outcome'.mode # "failed"
    OBVIOUS
<1>1. outcome' = Select(Ranked(verified))
    BY DEF Decide
<1>2. Select(Ranked(verified)).mode \in {"auto", "manual"}
    BY DEF Select
<1> QED
    BY <1>1, <1>2

LEMMA SearchStep == SearchInv /\ [CaseNext]_caseVars => SearchInv'
<1> SUFFICES ASSUME SearchInv, [CaseNext]_caseVars
             PROVE  SearchInv'
    OBVIOUS
<1> USE CaseSearchAssumption DEF SearchInv, BatchIsSound
<1>6. CASE ReservationLapses
  <2>1. lapsed \in Nat /\ lapsed' = lapsed + 1 /\ lapsed' \in 0..Len(verified)
      BY <1>6 DEF ReservationLapses
  <2>2. UNCHANGED <<round, queue, verified, outcome>>
      BY <1>6 DEF ReservationLapses
  <2> QED
      BY <2>1, <2>2 DEF Collide
<1>1. CASE StartRound
  <2> PICK n \in 0..PerRound : queue' \in [1..n -> Proposal]
      BY <1>1 DEF StartRound
  <2>0. n \in Nat
      OBVIOUS
  <2>1. queue' \in Seq(Proposal)
      BY <2>0, SeqDef
  <2> QED
      BY <1>1, <2>1 DEF StartRound
<1>2. CASE RoundFails
    BY <1>2, DecideIsSound DEF RoundFails
<1>3. CASE NextCandidate
  <2>1. queue # <<>> /\ queue' = Tail(queue) /\ UNCHANGED <<round, outcome>>
        /\ outcome = Searching
      BY <1>3 DEF NextCandidate
  <2>2. queue' \in Seq(Proposal) /\ Head(queue) \in Proposal
      BY <2>1
  <2>3. outcome.mode # "failed"
      BY <2>1 DEF Searching
  <2>4. CASE UNCHANGED verified
    <3>1. lapsed' = lapsed
        BY <1>3 DEF NextCandidate
    <3> QED
        BY <2>1, <2>2, <2>3, <2>4, <3>1 DEF Collide
  <2>5. CASE ~Held(Head(queue)) /\ verified' = Append(verified, Head(queue))
    <3>1. \A i \in (lapsed + 1)..Len(verified) : ~Collide(verified[i], Head(queue))
        BY <2>5 DEF Held
    <3>2. /\ verified' \in Seq(Proposal) /\ DOMAIN verified' = 1..(Len(verified) + 1)
          /\ DOMAIN verified = 1..Len(verified)
          /\ \A i \in 1..Len(verified) : verified'[i] = verified[i]
          /\ verified'[Len(verified) + 1] = Head(queue)
        BY <2>2, <2>5
    <3>3. lapsed' = lapsed /\ lapsed \in 0..Len(verified)
        BY <1>3 DEF NextCandidate
    <3>4. ASSUME NEW i \in DOMAIN verified', NEW j \in DOMAIN verified', i < j,
                 Collide(verified'[i], verified'[j])
          PROVE  i <= lapsed
      <4>1. CASE j = Len(verified) + 1
        <5>1. i \in 1..Len(verified) /\ Collide(verified[i], Head(queue))
            BY <3>2, <3>4, <4>1
        <5> QED
            BY <3>1, <3>3, <5>1
      <4>2. CASE j # Len(verified) + 1
        <5>1. i \in 1..Len(verified) /\ j \in 1..Len(verified)
            BY <3>2, <3>4, <4>2
        <5>2. Collide(verified[i], verified[j])
            BY <3>2, <3>4, <5>1
        <5> QED
            BY <3>2, <3>4, <5>1, <5>2
      <4> QED
          BY <4>1, <4>2
    <3>5. lapsed' \in 0..Len(verified')
        BY <3>2, <3>3
    <3>6. \A i, j \in DOMAIN verified' :
              i < j /\ Collide(verified'[i], verified'[j]) => i <= lapsed'
        BY <3>3, <3>4
    <3> QED
        BY <2>1, <2>2, <2>3, <3>2, <3>5, <3>6 DEF Collide
  <2> QED
      BY <1>3, <2>4, <2>5 DEF NextCandidate
<1>4. CASE Ends
    BY <1>4, DecideIsSound DEF Ends
<1>5. CASE UNCHANGED caseVars
    BY <1>5 DEF caseVars
<1> QED
    BY <1>1, <1>2, <1>3, <1>4, <1>5, <1>6 DEF CaseNext

(* However many rounds and candidates there are, two verified cases that   *)
(* are one to the indexes of the reservations are so only because the      *)
(* reservation of the first had lapsed, and what a search verified is not  *)
(* lost with a later round.                                                *)
THEOREM SearchBatchIsSound == CaseSpec => []BatchIsSound
<1>1. CaseInit => SearchInv
    BY DEF CaseInit, SearchInv, BatchIsSound, Searching
<1>2. SearchInv => BatchIsSound
    BY DEF SearchInv
<1> QED
    BY <1>1, <1>2, SearchStep, PTL DEF CaseSpec

(* What Ranked computes: every case at a place of its own, better scores   *)
(* in front.                                                               *)
AheadOf(cases) ==
    {pair \in Nat \X Nat :
        \/ cases[pair[1]].score > cases[pair[2]].score
        \/ cases[pair[1]].score = cases[pair[2]].score /\ pair[1] < pair[2]}

LEMMA ScoresAreNumbers ==
    ASSUME NEW cases \in Seq(Proposal), NEW i \in DOMAIN cases
    PROVE  cases[i] \in Proposal /\ cases[i].score \in Nat
BY CaseSearchAssumption

LEMMA CasesAreOrdered ==
    ASSUME NEW cases \in Seq(Proposal)
    PROVE  /\ IsFiniteSet(DOMAIN cases) /\ Cardinality(DOMAIN cases) = Len(cases)
           /\ Orders(AheadOf(cases), DOMAIN cases)
           /\ \A i \in DOMAIN cases :
                 Before(AheadOf(cases), DOMAIN cases, i) = InFront(cases, i)
<1>1. DOMAIN cases = 1..Len(cases) /\ Len(cases) \in Nat
    OBVIOUS
<1>2. IsFiniteSet(DOMAIN cases) /\ Cardinality(DOMAIN cases) = Len(cases)
    BY <1>1, FS_Interval
<1> DEFINE score(i) == cases[i].score
<1>3. \A i \in DOMAIN cases : score(i) \in Nat /\ i \in Nat
    BY <1>1, ScoresAreNumbers
<1>4. \A i, j \in DOMAIN cases :
          <<i, j>> \in AheadOf(cases) <=> score(i) > score(j) \/ (score(i) = score(j) /\ i < j)
    BY <1>3 DEF AheadOf
<1>5. \A i \in DOMAIN cases : Before(AheadOf(cases), DOMAIN cases, i) = InFront(cases, i)
    BY <1>4 DEF Before, InFront
<1> HIDE DEF score
<1>6. Orders(AheadOf(cases), DOMAIN cases)
    BY <1>3, <1>4 DEF Orders
<1> QED
    BY <1>2, <1>5, <1>6

LEMMA RankIsFound ==
    ASSUME NEW cases \in Seq(Proposal), NEW n \in DOMAIN cases
    PROVE  \E i \in DOMAIN cases :
               /\ Place(AheadOf(cases), DOMAIN cases, i) = n - 1
               /\ Ranked(cases)[n] = cases[i]
<1> DEFINE i == CHOOSE k \in DOMAIN cases : Cardinality(InFront(cases, k)) = n - 1
<1>1. n \in 1..Cardinality(DOMAIN cases)
    BY CasesAreOrdered
<1>2. PICK k \in DOMAIN cases : Place(AheadOf(cases), DOMAIN cases, k) = n - 1
    BY <1>1, CasesAreOrdered, PlacesAreTaken
<1>3. Cardinality(InFront(cases, k)) = n - 1
    BY <1>2, CasesAreOrdered DEF Place
<1>4. i \in DOMAIN cases /\ Cardinality(InFront(cases, i)) = n - 1
    BY <1>3
<1>5. Place(AheadOf(cases), DOMAIN cases, i) = n - 1
    BY <1>4, CasesAreOrdered DEF Place
<1>6. Ranked(cases)[n] = cases[i]
    BY DEF Ranked
<1> QED
    BY <1>4, <1>5, <1>6

LEMMA RankedIsSequence ==
    ASSUME NEW cases \in Seq(Proposal)
    PROVE  Ranked(cases) \in Seq(Proposal) /\ Len(Ranked(cases)) = Len(cases)
<1>1. DOMAIN cases = 1..Len(cases) /\ Len(cases) \in Nat
    OBVIOUS
<1>2. \A n \in DOMAIN cases : Ranked(cases)[n] \in Proposal
  <2> SUFFICES ASSUME NEW n \in DOMAIN cases PROVE Ranked(cases)[n] \in Proposal
    OBVIOUS
  <2>1. PICK i \in DOMAIN cases : Ranked(cases)[n] = cases[i]
    BY RankIsFound
  <2> QED
    BY <2>1
<1>3. Ranked(cases) = [n \in 1..Len(cases) |-> Ranked(cases)[n]]
    BY <1>1 DEF Ranked
<1>4. Ranked(cases) \in [1..Len(cases) -> Proposal]
    BY <1>1, <1>2, <1>3
<1> QED
    BY <1>1, <1>4

LEMMA RankedHasAll ==
    ASSUME NEW cases \in Seq(Proposal), NEW i \in DOMAIN cases
    PROVE  \E n \in DOMAIN cases : Ranked(cases)[n] = cases[i]
<1> DEFINE R == AheadOf(cases)
           S == DOMAIN cases
           n == Place(R, S, i) + 1
<1>1. n \in 1..Len(cases) /\ n \in DOMAIN cases /\ Place(R, S, i) = n - 1
    BY CasesAreOrdered, PlaceIsNumber
<1> HIDE DEF n
<1>2. PICK k \in S : Place(R, S, k) = n - 1 /\ Ranked(cases)[n] = cases[k]
    BY <1>1, RankIsFound
<1>3. k = i
  <2>1. <<k, i>> \in R => Place(R, S, k) < Place(R, S, i)
    BY CasesAreOrdered, PlacesKeepOrder
  <2>2. <<i, k>> \in R => Place(R, S, i) < Place(R, S, k)
    BY CasesAreOrdered, PlacesKeepOrder
  <2>3. k # i => <<k, i>> \in R \/ <<i, k>> \in R
    BY CasesAreOrdered DEF Orders
  <2> QED
    BY <1>1, <1>2, <2>1, <2>2, <2>3
<1> QED
    BY <1>1, <1>2, <1>3

LEMMA RankedIsSorted ==
    ASSUME NEW cases \in Seq(Proposal), NEW m \in DOMAIN cases, NEW n \in DOMAIN cases, m < n
    PROVE  Ranked(cases)[m].score >= Ranked(cases)[n].score
<1> DEFINE R == AheadOf(cases)
           S == DOMAIN cases
<1>1. PICK i \in S : Place(R, S, i) = m - 1 /\ Ranked(cases)[m] = cases[i]
    BY RankIsFound
<1>2. PICK j \in S : Place(R, S, j) = n - 1 /\ Ranked(cases)[n] = cases[j]
    BY RankIsFound
<1>3. <<j, i>> \in R => Place(R, S, j) < Place(R, S, i)
    BY CasesAreOrdered, PlacesKeepOrder
<1>4. m \in Nat /\ n \in Nat
    OBVIOUS
<1>5. <<j, i>> \notin R
    BY <1>1, <1>2, <1>3, <1>4
<1>6. i \in Nat /\ j \in Nat /\ cases[i].score \in Nat /\ cases[j].score \in Nat
    BY ScoresAreNumbers
<1>7. ~ (cases[j].score > cases[i].score)
    BY <1>5, <1>6 DEF AheadOf
<1> QED
    BY <1>1, <1>2, <1>6, <1>7

(* What select_candidates makes of the ranked cases.                       *)
Shown(v) == IF Display < Len(v) THEN Display ELSE Len(v)

LEMMA SelectedAreFirst ==
    ASSUME NEW v \in Seq(Proposal), v # <<>>
    PROVE  \E k \in 1..Len(v) :
               /\ Select(Ranked(v)).cases = SubSeq(Ranked(v), 1, k)
               /\ Select(Ranked(v)).mode = "manual" => k = Shown(v)
<1>1. Len(v) \in Nat /\ Len(v) >= 1 /\ Len(Ranked(v)) = Len(v)
    BY RankedIsSequence
<1>2. Shown(v) \in 1..Len(v) /\ 1 \in 1..Len(v)
    BY <1>1, CaseSearchAssumption DEF Shown
<1>3. CASE Ranked(v)[1].score >= AutoScore /\ Clear(Ranked(v))
  <2>1. /\ Select(Ranked(v)).mode = "auto"
        /\ Select(Ranked(v)).cases = SubSeq(Ranked(v), 1, 1)
    BY <1>3 DEF Select
  <2> QED
    BY <1>2, <2>1
<1>4. CASE ~ (Ranked(v)[1].score >= AutoScore /\ Clear(Ranked(v)))
  <2>1. Select(Ranked(v)).cases = SubSeq(Ranked(v), 1, Shown(v))
    BY <1>1, <1>4 DEF Select, Shown
  <2> QED
    BY <1>2, <2>1
<1> QED
    BY <1>3, <1>4

LEMMA SelectedAreBest ==
    ASSUME NEW v \in Seq(Proposal), v # <<>>, NEW d, d = Select(Ranked(v))
    PROVE  /\ d.cases # <<>> /\ ToSet(d.cases) \subseteq ToSet(v)
           /\ \A i, j \in DOMAIN d.cases : i < j => d.cases[i].score >= d.cases[j].score
           /\ \A hidden \in ToSet(v) \ ToSet(d.cases) : \A shown \in ToSet(d.cases) :
                 hidden.score <= shown.score
           /\ d.mode = "manual" => Len(d.cases) = Shown(v)
<1> DEFINE M == Ranked(v)
<1>1. PICK k \in 1..Len(v) : d.cases = SubSeq(M, 1, k) /\ (d.mode = "manual" => k = Shown(v))
    BY SelectedAreFirst
<1>2. M \in Seq(Proposal) /\ Len(M) = Len(v) /\ DOMAIN v = 1..Len(v) /\ Len(v) \in Nat
    BY RankedIsSequence
<1>3. /\ Len(d.cases) = k /\ DOMAIN d.cases = 1..k
      /\ \A i \in 1..k : d.cases[i] = M[i]
    BY <1>1, <1>2
<1>4. \A i \in DOMAIN v : M[i] \in ToSet(v)
    BY RankIsFound DEF ToSet
<1>5. ToSet(d.cases) = {M[i] : i \in 1..k}
    BY <1>3 DEF ToSet
<1>6. ToSet(d.cases) \subseteq ToSet(v)
    BY <1>2, <1>4, <1>5
<1>7. \A i, j \in DOMAIN d.cases : i < j => d.cases[i].score >= d.cases[j].score
    BY <1>2, <1>3, RankedIsSorted
<1>8. ASSUME NEW hidden \in ToSet(v) \ ToSet(d.cases), NEW shown \in ToSet(d.cases)
      PROVE  hidden.score <= shown.score
  <2>1. PICK i \in DOMAIN v : hidden = v[i]
    BY DEF ToSet
  <2>2. PICK n \in DOMAIN v : hidden = M[n]
    BY <2>1, RankedHasAll
  <2>3. PICK m \in 1..k : shown = M[m]
    BY <1>5
  <2>4. n \notin 1..k /\ n \in Nat /\ m \in DOMAIN v /\ m < n
    BY <1>2, <1>5, <2>2, <2>3
  <2>5. M[m].score >= M[n].score
    BY <2>4, RankedIsSorted
  <2>6. M[m].score \in Nat /\ M[n].score \in Nat
    BY <1>2, <2>4, ScoresAreNumbers
  <2> QED
    BY <2>2, <2>3, <2>5, <2>6
<1>9. d.cases # <<>>
    BY <1>3
<1> QED
    BY <1>1, <1>3, <1>6, <1>7, <1>8, <1>9

LEMMA AutomaticIsClear ==
    ASSUME NEW v \in Seq(Proposal), v # <<>>, NEW d, d = Select(Ranked(v)), d.mode = "auto"
    PROVE  /\ d.cases[1].score >= AutoScore
           /\ \A other \in ToSet(v) \ {d.cases[1]} : d.cases[1].score >= other.score + Margin
<1> DEFINE M == Ranked(v)
<1>1. M[1].score >= AutoScore /\ Clear(M) /\ d.cases = SubSeq(M, 1, 1)
    BY DEF Select
<1>2. M \in Seq(Proposal) /\ Len(M) = Len(v) /\ DOMAIN v = 1..Len(v) /\ Len(v) >= 1 /\ Len(v) \in Nat
    BY RankedIsSequence
<1>3. d.cases[1] = M[1]
    BY <1>1, <1>2
<1>4. ASSUME NEW other \in ToSet(v) \ {M[1]} PROVE M[1].score >= other.score + Margin
  <2>1. PICK i \in DOMAIN v : other = v[i]
    BY DEF ToSet
  <2>2. PICK n \in DOMAIN v : other = M[n]
    BY <2>1, RankedHasAll
  <2>3. n >= 2 /\ n \in Nat /\ Len(M) > 1 /\ {1, 2} \subseteq DOMAIN v
    BY <1>2, <2>2
  <2>4. M[1].score - M[2].score >= Margin
    BY <1>1, <2>3 DEF Clear
  <2>5. n = 2 \/ M[2].score >= M[n].score
    BY <2>3, RankedIsSorted
  <2>6. M[1].score \in Nat /\ M[2].score \in Nat /\ M[n].score \in Nat /\ Margin \in Nat
    BY <1>2, <2>3, ScoresAreNumbers, CaseSearchAssumption
  <2> QED
    BY <2>2, <2>4, <2>5, <2>6
<1> QED
    BY <1>1, <1>3, <1>4

(* The decision, once it is made, is about the cases verified then.        *)
DecisionIsBest == AutoIsClear /\ ShownAreBest

LEMMA DecideIsBest ==
    ASSUME SearchInv, Decide, UNCHANGED verified
    PROVE  DecisionIsBest'
<1>1. CASE verified = <<>>
    BY <1>1 DEF Decide, DecisionIsBest, AutoIsClear, ShownAreBest, Decided
<1>2. CASE verified # <<>>
  <2>1. outcome' = Select(Ranked(verified)) /\ verified \in Seq(Proposal)
      BY <1>2 DEF Decide, SearchInv
  <2>2. /\ outcome'.cases # <<>> /\ ToSet(outcome'.cases) \subseteq ToSet(verified)
        /\ \A i, j \in DOMAIN outcome'.cases :
              i < j => outcome'.cases[i].score >= outcome'.cases[j].score
        /\ \A hidden \in ToSet(verified) \ ToSet(outcome'.cases) :
              \A shown \in ToSet(outcome'.cases) : hidden.score <= shown.score
        /\ outcome'.mode = "manual" => Len(outcome'.cases) = Shown(verified)
      BY <1>2, <2>1, SelectedAreBest
  <2>3. outcome'.mode = "auto" =>
            /\ outcome'.cases[1].score >= AutoScore
            /\ \A other \in ToSet(verified) \ {outcome'.cases[1]} :
                  outcome'.cases[1].score >= other.score + Margin
      BY <1>2, <2>1, AutomaticIsClear
  <2>4. ShownAreBest'
      BY <2>2 DEF ShownAreBest, Chosen, Shown
  <2>5. AutoIsClear'
      BY <2>3 DEF AutoIsClear
  <2> QED
      BY <2>4, <2>5 DEF DecisionIsBest
<1> QED
    BY <1>1, <1>2

LEMMA DecisionStep == SearchInv /\ DecisionIsBest /\ [CaseNext]_caseVars => DecisionIsBest'
<1> SUFFICES ASSUME SearchInv, DecisionIsBest, [CaseNext]_caseVars
             PROVE  DecisionIsBest'
    OBVIOUS
<1>1. CASE outcome' = Searching
    BY <1>1 DEF Searching, DecisionIsBest, AutoIsClear, ShownAreBest, Decided
<1>2. CASE UNCHANGED caseVars
    BY <1>2 DEF caseVars, DecisionIsBest, AutoIsClear, ShownAreBest, Decided, Chosen
<1> QED
    BY <1>1, <1>2, DecideIsBest
    DEF CaseNext, StartRound, RoundFails, ReservationLapses, NextCandidate, Ends

LEMMA AlwaysBest == CaseSpec => []DecisionIsBest
<1>1. CaseInit => SearchInv
    BY DEF CaseInit, SearchInv, BatchIsSound, Searching
<1>2. CaseInit => DecisionIsBest
    BY DEF CaseInit, Searching, DecisionIsBest, AutoIsClear, ShownAreBest, Decided
<1> QED
    BY <1>1, <1>2, SearchStep, DecisionStep, PTL DEF CaseSpec

(* However many rounds and candidates there are and in whatever order they *)
(* were verified: a case is taken without asking only if it passes the     *)
(* score and beats every other verified case by the margin.                *)
THEOREM AutomaticChoiceIsClear == CaseSpec => []AutoIsClear
<1>1. DecisionIsBest => AutoIsClear
    BY DEF DecisionIsBest
<1> QED
    BY <1>1, AlwaysBest, PTL

(* Of any number of verified cases the student sees the best, best first,  *)
(* as many as are displayed.                                               *)
THEOREM ShownCasesAreBest == CaseSpec => []ShownAreBest
<1>1. DecisionIsBest => ShownAreBest
    BY DEF DecisionIsBest
<1> QED
    BY <1>1, AlwaysBest, PTL

-----------------------------------------------------------------------------
(* The pages are pages, at any time.                                       *)

ArePages == pages \in Seq(Page)

(* The compilation is a sequence of pages as it is read.                   *)
LEMMA PagesArePages == RangesSpec => []ArePages
<1>1. RangesInit => ArePages
    BY DEF RangesInit, ArePages
<1>2. ArePages /\ [AppendPage]_pages => ArePages'
  <2> SUFFICES ASSUME ArePages, AppendPage PROVE ArePages'
    BY DEF ArePages
  <2>1. PICK page \in SomePages : pages' = Append(pages, page)
    BY DEF AppendPage
  <2> QED
    BY <2>1, SomePagesAssumption DEF ArePages
<1> QED
    BY <1>1, <1>2, PTL DEF RangesSpec

(* Whatever compilation is read, whatever pages a web search names and     *)
(* whatever the page limit: what locate_case_page_range and                *)
(* refine_case_page_range cut out begins with a judicial header and holds  *)
(* the header of no other judgment.                                        *)
THEOREM RangesHoldOneJudgment == RangesSpec => []RangesAreOneJudgment
<1>1. ASSUME ArePages PROVE RangesAreOneJudgment
  <2>1. ASSUME NEW number \in Number \cup {None}
        PROVE  LET range == LocatedRange(pages, number)
               IN  /\ HoldsOneJudgment(pages, range)
                   /\ range # NoRange => pages[range.start].head = number
    BY <1>1, LocatedIsOne DEF ArePages, IsRangeOf
  <2>2. ASSUME NEW first \in 0..Len(pages) + 1, NEW hintEnd \in 0..Len(pages) + 1,
               NEW expected \in Number \cup {None}
        PROVE  HoldsOneJudgment(pages, RefinedRange(pages, first, hintEnd, expected))
    <3>1. first \in Nat /\ hintEnd \in Nat
      BY <1>1 DEF ArePages
    <3> QED
      BY <1>1, <3>1, RefinedIsOne DEF ArePages, IsRangeOf
  <2> QED
    BY <2>1, <2>2 DEF RangesAreOneJudgment
<1> QED
    BY <1>1, PagesArePages, PTL

(* Whatever collection is indexed: the judgments of the index lie in it    *)
(* and do not overlap, and each is one judgment for the bot that cuts it   *)
(* out later, unless the indexer passed over a header on a short page.     *)
THEOREM RowsHoldOneJudgment == RangesSpec => []RowsAreJudgments
<1>1. ASSUME ArePages PROVE RowsAreJudgments
  <2>0. pages \in Seq(Page)
    BY <1>1 DEF ArePages
  <2> SUFFICES ASSUME NEW row \in IndexedRows(pages)
      PROVE  /\ row.start <= row.end /\ row.end <= Len(pages)
             /\ \A other \in IndexedRows(pages) \ {row} :
                   row.end < other.start \/ other.end < row.start
             /\ \/ \E i \in row.start..row.end :
                      HasHead(pages[i]) /\ pages[i].length < 100
                \/ OneJudgment(SubSeq(pages, row.start, row.end), row.number)
    BY DEF RowsAreJudgments
  <2>1. ASSUME NEW some \in IndexedRows(pages)
        PROVE  \E s \in CaseStarts(pages) :
                  some = [start |-> s, end |-> IndexedEnd(pages, s), number |-> pages[s].head]
    BY DEF IndexedRows
  <2>2. PICK s \in CaseStarts(pages) :
            row = [start |-> s, end |-> IndexedEnd(pages, s), number |-> pages[s].head]
    BY <2>1
  <2>3. \A t \in CaseStarts(pages) :
            /\ t \in Nat /\ 1 <= t /\ LastPage(pages, t) \in Nat /\ LastPage(pages, t) <= Len(pages)
            /\ IndexedEnd(pages, t) \in t..LastPage(pages, t)
    BY <2>0, LastPageBounds, StartsArePages, IndexedEndInside
  <2>4. row.start <= row.end /\ row.end <= Len(pages)
    BY <2>0, <2>2, <2>3, StartsArePages
  <2>5. ASSUME NEW other \in IndexedRows(pages) \ {row}
        PROVE  row.end < other.start \/ other.end < row.start
    <3>1. PICK t \in CaseStarts(pages) :
              other = [start |-> t, end |-> IndexedEnd(pages, t), number |-> pages[t].head]
      BY <2>1
    <3>2. t # s
      BY <2>2, <3>1
    <3>3. CASE s < t
      <4>1. LastPage(pages, s) < t
        BY <2>0, <3>3, LastPageBounds
      <4> QED
        BY <2>2, <2>3, <3>1, <4>1
    <3>4. CASE t < s
      <4>1. LastPage(pages, t) < s
        BY <2>0, <3>4, LastPageBounds
      <4> QED
        BY <2>2, <2>3, <3>1, <4>1
    <3> QED
      BY <2>3, <3>2, <3>3, <3>4
  <2>6. ASSUME ~ \E i \in row.start..row.end : HasHead(pages[i]) /\ pages[i].length < 100
        PROVE  OneJudgment(SubSeq(pages, row.start, row.end), row.number)
    <3>1. row.start = s /\ row.end \in s..LastPage(pages, s) /\ row.number = pages[s].head
      BY <2>2, <2>3
    <3>2. s \in Headed(pages)
      BY <2>0, StartsArePages
    <3>3. HasHead(pages[s])
      BY <3>2 DEF Headed
    <3>4. ASSUME NEW i \in s..row.end, HasHead(pages[i])
          PROVE  pages[i].head = pages[s].head
      <4>1. i \in DOMAIN pages /\ i \in s..LastPage(pages, s)
        BY <2>0, <2>3, <3>1, StartsArePages
      <4>2. pages[i] \in Page
        BY <2>0, <4>1
      <4>3. pages[i].length \in Nat
        BY <4>2 DEF Page
      <4>4. i \in Headed(pages)
        BY <2>6, <3>1, <3>4, <4>1, <4>3 DEF Headed
      <4> QED
        BY <2>0, <4>1, <4>4, SameUpToNextStart
    <3>5. row.end \in Nat /\ s \in Nat /\ 1 <= s /\ s <= row.end
      BY <2>3, <3>1
    <3>6. OneJudgment(SubSeq(pages, s, row.end), pages[s].head)
      BY <2>0, <2>4, <3>3, <3>4, <3>5, CutOutIsOne
    <3> QED
      BY <3>1, <3>6
  <2> QED
    BY <2>4, <2>5, <2>6
<1> QED
    BY <1>1, PagesArePages, PTL

-----------------------------------------------------------------------------
(***************************************************************************)
(* Joining sequences: FlattenSeq of the library, in steps.                 *)
(***************************************************************************)
Joins(f, seqs) ==
    /\ f[1] = seqs[1]
    /\ \A i \in 2..Len(seqs) : f[i] = f[i - 1] \o seqs[i]

LEMMA JoinExists ==
    ASSUME NEW X, NEW seqs \in Seq(Seq(X)), Len(seqs) >= 1
    PROVE  \E f \in [1..Len(seqs) -> Seq(X)] : Joins(f, seqs)
<1> DEFINE Joined(k) ==
        \E f \in [1..k -> Seq(X)] :
            f[1] = seqs[1] /\ \A i \in 2..k : f[i] = f[i - 1] \o seqs[i]
           S == {k \in Nat : k >= 1 /\ (k <= Len(seqs) => Joined(k))}
<1>1. Len(seqs) \in Nat /\ \A i \in 1..Len(seqs) : seqs[i] \in Seq(X)
    OBVIOUS
<1>2. Joined(1)
  <2> DEFINE f == [i \in 1..1 |-> seqs[1]]
  <2>1. f \in [1..1 -> Seq(X)] /\ f[1] = seqs[1]
    BY <1>1
  <2>2. 2..1 = {}
    OBVIOUS
  <2> HIDE DEF f
  <2> QED
    BY <2>1, <2>2
<1>3. ASSUME NEW k \in Nat, k >= 1, k + 1 <= Len(seqs), Joined(k) PROVE Joined(k + 1)
  <2>1. PICK f \in [1..k -> Seq(X)] : f[1] = seqs[1] /\ \A i \in 2..k : f[i] = f[i - 1] \o seqs[i]
    BY <1>3
  <2> DEFINE g == [i \in 1..k + 1 |-> IF i = k + 1 THEN f[k] \o seqs[k + 1] ELSE f[i]]
  <2>2. f[k] \o seqs[k + 1] \in Seq(X)
    <3>1. f[k] \in Seq(X) /\ seqs[k + 1] \in Seq(X)
      BY <1>1, <1>3
    <3> QED
      BY <3>1
  <2>3. g \in [1..k + 1 -> Seq(X)]
    BY <2>2
  <2>4. g[1] = seqs[1]
    BY <1>3, <2>1
  <2>5. ASSUME NEW i \in 2..k + 1 PROVE g[i] = g[i - 1] \o seqs[i]
    <3>1. i - 1 \in 1..k /\ g[i - 1] = f[i - 1]
      BY <1>3
    <3>2. CASE i = k + 1
      <4>1. i - 1 = k /\ g[i] = f[k] \o seqs[k + 1]
        BY <1>3, <3>2
      <4> HIDE DEF g
      <4> QED
        BY <3>1, <3>2, <4>1
    <3>3. CASE i # k + 1
      <4>1. i \in 2..k /\ g[i] = f[i]
        BY <3>3
      <4> QED
        BY <2>1, <3>1, <4>1
    <3> QED
      BY <3>2, <3>3
  <2> HIDE DEF g
  <2> QED
    BY <2>3, <2>4, <2>5
<1> HIDE DEF Joined
<1>4. 1 \in S
    BY <1>2
<1>5. \A k \in Nat : k >= 1 /\ k \in S => k + 1 \in S
  <2> SUFFICES ASSUME NEW k \in Nat, k >= 1, k \in S, k + 1 <= Len(seqs) PROVE Joined(k + 1)
    OBVIOUS
  <2>1. Joined(k)
    BY <1>1
  <2> QED
    BY <1>3, <2>1
<1>6. \A k \in Nat : k >= 1 => k \in S
  <2> HIDE DEF S
  <2> QED
    BY <1>4, <1>5, InductionOverSet
<1>7. Joined(Len(seqs))
    BY <1>1, <1>6
<1> QED
    BY <1>7 DEF Joined, Joins

LEMMA FlattenJoins ==
    ASSUME NEW X, NEW seqs \in Seq(Seq(X)), Len(seqs) >= 1
    PROVE  \E f : /\ DOMAIN f = 1..Len(seqs) /\ Joins(f, seqs)
                  /\ FlattenSeq(seqs) = f[Len(seqs)]
<1> DEFINE flatten[i \in 1..Len(seqs)] == IF i = 1 THEN seqs[i] ELSE flatten[i - 1] \o seqs[i]
<1>0. Len(seqs) \in Nat
    OBVIOUS
<1>1. FlattenSeq(seqs) = flatten[Len(seqs)]
    BY <1>0 DEF FlattenSeq
<1>2. PICK f \in [1..Len(seqs) -> Seq(X)] : Joins(f, seqs)
    BY JoinExists
<1>3. f = [i \in 1..Len(seqs) |-> IF i = 1 THEN seqs[i] ELSE f[i - 1] \o seqs[i]]
  <2>1. ASSUME NEW i \in 1..Len(seqs)
        PROVE  f[i] = IF i = 1 THEN seqs[i] ELSE f[i - 1] \o seqs[i]
    <3>1. CASE i = 1
      BY <1>2, <3>1 DEF Joins
    <3>2. CASE i # 1
      <4>1. i \in 2..Len(seqs)
        BY <3>2
      <4> QED
        BY <1>2, <3>2, <4>1 DEF Joins
    <3> QED
      BY <3>1, <3>2
  <2>2. f = [i \in 1..Len(seqs) |-> f[i]]
    OBVIOUS
  <2> QED
    BY <2>1, <2>2
<1>4. flatten = [i \in 1..Len(seqs) |-> IF i = 1 THEN seqs[i] ELSE flatten[i - 1] \o seqs[i]]
    BY <1>3
<1> HIDE DEF flatten
<1>5. DOMAIN flatten = 1..Len(seqs) /\ flatten[1] = seqs[1]
    BY <1>0, <1>4
<1>6. ASSUME NEW i \in 2..Len(seqs) PROVE flatten[i] = flatten[i - 1] \o seqs[i]
  <2>1. i \in 1..Len(seqs) /\ i # 1
    BY <1>0
  <2> QED
    BY <1>4, <2>1
<1> QED
    BY <1>1, <1>5, <1>6 DEF Joins

(* Joining the first pieces is what comes on the way to joining all.       *)
LEMMA JoinIsOnlyOne ==
    ASSUME NEW X, NEW seqs \in Seq(Seq(X)), NEW p \in 1..Len(seqs), NEW f, NEW g,
           Joins(f, seqs), Joins(g, SubSeq(seqs, 1, p))
    PROVE  g[p] = f[p]
<1> DEFINE S == {k \in Nat : k <= p => g[k] = f[k]}
<1>1. /\ p \in Nat /\ p >= 1 /\ p <= Len(seqs) /\ Len(seqs) \in Nat
      /\ Len(SubSeq(seqs, 1, p)) = p
      /\ \A i \in 1..p : SubSeq(seqs, 1, p)[i] = seqs[i]
    OBVIOUS
<1>2. 1 \in S
    BY <1>1 DEF Joins
<1>3. ASSUME NEW k \in Nat, k >= 1, k \in S PROVE k + 1 \in S
  <2> SUFFICES ASSUME k + 1 <= p PROVE g[k + 1] = f[k + 1]
    BY <1>3
  <2>1. k + 1 \in 2..p /\ k + 1 \in 2..Len(seqs) /\ (k + 1) - 1 = k
    BY <1>1, <1>3
  <2>2. g[k + 1] = g[k] \o seqs[k + 1]
    <3>1. k + 1 \in 2..Len(SubSeq(seqs, 1, p)) /\ SubSeq(seqs, 1, p)[k + 1] = seqs[k + 1]
      BY <1>1, <2>1
    <3>2. g[k + 1] = g[(k + 1) - 1] \o SubSeq(seqs, 1, p)[k + 1]
      BY <3>1 DEF Joins
    <3> QED
      BY <2>1, <3>1, <3>2
  <2>3. f[k + 1] = f[k] \o seqs[k + 1]
    BY <2>1 DEF Joins
  <2>4. g[k] = f[k]
    BY <1>1, <1>3, <2>1
  <2> QED
    BY <2>2, <2>3, <2>4
<1>4. \A k \in Nat : k >= 1 => k \in S
  <2> HIDE DEF S
  <2> QED
    BY <1>2, <1>3, InductionOverSet
<1> QED
    BY <1>1, <1>4

(* The longer one begins with the shorter.                                 *)
Begins(s, t) == Len(s) <= Len(t) /\ \A i \in 1..Len(s) : s[i] = t[i]

LEMMA BeginsIsPrefix ==
    ASSUME NEW X, NEW s \in Seq(X), NEW t \in Seq(X), Begins(s, t)
    PROVE  IsPrefix(s, t)
BY DEF Begins, IsPrefix

LEMMA JoinGrows ==
    ASSUME NEW X, NEW seqs \in Seq(Seq(X)), NEW f, Joins(f, seqs),
           NEW p \in 1..Len(seqs)
    PROVE  /\ \A n \in p..Len(seqs) : f[n] \in Seq(X) /\ Begins(f[p], f[n])
           /\ f[p] \in Seq(X) /\ Begins(seqs[1], f[p])
<1>1. /\ Len(seqs) \in Nat /\ p \in Nat /\ p >= 1 /\ p <= Len(seqs)
      /\ \A i \in 1..Len(seqs) : seqs[i] \in Seq(X)
    OBVIOUS
<1>2. ASSUME NEW q \in 1..Len(seqs), f[q] \in Seq(X)
      PROVE  \A n \in q..Len(seqs) : f[n] \in Seq(X) /\ Begins(f[q], f[n])
  <2> DEFINE S == {n \in Nat : n <= Len(seqs) => f[n] \in Seq(X) /\ Begins(f[q], f[n])}
  <2>1. q \in Nat /\ q \in S
    BY <1>1, <1>2 DEF Begins
  <2>2. ASSUME NEW n \in Nat, n >= q, n \in S PROVE n + 1 \in S
    <3> SUFFICES ASSUME n + 1 <= Len(seqs) PROVE f[n + 1] \in Seq(X) /\ Begins(f[q], f[n + 1])
      BY <2>2
    <3>1. f[n] \in Seq(X) /\ Begins(f[q], f[n])
      BY <1>1, <2>2
    <3>2. n + 1 \in 2..Len(seqs) /\ n + 1 \in 1..Len(seqs) /\ (n + 1) - 1 = n
      BY <1>1, <2>2
    <3>3. f[n + 1] = f[n] \o seqs[n + 1] /\ seqs[n + 1] \in Seq(X)
      BY <1>1, <3>2 DEF Joins
    <3>4. /\ f[n + 1] \in Seq(X) /\ Len(f[n + 1]) >= Len(f[n])
          /\ \A i \in 1..Len(f[n]) : f[n + 1][i] = f[n][i]
      <4> DEFINE s == f[n]
                 t == seqs[n + 1]
      <4>1. s \in Seq(X) /\ t \in Seq(X) /\ f[n + 1] = s \o t
        BY <3>1, <3>3
      <4> HIDE DEF s, t
      <4>2. /\ s \o t \in Seq(X) /\ Len(s \o t) >= Len(s)
            /\ \A i \in 1..Len(s) : (s \o t)[i] = s[i]
        BY <4>1
      <4>3. s = f[n]
        BY DEF s
      <4> QED
        BY <4>1, <4>2, <4>3
    <3> QED
      BY <1>2, <3>1, <3>4 DEF Begins
  <2>3. \A n \in Nat : n >= q => n \in S
    <3> HIDE DEF S
    <3> QED
      BY <2>1, <2>2, InductionOverSet
  <2> QED
    BY <1>1, <2>1, <2>3
<1>3. 1 \in 1..Len(seqs) /\ f[1] = seqs[1] /\ f[1] \in Seq(X)
    BY <1>1 DEF Joins
<1>4. f[p] \in Seq(X) /\ Begins(seqs[1], f[p])
    BY <1>1, <1>2, <1>3
<1> QED
    BY <1>2, <1>4

LEMMA FlattenOfFirst ==
    ASSUME NEW X, NEW seqs \in Seq(Seq(X)), NEW p \in 1..Len(seqs)
    PROVE  /\ IsPrefix(FlattenSeq(SubSeq(seqs, 1, p)), FlattenSeq(seqs))
           /\ Begins(seqs[1], FlattenSeq(SubSeq(seqs, 1, p)))
           /\ FlattenSeq(seqs) \in Seq(X)
<1>1. /\ SubSeq(seqs, 1, p) \in Seq(Seq(X)) /\ Len(SubSeq(seqs, 1, p)) = p
      /\ p >= 1 /\ p \in Nat /\ Len(seqs) \in Nat /\ Len(seqs) >= p
    OBVIOUS
<1>2. PICK f : /\ DOMAIN f = 1..Len(seqs) /\ Joins(f, seqs)
               /\ FlattenSeq(seqs) = f[Len(seqs)]
  <2>1. Len(seqs) >= 1
    BY <1>1
  <2> QED
    BY ONLY <2>1, seqs \in Seq(Seq(X)), FlattenJoins, Zenon
<1>3. PICK g : Joins(g, SubSeq(seqs, 1, p)) /\ FlattenSeq(SubSeq(seqs, 1, p)) = g[p]
  <2> DEFINE first == SubSeq(seqs, 1, p)
  <2>1. first \in Seq(Seq(X)) /\ Len(first) >= 1 /\ Len(first) = p
    BY <1>1
  <2> HIDE DEF first
  <2>2. \E g : /\ DOMAIN g = 1..Len(first) /\ Joins(g, first)
               /\ FlattenSeq(first) = g[Len(first)]
    BY ONLY <2>1, FlattenJoins, Zenon
  <2>3. \E g : Joins(g, first) /\ FlattenSeq(first) = g[p]
    BY <2>1, <2>2
  <2> QED
    BY <2>3 DEF first
<1>4. g[p] = f[p]
    BY <1>2, <1>3, JoinIsOnlyOne
<1>5. /\ f[p] \in Seq(X) /\ Begins(seqs[1], f[p])
      /\ f[Len(seqs)] \in Seq(X) /\ Begins(f[p], f[Len(seqs)])
  <2>1. Len(seqs) \in p..Len(seqs)
    BY <1>1
  <2> QED
    BY <1>2, <2>1, JoinGrows
<1>6. IsPrefix(f[p], f[Len(seqs)])
    BY <1>5, BeginsIsPrefix
<1> QED
    BY <1>2, <1>3, <1>4, <1>5, <1>6

LEMMA FlattenOfOne ==
    ASSUME NEW X, NEW s \in Seq(X)
    PROVE  FlattenSeq(<<s>>) = s
<1>1. <<s>> \in Seq(Seq(X)) /\ Len(<<s>>) = 1 /\ <<s>>[1] = s
    OBVIOUS
<1> DEFINE one == <<s>>
<1>2. one \in Seq(Seq(X)) /\ Len(one) >= 1 /\ Len(one) = 1 /\ one[1] = s
    BY <1>1
<1> HIDE DEF one
<1>3. \E f : /\ DOMAIN f = 1..Len(one) /\ Joins(f, one)
             /\ FlattenSeq(one) = f[Len(one)]
    BY ONLY <1>2, FlattenJoins, Zenon
<1>4. FlattenSeq(one) = s
    BY <1>2, <1>3 DEF Joins
<1> QED
    BY <1>4 DEF one

LEMMA FlattenOfNone == FlattenSeq(<<>>) = <<>>
BY DEF FlattenSeq

-----------------------------------------------------------------------------
(***************************************************************************)
(* DeepSeekResponsesClient.create: what was read is what the service has   *)
(* told, up to the event on the wire.                                      *)
(***************************************************************************)
Said == [pieces: 0..Len(Pieces), done: BOOLEAN, items: 0..Len(Items), ended: BOOLEAN]

(* The service says things in their order.                                 *)
InOrderSaid(h) ==
    /\ h \in Said
    /\ h.pieces > 0 => pieces
    /\ h.done /\ pieces => h.pieces = Len(Pieces)
    /\ h.items = Len(Items) => h.done
    /\ h.ended => h.items = Len(Items)

TextOf(h) ==
    IF h.pieces > 0 THEN SubSeq(Pieces, 1, h.pieces)
    ELSE IF h.done /\ Whole # <<>> THEN <<Whole>> ELSE <<>>

Reflects(g, h) ==
    g = [chunks |-> TextOf(h), items |-> SubSeq(Items, 1, h.items), final |-> h.ended]

OnTheWire ==
    {<<>>, <<"blank">>, <<"data", "blank">>, <<"data", "data", "blank">>,
     <<"event", "data", "blank">>, <<"event", "data", "data", "blank">>}

WireInv ==
    /\ lines \in OnTheWire /\ pending \in Nat
    /\ client = "reading" =>
        /\ lines = <<>> => pending = 0
        /\ lines = <<"blank">> => pending > 0

ReadInv ==
    /\ pieces \in BOOLEAN
    /\ InOrderSaid(told)
    /\ client = "reading" =>
        /\ lines = <<>> => Reflects(got, told)
        /\ lines # <<>> => Reflects(Handled(event), told)
    /\ \E h \in Said : InOrderSaid(h) /\ Reflects(got, h)
    /\ client = "returned" => got.final \/ got.items # <<>> \/ got.chunks # <<>>

StreamInv == WireInv /\ ReadInv

LEMMA ItemsAndPieces ==
    /\ Items \in Seq(STRING) /\ Len(Items) \in Nat /\ Len(Items) >= 1
    /\ Pieces \in Seq(Seq(STRING)) /\ Len(Pieces) \in Nat
    /\ \A i, j \in 1..Len(Items) : Items[i] = Items[j] => i = j
<1>1. Items \in Seq(STRING) /\ Items # <<>> /\ Pieces \in Seq(Seq(STRING))
    BY StreamAssumption
<1>2. \A i, j \in 1..Len(Items) : Items[i] = Items[j] => i = j
    BY <1>1, StreamAssumption DEF IsInjective
<1> QED
    BY <1>1, <1>2

LEMMA HandledEvents ==
    /\ \A d : Handled([type |-> "delta", delta |-> d]) = [got EXCEPT !.chunks = Append(@, d)]
    /\ \A t : Handled([type |-> "text", text |-> t])
            = IF t # <<>> /\ got.chunks = <<>> THEN [got EXCEPT !.chunks = <<t>>] ELSE got
    /\ \A i : Handled([type |-> "item", item |-> i])
            = IF ~Contains(got.items, i) THEN [got EXCEPT !.items = Append(@, i)] ELSE got
    /\ Handled([type |-> "response"]) = [got EXCEPT !.final = TRUE]
<1>1. ASSUME NEW d PROVE Handled([type |-> "delta", delta |-> d]) = [got EXCEPT !.chunks = Append(@, d)]
    BY DEF Handled
<1>2. ASSUME NEW t
      PROVE  Handled([type |-> "text", text |-> t])
            = IF t # <<>> /\ got.chunks = <<>> THEN [got EXCEPT !.chunks = <<t>>] ELSE got
    BY DEF Handled
<1>3. ASSUME NEW i
      PROVE  Handled([type |-> "item", item |-> i])
            = IF ~Contains(got.items, i) THEN [got EXCEPT !.items = Append(@, i)] ELSE got
    BY DEF Handled
<1>4. Handled([type |-> "response"]) = [got EXCEPT !.final = TRUE]
    BY DEF Handled
<1> QED
    BY <1>1, <1>2, <1>3, <1>4

LEMMA LinesRead ==
    /\ Tail(<<"blank">>) = <<>> /\ Head(<<"blank">>) = "blank"
    /\ Tail(<<"data", "blank">>) = <<"blank">> /\ Head(<<"data", "blank">>) = "data"
    /\ Tail(<<"data", "data", "blank">>) = <<"data", "blank">>
    /\ Head(<<"data", "data", "blank">>) = "data"
    /\ Tail(<<"event", "data", "blank">>) = <<"data", "blank">>
    /\ Head(<<"event", "data", "blank">>) = "event"
    /\ Tail(<<"event", "data", "data", "blank">>) = <<"data", "data", "blank">>
    /\ Head(<<"event", "data", "data", "blank">>) = "event"
<1>1. Tail(<<"blank">>) = <<>> /\ Head(<<"blank">>) = "blank"
    OBVIOUS
<1>2. Tail(<<"data", "blank">>) = <<"blank">> /\ Head(<<"data", "blank">>) = "data"
    OBVIOUS
<1>3. /\ Tail(<<"data", "data", "blank">>) = <<"data", "blank">>
      /\ Head(<<"data", "data", "blank">>) = "data"
    OBVIOUS
<1>4. /\ Tail(<<"event", "data", "blank">>) = <<"data", "blank">>
      /\ Head(<<"event", "data", "blank">>) = "event"
    OBVIOUS
<1>5. /\ Tail(<<"event", "data", "data", "blank">>) = <<"data", "data", "blank">>
      /\ Head(<<"event", "data", "data", "blank">>) = "event"
    OBVIOUS
<1> QED
    BY <1>1, <1>2, <1>3, <1>4, <1>5

LEMMA FirstAndOneMore ==
    ASSUME NEW X, NEW s \in Seq(X), NEW k \in Nat, k < Len(s)
    PROVE  Append(SubSeq(s, 1, k), s[k + 1]) = SubSeq(s, 1, k + 1)
<1> DEFINE a == Append(SubSeq(s, 1, k), s[k + 1])
           b == SubSeq(s, 1, k + 1)
<1>0. Len(s) \in Nat /\ SubSeq(s, 1, k) \in Seq(X) /\ s[k + 1] \in X /\ Len(SubSeq(s, 1, k)) = k
      /\ \A i \in 1..k : SubSeq(s, 1, k)[i] = s[i]
    OBVIOUS
<1>1. a \in Seq(X) /\ Len(a) = k + 1 /\ a[k + 1] = s[k + 1] /\ \A i \in 1..k : a[i] = s[i]
    BY <1>0
<1>2. b \in Seq(X) /\ Len(b) = k + 1 /\ \A i \in 1..k + 1 : b[i] = s[i]
    BY <1>0
<1> HIDE DEF a, b
<1>3. \A i \in 1..k + 1 : a[i] = b[i]
    BY <1>1, <1>2
<1>4. a = b
    BY <1>1, <1>2, <1>3
<1> QED
    BY <1>4 DEF a, b

(* The handler adds what it is told to what it has.                        *)
LEMMA ReadsWhatIsTold ==
    ASSUME NEW h, InOrderSaid(h), Reflects(got, h), pieces \in BOOLEAN
    PROVE  /\ pieces /\ h.pieces < Len(Pieces) =>
                Reflects(Handled([type |-> "delta", delta |-> Pieces[h.pieces + 1]]),
                         [h EXCEPT !.pieces = @ + 1])
           /\ ~h.done /\ (pieces => h.pieces = Len(Pieces)) =>
                Reflects(Handled([type |-> "text", text |-> Whole]), [h EXCEPT !.done = TRUE])
           /\ h.items < Len(Items) =>
                Reflects(Handled([type |-> "item", item |-> Items[h.items + 1]]),
                         [h EXCEPT !.items = @ + 1])
           /\ \A i \in 1..h.items : Handled([type |-> "item", item |-> Items[i]]) = got
           /\ Reflects(Handled([type |-> "response"]), [h EXCEPT !.ended = TRUE])
<1>1. /\ h \in Said /\ h.pieces \in 0..Len(Pieces) /\ h.items \in 0..Len(Items)
      /\ Len(Pieces) \in Nat /\ Len(Items) \in Nat
      /\ Pieces \in Seq(Seq(STRING)) /\ Items \in Seq(STRING)
    BY ItemsAndPieces DEF InOrderSaid, Said
<1>2. /\ got = [chunks |-> TextOf(h), items |-> SubSeq(Items, 1, h.items), final |-> h.ended]
      /\ got.chunks = TextOf(h) /\ got.items = SubSeq(Items, 1, h.items)
    BY DEF Reflects
<1>3. ASSUME pieces, h.pieces < Len(Pieces)
      PROVE  Reflects(Handled([type |-> "delta", delta |-> Pieces[h.pieces + 1]]),
                      [h EXCEPT !.pieces = @ + 1])
  <2> DEFINE k == [h EXCEPT !.pieces = @ + 1]
             e == [type |-> "delta", delta |-> Pieces[h.pieces + 1]]
  <2>1. k.pieces = h.pieces + 1 /\ k.done = h.done /\ k.items = h.items /\ k.ended = h.ended
    BY <1>1 DEF Said
  <2>2. TextOf(h) = SubSeq(Pieces, 1, h.pieces)
    <3>1. ~h.done
      BY <1>1, <1>3 DEF InOrderSaid
    <3>2. h.pieces = 0 => SubSeq(Pieces, 1, h.pieces) = <<>>
      BY <1>1
    <3> QED
      BY <1>1, <3>1, <3>2 DEF TextOf
  <2>3. TextOf(k) = Append(TextOf(h), Pieces[h.pieces + 1])
    <3>1. Append(SubSeq(Pieces, 1, h.pieces), Pieces[h.pieces + 1]) = SubSeq(Pieces, 1, h.pieces + 1)
      BY <1>1, <1>3, FirstAndOneMore
    <3>2. TextOf(k) = SubSeq(Pieces, 1, h.pieces + 1)
      <4> HIDE DEF k
      <4> QED
        BY <1>1, <2>1 DEF TextOf
    <3> QED
      BY <2>2, <3>1, <3>2
  <2>4. Handled(e) = [got EXCEPT !.chunks = Append(@, Pieces[h.pieces + 1])]
    BY HandledEvents
  <2> HIDE DEF k, e
  <2>5. Handled(e) = [chunks |-> Append(TextOf(h), Pieces[h.pieces + 1]),
                      items |-> SubSeq(Items, 1, h.items), final |-> h.ended]
    BY ONLY <1>2, <2>4
  <2>6. Reflects(Handled(e), k)
    BY ONLY <2>1, <2>3, <2>5 DEF Reflects
  <2> QED
    BY <2>6 DEF k, e
<1>4. ASSUME ~h.done, pieces => h.pieces = Len(Pieces)
      PROVE  Reflects(Handled([type |-> "text", text |-> Whole]), [h EXCEPT !.done = TRUE])
  <2> DEFINE k == [h EXCEPT !.done = TRUE]
             e == [type |-> "text", text |-> Whole]
  <2>1. k.pieces = h.pieces /\ k.done = TRUE /\ k.items = h.items /\ k.ended = h.ended
    BY <1>1 DEF Said
  <2>2. Handled(e) = IF Whole # <<>> /\ got.chunks = <<>>
                     THEN [got EXCEPT !.chunks = <<Whole>>] ELSE got
    BY HandledEvents
  <2> HIDE DEF k, e
  <2>3. ASSUME h.pieces > 0 PROVE Reflects(Handled(e), k)
    <3>1. got.chunks # <<>>
      <4>1. Len(SubSeq(Pieces, 1, h.pieces)) = h.pieces
        BY <1>1
      <4>2. got.chunks = SubSeq(Pieces, 1, h.pieces)
        BY <1>2, <2>3 DEF TextOf
      <4> QED
        BY <1>1, <2>3, <4>1, <4>2
    <3>2. TextOf(k) = TextOf(h)
      BY <2>1, <2>3 DEF TextOf
    <3>3. Handled(e) = got
      BY <2>2, <3>1
    <3> QED
      BY ONLY <1>2, <2>1, <3>2, <3>3 DEF Reflects
  <2>4. ASSUME h.pieces = 0 PROVE Reflects(Handled(e), k)
    <3>1. got.chunks = <<>>
      BY <1>2, <1>4, <2>4 DEF TextOf
    <3>2. TextOf(k) = IF Whole # <<>> THEN <<Whole>> ELSE <<>>
      BY <2>1, <2>4 DEF TextOf
    <3>3. TextOf(h) = <<>>
      BY <1>2, <3>1
    <3>4. Handled(e) = [chunks |-> IF Whole # <<>> THEN <<Whole>> ELSE <<>>,
                        items |-> SubSeq(Items, 1, h.items), final |-> h.ended]
      <4>1. CASE Whole # <<>>
        BY ONLY <1>2, <2>2, <3>1, <4>1
      <4>2. CASE Whole = <<>>
        BY ONLY <1>2, <2>2, <3>3, <4>2
      <4> QED
        BY <4>1, <4>2
    <3> QED
      BY ONLY <2>1, <3>2, <3>4 DEF Reflects
  <2>5. h.pieces > 0 \/ h.pieces = 0
    BY <1>1
  <2>6. Reflects(Handled(e), k)
    BY ONLY <2>3, <2>4, <2>5
  <2> QED
    BY <2>6 DEF k, e
<1>5. \A i \in 1..Len(Items) : Contains(got.items, Items[i]) <=> i <= h.items
  <2> TAKE i \in 1..Len(Items)
  <2>1. Len(got.items) = h.items /\ \A j \in 1..h.items : got.items[j] = Items[j]
    BY <1>1, <1>2
  <2>2. Contains(got.items, Items[i]) <=> \E j \in 1..h.items : got.items[j] = Items[i]
    BY <2>1 DEF Contains
  <2>3. \A j \in 1..h.items : got.items[j] = Items[i] => j = i
    BY <1>1, <2>1, ItemsAndPieces
  <2> QED
    BY <1>1, <2>1, <2>2, <2>3
<1>6. ASSUME h.items < Len(Items)
      PROVE  Reflects(Handled([type |-> "item", item |-> Items[h.items + 1]]),
                      [h EXCEPT !.items = @ + 1])
  <2> DEFINE k == [h EXCEPT !.items = @ + 1]
             e == [type |-> "item", item |-> Items[h.items + 1]]
  <2>1. k.pieces = h.pieces /\ k.done = h.done /\ k.items = h.items + 1 /\ k.ended = h.ended
    BY <1>1 DEF Said
  <2>2. ~Contains(got.items, Items[h.items + 1])
    BY <1>1, <1>5, <1>6
  <2>3. Handled(e) = [got EXCEPT !.items = Append(@, Items[h.items + 1])]
    BY <2>2, HandledEvents
  <2>4. Append(SubSeq(Items, 1, h.items), Items[h.items + 1]) = SubSeq(Items, 1, h.items + 1)
    BY <1>1, <1>6, FirstAndOneMore
  <2> HIDE DEF k, e
  <2>5. TextOf(k) = TextOf(h)
    BY <2>1 DEF TextOf
  <2>6. Handled(e) = [chunks |-> TextOf(h),
                      items |-> Append(SubSeq(Items, 1, h.items), Items[h.items + 1]),
                      final |-> h.ended]
    BY ONLY <1>2, <2>3
  <2>7. Reflects(Handled(e), k)
    BY ONLY <2>1, <2>4, <2>5, <2>6 DEF Reflects
  <2> QED
    BY <2>7 DEF k, e
<1>7. ASSUME NEW i \in 1..h.items PROVE Handled([type |-> "item", item |-> Items[i]]) = got
  <2>1. Contains(got.items, Items[i])
    BY <1>1, <1>5
  <2> QED
    BY <2>1, HandledEvents
<1>8. Reflects(Handled([type |-> "response"]), [h EXCEPT !.ended = TRUE])
  <2> DEFINE k == [h EXCEPT !.ended = TRUE]
  <2>1. k.pieces = h.pieces /\ k.done = h.done /\ k.items = h.items /\ k.ended = TRUE
    BY <1>1 DEF Said
  <2>2. Handled([type |-> "response"]) = [got EXCEPT !.final = TRUE]
    BY HandledEvents
  <2> HIDE DEF k
  <2>3. TextOf(k) = TextOf(h)
    BY <2>1 DEF TextOf
  <2>4. Reflects(Handled([type |-> "response"]), k)
    BY <1>2, <2>1, <2>2, <2>3 DEF Reflects
  <2> QED
    BY <2>4 DEF k
<1> QED
    BY <1>3, <1>4, <1>6, <1>7, <1>8

(* An event goes on the wire: what is to come of it reflects what is told. *)
LEMMA SayingIsOrdered ==
    ASSUME InOrderSaid(told), Reflects(got, told), pieces \in BOOLEAN,
           SendPiece \/ SendText \/ SendItem \/ RepeatItem \/ SendResponse
    PROVE  InOrderSaid(told)' /\ Reflects(Handled(event), told)'
<1>1. /\ told \in Said /\ Len(Pieces) \in Nat /\ Len(Items) \in Nat
      /\ told.pieces \in 0..Len(Pieces) /\ told.items \in 0..Len(Items)
    BY ItemsAndPieces DEF InOrderSaid, Said
<1>2. pieces' = pieces /\ got' = got
    BY DEF SendPiece, SendText, SendItem, RepeatItem, SendResponse, Sends
<1>3. \A e, h : Reflects(Handled(e), h)' <=> Reflects(Handled(e), h)
    BY <1>2 DEF Handled, Reflects
<1> SUFFICES InOrderSaid(told') /\ Reflects(Handled(event'), told')
    BY <1>2, <1>3 DEF InOrderSaid, Handled, Reflects
<1>4. CASE SendPiece
  <2> DEFINE t == [told EXCEPT !.pieces = @ + 1]
  <2>1. told' = t /\ event' = [type |-> "delta", delta |-> Pieces[told.pieces + 1]]
    BY <1>4 DEF SendPiece, Sends
  <2>2. Reflects(Handled([type |-> "delta", delta |-> Pieces[told.pieces + 1]]), t)
    BY <1>4, ReadsWhatIsTold DEF SendPiece, InOrderSaid
  <2>3. InOrderSaid(t)
    BY <1>1, <1>4 DEF SendPiece, InOrderSaid, Said
  <2> HIDE DEF t
  <2> QED
    BY <2>1, <2>2, <2>3
<1>5. CASE SendText
  <2> DEFINE t == [told EXCEPT !.done = TRUE]
  <2>1. told' = t /\ event' = [type |-> "text", text |-> Whole]
    BY <1>5 DEF SendText, Sends
  <2>2. Reflects(Handled([type |-> "text", text |-> Whole]), t)
    BY <1>5, ReadsWhatIsTold DEF SendText, InOrderSaid
  <2>3. InOrderSaid(t)
    BY <1>1, <1>5 DEF SendText, InOrderSaid, Said
  <2> HIDE DEF t
  <2> QED
    BY <2>1, <2>2, <2>3
<1>6. CASE SendItem
  <2> DEFINE t == [told EXCEPT !.items = @ + 1]
  <2>1. told' = t /\ event' = [type |-> "item", item |-> Items[told.items + 1]]
    BY <1>6 DEF SendItem, Sends
  <2>2. Reflects(Handled([type |-> "item", item |-> Items[told.items + 1]]), t)
    BY <1>6, ReadsWhatIsTold DEF SendItem, InOrderSaid
  <2>3. InOrderSaid(t)
    BY <1>1, <1>6 DEF SendItem, InOrderSaid, Said
  <2> HIDE DEF t
  <2> QED
    BY <2>1, <2>2, <2>3
<1>7. CASE RepeatItem
  <2>1. PICK i \in 1..told.items : told' = told /\ event' = [type |-> "item", item |-> Items[i]]
    BY <1>7 DEF RepeatItem, Sends
  <2>2. Handled(event') = got
    BY <2>1, ReadsWhatIsTold
  <2> QED
    BY <2>1, <2>2
<1>8. CASE SendResponse
  <2> DEFINE t == [told EXCEPT !.ended = TRUE]
  <2>1. told' = t /\ event' = [type |-> "response"]
    BY <1>8 DEF SendResponse, Sends
  <2>2. Reflects(Handled([type |-> "response"]), t)
    BY <1>8, ReadsWhatIsTold DEF SendResponse, InOrderSaid
  <2>3. InOrderSaid(t)
    BY <1>1, <1>8 DEF SendResponse, InOrderSaid, Said
  <2> HIDE DEF t
  <2> QED
    BY <2>1, <2>2, <2>3
<1> QED
    BY <1>4, <1>5, <1>6, <1>7, <1>8

THEOREM StreamInvHolds == StreamSpec => []StreamInv
<1>1. StreamInit => StreamInv
  <2> SUFFICES ASSUME StreamInit PROVE StreamInv
    OBVIOUS
  <2>1. WireInv
    BY DEF StreamInit, WireInv, OnTheWire
  <2>2. InOrderSaid(told) /\ told \in Said /\ pieces \in BOOLEAN
    BY ItemsAndPieces DEF StreamInit, InOrderSaid, Said
  <2>3. Reflects(got, told)
    <3>1. SubSeq(Items, 1, 0) = <<>>
      BY ItemsAndPieces
    <3>2. TextOf(told) = <<>>
      BY DEF StreamInit, TextOf
    <3> QED
      BY <3>1, <3>2 DEF StreamInit, Reflects
  <2> QED
    BY <2>1, <2>2, <2>3 DEF StreamInv, ReadInv, StreamInit
<1>2. ASSUME StreamInv, [StreamNext]_streamVars PROVE StreamInv'
  <2> USE <1>2
  <2>0. StreamInv => /\ WireInv /\ pieces \in BOOLEAN /\ InOrderSaid(told)
    BY DEF StreamInv, ReadInv
  <2>1. ASSUME SendPiece \/ SendText \/ SendItem \/ RepeatItem \/ SendResponse
        PROVE  StreamInv'
    <3>1. /\ client = "reading" /\ lines = <<>>
          /\ lines' \in {<<"event", "data", "blank">>, <<"event", "data", "data", "blank">>}
          /\ UNCHANGED <<pieces, pending, client, got>>
      BY <2>1 DEF SendPiece, SendText, SendItem, RepeatItem, SendResponse, Sends
    <3>2. Reflects(got, told) /\ pending = 0
      BY <3>1 DEF StreamInv, ReadInv, WireInv
    <3>3. InOrderSaid(told)' /\ Reflects(Handled(event), told)'
      BY <2>0, <2>1, <3>2, SayingIsOrdered
    <3>4. lines' # <<>> /\ lines' # <<"blank">> /\ lines' \in OnTheWire
      BY <3>1 DEF OnTheWire
    <3>5. WireInv'
      BY <3>1, <3>2, <3>4 DEF WireInv
    <3>6. (\E h \in Said : InOrderSaid(h) /\ Reflects(got, h))'
      BY <3>1 DEF StreamInv, ReadInv, InOrderSaid, Reflects, TextOf, Said, Whole
    <3> QED
      BY <2>0, <3>1, <3>3, <3>4, <3>5, <3>6 DEF StreamInv, ReadInv
  <2>2. CASE ReadLine
    <3>1. /\ client = "reading" /\ lines # <<>> /\ lines' = Tail(lines)
          /\ UNCHANGED <<pieces, told, repeats, event, client>>
      BY <2>2 DEF ReadLine
    <3>2. Reflects(Handled(event), told)
      BY <3>1 DEF StreamInv, ReadInv
    <3>3. InOrderSaid(told)' /\ told \in Said
      BY <2>0, <3>1 DEF InOrderSaid
    <3>4. \/ /\ Head(lines) # "blank" /\ lines' # <<>> /\ lines' \in OnTheWire
             /\ lines' = <<"blank">> => Head(lines) = "data"
          \/ lines = <<"blank">> /\ Head(lines) = "blank" /\ lines' = <<>>
      <4>1. CASE lines = <<"blank">>
        BY <3>1, <4>1, LinesRead
      <4>2. CASE lines = <<"data", "blank">>
        BY <3>1, <4>2, LinesRead DEF OnTheWire
      <4>3. CASE lines = <<"data", "data", "blank">>
        BY <3>1, <4>3, LinesRead DEF OnTheWire
      <4>5. CASE lines = <<"event", "data", "blank">>
        BY <3>1, <4>5, LinesRead DEF OnTheWire
      <4>4. CASE lines = <<"event", "data", "data", "blank">>
        BY <3>1, <4>4, LinesRead DEF OnTheWire
      <4> QED
        BY <2>0, <3>1, <4>1, <4>2, <4>3, <4>4, <4>5 DEF WireInv, OnTheWire
    <3>5. CASE Head(lines) # "blank"
      <4>1. got' = got /\ lines' # <<>> /\ lines' \in OnTheWire
        BY <2>2, <3>4, <3>5 DEF ReadLine
      <4>2. Reflects(Handled(event), told)'
        BY <3>1, <3>2, <4>1 DEF Reflects, Handled, TextOf, Whole
      <4>3. (\E h \in Said : InOrderSaid(h) /\ Reflects(got, h))'
        BY <3>1, <4>1 DEF StreamInv, ReadInv, InOrderSaid, Reflects, TextOf, Said, Whole
      <4>4. WireInv'
        BY <2>0, <2>2, <3>1, <3>4, <3>5, <4>1 DEF WireInv, ReadLine
      <4> QED
        BY <2>0, <3>1, <3>3, <4>1, <4>2, <4>3, <4>4 DEF StreamInv, ReadInv
    <3>6. CASE Head(lines) = "blank"
      <4>1. /\ lines = <<"blank">> /\ lines' = <<>> /\ pending # 0
            /\ got' = Handled(event) /\ pending' = 0
        BY <2>0, <2>2, <3>1, <3>4, <3>6 DEF WireInv, ReadLine, Flushed
      <4>2. Reflects(got, told)'
        BY <3>1, <3>2, <4>1 DEF Reflects, TextOf, Whole
      <4>3. WireInv'
        BY <4>1 DEF WireInv, OnTheWire
      <4> QED
        BY <2>0, <3>1, <3>3, <4>1, <4>2, <4>3 DEF StreamInv, ReadInv
    <3> QED
      BY <3>5, <3>6
  <2>3. CASE StreamEnds
    <3>1. /\ client = "reading" /\ client' \in {"raised", "returned"}
          /\ UNCHANGED <<pieces, told, repeats, event, lines>>
          /\ pending' \in Nat
      BY <2>0, <2>3 DEF StreamEnds, WireInv
    <3>2. WireInv'
      BY <2>0, <3>1 DEF WireInv
    <3>3. InOrderSaid(told)' /\ told \in Said
      BY <2>0, <3>1 DEF InOrderSaid
    <3>4. \E h \in Said : InOrderSaid(h) /\ Reflects(got', h)
      <4>1. CASE got' = got
        BY <4>1 DEF StreamInv, ReadInv
      <4>2. CASE got' # got
        <5>1. pending # 0 /\ got' = Handled(event)
          BY <2>3, <4>2 DEF StreamEnds, Flushed
        <5>2. lines # <<>>
          BY <2>0, <3>1, <5>1 DEF WireInv
        <5>3. Reflects(got', told)
          BY <3>1, <5>1, <5>2 DEF StreamInv, ReadInv
        <5> QED
          BY <2>0, <3>3, <5>3
      <4> QED
        BY <4>1, <4>2
    <3>5. (\E h \in Said : InOrderSaid(h) /\ Reflects(got, h))'
      BY <3>1, <3>4 DEF InOrderSaid, Reflects, TextOf, Said, Whole
    <3>6. client' = "returned" => got'.final \/ got'.items # <<>> \/ got'.chunks # <<>>
      BY <2>3 DEF StreamEnds
    <3> QED
      BY <2>0, <3>1, <3>2, <3>3, <3>5, <3>6 DEF StreamInv, ReadInv
  <2>4. CASE UNCHANGED streamVars
    <3>1. UNCHANGED <<pieces, told, repeats, event, lines, pending, client, got>>
      BY <2>4 DEF streamVars
    <3>2. WireInv'
      BY <2>0, <3>1 DEF WireInv
    <3>3. InOrderSaid(told)' /\ (Reflects(got, told)' <=> Reflects(got, told))
      BY <2>0, <3>1 DEF InOrderSaid, Reflects, TextOf, Whole
    <3>4. Reflects(Handled(event), told)' <=> Reflects(Handled(event), told)
      <4>1. Handled(event)' = Handled(event)
        BY <3>1 DEF Handled
      <4> QED
        BY <3>1, <4>1 DEF Reflects, TextOf, Whole
    <3>5. (\E h \in Said : InOrderSaid(h) /\ Reflects(got, h))'
      BY <3>1 DEF StreamInv, ReadInv, InOrderSaid, Reflects, TextOf, Said, Whole
    <3> QED
      BY <2>0, <3>1, <3>2, <3>3, <3>4, <3>5 DEF StreamInv, ReadInv
  <2> QED
    BY <2>1, <2>2, <2>3, <2>4 DEF StreamNext
<1> QED
  BY <1>1, <1>2, PTL DEF StreamSpec

LEMMA WholeIsText == Whole \in Seq(STRING) /\ (Len(Pieces) = 0 => Whole = <<>>)
<1>1. Pieces \in Seq(Seq(STRING)) /\ Len(Pieces) \in Nat
    BY ItemsAndPieces
<1>2. CASE Len(Pieces) = 0
  <2>1. Pieces = <<>>
    BY <1>1, <1>2
  <2>2. Whole = <<>>
    BY <2>1, FlattenOfNone DEF Whole
  <2> QED
    BY <2>2
<1>3. CASE Len(Pieces) # 0
  <2>1. 1 \in 1..Len(Pieces)
    BY <1>1, <1>3
  <2>2. FlattenSeq(Pieces) \in Seq(STRING)
    BY <1>1, <2>1, FlattenOfFirst
  <2> QED
    BY <1>3, <2>2 DEF Whole
<1> QED
    BY <1>2, <1>3

(* What was said of the text is a beginning of it, and all of it once the  *)
(* text was said to be done.                                               *)
LEMMA TextSaid ==
    ASSUME NEW h, InOrderSaid(h)
    PROVE  /\ IsPrefix(FlattenSeq(TextOf(h)), Whole)
           /\ h.done => FlattenSeq(TextOf(h)) = Whole
           /\ TextOf(h) # <<>> /\ (\A i \in DOMAIN Pieces : Pieces[i] # <<>>) =>
                FlattenSeq(TextOf(h)) # <<>>
<1>1. /\ h.pieces \in 0..Len(Pieces) /\ h.pieces \in Nat
      /\ Pieces \in Seq(Seq(STRING)) /\ Len(Pieces) \in Nat
    BY ItemsAndPieces DEF InOrderSaid, Said
<1>2. Whole \in Seq(STRING)
    BY WholeIsText
<1>3. CASE h.pieces > 0
  <2> DEFINE said == FlattenSeq(SubSeq(Pieces, 1, h.pieces))
  <2>1. TextOf(h) = SubSeq(Pieces, 1, h.pieces) /\ h.pieces \in 1..Len(Pieces)
    BY <1>1, <1>3 DEF TextOf
  <2>2. IsPrefix(said, Whole) /\ Begins(Pieces[1], said)
    BY <1>1, <2>1, FlattenOfFirst DEF Whole
  <2>3. h.done => said = Whole
    <3>1. h.done => h.pieces = Len(Pieces)
      BY <1>3 DEF InOrderSaid
    <3>2. h.pieces = Len(Pieces) => SubSeq(Pieces, 1, h.pieces) = Pieces
      BY <1>1
    <3> QED
      BY <3>1, <3>2 DEF Whole
  <2>4. (\A i \in DOMAIN Pieces : Pieces[i] # <<>>) => said # <<>>
    <3> SUFFICES ASSUME \A i \in DOMAIN Pieces : Pieces[i] # <<>> PROVE said # <<>>
      OBVIOUS
    <3>1. 1 \in DOMAIN Pieces /\ Pieces[1] \in Seq(STRING)
      BY <1>1, <2>1
    <3>2. Len(Pieces[1]) \in Nat /\ Len(Pieces[1]) # 0
      BY <3>1
    <3>3. Len(said) # 0
      <4> HIDE DEF said
      <4>1. Len(Pieces[1]) <= Len(said)
        BY <2>2 DEF Begins
      <4>2. said = <<>> => Len(said) = 0
        OBVIOUS
      <4> QED
        BY <3>2, <4>1
    <3> QED
      BY <3>3
  <2> QED
    BY <2>1, <2>2, <2>3, <2>4
<1>4. CASE h.pieces = 0 /\ h.done /\ Whole # <<>>
  <2>1. TextOf(h) = <<Whole>>
    BY <1>4 DEF TextOf
  <2>2. FlattenSeq(<<Whole>>) = Whole
    BY <1>2, FlattenOfOne
  <2>3. IsPrefix(Whole, Whole)
    BY <1>2, BeginsIsPrefix DEF Begins
  <2> QED
    BY <1>4, <2>1, <2>2, <2>3
<1>5. CASE h.pieces = 0 /\ ~(h.done /\ Whole # <<>>)
  <2>1. TextOf(h) = <<>> /\ FlattenSeq(TextOf(h)) = <<>>
    BY <1>5, FlattenOfNone DEF TextOf
  <2>2. IsPrefix(<<>>, Whole)
    <3>1. <<>> \in Seq(STRING) /\ Begins(<<>>, Whole)
      BY <1>2 DEF Begins
    <3> QED
      BY ONLY <1>2, <3>1, BeginsIsPrefix
  <2> QED
    BY <1>5, <2>1, <2>2
<1> QED
    BY <1>1, <1>3, <1>4, <1>5

(* A response that is returned is a beginning of what the service said,    *)
(* nothing of it twice, whole once its end or its message came.            *)
THEOREM AnswersAreWhole == StreamSpec => []AnswerIsWhole
<1>1. StreamInv => AnswerIsWhole
  <2> SUFFICES ASSUME StreamInv, client = "returned" PROVE AnswerIsWhole
    BY DEF AnswerIsWhole
  <2>1. PICK h \in Said : InOrderSaid(h) /\ Reflects(got, h)
    BY DEF StreamInv, ReadInv
  <2>2. /\ got.chunks = TextOf(h) /\ got.items = SubSeq(Items, 1, h.items)
        /\ got.final = h.ended /\ h.ended \in BOOLEAN
    BY <2>1 DEF Reflects, Said
  <2>3. /\ h.items \in 0..Len(Items) /\ Items \in Seq(STRING)
        /\ Len(Items) \in Nat /\ Len(Items) >= 1
    BY <2>1, ItemsAndPieces DEF Said
  <2>4. /\ got.items \in Seq(STRING) /\ Len(got.items) = h.items
        /\ \A j \in 1..h.items : got.items[j] = Items[j]
    BY <2>2, <2>3
  <2>5. IsPrefix(got.items, Items)
    <3>1. Begins(got.items, Items)
      BY <2>3, <2>4 DEF Begins
    <3> QED
      BY <2>3, <2>4, <3>1, BeginsIsPrefix
  <2>6. got.final => h.items = Len(Items) /\ got.items = Items
    <3>1. got.final => h.items = Len(Items)
      BY <2>1, <2>2 DEF InOrderSaid
    <3>2. SubSeq(Items, 1, Len(Items)) = Items
      BY <2>3
    <3> QED
      BY <2>2, <3>1, <3>2
  <2>7. Contains(got.items, Last(Items)) => h.items = Len(Items)
    <3> SUFFICES ASSUME Contains(got.items, Last(Items)) PROVE h.items = Len(Items)
      OBVIOUS
    <3>1. PICK j \in 1..h.items : Items[j] = Items[Len(Items)]
      BY <2>4 DEF Contains, Last
    <3>2. j \in 1..Len(Items) /\ Len(Items) \in 1..Len(Items)
      BY <2>3
    <3>3. j = Len(Items)
      BY <3>1, <3>2, ItemsAndPieces
    <3> QED
      BY <2>3, <3>3
  <2>8. h.items = Len(Items) => h.done
    BY <2>1 DEF InOrderSaid
  <2>9. /\ IsPrefix(ReturnedText, Whole)
        /\ got.final \/ Contains(got.items, Last(Items)) => ReturnedText = Whole
    <3>1. IsPrefix(Whole, Whole)
      BY WholeIsText, BeginsIsPrefix DEF Begins
    <3> QED
      BY <2>1, <2>2, <2>7, <2>8, <3>1, TextSaid DEF ReturnedText
  <2>10. (\A i \in DOMAIN Pieces : Pieces[i] # <<>>) => got.items # <<>> \/ ReturnedText # <<>>
    <3>1. CASE got.final
      <4>1. Items # <<>>
        BY <2>3
      <4> QED
        BY <2>6, <3>1, <4>1
    <3>2. CASE ~got.final
      <4>1. got.items # <<>> \/ TextOf(h) # <<>>
        BY <2>2, <3>2 DEF StreamInv, ReadInv
      <4>2. ReturnedText = FlattenSeq(TextOf(h))
        BY <2>2, <3>2 DEF ReturnedText
      <4> QED
        BY <2>1, <4>1, <4>2, TextSaid
    <3> QED
      BY <3>1, <3>2
  <2> QED
    BY <2>5, <2>6, <2>9, <2>10 DEF AnswerIsWhole
<1> QED
  BY <1>1, StreamInvHolds, PTL
===============================================================================
