-------------------------- MODULE JudgmentBoundariesProofs --------------------------
(***************************************************************************)
(* What the page ranges of JudgmentBoundaries are, for a document of any   *)
(* length over any pages, any hint and any limit of pages.                 *)
(***************************************************************************)
EXTENDS JudgmentBoundaries, Counting

-----------------------------------------------------------------------------
(* The least and the greatest element of a set, which the operators of     *)
(* JudgmentBoundaries take by Min and Max.                                 *)

LEMMA LeastOfSome ==
    ASSUME NEW S, S \subseteq Nat, S # {}
    PROVE  /\ Min(S) \in S
           /\ \A i \in S : Min(S) <= i
<1>1. \E i \in S : \A j \in S : i <= j
    BY LeastExists
<1> QED
    BY <1>1 DEF Min

LEMMA GreatestOfSome ==
    ASSUME NEW S, NEW bound \in Nat, S \subseteq 0..bound, S # {}
    PROVE  /\ Max(S) \in S
           /\ \A i \in S : i <= Max(S)
<1> DEFINE below == {bound - i : i \in S}
<1>1. below \subseteq Nat /\ below # {}
  <2>1. \A i \in S : bound - i \in Nat
    OBVIOUS
  <2> QED
    BY <2>1
<1>2. PICK d \in below : \A e \in below : d <= e
    BY <1>1, LeastExists
<1>3. PICK i \in S : d = bound - i
    OBVIOUS
<1>4. \A j \in S : j <= i
  <2> SUFFICES ASSUME NEW j \in S PROVE j <= i
    OBVIOUS
  <2>1. d <= bound - j
    BY <1>2
  <2> QED
    BY <2>1, <1>3
<1> QED
    BY <1>4 DEF Max

LEMMA LeastOfTwo ==
    ASSUME NEW a \in Int, NEW b \in Int
    PROVE  Min({a, b}) \in {a, b} /\ Min({a, b}) <= a /\ Min({a, b}) <= b
<1>1. CASE a <= b
    BY <1>1 DEF Min
<1>2. CASE b <= a
    BY <1>2 DEF Min
<1> QED
    BY <1>1, <1>2

LEMMA GreatestOfTwo ==
    ASSUME NEW a \in Int, NEW b \in Int
    PROVE  Max({a, b}) \in {a, b} /\ a <= Max({a, b}) /\ b <= Max({a, b})
<1>1. CASE a <= b
    BY <1>1 DEF Max
<1>2. CASE b <= a
    BY <1>2 DEF Max
<1> QED
    BY <1>1, <1>2

LEMMA LeastOfThree ==
    ASSUME NEW a \in Int, NEW b \in Int, NEW c \in Int
    PROVE  /\ Min({a, b, c}) \in {a, b, c}
           /\ Min({a, b, c}) <= a /\ Min({a, b, c}) <= b /\ Min({a, b, c}) <= c
<1>1. \E i \in {a, b, c} : \A j \in {a, b, c} : i <= j
    OBVIOUS
<1> QED
    BY <1>1 DEF Min

(* Of some pages one is the nearest to a hint.                             *)
LEMMA NearestIsOne ==
    ASSUME NEW S, S \subseteq Nat, S # {}, NEW hint \in Nat
    PROVE  Nearest(S, hint) \in S
<1> DEFINE distances == {Distance(i, hint) : i \in S}
<1>1. \A i \in S : Distance(i, hint) \in Nat
    BY DEF Distance
<1>2. distances \subseteq Nat /\ distances # {}
    BY <1>1
<1>3. PICK d \in distances : \A e \in distances : d <= e
    BY <1>2, LeastExists
<1> DEFINE near == {i \in S : Distance(i, hint) = d}
<1>4. near \subseteq Nat /\ near # {}
    OBVIOUS
<1>5. PICK i \in near : \A j \in near : i <= j
    BY <1>4, LeastExists
<1>6. ASSUME NEW j \in S
      PROVE  \/ Distance(i, hint) < Distance(j, hint)
             \/ Distance(i, hint) = Distance(j, hint) /\ i <= j
  <2>1. Distance(j, hint) \in Nat /\ d <= Distance(j, hint) /\ d \in Nat
    BY <1>1, <1>2, <1>3
  <2>2. CASE Distance(j, hint) = d
    BY <2>2, <1>5
  <2>3. CASE Distance(j, hint) # d
    BY <2>1, <2>3
  <2> QED
    BY <2>2, <2>3
<1> HIDE DEF near, distances
<1>7. i \in S
    BY DEF near
<1> QED
    BY <1>6, <1>7 DEF Nearest

(* Cutting off decoration leaves at least the first page, and adds none.   *)
LEMMA TrimmedInside ==
    ASSUME NEW some, NEW start \in Nat, NEW end \in Nat, start <= end
    PROVE  Trimmed(some, start, end) \in start..end
<1> DEFINE kept == {i \in start..end : i = start \/ ~Decorative(some[i])}
<1>1. kept \subseteq 0..end /\ kept # {}
    OBVIOUS
<1>2. Max(kept) \in kept
    BY <1>1, GreatestOfSome
<1>3. Trimmed(some, start, end) = Max(kept)
    BY DEF Trimmed
<1> QED
    BY <1>2, <1>3

-----------------------------------------------------------------------------
(* The ranges of the bot.                                                  *)

(* What is promised of a range: its type, and one judgment.                *)
IsRangeOf(pages, range) ==
    /\ range \in PageRange
    /\ range # NoRange => range.start \in DOMAIN pages
    /\ HoldsOneJudgment(pages, range)

LEMMA NoRangeIsRange ==
    ASSUME NEW pages
    PROVE  IsRangeOf(pages, NoRange)
BY DEF IsRangeOf, PageRange, NoRange, HoldsOneJudgment

(* A range from a header that ends before every other header is one        *)
(* judgment, whatever is cut off at its end.                               *)
LEMMA TrimmedHoldsOne ==
    ASSUME NEW pages \in Seq(Page),
           NEW start \in DOMAIN pages, NEW end \in Nat,
           HasHead(pages[start]), end <= Len(pages),
           \A i \in start + 1 .. end : pages[i].head \in {None, pages[start].head}
    PROVE  IsRangeOf(pages, [start |-> start, end |-> Trimmed(pages, start, end)])
<1> DEFINE range == [start |-> start, end |-> Trimmed(pages, start, end)]
<1>1. start \in Nat /\ 1 <= start /\ Len(pages) \in Nat
    OBVIOUS
<1>2. CASE end < start
  <2>1. Trimmed(pages, start, end) = end
    BY <1>2 DEF Trimmed
  <2>2. /\ ~ (range.start <= range.end) /\ range \in PageRange
        /\ range.start \in DOMAIN pages
    BY <1>1, <1>2, <2>1 DEF PageRange
  <2> QED
    BY <2>2 DEF HoldsOneJudgment, IsRangeOf
<1>3. CASE start <= end
  <2>1. Trimmed(pages, start, end) \in start..end
    BY <1>1, <1>3, TrimmedInside
  <2>2. range.start = start /\ range.end \in start..end
    BY <2>1
  <2>3. \A i \in range.start..range.end :
            pages[i].head \in {None, pages[range.start].head}
    <3> SUFFICES ASSUME NEW i \in start..end
                 PROVE  pages[i].head \in {None, pages[start].head}
      BY <1>1, <2>2
    <3>1. CASE i = start
      BY <3>1
    <3>2. CASE i # start
      <4>1. i \in start + 1 .. end
        BY <1>1, <3>2
      <4> QED
        BY <4>1
    <3> QED
      BY <3>1, <3>2
  <2>4. 1 <= range.start /\ range.end <= Len(pages) /\ HasHead(pages[range.start])
    BY <1>1, <2>2
  <2>5. range \in PageRange /\ range.start \in DOMAIN pages
    BY <1>1, <2>1 DEF PageRange
  <2>6. HoldsOneJudgment(pages, range)
    <3> HIDE DEF range
    <3> QED
      BY <2>3, <2>4 DEF HoldsOneJudgment
  <2> QED
    BY <2>5, <2>6 DEF IsRangeOf
<1> QED
    BY <1>1, <1>2, <1>3

(* Looked up by its number.                                                *)
LEMMA LocatedIsOne ==
    ASSUME NEW pages \in Seq(Page), NEW number \in Number \cup {None}
    PROVE  LET range == LocatedRange(pages, number)
           IN  /\ IsRangeOf(pages, range)
               /\ range # NoRange => pages[range.start].head = number
<1> DEFINE found == {i \in DOMAIN pages : pages[i].head = number}
           start == Min(found)
           hardEnd == Min({Len(pages), start + MaxCasePages - 1})
           other == {i \in start + 1 .. hardEnd : pages[i].head \notin {None, number}}
           end == IF other = {} THEN hardEnd ELSE Min(other) - 1
<1>1. CASE number = None \/ found = {}
  <2>1. LocatedRange(pages, number) = NoRange
    BY <1>1 DEF LocatedRange
  <2> QED
    BY <2>1, NoRangeIsRange
<1>2. CASE number # None /\ found # {}
  <2>1. found \subseteq Nat /\ Len(pages) \in Nat /\ MaxCasePages \in Nat \ {0}
    BY PagesAssumption
  <2>2. start \in found
    BY <1>2, <2>1, LeastOfSome
  <2>3. /\ start \in DOMAIN pages /\ start \in Nat
        /\ 1 <= start /\ start <= Len(pages)
        /\ pages[start].head = number
    BY <2>1, <2>2
  <2>4. HasHead(pages[start])
    BY <1>2, <2>3 DEF HasHead
  <2> HIDE DEF start, found
  <2>5. hardEnd \in Nat /\ hardEnd <= Len(pages) /\ start <= hardEnd
    <3> DEFINE most == start + MaxCasePages - 1
    <3>1. Len(pages) \in Int /\ most \in Int /\ start <= most
      BY <2>1, <2>3
    <3> HIDE DEF most
    <3>2. /\ Min({Len(pages), most}) \in {Len(pages), most}
          /\ Min({Len(pages), most}) <= Len(pages)
      BY <3>1, LeastOfTwo
    <3>3. hardEnd = Min({Len(pages), most})
      BY DEF most
    <3> HIDE DEF hardEnd
    <3> QED
      BY <2>1, <2>3, <3>1, <3>2, <3>3
  <2> HIDE DEF hardEnd
  <2>6. /\ end \in Nat /\ end <= Len(pages)
        /\ \A i \in start + 1 .. end : pages[i].head \in {None, number}
    <3>1. CASE other = {}
      BY <2>5, <3>1
    <3>2. CASE other # {}
      <4>1. other \subseteq Nat
        BY <2>3, <2>5
      <4>2. Min(other) \in other /\ \A i \in other : Min(other) <= i
        BY <3>2, <4>1, LeastOfSome
      <4>3. Min(other) \in start + 1 .. hardEnd
        BY <4>2
      <4>4. ASSUME NEW i \in start + 1 .. Min(other) - 1
            PROVE  pages[i].head \in {None, number}
        <5>1. i \in start + 1 .. hardEnd /\ ~ (Min(other) <= i)
          BY <2>3, <2>5, <4>3
        <5>2. i \notin other
          BY <4>2, <5>1
        <5> QED
          BY <5>1, <5>2
      <4>5. end = Min(other) - 1
        BY <3>2
      <4> QED
        BY <2>1, <2>3, <2>5, <4>3, <4>4, <4>5
    <3> QED
      BY <3>1, <3>2
  <2>7. LocatedRange(pages, number) =
            [start |-> start, end |-> Trimmed(pages, start, end)]
    BY <1>2 DEF LocatedRange, start, found, hardEnd
  <2> HIDE DEF end
  <2>8. IsRangeOf(pages, [start |-> start, end |-> Trimmed(pages, start, end)])
    BY <2>3, <2>4, <2>6, TrimmedHoldsOne
  <2> QED
    BY <2>3, <2>7, <2>8
<1> QED
    BY <1>1, <1>2

(* Refined from a hint: every page between the header chosen and the end   *)
(* lies in the window that was searched for headers.                       *)
LEMMA RefinedIsOne ==
    ASSUME NEW pages \in Seq(Page),
           NEW first \in Nat, NEW hintEnd \in Nat, NEW expected
    PROVE  IsRangeOf(pages, RefinedRange(pages, first, hintEnd, expected))
<1> DEFINE last == Min({hintEnd, Len(pages)})
           top == Max({last + 3, first + MaxCasePages + 2})
           window == HintWindow(pages, first, last)
           headers == {i \in window : HasHead(pages[i])}
           start == RefinedStart(pages, headers, first, last, expected)
           later == {i \in headers : i > start /\ pages[i].head # pages[start].head}
           limit == Min({Len(pages), start + MaxCasePages - 1, last})
           end == RefinedEnd(pages, headers, start, last)
<1>1. CASE first < 1 \/ hintEnd < first \/ first > Len(pages) \/ headers = {}
  <2>1. RefinedRange(pages, first, hintEnd, expected) = NoRange
    BY <1>1 DEF RefinedRange
  <2> QED
    BY <2>1, NoRangeIsRange
<1>2. CASE /\ ~ (first < 1 \/ hintEnd < first \/ first > Len(pages))
           /\ headers # {}
  <2>1. Len(pages) \in Nat /\ MaxCasePages \in Nat \ {0} /\ DOMAIN pages = 1..Len(pages)
    BY PagesAssumption
  <2>2. last \in Nat /\ last <= Len(pages)
    <3>1. hintEnd \in Int /\ Len(pages) \in Int
      BY <2>1
    <3>2. /\ Min({hintEnd, Len(pages)}) \in {hintEnd, Len(pages)}
          /\ Min({hintEnd, Len(pages)}) <= Len(pages)
      BY <3>1, LeastOfTwo
    <3> QED
      BY <2>1, <3>2
  <2> HIDE DEF last
  <2>3. top \in Nat /\ last + 3 <= top
    <3> DEFINE far == first + MaxCasePages + 2
    <3>1. last + 3 \in Int /\ far \in Int /\ last + 3 >= 0 /\ far >= 0
      BY <2>1, <2>2
    <3> HIDE DEF far
    <3>2. /\ Max({last + 3, far}) \in {last + 3, far}
          /\ last + 3 <= Max({last + 3, far})
      BY <3>1, GreatestOfTwo
    <3>3. top = Max({last + 3, far})
      BY DEF far
    <3> HIDE DEF top
    <3> QED
      BY <3>1, <3>2, <3>3
  <2> HIDE DEF top
  <2>4. PICK low \in Nat, high \in Nat :
            /\ window = low..high /\ 1 <= low /\ last <= high /\ high <= Len(pages)
    <3>1. Max({1, first - 2}) \in Nat /\ 1 <= Max({1, first - 2})
      <4>1. 1 \in Int /\ first - 2 \in Int
        OBVIOUS
      <4>2. /\ Max({1, first - 2}) \in {1, first - 2}
            /\ 1 <= Max({1, first - 2})
        BY <4>1, GreatestOfTwo
      <4> QED
        BY <4>1, <4>2
    <3>2. /\ Min({Len(pages), top}) \in Nat /\ Min({Len(pages), top}) <= Len(pages)
          /\ last <= Min({Len(pages), top})
      <4>1. Len(pages) \in Int /\ top \in Int
        BY <2>1, <2>3
      <4>2. /\ Min({Len(pages), top}) \in {Len(pages), top}
            /\ Min({Len(pages), top}) <= Len(pages)
        BY <4>1, LeastOfTwo
      <4> QED
        BY <2>1, <2>2, <2>3, <4>1, <4>2
    <3> QED
      BY <3>1, <3>2 DEF HintWindow, top
  <2> HIDE DEF window
  <2>5. headers \subseteq Nat /\ headers \subseteq DOMAIN pages
    BY <2>1, <2>4
  <2>6. start \in headers
    <3>1. ASSUME NEW S, S \subseteq headers, S # {}
          PROVE  Min(S) \in headers /\ Nearest(S, first) \in headers
      <4>1. S \subseteq Nat
        BY <2>5, <3>1
      <4>2. Min(S) \in S /\ Nearest(S, first) \in S
        BY <3>1, <4>1, LeastOfSome, NearestIsOne
      <4> QED
        BY <3>1, <4>2
    <3>2. {i \in headers : pages[i].head = expected} \subseteq headers
      OBVIOUS
    <3>3. {i \in headers : first <= i /\ i <= last} \subseteq headers
      OBVIOUS
    <3> HIDE DEF headers
    <3> QED
      BY <1>2, <3>1, <3>2, <3>3 DEF RefinedStart
  <2>7. /\ start \in DOMAIN pages /\ start \in Nat /\ start \in low..high
        /\ HasHead(pages[start])
    BY <2>4, <2>5, <2>6
  <2> HIDE DEF start
  <2>8. ASSUME NEW k \in Nat, k <= high, \A i \in later : k < i
        PROVE  \A i \in start + 1 .. k : pages[i].head \in {None, pages[start].head}
    <3> SUFFICES ASSUME NEW i \in start + 1 .. k,
                        pages[i].head \notin {None, pages[start].head}
                 PROVE  FALSE
      OBVIOUS
    <3>1. i \in low..high /\ i > start /\ ~ (k < i)
      BY <2>7, <2>8
    <3>2. i \in headers
      BY <2>4, <3>1 DEF HasHead
    <3>3. i \in later
      BY <3>1, <3>2
    <3> QED
      BY <2>8, <3>1, <3>3
  <2>9. /\ end \in Nat /\ end <= Len(pages)
        /\ \A i \in start + 1 .. end : pages[i].head \in {None, pages[start].head}
    <3>1. CASE later # {}
      <4>1. later \subseteq Nat
        BY <2>5
      <4>2. Min(later) \in later /\ \A i \in later : Min(later) <= i
        BY <3>1, <4>1, LeastOfSome
      <4>3. Min(later) \in low..high /\ Min(later) > start /\ Min(later) \in Nat
        BY <2>4, <4>1, <4>2
      <4>4. end = Min(later) - 1
        BY <3>1 DEF RefinedEnd
      <4>5. end \in Nat /\ end <= high /\ end <= Len(pages)
        BY <2>1, <2>4, <2>7, <4>3, <4>4
      <4>6. \A i \in later : end < i
        <5> HIDE DEF end
        <5> SUFFICES ASSUME NEW i \in later PROVE end < i
          OBVIOUS
        <5>1. Min(later) <= i /\ i \in Nat
          BY <4>1, <4>2
        <5> QED
          BY <4>3, <4>4, <5>1
      <4> HIDE DEF end, later
      <4> QED
        BY <2>8, <4>5, <4>6
    <3>2. CASE later = {}
      <4>1. limit \in Int /\ limit <= last /\ limit <= Len(pages) /\ limit >= 0
        <5> DEFINE most == start + MaxCasePages - 1
        <5>1. Len(pages) \in Int /\ last \in Int /\ most \in Int /\ most >= 0
          BY <2>1, <2>2, <2>7
        <5> HIDE DEF most
        <5>2. /\ Min({Len(pages), most, last}) \in {Len(pages), most, last}
              /\ Min({Len(pages), most, last}) <= Len(pages)
              /\ Min({Len(pages), most, last}) <= last
          BY <5>1, LeastOfThree
        <5>3. limit = Min({Len(pages), most, last})
          BY DEF most
        <5> HIDE DEF limit
        <5> QED
          BY <2>1, <2>2, <5>1, <5>2, <5>3
      <4>2. end = limit
        BY <3>2 DEF RefinedEnd
      <4>3. end \in Nat /\ end <= high /\ end <= Len(pages)
        BY <2>2, <2>4, <4>1, <4>2
      <4> HIDE DEF end, later
      <4> QED
        BY <2>8, <3>2, <4>3
    <3> QED
      BY <3>1, <3>2
  <2>10. RefinedRange(pages, first, hintEnd, expected) =
            [start |-> start, end |-> Trimmed(pages, start, end)]
    BY <1>2 DEF RefinedRange, start, window, last
  <2> HIDE DEF end
  <2>11. IsRangeOf(pages, [start |-> start, end |-> Trimmed(pages, start, end)])
    BY <2>7, <2>9, TrimmedHoldsOne
  <2> QED
    BY <2>10, <2>11
<1> QED
    BY <1>1, <1>2

-----------------------------------------------------------------------------
(* The rows of the index.                                                  *)

(* The page before the next start, and what is left of it.                 *)
LastPage(pages, start) ==
    LET next == {i \in CaseStarts(pages) : i > start}
    IN  IF next = {} THEN Len(pages) ELSE Min(next) - 1

LEMMA StartsArePages ==
    ASSUME NEW pages \in Seq(Page)
    PROVE  /\ Len(pages) \in Nat /\ DOMAIN pages = 1..Len(pages)
           /\ CaseStarts(pages) \subseteq Headed(pages)
           /\ Headed(pages) \subseteq 1..Len(pages) /\ Headed(pages) \subseteq Nat
<1>1. Len(pages) \in Nat /\ DOMAIN pages = 1..Len(pages)
    OBVIOUS
<1>2. Headed(pages) \subseteq 1..Len(pages)
    BY <1>1 DEF Headed
<1>3. CaseStarts(pages) \subseteq Headed(pages)
    BY DEF CaseStarts
<1> QED
    BY <1>1, <1>2, <1>3

LEMMA LastPageBounds ==
    ASSUME NEW pages \in Seq(Page), NEW start \in CaseStarts(pages)
    PROVE  /\ LastPage(pages, start) \in start..Len(pages)
           /\ \A i \in CaseStarts(pages) : i > start => LastPage(pages, start) < i
<1> DEFINE next == {i \in CaseStarts(pages) : i > start}
<1>1. start \in 1..Len(pages) /\ Len(pages) \in Nat
    BY StartsArePages
<1>2. CASE next = {}
  <2>1. LastPage(pages, start) = Len(pages)
    BY <1>2 DEF LastPage
  <2> QED
    BY <1>1, <1>2, <2>1
<1>3. CASE next # {}
  <2>1. next \subseteq 1..Len(pages) /\ next \subseteq Nat
    BY StartsArePages
  <2>2. Min(next) \in next /\ \A i \in next : Min(next) <= i
    BY <1>3, <2>1, LeastOfSome
  <2>3. Min(next) \in 1..Len(pages) /\ Min(next) > start
    BY <2>1, <2>2
  <2>4. LastPage(pages, start) = Min(next) - 1
    BY <1>3 DEF LastPage
  <2>5. LastPage(pages, start) \in start..Len(pages)
    BY <1>1, <2>3, <2>4
  <2>6. ASSUME NEW i \in CaseStarts(pages), i > start PROVE LastPage(pages, start) < i
    <3>1. i \in next /\ i \in Int
      BY <2>1, <2>6
    <3>2. Min(next) <= i
      BY <2>2, <3>1
    <3> QED
      BY <2>3, <2>4, <3>1, <3>2
  <2> QED
    BY <2>5, <2>6
<1> QED
    BY <1>2, <1>3

LEMMA IndexedEndInside ==
    ASSUME NEW pages \in Seq(Page), NEW start \in CaseStarts(pages)
    PROVE  IndexedEnd(pages, start) \in start..LastPage(pages, start)
<1> DEFINE kept == {i \in start..LastPage(pages, start) : i = start \/ pages[i].length >= 120}
<1>1. start \in Nat /\ LastPage(pages, start) \in Nat /\ start <= LastPage(pages, start)
    BY LastPageBounds, StartsArePages
<1>2. kept \subseteq 0..LastPage(pages, start) /\ kept # {}
    BY <1>1
<1>3. Max(kept) \in kept
    BY <1>1, <1>2, GreatestOfSome
<1>4. IndexedEnd(pages, start) = Max(kept)
    BY DEF IndexedEnd, LastPage
<1> QED
    BY <1>3, <1>4

(* The first page of another judgment would be a start of its own: up to   *)
(* the next start every page the indexer looks at has the same number.     *)
LEMMA SameUpToNextStart ==
    ASSUME NEW pages \in Seq(Page), NEW start \in CaseStarts(pages),
           NEW i \in start..LastPage(pages, start), i \in Headed(pages)
    PROVE  pages[i].head = pages[start].head
<1> DEFINE others == {j \in start..LastPage(pages, start) :
                         j \in Headed(pages) /\ pages[j].head # pages[start].head}
<1>1. start \in Nat /\ start \in Headed(pages) /\ LastPage(pages, start) \in Nat
    BY LastPageBounds, StartsArePages
<1>2. CASE others = {}
    BY <1>2
<1>3. CASE others # {}
  <2>1. others \subseteq Nat
    BY <1>1
  <2>2. Min(others) \in others /\ \A j \in others : Min(others) <= j
    BY <1>3, <2>1, LeastOfSome
  <2> DEFINE first == Min(others)
             before == HeadedBefore(pages, first)
  <2>3. /\ first \in Nat /\ first \in Headed(pages) /\ first > start
        /\ first <= LastPage(pages, start) /\ pages[first].head # pages[start].head
    BY <1>1, <2>2
  <2>4. \A j \in others : first <= j
    BY <2>2
  <2> HIDE DEF first
  <2>5. start \in before /\ before \subseteq 0..first /\ before \subseteq Headed(pages)
    BY <1>1, <2>3, StartsArePages DEF HeadedBefore
  <2>6. Max(before) \in before /\ \A j \in before : j <= Max(before)
    BY <2>3, <2>5, GreatestOfSome
  <2>7. /\ Max(before) \in Headed(pages) /\ start <= Max(before)
        /\ Max(before) < first /\ Max(before) \in Nat
    BY <2>3, <2>5, <2>6 DEF HeadedBefore
  <2>8. Max(before) \in start..LastPage(pages, start) /\ ~ (first <= Max(before))
    BY <1>1, <2>3, <2>7
  <2>9. pages[Max(before)].head = pages[start].head
    BY <2>4, <2>7, <2>8
  <2>10. first \in CaseStarts(pages)
    BY <2>3, <2>9 DEF CaseStarts
  <2>11. LastPage(pages, start) < first
    BY <2>3, <2>10, LastPageBounds
  <2> QED
    BY <1>1, <2>3, <2>11
<1> QED
    BY <1>2, <1>3

LEMMA CutOutIsOne ==
    ASSUME NEW pages \in Seq(Page),
           NEW start \in Nat, NEW end \in Nat,
           1 <= start, start <= end, end <= Len(pages), HasHead(pages[start]),
           \A i \in start..end : HasHead(pages[i]) => pages[i].head = pages[start].head
    PROVE  OneJudgment(SubSeq(pages, start, end), pages[start].head)
<1> DEFINE part == SubSeq(pages, start, end)
<1>1. Len(part) = end - start + 1 /\ part \in Seq(Page)
    OBVIOUS
<1>2. \A i \in 1..(end - start + 1) : part[i] = pages[start + i - 1]
    OBVIOUS
<1>3. DOMAIN part = 1..(end - start + 1)
    BY <1>1
<1> HIDE DEF part
<1>4. part # <<>>
    BY <1>1
<1>5. part[1] = pages[start]
    BY <1>2
<1>6. ASSUME NEW i \in DOMAIN part
      PROVE  part[i].head \in {None, part[1].head}
  <2>1. start + i - 1 \in start..end /\ part[i] = pages[start + i - 1]
    BY <1>2, <1>3
  <2> QED
    BY <1>5, <2>1 DEF HasHead
<1>7. HasHead(part[1]) /\ part[1].head = pages[start].head
    BY <1>5
<1>8. OneJudgment(part, pages[start].head)
    BY <1>4, <1>6, <1>7 DEF OneJudgment
<1> QED
    BY <1>8 DEF part
===============================================================================
