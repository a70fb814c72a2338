----------------------------- MODULE ResearchProofs -----------------------------
(***************************************************************************)
(* Theorems about a search for candidates: for any number of users who     *)
(* search at the same time, any limits and numbers of attempts, and        *)
(* whatever the catalog and the service answer.                            *)
(***************************************************************************)
EXTENDS Research, Counting

Searches ==
    [at: Places, local: Seq(Case), result: Seq(Case), attempt: 0..Attempts, synthesis: 0..Syntheses]
Requests == [discovery: Nat, synthesis: Nat, refused: BOOLEAN]

-----------------------------------------------------------------------------
(* The inductive invariant: what a search has asked, by where it is.        *)
Accounted(r, o) ==
    /\ r.at = "idle" => r = NoSearch /\ o = NothingAsked
    /\ r.at = "failed" => r.local = <<>>
    /\ r.at \in {"preflight", "balance", "model"} =>
          o.discovery = 0 /\ o.synthesis = 0 /\ ~o.refused
    /\ r.at = "discover" => r.attempt >= 1 /\ o.discovery <= r.attempt - 1
    /\ r.at = "synthesize" =>
          /\ r.attempt >= 1 /\ r.synthesis >= 1 /\ o.discovery >= 1
          /\ o.synthesis <= (o.discovery - 1) * Syntheses + (r.synthesis - 1)
    /\ o.discovery <= r.attempt
    /\ o.synthesis <= o.discovery * Syntheses
    /\ o.refused => r.at \in {"done", "failed"}

Inv ==
    /\ search \in [Searcher -> Searches] /\ asked \in [Searcher -> Requests]
    /\ trusted # 0 => trusted \in passed
    /\ \A s \in Searcher : Accounted(search[s], asked[s])

LEMMA ConstantsAreNumbers ==
    /\ Limit \in Nat \ {0} /\ MinCatalog \in Nat \ {0}
    /\ Attempts \in Nat \ {0} /\ Syntheses \in Nat \ {0}
BY ResearchAssumption

LEMMA OneMore ==
    ASSUME NEW d \in Nat
    PROVE  d * Syntheses \in Nat /\ (d + 1) * Syntheses = d * Syntheses + Syntheses
BY ConstantsAreNumbers

LEMMA NothingIsTyped ==
    /\ NoSearch \in Searches /\ NoSearch.at = "idle" /\ NoSearch.attempt = 0
    /\ NoSearch.local = <<>>
    /\ NothingAsked \in Requests /\ NothingAsked.discovery = 0 /\ NothingAsked.synthesis = 0
    /\ ~NothingAsked.refused
<1>1. <<>> \in Seq(Case)
    OBVIOUS
<1>2. NoSearch \in Searches /\ NoSearch.at = "idle" /\ NoSearch.attempt = 0
      /\ NoSearch.local = <<>>
    BY <1>1, ConstantsAreNumbers DEF NoSearch, Searches, Places
<1> QED
    BY <1>2 DEF NothingAsked, Requests

LEMMA InitInv == ResearchInit => Inv
<1> SUFFICES ASSUME ResearchInit PROVE Inv
    OBVIOUS
<1>1. search \in [Searcher -> Searches] /\ asked \in [Searcher -> Requests]
    BY NothingIsTyped DEF ResearchInit
<1>2. ASSUME NEW s \in Searcher PROVE Accounted(search[s], asked[s])
  <2>1. search[s] = NoSearch /\ asked[s] = NothingAsked
    BY DEF ResearchInit
  <2>2. 0 * Syntheses = 0
    BY ConstantsAreNumbers
  <2> QED
    BY <2>1, <2>2, NothingIsTyped DEF Accounted
<1> QED
    BY <1>1, <1>2 DEF Inv, ResearchInit

(* A step of one search is about that search.                              *)
LEMMA OneSteps ==
    ASSUME Inv, NEW s \in Searcher, NEW r \in Searches, NEW o \in Requests,
           search' = [search EXCEPT ![s] = r], asked' = [asked EXCEPT ![s] = o],
           trusted' # 0 => trusted' \in passed',
           Accounted(r, o)
    PROVE  Inv'
<1>1. search' \in [Searcher -> Searches] /\ asked' \in [Searcher -> Requests]
    BY DEF Inv
<1>2. ASSUME NEW q \in Searcher PROVE Accounted(search'[q], asked'[q])
  <2>1. CASE q = s
    BY <2>1 DEF Inv
  <2>2. CASE q # s
    BY <2>2 DEF Inv
  <2> QED
    BY <2>1, <2>2
<1> QED
    BY <1>1, <1>2 DEF Inv, Accounted

-----------------------------------------------------------------------------
(* What Merge computes: the first places of the candidates in both lists,  *)
(* counted in order.                                                       *)
Earlier == {pair \in Nat \X Nat : pair[1] < pair[2]}

LEMMA FirstPlacesAreOrdered ==
    ASSUME NEW both \in Seq(Case)
    PROVE  /\ FirstPlaces(both) \subseteq 1..Len(both) /\ IsFiniteSet(FirstPlaces(both))
           /\ Orders(Earlier, FirstPlaces(both))
           /\ \A i \in FirstPlaces(both) :
                 Before(Earlier, FirstPlaces(both), i) = {j \in FirstPlaces(both) : j < i}
<1>1. FirstPlaces(both) \in SUBSET (1..Len(both))
    BY DEF FirstPlaces
<1>2. IsFiniteSet(1..Len(both))
    BY FS_Interval
<1>3. IsFiniteSet(FirstPlaces(both))
    BY <1>1, <1>2, FS_Subset
<1> QED
    BY <1>1, <1>3 DEF Orders, Before, Earlier

LEMMA PlaceIsFound ==
    ASSUME NEW both \in Seq(Case), NEW n \in 1..Cardinality(FirstPlaces(both))
    PROVE  /\ PlaceOf(n, FirstPlaces(both)) \in FirstPlaces(both)
           /\ Cardinality({j \in FirstPlaces(both) : j < PlaceOf(n, FirstPlaces(both))}) = n - 1
<1>1. PICK i \in FirstPlaces(both) : Place(Earlier, FirstPlaces(both), i) = n - 1
    BY FirstPlacesAreOrdered, PlacesAreTaken
<1>2. Cardinality({j \in FirstPlaces(both) : j < i}) = n - 1
    BY <1>1, FirstPlacesAreOrdered DEF Place
<1> QED
    BY <1>2 DEF PlaceOf

LEMMA PlaceIsOnlyOne ==
    ASSUME NEW both \in Seq(Case), NEW k \in FirstPlaces(both), NEW n \in Int,
           Cardinality({j \in FirstPlaces(both) : j < k}) = n - 1
    PROVE  /\ n \in 1..Cardinality(FirstPlaces(both)) /\ n <= k
           /\ PlaceOf(n, FirstPlaces(both)) = k
<1> DEFINE S == FirstPlaces(both)
           i == PlaceOf(n, S)
<1>1. Place(Earlier, S, k) = n - 1
    BY FirstPlacesAreOrdered DEF Place
<1>2. n \in 1..Cardinality(S)
    BY <1>1, FirstPlacesAreOrdered, PlaceIsNumber
<1>3. i \in S /\ Place(Earlier, S, i) = n - 1
    BY <1>2, PlaceIsFound, FirstPlacesAreOrdered DEF Place
<1>4. i = k
  <2>1. <<i, k>> \in Earlier => Place(Earlier, S, i) < Place(Earlier, S, k)
    BY <1>3, FirstPlacesAreOrdered, PlacesKeepOrder
  <2>2. <<k, i>> \in Earlier => Place(Earlier, S, k) < Place(Earlier, S, i)
    BY <1>3, FirstPlacesAreOrdered, PlacesKeepOrder
  <2> QED
    BY <1>1, <1>3, <2>1, <2>2, FirstPlacesAreOrdered DEF Orders
<1>5. n <= k
  <2>1. k \in Nat /\ k >= 1 /\ {j \in S : j < k} \in SUBSET (1..k - 1)
    BY FirstPlacesAreOrdered
  <2>2. IsFiniteSet(1..k - 1) /\ Cardinality(1..k - 1) = k - 1
    BY <2>1, FS_Interval
  <2>3. Cardinality({j \in S : j < k}) <= k - 1
    BY <2>1, <2>2, FS_Subset
  <2> QED
    BY <2>1, <2>3
<1> QED
    BY <1>2, <1>4, <1>5

LEMMA MergeIsSequence ==
    ASSUME NEW local \in Seq(Case), NEW remote \in Seq(Case)
    PROVE  /\ Merge(local, remote) \in Seq(Case)
           /\ Len(Merge(local, remote)) =
                 Smaller(Limit, Cardinality(FirstPlaces(local \o remote)))
           /\ \A n \in 1..Len(Merge(local, remote)) :
                 Merge(local, remote)[n] =
                     (local \o remote)[PlaceOf(n, FirstPlaces(local \o remote))]
<1> DEFINE both == local \o remote
           S == FirstPlaces(both)
           size == Smaller(Limit, Cardinality(S))
<1>1. both \in Seq(Case)
    OBVIOUS
<1>2. Cardinality(S) \in Nat
    BY <1>1, FirstPlacesAreOrdered, FS_CardinalityType
<1>3. size \in Nat /\ size <= Cardinality(S)
    BY <1>2, ConstantsAreNumbers DEF Smaller
<1>4. \A n \in 1..size : both[PlaceOf(n, S)] \in Case
  <2> SUFFICES ASSUME NEW n \in 1..size PROVE both[PlaceOf(n, S)] \in Case
    OBVIOUS
  <2>1. n \in 1..Cardinality(S)
    BY <1>2, <1>3
  <2>2. PlaceOf(n, S) \in 1..Len(both)
    BY <1>1, <2>1, PlaceIsFound, FirstPlacesAreOrdered
  <2> QED
    BY <1>1, <2>2
<1>5. Merge(local, remote) = [n \in 1..size |-> both[PlaceOf(n, S)]]
    BY DEF Merge
<1>6. Merge(local, remote) \in [1..size -> Case]
    BY <1>4, <1>5
<1> HIDE DEF size
<1>7. Merge(local, remote) \in Seq(Case) /\ Len(Merge(local, remote)) = size
    BY <1>3, <1>6
<1> QED
    BY <1>5, <1>7 DEF size

LEMMA MergeNamesOnce ==
    ASSUME NEW local \in Seq(Case), NEW remote \in Seq(Case)
    PROVE  IsInjective(Merge(local, remote)) /\ Len(Merge(local, remote)) <= Limit
<1> DEFINE both == local \o remote
           S == FirstPlaces(both)
           M == Merge(local, remote)
<1>0. both \in Seq(Case)
    OBVIOUS
<1>1. /\ M \in Seq(Case) /\ Len(M) = Smaller(Limit, Cardinality(S))
      /\ \A n \in 1..Len(M) : M[n] = both[PlaceOf(n, S)]
    BY MergeIsSequence
<1>2. Cardinality(S) \in Nat
    BY <1>0, FirstPlacesAreOrdered, FS_CardinalityType
<1>3. Len(M) <= Limit /\ Len(M) <= Cardinality(S)
    BY <1>1, <1>2, ConstantsAreNumbers DEF Smaller
<1>4. ASSUME NEW m \in 1..Len(M), NEW n \in 1..Len(M), M[m] = M[n]
      PROVE  m = n
  <2> DEFINE i == PlaceOf(m, S)
             j == PlaceOf(n, S)
  <2>1. m \in 1..Cardinality(S) /\ n \in 1..Cardinality(S)
    BY <1>1, <1>2, <1>3
  <2>2. /\ i \in S /\ Cardinality({k \in S : k < i}) = m - 1
        /\ j \in S /\ Cardinality({k \in S : k < j}) = n - 1
    BY <1>0, <2>1, PlaceIsFound
  <2>3. both[i] = both[j]
    BY <1>1, <1>4
  <2>4. i = j
    <3>1. S \subseteq 1..Len(both) /\ Len(both) \in Nat
      <4>1. S \subseteq 1..Len(both)
        BY <1>0, FirstPlacesAreOrdered
      <4> QED
        BY <1>0, <4>1
    <3>2. i \in 1..Len(both) /\ j \in 1..Len(both)
      BY <2>2, <3>1
    <3>3. \A k \in 1..i - 1 : both[k] # both[i]
      BY <2>2 DEF FirstPlaces
    <3>4. \A k \in 1..j - 1 : both[k] # both[j]
      BY <2>2 DEF FirstPlaces
    <3> HIDE DEF i, j, both
    <3> QED
      BY <2>3, <3>1, <3>2, <3>3, <3>4
  <2> QED
    BY <2>2, <2>4
<1>5. DOMAIN M = 1..Len(M)
    BY <1>1
<1> QED
    BY <1>3, <1>4, <1>5 DEF IsInjective

(* No candidate of the catalog within the limit is lost.                   *)
LEMMA MergeKeepsLocal ==
    ASSUME NEW local \in Seq(Case), NEW remote \in Seq(Case),
           NEW i \in 1..Len(local), i <= Limit
    PROVE  local[i] \in ToSet(Merge(local, remote))
<1> DEFINE both == local \o remote
           S == FirstPlaces(both)
           M == Merge(local, remote)
           same == {j \in 1..i : both[j] = both[i]}
<1>0. both \in Seq(Case) /\ Len(both) = Len(local) + Len(remote) /\ both[i] = local[i]
    OBVIOUS
<1>1. PICK k \in same : \A j \in same : k <= j
  <2>1. same \subseteq Nat /\ i \in same
    OBVIOUS
  <2> QED
    BY <2>1, LeastExists
<1>2. k \in S
  <2>1. ASSUME NEW j \in 1..k - 1, both[j] = both[k] PROVE FALSE
    <3>1. j \in same
      BY <2>1
    <3> QED
      BY <1>1, <3>1
  <2>2. k \in DOMAIN both
    BY <1>0
  <2> QED
    BY <2>1, <2>2 DEF FirstPlaces
<1> DEFINE n == Cardinality({j \in S : j < k}) + 1
<1>9. Cardinality({j \in S : j < k}) \in Nat
  <2>1. {j \in S : j < k} \in SUBSET S
    OBVIOUS
  <2> QED
    BY <1>0, <2>1, FirstPlacesAreOrdered, FS_Subset, FS_CardinalityType
<1>3. n \in Int
    BY <1>9
<1>4. n \in 1..Cardinality(S) /\ n <= k /\ PlaceOf(n, S) = k
  <2>1. Cardinality({j \in S : j < k}) = n - 1
    BY <1>9
  <2> HIDE DEF n
  <2> QED
    BY <1>0, <1>2, <1>3, <2>1, PlaceIsOnlyOne
<1>5. Cardinality(S) \in Nat
    BY <1>0, FirstPlacesAreOrdered, FS_CardinalityType
<1> HIDE DEF n
<1>6. n \in 1..Len(M)
    BY <1>3, <1>4, <1>5, MergeIsSequence, ConstantsAreNumbers DEF Smaller
<1>7. M[n] = both[k] /\ M \in Seq(Case)
    BY <1>4, <1>6, MergeIsSequence
<1>8. n \in DOMAIN M /\ M[n] = local[i]
    BY <1>0, <1>6, <1>7
<1> QED
    BY <1>8 DEF ToSet

(* If the catalog names none twice, its list stays in front.               *)
LEMMA MergeBeginsWithLocal ==
    ASSUME NEW local \in Seq(Case), NEW remote \in Seq(Case),
           IsInjective(local)
    PROVE  /\ \A i \in 1..Len(local) : i <= Limit => Merge(local, remote)[i] = local[i]
           /\ Smaller(Limit, Len(local)) <= Len(Merge(local, remote))
<1> DEFINE both == local \o remote
           S == FirstPlaces(both)
           M == Merge(local, remote)
<1>0. /\ both \in Seq(Case) /\ Len(both) = Len(local) + Len(remote)
      /\ \A i \in 1..Len(local) : both[i] = local[i]
    OBVIOUS
<1>1. 1..Len(local) \in SUBSET S
    BY <1>0 DEF FirstPlaces, IsInjective
<1>2. Cardinality(1..Len(local)) = Len(local)
    BY FS_Interval
<1>3. Cardinality(S) \in Nat /\ Len(local) <= Cardinality(S)
    BY <1>0, <1>1, <1>2, FirstPlacesAreOrdered, FS_CardinalityType, FS_Subset
<1>4. ASSUME NEW i \in 1..Len(local)
      PROVE  PlaceOf(i, S) = i
  <2>1. S \subseteq 1..Len(both)
    BY <1>0, FirstPlacesAreOrdered
  <2>3. {j \in S : j < i} = 1..i - 1
    <3>1. Len(both) \in Nat /\ Len(local) \in Nat
      BY <1>0
    <3> HIDE DEF S, both
    <3>2. ASSUME NEW j \in S, j < i PROVE j \in 1..i - 1
      BY <2>1, <3>1, <3>2
    <3>3. ASSUME NEW j \in 1..i - 1 PROVE j \in S /\ j < i
      <4>1. j \in 1..Len(local) /\ j < i
        BY <3>1
      <4> QED
        BY <1>1, <4>1
    <3> QED
      BY <3>2, <3>3
  <2>2. Cardinality(1..i - 1) = i - 1
    BY FS_Interval
  <2>4. i \in S /\ i \in Int
    BY <1>1
  <2>5. Cardinality({j \in S : j < i}) = i - 1
    BY <2>2, <2>3
  <2> QED
    BY <1>0, <2>4, <2>5, PlaceIsOnlyOne
<1>5. Len(M) = Smaller(Limit, Cardinality(S))
    BY MergeIsSequence
<1>6. ASSUME NEW i \in 1..Len(local), i <= Limit
      PROVE  M[i] = local[i]
  <2>1. i \in 1..Len(M)
    BY <1>3, <1>5, <1>6, ConstantsAreNumbers DEF Smaller
  <2> QED
    BY <1>0, <1>4, <2>1, MergeIsSequence
<1> QED
    BY <1>3, <1>5, <1>6, ConstantsAreNumbers DEF Smaller

-----------------------------------------------------------------------------
(* Parts of the steps, as what the record of the search becomes.           *)
LEMMA MoveSets ==
    ASSUME Inv, NEW s \in Searcher, NEW place \in Places, MovesTo(s, place)
    PROVE  \E r \in Searches :
               /\ search' = [search EXCEPT ![s] = r]
               /\ r.at = place /\ r.local = search[s].local
               /\ r.attempt = search[s].attempt /\ r.synthesis = search[s].synthesis
<1> DEFINE r == [search[s] EXCEPT !.at = place]
<1>1. search' = [search EXCEPT ![s] = r]
    BY DEF MovesTo
<1>2. search[s] \in Searches
    BY DEF Inv
<1>3. /\ r \in Searches /\ r.at = place /\ r.local = search[s].local
      /\ r.attempt = search[s].attempt /\ r.synthesis = search[s].synthesis
    BY <1>2 DEF Searches
<1> QED
    BY <1>1, <1>3

LEMMA ReturnSets ==
    ASSUME Inv, NEW s \in Searcher, NEW result \in Seq(Case), Returns(s, result)
    PROVE  \E r \in Searches :
               /\ search' = [search EXCEPT ![s] = r]
               /\ r.at = "done" /\ r.local = search[s].local
               /\ r.attempt = search[s].attempt
<1> DEFINE r == [search[s] EXCEPT !.at = "done", !.result = result]
<1>1. search' = [search EXCEPT ![s] = r]
    BY DEF Returns
<1>2. search[s] \in Searches
    BY DEF Inv
<1>3. /\ r \in Searches /\ r.at = "done" /\ r.local = search[s].local
      /\ r.attempt = search[s].attempt
    BY <1>2 DEF Searches, Places
<1> QED
    BY <1>1, <1>3

LEMMA UpToLimitIsResult ==
    ASSUME NEW local \in Seq(Case)
    PROVE  UpToLimit(local) \in Seq(Case)
<1>1. Smaller(Limit, Len(local)) \in Nat /\ Smaller(Limit, Len(local)) <= Len(local)
    BY ConstantsAreNumbers DEF Smaller
<1> QED
    BY <1>1 DEF UpToLimit

(* The fallback fails: what the catalog found is returned, or nothing was. *)
LEMMA WebFailsSets ==
    ASSUME Inv, NEW s \in Searcher, WebFails(s)
    PROVE  \E r \in Searches :
               /\ search' = [search EXCEPT ![s] = r]
               /\ r.at \in {"done", "failed"}
               /\ r.at = "failed" => r.local = <<>>
               /\ r.attempt = search[s].attempt
<1>1. CASE search[s].local # <<>>
  <2>1. UpToLimit(search[s].local) \in Seq(Case)
    BY UpToLimitIsResult DEF Inv, Searches
  <2> QED
    BY <1>1, <2>1, ReturnSets DEF WebFails
<1>2. CASE search[s].local = <<>>
  <2>1. "failed" \in Places
    BY DEF Places
  <2> QED
    BY <1>2, <2>1, MoveSets DEF WebFails
<1> QED
    BY <1>1, <1>2

LEMMA WebFailsKeepsInv ==
    ASSUME Inv, NEW s \in Searcher, WebFails(s), NEW o \in Requests,
           asked' = [asked EXCEPT ![s] = o], trusted' # 0 => trusted' \in passed',
           o.discovery <= search[s].attempt, o.synthesis <= o.discovery * Syntheses
    PROVE  Inv'
<1>1. PICK r \in Searches :
          /\ search' = [search EXCEPT ![s] = r]
          /\ r.at \in {"done", "failed"}
          /\ r.at = "failed" => r.local = <<>>
          /\ r.attempt = search[s].attempt
    BY WebFailsSets
<1>2. Accounted(r, o)
    BY <1>1 DEF Accounted
<1> QED
    BY <1>1, <1>2, OneSteps

(* The same when nothing new was asked.                                     *)
LEMMA QuietlyFailsKeepsInv ==
    ASSUME Inv, NEW s \in Searcher, WebFails(s), UNCHANGED <<trusted, passed, asked>>
    PROVE  Inv'
<1>1. asked[s] \in Requests /\ asked' = [asked EXCEPT ![s] = asked[s]]
    BY DEF Inv
<1>2. asked[s].discovery <= search[s].attempt /\ asked[s].synthesis <= asked[s].discovery * Syntheses
    BY DEF Inv, Accounted
<1> QED
    BY <1>1, <1>2, WebFailsKeepsInv DEF Inv

LEMMA RefusedKeepsInv ==
    ASSUME Inv, NEW s \in Searcher, Refused(s), UNCHANGED <<trusted, passed>>
    PROVE  Inv'
<1> DEFINE o == [asked[s] EXCEPT !.refused = TRUE]
<1>1. WebFails(s) /\ asked' = [asked EXCEPT ![s] = o]
    BY DEF Refused
<1>2. asked[s] \in Requests
    BY DEF Inv
<1>3. o \in Requests /\ o.discovery = asked[s].discovery /\ o.synthesis = asked[s].synthesis
    BY <1>2 DEF Requests
<1>4. o.discovery <= search[s].attempt /\ o.synthesis <= o.discovery * Syntheses
    BY <1>3 DEF Inv, Accounted
<1> HIDE DEF o
<1> QED
    BY <1>1, <1>3, <1>4, WebFailsKeepsInv DEF Inv

(* A step that sends nothing, to a place before the first request.         *)
LEMMA WaitingKeepsInv ==
    ASSUME Inv, NEW s \in Searcher, NEW place \in {"balance", "model"},
           search[s].at \in {"preflight", "balance"}, MovesTo(s, place),
           UNCHANGED <<trusted, passed, asked>>
    PROVE  Inv'
<1>1. PICK r \in Searches :
          /\ search' = [search EXCEPT ![s] = r]
          /\ r.at = place /\ r.local = search[s].local
          /\ r.attempt = search[s].attempt /\ r.synthesis = search[s].synthesis
    BY MoveSets DEF Places
<1>2. asked[s] \in Requests /\ asked' = [asked EXCEPT ![s] = asked[s]]
    BY DEF Inv
<1>3. Accounted(r, asked[s])
    BY <1>1 DEF Inv, Accounted
<1> QED
    BY <1>1, <1>2, <1>3, OneSteps DEF Inv

LEMMA StartKeepsInv ==
    ASSUME Inv, NEW s \in Searcher, search[s].at \in {"preflight", "model"}, StartAttempts(s),
           UNCHANGED asked, trusted' # 0 => trusted' \in passed'
    PROVE  Inv'
<1> DEFINE r == [search[s] EXCEPT !.at = "discover", !.attempt = 1]
<1>1. search' = [search EXCEPT ![s] = r]
    BY DEF StartAttempts
<1>2. search[s] \in Searches /\ 1 \in 0..Attempts
    BY ConstantsAreNumbers DEF Inv
<1>3. r \in Searches /\ r.at = "discover" /\ r.attempt = 1
    BY <1>2 DEF Searches, Places
<1>4. asked[s] \in Requests /\ asked' = [asked EXCEPT ![s] = asked[s]]
    BY DEF Inv
<1>5. asked[s].discovery = 0 /\ asked[s].synthesis = 0 /\ ~asked[s].refused
    BY DEF Inv, Accounted
<1> HIDE DEF r
<1>6. Accounted(r, asked[s])
  <2>1. 0 * Syntheses = 0
    BY ConstantsAreNumbers
  <2> QED
    BY <1>3, <1>5, <2>1 DEF Accounted
<1> QED
    BY <1>1, <1>3, <1>4, <1>6, OneSteps

(* The next attempt, or the end of the web research.                       *)
LEMMA AttemptFailsKeepsInv ==
    ASSUME Inv, NEW s \in Searcher, search[s].at \in {"discover", "synthesize"},
           AttemptFails(s), UNCHANGED <<trusted, passed>>, NEW o \in Requests,
           asked' = [asked EXCEPT ![s] = o], ~o.refused,
           o.discovery <= search[s].attempt, o.synthesis <= o.discovery * Syntheses
    PROVE  Inv'
<1>1. CASE search[s].attempt < Attempts
  <2> DEFINE r == [search[s] EXCEPT !.at = "discover", !.attempt = @ + 1]
  <2>1. search' = [search EXCEPT ![s] = r]
    BY <1>1 DEF AttemptFails
  <2>2. search[s] \in Searches
    BY DEF Inv
  <2>3. search[s].attempt \in 0..Attempts /\ search[s].attempt + 1 \in 0..Attempts
    BY <1>1, <2>2, ConstantsAreNumbers DEF Searches
  <2>4. r \in Searches /\ r.at = "discover" /\ r.attempt = search[s].attempt + 1
    BY <2>2, <2>3 DEF Searches, Places
  <2>5. search[s].attempt >= 1
    BY DEF Inv, Accounted
  <2>6. o.discovery \in Nat
    BY DEF Requests
  <2> HIDE DEF r
  <2>7. Accounted(r, o)
    BY <2>3, <2>4, <2>5, <2>6 DEF Accounted
  <2> QED
    BY <2>1, <2>4, <2>7, OneSteps DEF Inv
<1>2. CASE ~ (search[s].attempt < Attempts)
  <2>1. WebFails(s)
    BY <1>2 DEF AttemptFails
  <2> QED
    BY <2>1, WebFailsKeepsInv DEF Inv
<1> QED
    BY <1>1, <1>2

(* Candidates of the web complete those of the catalog.                    *)
LEMMA MergedKeepsInv ==
    ASSUME Inv, NEW s \in Searcher, NEW remote \in Found,
           Returns(s, Merge(search[s].local, remote)),
           UNCHANGED <<trusted, passed>>, NEW o \in Requests,
           asked' = [asked EXCEPT ![s] = o],
           o.discovery <= search[s].attempt, o.synthesis <= o.discovery * Syntheses
    PROVE  Inv'
<1>1. Merge(search[s].local, remote) \in Seq(Case)
    BY MergeIsSequence, ResearchAssumption DEF Inv, Searches
<1>2. PICK r \in Searches :
          /\ search' = [search EXCEPT ![s] = r]
          /\ r.at = "done" /\ r.local = search[s].local
          /\ r.attempt = search[s].attempt
    BY <1>1, ReturnSets
<1>3. Accounted(r, o)
    BY <1>2 DEF Accounted
<1> QED
    BY <1>2, <1>3, OneSteps DEF Inv

LEMMA DiscoverKeepsInv ==
    ASSUME Inv, NEW s \in Searcher, Discover(s)
    PROVE  Inv'
<1>1. search[s].at = "discover" /\ UNCHANGED <<trusted, passed>>
      /\ search[s] \in Searches /\ asked[s] \in Requests
    BY DEF Inv, Discover, At
<1>2. CASE Refused(s)
    BY <1>1, <1>2, RefusedKeepsInv
<1> DEFINE o == [asked[s] EXCEPT !.discovery = @ + 1]
<1>3. /\ o \in Requests /\ o.discovery = asked[s].discovery + 1
      /\ o.synthesis = asked[s].synthesis /\ o.refused = asked[s].refused
      /\ asked[s].discovery \in Nat /\ asked[s].synthesis \in Nat
    BY <1>1 DEF Requests
<1> HIDE DEF o
<1>4. /\ search[s].attempt \in 0..Attempts /\ search[s].attempt >= 1 /\ ~o.refused
      /\ asked[s].discovery <= search[s].attempt - 1
      /\ asked[s].synthesis <= asked[s].discovery * Syntheses
    BY <1>1, <1>3 DEF Inv, Accounted, Searches
<1>5. o.discovery <= search[s].attempt /\ o.discovery >= 1
    BY <1>3, <1>4, ConstantsAreNumbers
<1>6. /\ o.synthesis <= (o.discovery - 1) * Syntheses
      /\ o.synthesis <= o.discovery * Syntheses
  <2>1. o.discovery - 1 = asked[s].discovery
    BY <1>3
  <2>2. /\ asked[s].discovery * Syntheses \in Nat
        /\ o.discovery * Syntheses = asked[s].discovery * Syntheses + Syntheses
    BY <1>3, OneMore
  <2> QED
    BY <1>3, <1>4, <2>1, <2>2, ConstantsAreNumbers
<1>7. CASE asked' = [asked EXCEPT ![s] = o] /\ AttemptFails(s)
    BY <1>1, <1>3, <1>4, <1>5, <1>6, <1>7, AttemptFailsKeepsInv
<1>8. CASE /\ asked' = [asked EXCEPT ![s] = o]
           /\ search' = [search EXCEPT ![s].at = "synthesize", ![s].synthesis = 1]
  <2> DEFINE r == [search[s] EXCEPT !.at = "synthesize", !.synthesis = 1]
  <2>1. search' = [search EXCEPT ![s] = r]
    BY <1>8
  <2>2. 1 \in 0..Syntheses
    BY ConstantsAreNumbers
  <2>3. /\ r \in Searches /\ r.at = "synthesize" /\ r.synthesis = 1
        /\ r.attempt = search[s].attempt
    BY <1>1, <2>2 DEF Searches, Places
  <2> HIDE DEF r
  <2>4. (o.discovery - 1) * Syntheses + (r.synthesis - 1) = (o.discovery - 1) * Syntheses
    <3>1. (o.discovery - 1) * Syntheses \in Int
      BY <1>3, ConstantsAreNumbers
    <3> QED
      BY <2>3, <3>1
  <2>5. Accounted(r, o)
    BY <1>4, <1>5, <1>6, <2>3, <2>4 DEF Accounted
  <2> QED
    BY <1>1, <1>3, <1>8, <2>1, <2>3, <2>5, OneSteps DEF Inv
<1>9. CASE /\ asked' = [asked EXCEPT ![s] = o]
           /\ \E remote \in Found : Returns(s, Merge(search[s].local, remote))
    BY <1>1, <1>3, <1>5, <1>6, <1>9, MergedKeepsInv
<1>10. Refused(s) \/ asked' = [asked EXCEPT ![s] = o]
    BY DEF Discover, o
<1> QED
    BY <1>2, <1>7, <1>8, <1>9, <1>10 DEF Discover

LEMMA SynthesizeKeepsInv ==
    ASSUME Inv, NEW s \in Searcher, Synthesize(s)
    PROVE  Inv'
<1>1. search[s].at = "synthesize" /\ UNCHANGED <<trusted, passed>>
      /\ search[s] \in Searches /\ asked[s] \in Requests
    BY DEF Inv, Synthesize, At
<1>2. CASE Refused(s)
    BY <1>1, <1>2, RefusedKeepsInv
<1> DEFINE o == [asked[s] EXCEPT !.synthesis = @ + 1]
           before == (asked[s].discovery - 1) * Syntheses
<1>3. /\ o \in Requests /\ o.discovery = asked[s].discovery
      /\ o.synthesis = asked[s].synthesis + 1 /\ o.refused = asked[s].refused
      /\ asked[s].discovery \in Nat /\ asked[s].synthesis \in Nat
    BY <1>1 DEF Requests
<1> HIDE DEF o
<1>4. /\ search[s].attempt \in 0..Attempts /\ search[s].attempt >= 1 /\ ~o.refused
      /\ search[s].synthesis \in 0..Syntheses /\ search[s].synthesis >= 1
      /\ asked[s].discovery >= 1 /\ asked[s].discovery <= search[s].attempt
      /\ asked[s].synthesis <= before + (search[s].synthesis - 1)
    BY <1>1, <1>3 DEF Inv, Accounted, Searches
<1>5. before \in Nat /\ o.discovery * Syntheses = before + Syntheses
  <2>1. asked[s].discovery - 1 \in Nat
    BY <1>3, <1>4
  <2>2. before \in Nat /\ ((asked[s].discovery - 1) + 1) * Syntheses = before + Syntheses
    BY <2>1, OneMore
  <2>3. (asked[s].discovery - 1) + 1 = o.discovery
    BY <1>3
  <2> QED
    BY <2>2, <2>3
<1>6. o.synthesis <= before + search[s].synthesis
    BY <1>3, <1>4, <1>5
<1>7. o.synthesis <= o.discovery * Syntheses /\ o.discovery <= search[s].attempt
    BY <1>3, <1>4, <1>5, <1>6, ConstantsAreNumbers
<1>8. CASE asked' = [asked EXCEPT ![s] = o] /\ AttemptFails(s)
    BY <1>1, <1>3, <1>4, <1>7, <1>8, AttemptFailsKeepsInv
<1>9. CASE /\ asked' = [asked EXCEPT ![s] = o] /\ search[s].synthesis < Syntheses
           /\ search' = [search EXCEPT ![s].synthesis = @ + 1]
  <2> DEFINE r == [search[s] EXCEPT !.synthesis = @ + 1]
  <2>1. search' = [search EXCEPT ![s] = r]
    BY <1>9
  <2>2. search[s].synthesis + 1 \in 0..Syntheses
    BY <1>4, <1>9, ConstantsAreNumbers
  <2>3. /\ r \in Searches /\ r.at = "synthesize" /\ r.synthesis = search[s].synthesis + 1
        /\ r.attempt = search[s].attempt
    BY <1>1, <2>2 DEF Searches
  <2> HIDE DEF r
  <2>4. o.synthesis <= before + (r.synthesis - 1)
    BY <1>4, <1>5, <1>6, <2>3
  <2>5. before = (o.discovery - 1) * Syntheses
    BY <1>3
  <2> HIDE DEF before
  <2>6. o.synthesis <= (o.discovery - 1) * Syntheses + (r.synthesis - 1)
    BY <2>4, <2>5
  <2>7. r.attempt >= 1 /\ r.synthesis >= 1 /\ o.discovery >= 1
    BY <1>3, <1>4, <2>3
  <2>8. Accounted(r, o)
    BY <1>4, <1>7, <2>3, <2>6, <2>7 DEF Accounted
  <2> QED
    BY <1>1, <1>3, <1>9, <2>1, <2>3, <2>8, OneSteps DEF Inv
<1>10. CASE /\ asked' = [asked EXCEPT ![s] = o]
            /\ \E remote \in Found : Returns(s, Merge(search[s].local, remote))
    BY <1>1, <1>3, <1>7, <1>10, MergedKeepsInv
<1>11. Refused(s) \/ asked' = [asked EXCEPT ![s] = o]
    BY DEF Synthesize, o
<1> QED
    BY <1>2, <1>8, <1>9, <1>10, <1>11 DEF Synthesize

LEMMA CatalogKeepsInv ==
    ASSUME Inv, NEW s \in Searcher, AskCatalog(s)
    PROVE  Inv'
<1>1. /\ search[s].at = "idle" /\ UNCHANGED <<trusted, passed, asked>>
      /\ search[s] = NoSearch /\ asked[s] = NothingAsked
    BY DEF Inv, Accounted, AskCatalog, At
<1>2. asked[s] \in Requests /\ asked' = [asked EXCEPT ![s] = asked[s]]
    BY <1>1 DEF Inv
<1>3. 0 * Syntheses = 0
    BY ConstantsAreNumbers
<1>4. ASSUME NEW r \in Searches, search' = [search EXCEPT ![s] = r],
             r.at \in {"done", "preflight", "failed"}, r.attempt = 0,
             r.at = "failed" => r.local = <<>>
      PROVE  Inv'
  <2>1. Accounted(r, asked[s])
    BY <1>1, <1>3, <1>4, NothingIsTyped DEF Accounted
  <2> QED
    BY <1>1, <1>2, <1>4, <2>1, OneSteps DEF Inv
<1>5. ASSUME NEW local \in Listed,
             search' = [search EXCEPT ![s] = [NoSearch EXCEPT !.at = "done", !.local = local,
                                                              !.result = UpToLimit(local)]]
      PROVE  Inv'
  <2> DEFINE r == [NoSearch EXCEPT !.at = "done", !.local = local, !.result = UpToLimit(local)]
  <2>1. local \in Seq(Case) /\ UpToLimit(local) \in Seq(Case)
    BY ResearchAssumption, UpToLimitIsResult
  <2>2. r \in Searches /\ r.at = "done" /\ r.attempt = 0
    BY <2>1, NothingIsTyped DEF Searches, Places
  <2> QED
    BY <1>4, <1>5, <2>2
<1>6. ASSUME NEW local \in Listed,
             search' = [search EXCEPT ![s] = [NoSearch EXCEPT !.at = "preflight", !.local = local]]
      PROVE  Inv'
  <2> DEFINE r == [NoSearch EXCEPT !.at = "preflight", !.local = local]
  <2>1. local \in Seq(Case)
    BY ResearchAssumption
  <2>2. r \in Searches /\ r.at = "preflight" /\ r.attempt = 0
    BY <2>1, NothingIsTyped DEF Searches, Places
  <2> QED
    BY <1>4, <1>6, <2>2
<1>7. CASE MovesTo(s, "failed")
  <2>1. PICK r \in Searches :
            /\ search' = [search EXCEPT ![s] = r]
            /\ r.at = "failed" /\ r.local = search[s].local
            /\ r.attempt = search[s].attempt
    BY <1>7, MoveSets DEF Places
  <2> QED
    BY <1>1, <1>4, <2>1, NothingIsTyped
<1> QED
    BY <1>5, <1>6, <1>7 DEF AskCatalog

LEMMA ChecksKeepInv ==
    ASSUME Inv, NEW s \in Searcher, Preflight(s) \/ CheckBalance(s) \/ CheckModel(s)
    PROVE  Inv'
<1>1. CASE Preflight(s)
    BY <1>1, StartKeepsInv, WaitingKeepsInv DEF Preflight, At, Inv
<1>2. CASE CheckBalance(s)
    BY <1>2, WaitingKeepsInv, QuietlyFailsKeepsInv DEF CheckBalance, At
<1>3. CASE CheckModel(s)
  <2>1. CASE StartAttempts(s) /\ trusted' = now /\ passed' = passed \cup {now}
    BY <1>3, <2>1, StartKeepsInv DEF CheckModel, At
  <2>2. CASE WebFails(s) /\ UNCHANGED <<trusted, passed>>
    BY <1>3, <2>2, QuietlyFailsKeepsInv DEF CheckModel
  <2> QED
    BY <1>3, <2>1, <2>2 DEF CheckModel
<1> QED
    BY <1>1, <1>2, <1>3

LEMMA FinishKeepsInv ==
    ASSUME Inv, NEW s \in Searcher, Finish(s)
    PROVE  Inv'
<1>1. /\ search' = [search EXCEPT ![s] = NoSearch] /\ asked' = [asked EXCEPT ![s] = NothingAsked]
      /\ UNCHANGED <<trusted, passed>>
    BY DEF Finish
<1>2. 0 * Syntheses = 0
    BY ConstantsAreNumbers
<1>3. Accounted(NoSearch, NothingAsked)
    BY <1>2, NothingIsTyped DEF Accounted
<1> QED
    BY <1>1, <1>3, NothingIsTyped, OneSteps DEF Inv

LEMMA NextKeepsInv == Inv /\ [ResearchNext]_researchVars => Inv'
<1> SUFFICES ASSUME Inv, [ResearchNext]_researchVars PROVE Inv'
    OBVIOUS
<1>1. CASE UNCHANGED <<trusted, search, passed, asked>>
    BY <1>1 DEF Inv
<1>2. ASSUME NEW s \in Searcher, SearchStep(s) PROVE Inv'
    BY <1>2, CatalogKeepsInv, ChecksKeepInv, DiscoverKeepsInv, SynthesizeKeepsInv,
       FinishKeepsInv DEF SearchStep
<1> QED
    BY <1>1, <1>2 DEF ResearchNext, Tick, AccountChanges, researchVars

LEMMA AlwaysInv == ResearchSpec => []Inv
BY InitInv, NextKeepsInv, PTL DEF ResearchSpec

-----------------------------------------------------------------------------
(* Whatever goes wrong with the web, a search that found something in the  *)
(* catalog does not fail.                                                  *)
THEOREM CatalogIsNotLost == ResearchSpec => []CatalogSurvives
<1>1. Inv => CatalogSurvives
    BY DEF Inv, Accounted, CatalogSurvives, At
<1> QED
    BY <1>1, AlwaysInv, PTL

(* The expensive requests keep to the numbers of attempts, however the     *)
(* answers of the service come.                                            *)
THEOREM RequestsAreBounded == ResearchSpec => []WithinAttempts
<1>1. Inv => WithinAttempts
  <2> SUFFICES ASSUME Inv, NEW s \in Searcher
      PROVE  /\ asked[s].discovery <= search[s].attempt \/ search[s].at = "idle"
             /\ asked[s].discovery <= Attempts
             /\ asked[s].synthesis <= asked[s].discovery * Syntheses
             /\ asked[s].refused => search[s].at \in {"done", "failed"}
    BY DEF WithinAttempts
  <2>1. search[s].attempt \in 0..Attempts /\ asked[s].discovery \in Nat
    BY DEF Inv, Searches, Requests
  <2>2. Accounted(search[s], asked[s])
    BY DEF Inv
  <2>3. asked[s].discovery <= Attempts
    BY <2>1, <2>2, ConstantsAreNumbers DEF Accounted
  <2> QED
    BY <2>2, <2>3 DEF Accounted
<1> QED
    BY <1>1, AlwaysInv, PTL

(* A search of the web starts only with a check of the account that is     *)
(* younger than its time to live, or was made in this step.                *)
THEOREM ChecksComeFirst == ResearchSpec => ChecksFirst
<1> DEFINE Started(s) ==
        search'[s].at = "discover" /\ search[s].at # "discover" /\ search'[s].attempt = 1
<1>1. ASSUME Inv, [ResearchNext]_researchVars, NEW s \in Searcher, Started(s)
      PROVE  \E t \in passed' : now - t < Ttl \/ t = now
  <2>2. search[s] \in Searches /\ search \in [Searcher -> Searches]
    BY <1>1 DEF Inv
  <2>3. SearchStep(s)
    <3>1. ASSUME NEW q \in Searcher, SearchStep(q), q # s PROVE search'[s] = search[s]
      BY <2>2, <3>1 DEF SearchStep, AskCatalog, Preflight, CheckBalance, CheckModel, Discover,
         Synthesize, Finish, MovesTo, StartAttempts, WebFails, Returns, Refused, AttemptFails
    <3>2. ~ UNCHANGED search
      BY <1>1
    <3> QED
      BY <1>1, <3>1, <3>2 DEF ResearchNext, Tick, AccountChanges, researchVars
  <2>4. ASSUME WebFails(s) PROVE search'[s].at \in {"done", "failed"}
    BY <1>1, <2>4, WebFailsSets DEF Inv
  <2>5. CASE AskCatalog(s)
    <3>1. ASSUME NEW local \in Listed
          PROVE  /\ [NoSearch EXCEPT !.at = "done", !.local = local,
                                     !.result = UpToLimit(local)].at = "done"
                 /\ [NoSearch EXCEPT !.at = "preflight", !.local = local].at = "preflight"
      BY DEF NoSearch
    <3>2. MovesTo(s, "failed") => search'[s].at = "failed"
      BY <1>1, <2>2, MoveSets DEF Places
    <3> QED
      BY <1>1, <2>2, <2>5, <3>1, <3>2 DEF AskCatalog
  <2>6. CASE Preflight(s)
    <3>1. CASE Trusts
      BY <1>1, <2>6, <3>1 DEF Preflight, Trusts, Inv
    <3>2. CASE ~Trusts
      <4>1. search'[s].at = "balance"
        BY <1>1, <2>2, <2>6, <3>2, MoveSets DEF Preflight, Places
      <4> QED
        BY <1>1, <4>1
    <3> QED
      BY <3>1, <3>2
  <2>7. CASE CheckBalance(s)
    <3>1. MovesTo(s, "model") => search'[s].at = "model"
      BY <1>1, <2>2, MoveSets DEF Places
    <3> QED
      BY <1>1, <2>4, <2>7, <3>1 DEF CheckBalance
  <2>8. CASE CheckModel(s)
    BY <1>1, <2>4, <2>8 DEF CheckModel
  <2>9. CASE Discover(s)
    BY <1>1, <2>9 DEF Discover, At
  <2>10. CASE Synthesize(s)
    <3>1. search[s].attempt \in Nat /\ search[s].attempt >= 1
      BY <1>1, <2>2, <2>10 DEF Synthesize, At, Inv, Accounted, Searches
    <3>2. ASSUME AttemptFails(s), search[s].attempt < Attempts PROVE FALSE
      <4>1. search'[s].attempt = search[s].attempt + 1
        BY <2>2, <3>2 DEF AttemptFails, Searches
      <4> QED
        BY <1>1, <3>1, <4>1
    <3>3. ASSUME AttemptFails(s) PROVE FALSE
      BY <1>1, <2>4, <3>2, <3>3 DEF AttemptFails
    <3>4. ASSUME search' = [search EXCEPT ![s].synthesis = @ + 1] PROVE FALSE
      <4>1. search'[s].at = search[s].at
        BY <2>2, <3>4 DEF Searches
      <4> QED
        BY <1>1, <2>10, <4>1 DEF Synthesize, At
    <3>5. ASSUME NEW result, Returns(s, result) PROVE FALSE
      <4>1. search'[s].at = "done"
        BY <2>2, <3>5 DEF Returns, Searches
      <4> QED
        BY <1>1, <4>1
    <3>6. ~Refused(s)
      BY <1>1, <2>4 DEF Refused
    <3> QED
      BY <2>10, <3>3, <3>4, <3>5, <3>6 DEF Synthesize
  <2>11. CASE Finish(s)
    BY <1>1, <2>2, <2>11, NothingIsTyped DEF Finish
  <2> QED
    BY <2>3, <2>5, <2>6, <2>7, <2>8, <2>9, <2>10, <2>11 DEF SearchStep
<1>2. Inv /\ [ResearchNext]_researchVars =>
          [\A s \in Searcher :
              Started(s) => \E t \in passed' : now - t < Ttl \/ t = now]_researchVars
    BY <1>1
<1> QED
    BY <1>2, AlwaysInv, PTL DEF ResearchSpec, ChecksFirst

-----------------------------------------------------------------------------
(* Results in order: a second invariant, of the lists a search holds.  As  *)
(* long as it asks the web, the catalog had too few, and its list stays    *)
(* what the result must begin with.                                        *)
LEMMA CatalogIsInOrder ==
    ASSUME NEW local \in Seq(Case)
    PROVE  InOrder(local, UpToLimit(local))
<1> DEFINE U == UpToLimit(local)
<1>1. Smaller(Limit, Len(local)) \in Nat /\ Smaller(Limit, Len(local)) <= Limit
    BY ConstantsAreNumbers DEF Smaller
<1>2. U \in Seq(Case) /\ Len(U) <= Limit
    BY <1>1, UpToLimitIsResult DEF UpToLimit, Smaller
<1>3. IsPrefix(U, U)
    BY <1>2 DEF IsPrefix
<1> QED
    BY <1>2, <1>3 DEF InOrder

LEMMA MergeIsInOrder ==
    ASSUME NEW local \in Seq(Case), NEW remote \in Seq(Case)
    PROVE  InOrder(local, Merge(local, remote))
<1> DEFINE U == UpToLimit(local)
           M == Merge(local, remote)
           k == Smaller(Limit, Len(local))
<1>1. k \in Nat /\ k <= Limit /\ k <= Len(local)
    BY ConstantsAreNumbers DEF Smaller
<1>2. U \in Seq(Case) /\ Len(U) = k /\ \A i \in 1..k : U[i] = local[i]
    BY <1>1 DEF UpToLimit
<1>3. ToSet(U) \subseteq ToSet(M)
  <2> SUFFICES ASSUME NEW i \in 1..k PROVE local[i] \in ToSet(M)
    BY <1>2 DEF ToSet
  <2>1. i \in 1..Len(local) /\ i <= Limit
    BY <1>1, ConstantsAreNumbers
  <2> QED
    BY <2>1, MergeKeepsLocal
<1>4. ASSUME IsInjective(local) PROVE IsPrefix(U, M)
  <2>1. M \in Seq(Case) /\ k <= Len(M)
    BY <1>4, MergeIsSequence, MergeBeginsWithLocal
  <2>2. \A i \in 1..k : M[i] = local[i]
    <3> SUFFICES ASSUME NEW i \in 1..k PROVE M[i] = local[i]
      OBVIOUS
    <3>1. i \in 1..Len(local) /\ i <= Limit
      BY <1>1, ConstantsAreNumbers
    <3> QED
      BY <1>4, <3>1, MergeBeginsWithLocal
  <2> HIDE DEF U, M, k
  <2>3. SubSeq(U, 1, k) = SubSeq(M, 1, k)
    BY <1>1, <1>2, <2>1, <2>2
  <2> QED
    BY <1>2, <2>1, <2>3 DEF IsPrefix
<1> QED
    BY <1>3, <1>4, MergeNamesOnce DEF InOrder

Asking == {"preflight", "balance", "model", "discover", "synthesize"}

Kept(r, o) ==
    /\ r.at = "done" => InOrder(r.local, r.result)
    /\ r.at \in Asking \/ (o.discovery > 0 /\ r.at # "idle") =>
          Len(r.local) < Smaller(Limit, MinCatalog)
Lists == \A s \in Searcher : Kept(search[s], asked[s])

LEMMA StillAsking ==
    ASSUME Lists, NEW s \in Searcher, search[s].at \in Asking,
           search'[s].local = search[s].local,
           search'[s].at = "done" => InOrder(search[s].local, search'[s].result)
    PROVE  Kept(search'[s], asked'[s])
<1>1. Len(search[s].local) < Smaller(Limit, MinCatalog)
    BY DEF Lists, Kept
<1> QED
    BY <1>1 DEF Kept

LEMMA MoveKeepsLists ==
    ASSUME Inv, Lists, NEW s \in Searcher, search[s].at \in Asking,
           NEW place \in Places \ {"done"}, MovesTo(s, place)
    PROVE  Kept(search'[s], asked'[s])
<1>1. search'[s].local = search[s].local /\ search'[s].at = place
  <2>1. search \in [Searcher -> Searches]
    BY DEF Inv
  <2> QED
    BY <2>1 DEF MovesTo, Searches
<1> QED
    BY <1>1, StillAsking

LEMMA ReturnKeepsLists ==
    ASSUME Inv, Lists, NEW s \in Searcher, search[s].at \in Asking,
           NEW result, InOrder(search[s].local, result), Returns(s, result)
    PROVE  Kept(search'[s], asked'[s])
<1>1. search'[s].local = search[s].local /\ search'[s].result = result
  <2>1. search \in [Searcher -> Searches]
    BY DEF Inv
  <2> QED
    BY <2>1 DEF Returns, Searches
<1> QED
    BY <1>1, StillAsking

LEMMA WebFailsKeepsLists ==
    ASSUME Inv, Lists, NEW s \in Searcher, search[s].at \in Asking, WebFails(s)
    PROVE  Kept(search'[s], asked'[s])
<1>1. InOrder(search[s].local, UpToLimit(search[s].local))
    BY CatalogIsInOrder DEF Inv, Searches
<1>2. "failed" \in Places \ {"done"}
    BY DEF Places
<1> QED
    BY <1>1, <1>2, ReturnKeepsLists, MoveKeepsLists DEF WebFails

LEMMA AttemptFailsKeepsLists ==
    ASSUME Inv, Lists, NEW s \in Searcher, search[s].at \in Asking, AttemptFails(s)
    PROVE  Kept(search'[s], asked'[s])
<1>1. CASE search' = [search EXCEPT ![s].at = "discover", ![s].attempt = @ + 1]
  <2>1. search'[s].local = search[s].local /\ search'[s].at = "discover"
    <3>1. search \in [Searcher -> Searches]
      BY DEF Inv
    <3> QED
      BY <1>1, <3>1 DEF Searches
  <2> QED
    BY <2>1, StillAsking
<1> QED
    BY <1>1, WebFailsKeepsLists DEF AttemptFails

LEMMA StartKeepsLists ==
    ASSUME Inv, Lists, NEW s \in Searcher, search[s].at \in Asking, StartAttempts(s)
    PROVE  Kept(search'[s], asked'[s])
<1>1. search'[s].local = search[s].local /\ search'[s].at = "discover"
  <2>1. search \in [Searcher -> Searches]
    BY DEF Inv
  <2> QED
    BY <2>1 DEF StartAttempts, Searches
<1> QED
    BY <1>1, StillAsking

LEMMA MergedKeepsLists ==
    ASSUME Inv, Lists, NEW s \in Searcher, search[s].at \in Asking,
           NEW remote \in Found, Returns(s, Merge(search[s].local, remote))
    PROVE  Kept(search'[s], asked'[s])
<1>1. InOrder(search[s].local, Merge(search[s].local, remote))
    BY MergeIsInOrder, ResearchAssumption DEF Inv, Searches
<1> QED
    BY <1>1, ReturnKeepsLists

LEMMA CatalogKeepsLists ==
    ASSUME Inv, Lists, NEW s \in Searcher, AskCatalog(s)
    PROVE  Kept(search'[s], asked'[s])
<1>1. /\ search[s] = NoSearch /\ asked'[s] = NothingAsked
      /\ search \in [Searcher -> Searches]
    BY DEF AskCatalog, At, Inv, Accounted
<1>2. ASSUME NEW local \in Listed,
             search' = [search EXCEPT ![s] = [NoSearch EXCEPT !.at = "done", !.local = local,
                                                              !.result = UpToLimit(local)]]
      PROVE  Kept(search'[s], asked'[s])
  <2>1. /\ search'[s].at = "done" /\ search'[s].local = local
        /\ search'[s].result = UpToLimit(local)
    BY <1>1, <1>2 DEF NoSearch
  <2>2. InOrder(local, UpToLimit(local))
    BY CatalogIsInOrder, ResearchAssumption
  <2> QED
    BY <1>1, <2>1, <2>2, NothingIsTyped DEF Kept, Asking
<1>3. ASSUME NEW local \in Listed, ~ (Len(local) >= Smaller(Limit, MinCatalog)),
             search' = [search EXCEPT ![s] = [NoSearch EXCEPT !.at = "preflight", !.local = local]]
      PROVE  Kept(search'[s], asked'[s])
  <2>1. search'[s].at = "preflight" /\ search'[s].local = local
    BY <1>1, <1>3 DEF NoSearch
  <2>2. Len(local) < Smaller(Limit, MinCatalog)
    BY <1>3, ConstantsAreNumbers, ResearchAssumption DEF Smaller
  <2> QED
    BY <2>1, <2>2 DEF Kept
<1>4. CASE MovesTo(s, "failed")
  <2>1. search'[s].at = "failed"
    BY <1>1, <1>4 DEF MovesTo, Searches
  <2> QED
    BY <1>1, <2>1, NothingIsTyped DEF Kept, Asking
<1> QED
    BY <1>2, <1>3, <1>4 DEF AskCatalog

LEMMA AskingKeepsLists ==
    ASSUME Inv, Lists, NEW s \in Searcher,
           Preflight(s) \/ CheckBalance(s) \/ CheckModel(s) \/ Discover(s) \/ Synthesize(s)
    PROVE  Kept(search'[s], asked'[s])
<1> {"balance", "model"} \subseteq Places \ {"done"}
    BY DEF Places
<1>1. search[s].at \in Asking
    BY DEF Preflight, CheckBalance, CheckModel, Discover, Synthesize, At, Asking
<1>2. CASE Preflight(s)
    BY <1>1, <1>2, StartKeepsLists, MoveKeepsLists DEF Preflight
<1>3. CASE CheckBalance(s)
    BY <1>1, <1>3, WebFailsKeepsLists, MoveKeepsLists DEF CheckBalance
<1>4. CASE CheckModel(s)
    BY <1>1, <1>4, WebFailsKeepsLists, StartKeepsLists DEF CheckModel
<1>5. CASE Discover(s)
  <2>1. CASE search' = [search EXCEPT ![s].at = "synthesize", ![s].synthesis = 1]
    <3>1. search'[s].local = search[s].local /\ search'[s].at = "synthesize"
      <4>1. search \in [Searcher -> Searches]
        BY DEF Inv
      <4> QED
        BY <2>1, <4>1 DEF Searches
    <3> QED
      BY <1>1, <3>1, StillAsking
  <2> QED
    BY <1>1, <1>5, <2>1, WebFailsKeepsLists, AttemptFailsKeepsLists, MergedKeepsLists
       DEF Discover, Refused
<1>6. CASE Synthesize(s)
  <2>1. CASE search' = [search EXCEPT ![s].synthesis = @ + 1]
    <3>1. search'[s].local = search[s].local /\ search'[s].at = search[s].at
      <4>1. search \in [Searcher -> Searches]
        BY DEF Inv
      <4> QED
        BY <2>1, <4>1 DEF Searches
    <3> QED
      BY <1>1, <3>1, StillAsking DEF Asking
  <2> QED
    BY <1>1, <1>6, <2>1, WebFailsKeepsLists, AttemptFailsKeepsLists, MergedKeepsLists
       DEF Synthesize, Refused
<1> QED
    BY <1>2, <1>3, <1>4, <1>5, <1>6

LEMMA FinishKeepsLists ==
    ASSUME Inv, NEW s \in Searcher, Finish(s)
    PROVE  Kept(search'[s], asked'[s])
<1>1. search'[s] = NoSearch
    BY DEF Finish, Inv
<1> QED
    BY <1>1, NothingIsTyped DEF Kept, Asking

(* A step of one search leaves the others alone.                           *)
LEMMA OthersStay ==
    ASSUME Inv, NEW s \in Searcher, NEW q \in Searcher, SearchStep(s), q # s
    PROVE  search'[q] = search[q] /\ asked'[q] = asked[q]
<1>1. search \in [Searcher -> Searches] /\ asked \in [Searcher -> Requests]
    BY DEF Inv
<1>2. search'[q] = search[q]
    BY <1>1 DEF SearchStep, AskCatalog, Preflight, CheckBalance, CheckModel, Discover,
       Synthesize, Finish, MovesTo, StartAttempts, WebFails, Returns, Refused, AttemptFails
<1>3. asked'[q] = asked[q]
    BY <1>1 DEF SearchStep, AskCatalog, Preflight, CheckBalance, CheckModel, Discover,
       Synthesize, Finish, Refused
<1> QED
    BY <1>2, <1>3

LEMMA NextKeepsLists == Inv /\ Lists /\ [ResearchNext]_researchVars => Lists'
<1> SUFFICES ASSUME Inv, Lists, [ResearchNext]_researchVars PROVE Lists'
    OBVIOUS
<1>1. CASE UNCHANGED <<search, asked>>
    BY <1>1 DEF Lists, Kept
<1>2. ASSUME NEW s \in Searcher, SearchStep(s) PROVE Lists'
  <2>1. Kept(search'[s], asked'[s])
    BY <1>2, CatalogKeepsLists, AskingKeepsLists, FinishKeepsLists DEF SearchStep
  <2>2. ASSUME NEW q \in Searcher, q # s PROVE Kept(search'[q], asked'[q])
    BY <1>2, <2>2, OthersStay DEF Lists
  <2> QED
    BY <2>1, <2>2 DEF Lists, Kept
<1> QED
    BY <1>1, <1>2 DEF ResearchNext, Tick, AccountChanges, researchVars

(* Whatever lists the catalog and the web return: the result keeps to the  *)
(* limit, loses none of the catalog's candidates within it, has them in    *)
(* front and, with candidates of the web in it, names none twice; and the  *)
(* web was asked only when the catalog had too few.                        *)
THEOREM ResultsAreInOrder == ResearchSpec => []ResultInOrder
<1>1. ResearchInit => Lists
  <2> SUFFICES ASSUME ResearchInit, NEW s \in Searcher PROVE Kept(search[s], asked[s])
    BY DEF Lists
  <2>1. search[s] = NoSearch
    BY DEF ResearchInit
  <2> QED
    BY <2>1, NothingIsTyped DEF Kept, Asking
<1>2. Lists => ResultInOrder
    BY DEF Lists, Kept, ResultInOrder, At
<1> QED
    BY <1>1, <1>2, AlwaysInv, NextKeepsLists, PTL DEF ResearchSpec

-----------------------------------------------------------------------------
(* The clock, and what was written down of it.                             *)
Clock == now \in Nat \ {0} /\ trusted \in 0..now /\ passed \subseteq 1..now

(* Whatever the answers and whoever searches beside: every search is made  *)
(* of candidates within its attempts, the account is trusted since a time  *)
(* that was, and the requests keep to the numbers of attempts.             *)
THEOREM AskedIsWithinAttempts == ResearchSpec => []AskedWithinAttempts
<1>1. ResearchInit => Clock
    BY DEF ResearchInit, Clock
<1>2. Clock /\ [ResearchNext]_researchVars => Clock'
  <2> SUFFICES ASSUME Clock, [ResearchNext]_researchVars PROVE Clock'
    OBVIOUS
  <2>1. CASE UNCHANGED <<now, trusted, passed>>
    BY <2>1 DEF Clock
  <2>2. CASE Tick
    BY <2>2 DEF Tick, Clock
  <2>3. ASSUME NEW s \in Searcher, CheckModel(s) PROVE Clock'
    <3>1. /\ now' = now
          /\ \/ trusted' = now /\ passed' = passed \cup {now}
             \/ UNCHANGED <<trusted, passed>>
      BY <2>3 DEF CheckModel
    <3>2. now \in 0..now /\ {now} \subseteq 1..now
      BY DEF Clock
    <3> QED
      BY <3>1, <3>2 DEF Clock
  <2> QED
    BY <2>1, <2>2, <2>3 DEF ResearchNext, AccountChanges, SearchStep, AskCatalog, Preflight,
       CheckBalance, Discover, Synthesize, Finish, researchVars
<1>3. Inv /\ Clock /\ WithinAttempts => AskedWithinAttempts
    BY DEF Inv, Searches, Clock, AskedWithinAttempts
<1> QED
    BY <1>1, <1>2, <1>3, AlwaysInv, RequestsAreBounded, PTL DEF ResearchSpec
===============================================================================
