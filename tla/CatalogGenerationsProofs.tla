----------------------- MODULE CatalogGenerationsProofs -----------------------
(***************************************************************************)
(* CatalogGenerations for any number of generations, documents, refreshes  *)
(* and searches, any Keep and any faults: the inductive invariant IInv,    *)
(* the safety properties that follow from it, and that searches see what   *)
(* ActiveCatalog promises.                                                 *)
(***************************************************************************)
EXTENDS CatalogGenerations, TLAPS

USE NoneIsNoGeneration

(* The shape of a process after the assignments the actions make.          *)
LEMMA ProcessTyping ==
    ASSUME TypeOK
    PROVE  /\ Waiting \in Process
           /\ \A p \in Refresher : process[p] \in Process
    <1>1. Waiting \in Process
      BY DEF Waiting, Process, PC, Building
    <1>2. QED
      BY <1>1 DEF TypeOK

LEMMA InitIInv == Init => IInv
    <1> SUFFICES ASSUME Init PROVE IInv
      OBVIOUS
    <1>1. TypeOK
      BY DEF Init, TypeOK, Process, Waiting, PC, Building, Status, Inactive
    <1>2. ActiveIsReady
      BY DEF Init, ActiveIsReady
    <1>3. NoRace /\ BuildOwned /\ BuildAccountedFor
      BY DEF Init, NoRace, BuildOwned, BuildAccountedFor, Waiting, Building
    <1>4. Frozen /\ ReadingOld /\ DoomedStay
      BY DEF Init, Frozen, ReadingOld, DoomedStay, Waiting
    <1>5. QED
      BY <1>1, <1>2, <1>3, <1>4 DEF IInv

-------------------------------------------------------------------------------
(* One lemma per action                                                    *)

LEMMA BeginStep ==
    ASSUME IInv, NEW p \in Refresher, NEW g \in Gen, Begin(p, g)
    PROVE  IInv'
    <1> USE DEF At, Mine, NobodyBuilds
    <1>1. PICK full \in BOOLEAN, todo \in SUBSET Doc :
              /\ process' = [process EXCEPT ![p] = [Waiting EXCEPT !.pc = "index", !.gen = g,
                                                              !.full = full, !.todo = todo]]
              /\ partial' = IF full THEN partial \ {g} ELSE partial \cup {g}
      BY DEF Begin
    <1> DEFINE q0 == [Waiting EXCEPT !.pc = "index", !.gen = g, !.full = full, !.todo = todo]
    <1>2. /\ q0 \in Process /\ q0.pc = "index" /\ q0.gen = g /\ q0.full = full
          /\ q0.doomed = {}
      BY DEF Waiting, Process, PC, Building
    <1>3. /\ process'[p] = q0
          /\ \A q \in Refresher : q # p => process'[q] = process[q]
      BY <1>1 DEF IInv, TypeOK
    <1> HIDE DEF q0
    <1>4. \A q \in Refresher : process[q].pc \notin Building
      BY DEF Begin, IInv, BuildOwned, TypeOK, Process
    <1>5. /\ status' = [status EXCEPT ![g] = "building"]
          /\ approved' = [approved EXCEPT ![g] = {}]
          /\ status[g] = "none"
          /\ g \notin {reading[s] : s \in Searcher}
          /\ \A q \in Refresher : g \notin process[q].doomed
          /\ UNCHANGED <<rows, older, active, reading, orphaned>>
      BY DEF Begin
    <1>6. TypeOK'
      BY <1>1, <1>2, <1>5, Zenon DEF IInv, TypeOK, Status, q0
    <1>7. ActiveIsReady'
      BY <1>5 DEF IInv, TypeOK, ActiveIsReady
    <1>8. NoRace'
      BY <1>3, <1>4 DEF NoRace
    <1>9. BuildOwned'
      <2> SUFFICES ASSUME NEW q \in Refresher, process'[q].pc \in Building
                   PROVE  /\ process'[q].gen # None
                          /\ status'[process'[q].gen] = "building"
                          /\ process'[q].gen \in partial' <=> ~process'[q].full
                          /\ process'[q].pc \in {"gate", "promote", "reject"} => process'[q].full
                          /\ process'[q].pc = "promote" => 
                                /\ rows'[process'[q].gen] # {}
                                /\ approved'[process'[q].gen] = rows'[process'[q].gen]
        BY DEF BuildOwned
      <2>1. q = p
        BY <1>3, <1>4
      <2>2. status'[g] = "building"
        BY <1>5 DEF IInv, TypeOK
      <2>3. g \in partial' <=> ~full
        BY <1>1
      <2>4. QED
        BY <1>2, <1>3, <2>1, <2>2, <2>3
    <1>10. BuildAccountedFor'
      <2> SUFFICES ASSUME NEW h \in Gen, status'[h] = "building", h \notin orphaned'
                   PROVE  \E q \in Refresher : process'[q].pc \in Building /\ process'[q].gen = h
        BY DEF BuildAccountedFor
      <2>1. h = g
        BY <1>5 DEF Begin, IInv, TypeOK
      <2>2. QED
        BY <1>2, <1>3, <2>1 DEF Building
    <1>11. Frozen'
      BY <1>1, <1>5 DEF IInv, TypeOK, Frozen
    <1>12. ReadingOld'
      BY <1>1, <1>5 DEF IInv, TypeOK, ReadingOld
    <1>13. DoomedStay'
      <2> SUFFICES ASSUME NEW q \in Refresher, NEW h \in process'[q].doomed
                   PROVE  status'[h] \in Inactive \cup {"none"}
        BY DEF DoomedStay
      <2>1. q # p
        BY <1>2, <1>3
      <2>2. h \in process[q].doomed /\ h # g
        BY <1>3, <1>5, <2>1
      <2>3. QED
        BY <1>5, <2>2 DEF IInv, TypeOK, DoomedStay, Process
    <1>14. QED
      BY <1>6, <1>7, <1>8, <1>9, <1>10, <1>11, <1>12, <1>13 DEF IInv

(* A step of one process that stores nothing: it may only go on with its   *)
(* build, end it when it is known to be an orphan, or be outside of one.   *)
LEMMA ProcessStep ==
    ASSUME IInv, NEW p \in Refresher, NEW r \in Process,
           process' = [process EXCEPT ![p] = r],
           UNCHANGED <<status, rows, older, active, reading, partial>>,
           approved' \in [Gen -> SUBSET Doc],
           \A g \in Gen : status[g] # "building" => approved'[g] = approved[g],
           \A q \in Refresher : q # p /\ process[q].pc \in Building
                => approved'[process[q].gen] = approved[process[q].gen],
           orphaned \subseteq orphaned', orphaned' \subseteq Gen,
           r.pc \in Building =>
                /\ process[p].pc \in Building
                /\ r.gen = process[p].gen /\ r.full = process[p].full
                /\ r.pc \in {"gate", "promote", "reject"} => r.full
                /\ r.pc = "promote" => rows[r.gen] # {} /\ approved'[r.gen] = rows[r.gen],
           process[p].pc \in Building => r.pc \in Building \/ process[p].gen \in orphaned',
           \A g \in r.doomed : status[g] \in Inactive \cup {"none"}
    PROVE  IInv'
    <1> USE DEF At, Mine
    <1>1. /\ process'[p] = r
          /\ \A q \in Refresher : q # p => process'[q] = process[q]
      BY DEF IInv, TypeOK
    <1>2. TypeOK'
      BY DEF IInv, TypeOK
    <1>3. ActiveIsReady'
      BY DEF IInv, ActiveIsReady
    <1>4. NoRace'
      BY <1>1 DEF IInv, NoRace
    <1>5. BuildOwned'
      <2> SUFFICES ASSUME NEW q \in Refresher, process'[q].pc \in Building
                   PROVE  /\ process'[q].gen # None
                          /\ status[process'[q].gen] = "building"
                          /\ process'[q].gen \in partial <=> ~process'[q].full
                          /\ process'[q].pc \in {"gate", "promote", "reject"} => process'[q].full
                          /\ process'[q].pc = "promote" =>
                                /\ rows[process'[q].gen] # {}
                                /\ approved'[process'[q].gen] = rows[process'[q].gen]
        BY DEF BuildOwned
      <2>1. CASE q = p
        BY <1>1, <2>1 DEF IInv, BuildOwned
      <2>2. CASE q # p
        BY <1>1, <2>2 DEF IInv, BuildOwned
      <2>3. QED
        BY <2>1, <2>2
    <1>6. BuildAccountedFor'
      <2> SUFFICES ASSUME NEW g \in Gen, status[g] = "building", g \notin orphaned'
                   PROVE  \E q \in Refresher : process'[q].pc \in Building /\ process'[q].gen = g
        BY DEF BuildAccountedFor
      <2>1. PICK q \in Refresher : process[q].pc \in Building /\ process[q].gen = g
        BY DEF IInv, BuildAccountedFor
      <2>2. QED
        BY <1>1, <2>1
    <1>7. Frozen'
      BY DEF IInv, Frozen
    <1>8. ReadingOld'
      <2> SUFFICES ASSUME NEW s \in Searcher, reading[s] # None
                   PROVE  \/ status[reading[s]] \in {"ready", "superseded"}
                          \/ /\ status[reading[s]] = "none" /\ rows[reading[s]] = {}
                             /\ approved'[reading[s]] # {} /\ reading[s] \notin partial
        BY DEF ReadingOld
      <2>1. reading[s] \in Gen
        BY DEF IInv, TypeOK
      <2>2. QED
        BY <2>1 DEF IInv, ReadingOld
    <1>9. DoomedStay'
      BY <1>1 DEF IInv, DoomedStay
    <1>10. QED
      BY <1>2, <1>3, <1>4, <1>5, <1>6, <1>7, <1>8, <1>9 DEF IInv

LEMMA LatestTyping ==
    ASSUME TypeOK, NEW g \in Gen, Latest(g)
    PROVE  older' \subseteq Gen \X Gen
    BY DEF TypeOK, Latest, Finished

(* A build that ends with a status of its own.                             *)
LEMMA EndsStep ==
    ASSUME IInv, NEW p \in Refresher, process[p].pc \in Building,
           NEW s \in {"failed", "discarded"}, EndsAs(Mine(p), s),
           NEW r \in Process, process' = [process EXCEPT ![p] = r],
           r.pc \notin Building, r.doomed \subseteq process[p].doomed,
           UNCHANGED <<rows, active, reading, seen>>
    PROVE  IInv'
    <1> DEFINE g == process[p].gen
    <1>1. g \in Gen /\ status[g] = "building"
      BY DEF IInv, TypeOK, Process, BuildOwned, Mine
    <1>2. /\ status' = [status EXCEPT ![g] = s]
          /\ older' \subseteq Gen \X Gen
      BY <1>1, LatestTyping DEF IInv, EndsAs, Mine
    <1> HIDE DEF g
    <1>3. /\ process'[p] = r
          /\ \A q \in Refresher : q # p =>
                /\ process'[q] = process[q]
                /\ process[q].pc \notin Building
      BY DEF IInv, TypeOK, NoRace
    <1>4. TypeOK'
      BY <1>1, <1>2 DEF IInv, TypeOK, Status, seen
    <1>5. ActiveIsReady'
      BY <1>1, <1>2 DEF IInv, TypeOK, ActiveIsReady
    <1>6. NoRace' /\ BuildOwned'
      BY <1>3 DEF NoRace, BuildOwned, At, Mine
    <1>7. BuildAccountedFor'
      <2> SUFFICES ASSUME NEW h \in Gen, status'[h] = "building", h \notin orphaned
                   PROVE  FALSE
        BY DEF BuildAccountedFor, seen
      <2>1. h # g /\ status[h] = "building"
        BY <1>1, <1>2 DEF IInv, TypeOK
      <2>2. PICK q \in Refresher : process[q].pc \in Building /\ process[q].gen = h
        BY <2>1 DEF IInv, BuildAccountedFor, Mine
      <2>3. QED
        BY <1>3, <2>1, <2>2 DEF g
    <1>8. Frozen' /\ ReadingOld'
      BY <1>1, <1>2 DEF IInv, TypeOK, Frozen, ReadingOld, seen
    <1>9. DoomedStay'
      <2> SUFFICES ASSUME NEW q \in Refresher, NEW h \in process'[q].doomed
                   PROVE  status'[h] \in Inactive \cup {"none"}
        BY DEF DoomedStay
      <2>1. h \in process[q].doomed
        BY <1>3
      <2>2. h \in Gen
        BY <2>1 DEF IInv, TypeOK, Process
      <2>3. QED
        BY <1>2, <2>1, <2>2 DEF IInv, TypeOK, DoomedStay, Inactive
    <1>10. QED
      BY <1>4, <1>5, <1>6, <1>7, <1>8, <1>9 DEF IInv

(* Documents go only into the generation the process builds.               *)
LEMMA IndexDocumentStep ==
    ASSUME IInv, NEW p \in Refresher, NEW d \in Doc, IndexDocument(p, d)
    PROVE  IInv'
    <1> DEFINE g == process[p].gen
               r == [process[p] EXCEPT !.todo = @ \ {d}, !.pc = "count"]
    <1>1. /\ process[p] \in Process /\ process[p].pc = "index" /\ g \in Gen
          /\ status[g] = "building"
      BY DEF IndexDocument, At, Mine, IInv, TypeOK, Process, BuildOwned, Building
    <1>2. /\ r \in Process /\ r.pc = "count" /\ r.gen = g /\ r.full = process[p].full
          /\ r.doomed = process[p].doomed
      BY <1>1 DEF Process, PC, Building
    <1>3. /\ process' = [process EXCEPT ![p] = r]
          /\ UNCHANGED <<status, older, active, reading, approved, partial, orphaned>>
      BY DEF IndexDocument, seen, IInv, TypeOK
    <1>4. /\ rows' \in [Gen -> SUBSET Doc]
          /\ \A h \in Gen : h # g => rows'[h] = rows[h]
      BY <1>1 DEF IndexDocument, IInv, TypeOK, Mine
    <1> HIDE DEF r
    <1>5. /\ process'[p] = r
          /\ \A q \in Refresher : q # p => process'[q] = process[q] /\ process[q].pc \notin Building
      BY <1>1, <1>3 DEF IInv, TypeOK, NoRace, Building
    <1>6. TypeOK'
      BY <1>2, <1>3, <1>4 DEF IInv, TypeOK
    <1>7. ActiveIsReady'
      BY <1>1, <1>3, <1>4 DEF IInv, TypeOK, ActiveIsReady
    <1>8. NoRace'
      BY <1>5 DEF NoRace
    <1>9. BuildOwned'
      <2> SUFFICES ASSUME NEW q \in Refresher, process'[q].pc \in Building
                   PROVE  /\ process'[q].gen # None
                          /\ status[process'[q].gen] = "building"
                          /\ process'[q].gen \in partial <=> ~process'[q].full
                          /\ process'[q].pc \notin {"gate", "promote", "reject"}
        BY <1>3 DEF BuildOwned, At, Mine
      <2>1. q = p
        BY <1>5
      <2>2. QED
        BY <1>1, <1>2, <1>5, <2>1 DEF IInv, BuildOwned, Mine, Building
    <1>10. BuildAccountedFor'
      BY <1>1, <1>2, <1>3, <1>5 DEF IInv, BuildAccountedFor, Mine, Building
    <1>11. Frozen'
      BY <1>1, <1>3, <1>4 DEF IInv, TypeOK, Frozen
    <1>12. ReadingOld'
      BY <1>1, <1>3, <1>4 DEF IInv, TypeOK, ReadingOld
    <1>13. DoomedStay'
      BY <1>2, <1>3, <1>5 DEF IInv, DoomedStay
    <1>14. QED
      BY <1>6, <1>7, <1>8, <1>9, <1>10, <1>11, <1>12, <1>13 DEF IInv

LEMMA CountDocumentStep ==
    ASSUME IInv, NEW p \in Refresher, CountDocument(p)
    PROVE  IInv'
    <1> DEFINE r == [process[p] EXCEPT !.pc = "index"]
    <1>1. /\ process[p] \in Process /\ process[p].pc = "count"
          /\ status[process[p].gen] = "building"
      BY DEF CountDocument, At, IInv, TypeOK, BuildOwned, Building, Mine
    <1>2. /\ r \in Process /\ r.pc = "index" /\ r.gen = process[p].gen
          /\ r.full = process[p].full /\ r.doomed = process[p].doomed
      BY <1>1 DEF Process, PC, Building
    <1>3. process' = [process EXCEPT ![p] = r]
      BY DEF CountDocument, Goto, IInv, TypeOK
    <1>4. UNCHANGED <<status, rows, older, active, reading, approved, partial, orphaned>>
      BY <1>1 DEF CountDocument, Mine, seen, IInv, TypeOK
    <1> HIDE DEF r
    <1>5. \A g \in r.doomed : status[g] \in Inactive \cup {"none"}
      BY <1>2 DEF IInv, DoomedStay
    <1>6. approved' \in [Gen -> SUBSET Doc] /\ orphaned \subseteq Gen
      BY <1>4 DEF IInv, TypeOK
    <1>7. QED
      BY <1>1, <1>2, <1>3, <1>4, <1>5, <1>6, ProcessStep DEF Building

LEMMA IndexedStep ==
    ASSUME IInv, NEW p \in Refresher, Indexed(p)
    PROVE  IInv'
    <1>1. process[p] \in Process /\ process[p].pc = "index" /\ Waiting \in Process
      BY ProcessTyping DEF Indexed, At, IInv
    <1>2. CASE Discard(p)
      <2>1. EndsAs(Mine(p), "discarded") /\ process' = [process EXCEPT ![p] = Waiting]
        BY <1>2 DEF Indexed, Exit
      <2>2. Waiting.pc \notin Building /\ Waiting.doomed \subseteq process[p].doomed
        BY DEF Waiting, Building
      <2>3. UNCHANGED <<rows, active, reading, seen>>
        BY DEF Indexed
      <2>4. process[p].pc \in Building
        BY <1>1 DEF Building
      <2>5. QED
        BY <1>1, <2>1, <2>2, <2>3, <2>4, EndsStep
    <1>3. CASE ~Discard(p)
      <2> DEFINE r == [process[p] EXCEPT !.pc = "gate"]
      <2>1. /\ r \in Process /\ r.pc = "gate" /\ r.gen = process[p].gen
            /\ r.full = process[p].full /\ r.doomed = process[p].doomed
        BY <1>1 DEF Process, PC, Building
      <2>2. r.full
        BY <1>1, <1>3, <2>1 DEF Discard, Process
      <2>3. process' = [process EXCEPT ![p] = r]
        BY <1>3 DEF Indexed, Goto, IInv, TypeOK
      <2>4. UNCHANGED <<status, rows, older, active, reading, approved, partial, orphaned>>
        BY <1>3 DEF Indexed, seen
      <2> HIDE DEF r
      <2>5. \A g \in r.doomed : status[g] \in Inactive \cup {"none"}
        BY <2>1 DEF IInv, DoomedStay
      <2>6. approved' \in [Gen -> SUBSET Doc] /\ orphaned \subseteq Gen
        BY <2>4 DEF IInv, TypeOK
      <2>7. QED
        BY <1>1, <2>1, <2>2, <2>3, <2>4, <2>5, <2>6, ProcessStep DEF Building
    <1>4. QED
      BY <1>2, <1>3

LEMMA BuildFailsStep ==
    ASSUME IInv, NEW p \in Refresher, BuildFails(p)
    PROVE  IInv'
    <1>1. Waiting \in Process /\ Waiting.pc \notin Building
          /\ Waiting.doomed \subseteq process[p].doomed
      BY ProcessTyping DEF IInv, Waiting, Building
    <1>2. process[p].pc \in Building
      BY DEF BuildFails, Building
    <1>3. QED
      BY <1>1, <1>2, EndsStep DEF BuildFails, Exit

(* The gate approves what the process built, which is not active yet.      *)
LEMMA EvaluateStep ==
    ASSUME IInv, NEW p \in Refresher, Evaluate(p)
    PROVE  IInv'
    <1> DEFINE g == process[p].gen
    <1>1. /\ process[p] \in Process /\ process[p].pc = "gate" /\ process[p].full /\ g \in Gen
          /\ status[g] = "building"
      BY DEF Evaluate, At, IInv, TypeOK, Process, BuildOwned, Building, Mine
    <1>2. PICK pc \in {"promote", "reject"} :
              /\ Goto(p, pc)
              /\ pc = "promote" => rows[g] # {} /\ approved' = [approved EXCEPT ![g] = rows[g]]
              /\ pc = "reject" => UNCHANGED approved
      BY DEF Evaluate, Mine
    <1> DEFINE r == [process[p] EXCEPT !.pc = pc]
    <1>3. /\ r \in Process /\ r.pc = pc /\ r.gen = g
          /\ r.full = process[p].full /\ r.doomed = process[p].doomed
      BY <1>1, <1>2 DEF Process, PC, Building
    <1>4. process' = [process EXCEPT ![p] = r]
      BY <1>2 DEF Goto, IInv, TypeOK
    <1>5. UNCHANGED <<status, rows, older, active, reading, partial, orphaned>>
      BY DEF Evaluate, store
    <1> HIDE DEF r
    <1>6. /\ approved' \in [Gen -> SUBSET Doc]
          /\ \A h \in Gen : h # g => approved'[h] = approved[h]
          /\ pc = "promote" => approved'[g] = rows[g]
      BY <1>1, <1>2 DEF IInv, TypeOK
    <1>7. \A q \in Refresher : q # p => process[q].pc \notin Building
      BY <1>1 DEF IInv, NoRace, Building
    <1>8. \A h \in r.doomed : status[h] \in Inactive \cup {"none"}
      BY <1>3 DEF IInv, DoomedStay
    <1>9. orphaned \subseteq Gen
      BY DEF IInv, TypeOK
    <1>10. QED
      BY <1>1, <1>2, <1>3, <1>4, <1>5, <1>6, <1>7, <1>8, <1>9, ProcessStep DEF Building

LEMMA RejectStep ==
    ASSUME IInv, NEW p \in Refresher, Reject(p)
    PROVE  IInv'
    <1> DEFINE r == [process[p] EXCEPT !.pc = "cleanup"]
    <1>1. process[p] \in Process /\ process[p].pc = "reject"
      BY DEF Reject, At, IInv, TypeOK
    <1>2. r \in Process /\ r.pc \notin Building /\ r.doomed \subseteq process[p].doomed
      BY <1>1 DEF Process, PC, Building
    <1>3. process' = [process EXCEPT ![p] = r]
      BY DEF Reject, Goto, IInv, TypeOK
    <1> HIDE DEF r
    <1>4. QED
      BY <1>1, <1>2, <1>3, EndsStep DEF Reject, Building

LEMMA ReadPointerStep ==
    ASSUME IInv, NEW p \in Refresher, ReadPointer(p)
    PROVE  IInv'
    <1> DEFINE r == [process[p] EXCEPT !.pointer = active, !.pc = "list"]
    <1>1. process[p] \in Process /\ process[p].pc = "cleanup"
      BY DEF ReadPointer, At, IInv, TypeOK
    <1>2. r \in Process /\ r.pc = "list" /\ r.doomed = process[p].doomed
      BY <1>1 DEF Process, PC, Building, IInv, TypeOK
    <1>3. process' = [process EXCEPT ![p] = r]
      BY DEF ReadPointer, IInv, TypeOK
    <1>4. UNCHANGED <<status, rows, older, active, reading, approved, partial, orphaned>>
      BY DEF ReadPointer, store, seen
    <1> HIDE DEF r
    <1>5. \A g \in r.doomed : status[g] \in Inactive \cup {"none"}
      BY <1>2 DEF IInv, DoomedStay
    <1>6. approved' \in [Gen -> SUBSET Doc] /\ orphaned \subseteq Gen
      BY <1>4 DEF IInv, TypeOK
    <1>7. QED
      BY <1>1, <1>2, <1>3, <1>4, <1>5, <1>6, ProcessStep DEF Building

(* What a process marks for deletion is inactive when it marks it.         *)
LEMMA ListInactiveStep ==
    ASSUME IInv, NEW p \in Refresher, ListInactive(p)
    PROVE  IInv'
    <1>1. process[p] \in Process /\ process[p].pc = "list" /\ Waiting \in Process
      BY ProcessTyping DEF ListInactive, At, IInv
    <1>2. TooOld(p) \subseteq {g \in Gen : status[g] \in Inactive}
      BY DEF TooOld, Candidates
    <1>3. PICK r \in Process :
              /\ process' = [process EXCEPT ![p] = r]
              /\ r.pc \notin Building
              /\ r.doomed \subseteq TooOld(p)
      <2>1. CASE TooOld(p) = {}
        <3>1. Waiting.pc \notin Building /\ Waiting.doomed = {}
          BY DEF Waiting, Building
        <3>2. QED
          BY <1>1, <2>1, <3>1 DEF ListInactive, Exit
      <2>2. CASE TooOld(p) # {}
        <3> DEFINE r == [process[p] EXCEPT !.doomed = TooOld(p), !.pc = "delete"]
        <3>1. r \in Process /\ r.pc \notin Building /\ r.doomed = TooOld(p)
          BY <1>1, <1>2 DEF Process, PC, Building
        <3>2. process' = [process EXCEPT ![p] = r]
          BY <2>2 DEF ListInactive, IInv, TypeOK
        <3> HIDE DEF r
        <3>3. QED
          BY <3>1, <3>2
      <2>3. QED
        BY <2>1, <2>2
    <1>4. UNCHANGED <<status, rows, older, active, reading, approved, partial, orphaned>>
      BY DEF ListInactive, store, seen
    <1>5. approved' \in [Gen -> SUBSET Doc] /\ orphaned \subseteq Gen
      BY <1>4 DEF IInv, TypeOK
    <1>6. \A g \in r.doomed : status[g] \in Inactive \cup {"none"}
      BY <1>2, <1>3
    <1>7. QED
      BY <1>1, <1>3, <1>4, <1>5, <1>6, ProcessStep DEF Building

(* A process that ends in a build leaves an orphan.                        *)
LEMMA CrashStep ==
    ASSUME IInv, NEW p \in Refresher, Crash(p)
    PROVE  IInv'
    <1>1. Waiting \in Process /\ Waiting.pc \notin Building /\ Waiting.doomed = {}
      BY ProcessTyping DEF IInv, Waiting, Building
    <1>2. process' = [process EXCEPT ![p] = Waiting]
      BY DEF Crash, Exit
    <1>3. UNCHANGED <<status, rows, older, active, reading, approved, partial>>
      BY DEF Crash, store
    <1>4. process[p].pc \in Building => process[p].gen \in Gen
      BY DEF IInv, TypeOK, BuildOwned, Process, Mine
    <1>5. orphaned \subseteq orphaned' /\ orphaned' \subseteq Gen
          /\ (process[p].pc \in Building => process[p].gen \in orphaned')
      BY <1>4 DEF Crash, Mine, IInv, TypeOK
    <1>6. approved' \in [Gen -> SUBSET Doc]
      BY <1>3 DEF IInv, TypeOK
    <1>7. QED
      BY <1>1, <1>2, <1>3, <1>5, <1>6, ProcessStep

(* The pointer moves to what the gate approved, and the statuses with it.  *)
LEMMA PromoteStep ==
    ASSUME IInv, NEW p \in Refresher, Promote(p)
    PROVE  IInv'
    <1> DEFINE g == process[p].gen
               r == [process[p] EXCEPT !.pc = "cleanup"]
    <1>1. /\ process[p] \in Process /\ process[p].pc = "promote" /\ process[p].full
          /\ g \in Gen /\ status[g] = "building" /\ g \notin partial
          /\ rows[g] # {} /\ approved[g] = rows[g]
      BY DEF Promote, At, IInv, TypeOK, Process, BuildOwned, Building, Mine
    <1>2. r \in Process /\ r.pc \notin Building /\ r.doomed = process[p].doomed
      BY <1>1 DEF Process, PC, Building
    <1>3. /\ process' = [process EXCEPT ![p] = r]
          /\ active' = g
          /\ UNCHANGED <<rows, reading, approved, partial, orphaned>>
      BY DEF Promote, Goto, Mine, seen, IInv, TypeOK
    <1>4. older' \subseteq Gen \X Gen
      BY <1>1, LatestTyping DEF Promote, Mine, IInv
    <1>5. /\ status' \in [Gen -> Status]
          /\ status'[g] = "ready"
          /\ active # None => status'[active] = "superseded"
          /\ \A h \in Gen : h # g /\ h # active => status'[h] = status[h]
      BY <1>1 DEF Promote, Superseded, Mine, IInv, TypeOK, Status, Inactive, ActiveIsReady
    <1> HIDE DEF r
    <1>6. /\ process'[p] = r
          /\ \A q \in Refresher : q # p => process'[q] = process[q] /\ process[q].pc \notin Building
      BY <1>1, <1>3 DEF IInv, TypeOK, NoRace, Building
    <1>7. TypeOK'
      BY <1>1, <1>2, <1>3, <1>4, <1>5 DEF IInv, TypeOK
    <1>8. ActiveIsReady'
      BY <1>1, <1>3, <1>5 DEF IInv, TypeOK, ActiveIsReady
    <1>9. NoRace' /\ BuildOwned'
      BY <1>2, <1>6 DEF NoRace, BuildOwned, At, Mine
    <1>10. BuildAccountedFor'
      <2> SUFFICES ASSUME NEW h \in Gen, status'[h] = "building", h \notin orphaned
                   PROVE  FALSE
        BY <1>3 DEF BuildAccountedFor
      <2>1. h # g /\ status[h] = "building"
        BY <1>5
      <2>2. PICK q \in Refresher : process[q].pc \in Building /\ process[q].gen = h
        BY <2>1 DEF IInv, BuildAccountedFor, Mine
      <2>3. QED
        BY <1>6, <2>1, <2>2
    <1>11. Frozen'
      <2> SUFFICES ASSUME NEW h \in Gen, status'[h] \in {"ready", "superseded"}
                   PROVE  approved[h] # {} /\ rows[h] = approved[h] /\ h \notin partial
        BY <1>3 DEF Frozen
      <2>1. CASE h = g
        BY <1>1, <2>1
      <2>2. CASE h # g
        <3>1. status[h] \in {"ready", "superseded"}
          BY <1>5, <2>2 DEF IInv, TypeOK, ActiveIsReady
        <3>2. QED
          BY <3>1 DEF IInv, Frozen
      <2>3. QED
        BY <2>1, <2>2
    <1>12. ReadingOld'
      <2> SUFFICES ASSUME NEW s \in Searcher, reading[s] # None
                   PROVE  \/ status'[reading[s]] \in {"ready", "superseded"}
                          \/ /\ status'[reading[s]] = "none" /\ rows[reading[s]] = {}
                             /\ approved[reading[s]] # {} /\ reading[s] \notin partial
        BY <1>3 DEF ReadingOld
      <2>1. reading[s] \in Gen
        BY DEF IInv, TypeOK
      <2>2. CASE reading[s] = g \/ reading[s] = active
        BY <1>5, <2>1, <2>2
      <2>3. CASE reading[s] # g /\ reading[s] # active
        BY <1>5, <2>1, <2>3 DEF IInv, ReadingOld
      <2>4. QED
        BY <2>2, <2>3
    <1>13. DoomedStay'
      <2> SUFFICES ASSUME NEW q \in Refresher, NEW h \in process'[q].doomed
                   PROVE  status'[h] \in Inactive \cup {"none"}
        BY DEF DoomedStay
      <2>1. h \in process[q].doomed
        BY <1>2, <1>6
      <2>2. h \in Gen
        BY <2>1 DEF IInv, TypeOK, Process
      <2>3. status[h] \in Inactive \cup {"none"}
        BY <2>1 DEF IInv, DoomedStay
      <2>4. h # g /\ h # active
        BY <1>1, <2>2, <2>3 DEF IInv, ActiveIsReady, Inactive
      <2>5. QED
        BY <1>5, <2>2, <2>3, <2>4
    <1>14. QED
      BY <1>7, <1>8, <1>9, <1>10, <1>11, <1>12, <1>13 DEF IInv

(* What is deleted is neither active nor being built.                      *)
LEMMA DeleteGenerationsStep ==
    ASSUME IInv, NEW p \in Refresher, DeleteGenerations(p)
    PROVE  IInv'
    <1> DEFINE doomed == process[p].doomed
    <1>1. /\ process[p] \in Process /\ process[p].pc = "delete" /\ Waiting \in Process
          /\ Waiting.pc \notin Building /\ Waiting.doomed = {}
      BY ProcessTyping DEF DeleteGenerations, At, IInv, Waiting, Building
    <1>2. \A g \in doomed : g \in Gen /\ status[g] \in Inactive \cup {"none"}
      BY <1>1 DEF IInv, DoomedStay, Process
    <1>3. /\ status' = [g \in Gen |-> IF g \in doomed THEN "none" ELSE status[g]]
          /\ rows' = [g \in Gen |-> IF g \in doomed THEN {} ELSE rows[g]]
          /\ older' \subseteq older
          /\ process' = [process EXCEPT ![p] = Waiting]
          /\ UNCHANGED <<active, reading, approved, partial, orphaned>>
      BY DEF DeleteGenerations, Exit, seen
    <1>4. /\ process'[p] = Waiting
          /\ \A q \in Refresher : q # p => process'[q] = process[q]
      BY <1>3 DEF IInv, TypeOK
    <1>5. TypeOK'
      BY <1>1, <1>3 DEF IInv, TypeOK, Status
    <1>6. ActiveIsReady'
      BY <1>2, <1>3 DEF IInv, TypeOK, ActiveIsReady, Inactive
    <1>7. NoRace'
      BY <1>1, <1>4 DEF IInv, NoRace
    <1>8. BuildOwned'
      <2> SUFFICES ASSUME NEW q \in Refresher, process'[q].pc \in Building
                   PROVE  /\ process'[q].gen # None
                          /\ status'[process'[q].gen] = "building"
                          /\ process'[q].gen \in partial' <=> ~process'[q].full
                          /\ process'[q].pc \in {"gate", "promote", "reject"} => process'[q].full
                          /\ process'[q].pc = "promote" =>
                                /\ rows'[process'[q].gen] # {}
                                /\ approved'[process'[q].gen] = rows'[process'[q].gen]
        BY DEF BuildOwned, At, Mine
      <2> DEFINE h == process[q].gen
      <2>1. q # p /\ process'[q] = process[q]
        BY <1>1, <1>4
      <2>2. h \in Gen /\ status[h] = "building"
        BY <2>1 DEF IInv, TypeOK, Process, BuildOwned, Mine
      <2>3. h \notin doomed
        BY <1>2, <2>2 DEF Inactive
      <2>4. status'[h] = "building" /\ rows'[h] = rows[h]
        BY <1>3, <2>2, <2>3
      <2>5. partial' = partial /\ approved' = approved
        BY <1>3
      <2>6. QED
        BY <2>1, <2>4, <2>5 DEF IInv, BuildOwned, At, Mine
    <1>9. BuildAccountedFor'
      <2> SUFFICES ASSUME NEW h \in Gen, status'[h] = "building", h \notin orphaned
                   PROVE  \E q \in Refresher : process'[q].pc \in Building /\ process'[q].gen = h
        BY <1>3 DEF BuildAccountedFor, Mine
      <2>1. status[h] = "building"
        BY <1>3
      <2>2. PICK q \in Refresher : process[q].pc \in Building /\ process[q].gen = h
        BY <2>1 DEF IInv, BuildAccountedFor, Mine
      <2>3. q # p
        BY <1>1, <2>2 DEF Building
      <2>4. QED
        BY <1>4, <2>2, <2>3
    <1>10. Frozen'
      BY <1>3 DEF IInv, Frozen
    <1>11. ReadingOld'
      <2> SUFFICES ASSUME NEW s \in Searcher, reading[s] # None
                   PROVE  \/ status'[reading[s]] \in {"ready", "superseded"}
                          \/ /\ status'[reading[s]] = "none" /\ rows'[reading[s]] = {}
                             /\ approved[reading[s]] # {} /\ reading[s] \notin partial
        BY <1>3 DEF ReadingOld
      <2> DEFINE h == reading[s]
      <2>1. h \in Gen
        BY DEF IInv, TypeOK
      <2>2. \/ status[h] \in {"ready", "superseded"}
            \/ /\ status[h] = "none" /\ rows[h] = {}
               /\ approved[h] # {} /\ h \notin partial
        BY DEF IInv, ReadingOld
      <2>3. approved[h] # {} /\ h \notin partial
        BY <2>1, <2>2 DEF IInv, Frozen
      <2>4. QED
        BY <1>3, <2>1, <2>2, <2>3
    <1>12. DoomedStay'
      <2> SUFFICES ASSUME NEW q \in Refresher, NEW h \in process'[q].doomed
                   PROVE  status'[h] \in Inactive \cup {"none"}
        BY DEF DoomedStay
      <2>1. h \in process[q].doomed
        BY <1>1, <1>4
      <2>2. h \in Gen /\ status[h] \in Inactive \cup {"none"}
        BY <2>1 DEF IInv, TypeOK, Process, DoomedStay
      <2>3. QED
        BY <1>3, <2>2
    <1>13. QED
      BY <1>5, <1>6, <1>7, <1>8, <1>9, <1>10, <1>11, <1>12 DEF IInv

(* A search reads a generation that is ready.                              *)
LEMMA SearcherStep ==
    ASSUME IInv, NEW s \in Searcher, ReadActive(s) \/ Search(s)
    PROVE  IInv'
    <1>1. PICK g \in Gen \cup {None} :
              /\ reading' = [reading EXCEPT ![s] = g]
              /\ g # None => status[g] = "ready"
      BY DEF ReadActive, Readable, Search, IInv, TypeOK
    <1>2. UNCHANGED <<status, rows, older, active, process, approved, partial, orphaned>>
      BY DEF ReadActive, Search, store, seen
    <1>3. /\ reading' \in [Searcher -> Gen \cup {None}]
          /\ \A t \in Searcher : reading'[t] = IF t = s THEN g ELSE reading[t]
      BY <1>1 DEF IInv, TypeOK
    <1>4. TypeOK' /\ ReadingOld'
      <2>1. TypeOK'
        BY <1>2, <1>3 DEF IInv, TypeOK
      <2>2. ReadingOld'
        <3> SUFFICES ASSUME NEW t \in Searcher, reading'[t] # None
                     PROVE  \/ status[reading'[t]] \in {"ready", "superseded"}
                            \/ /\ status[reading'[t]] = "none" /\ rows[reading'[t]] = {}
                               /\ approved[reading'[t]] # {} /\ reading'[t] \notin partial
          BY <1>2 DEF ReadingOld
        <3>1. CASE t = s
          BY <1>1, <1>3, <3>1
        <3>2. CASE t # s
          BY <1>3, <3>2 DEF IInv, ReadingOld
        <3>3. QED
          BY <3>1, <3>2
      <2>3. QED
        BY <2>1, <2>2
    <1>5. ActiveIsReady' /\ NoRace' /\ BuildOwned' /\ BuildAccountedFor' /\ Frozen' /\ DoomedStay'
      BY <1>2 DEF IInv, ActiveIsReady, NoRace, BuildOwned, BuildAccountedFor, Frozen, DoomedStay,
                  At, Mine
    <1>6. QED
      BY <1>4, <1>5 DEF IInv

-------------------------------------------------------------------------------
(* Every step, and what follows                                            *)

LEMMA NextIInv == IInv /\ [Next]_vars => IInv'
    <1> SUFFICES ASSUME IInv, [Next]_vars PROVE IInv'
      OBVIOUS
    <1>1. CASE UNCHANGED vars
      BY <1>1 DEF vars, store, seen, IInv, TypeOK, ActiveIsReady, NoRace, BuildOwned,
                  BuildAccountedFor, Frozen, ReadingOld, DoomedStay, At, Mine
    <1>2. ASSUME NEW p \in Refresher, NEW g \in Gen, Begin(p, g) PROVE IInv'
      BY <1>2, BeginStep
    <1>3. ASSUME NEW p \in Refresher, Step(p) PROVE IInv'
      BY <1>3, IndexDocumentStep, CountDocumentStep, IndexedStep, BuildFailsStep, EvaluateStep,
         RejectStep, PromoteStep, ReadPointerStep, ListInactiveStep, DeleteGenerationsStep DEF Step
    <1>4. ASSUME NEW p \in Refresher, Crash(p) PROVE IInv'
      BY <1>4, CrashStep
    <1>5. ASSUME NEW s \in Searcher, ReadActive(s) \/ Search(s) PROVE IInv'
      BY <1>5, SearcherStep
    <1>6. QED
      BY <1>1, <1>2, <1>3, <1>4, <1>5 DEF Next, BeginRefused, NotReady

(* IInv holds at every commit, whatever refreshes, failures, crashes and   *)
(* searches come in between.                                               *)
THEOREM GenerationsInductive == Spec => []IInv
    BY InitIInv, NextIInv, PTL DEF Spec

(* store.py: the active pointer names the one ready generation, and it has *)
(* cases; cleanup never deletes it.                                        *)
THEOREM PointerIsReady == Spec => []ActiveIsReady
    <1>1. IInv => ActiveIsReady
      BY DEF IInv
    <1>2. QED
      BY <1>1, GenerationsInductive, PTL

(* begin_generation: no two refreshes are at work on a generation at once. *)
THEOREM OneBuildAtATime == Spec => []NoRace
    <1>1. IInv => NoRace
      BY DEF IInv
    <1>2. QED
      BY <1>1, GenerationsInductive, PTL

(* evaluate_generation: what is active is what passed the gate.            *)
THEOREM OnlyApprovedShown == Spec => []ShownAsApproved
    <1>1. IInv => ShownAsApproved
      BY DEF IInv, TypeOK, ActiveIsReady, Frozen, ShownAsApproved
    <1>2. QED
      BY <1>1, GenerationsInductive, PTL

(* search_cases: one snapshot, whole or gone, never a build in progress.   *)
THEOREM OneSnapshotPerSearch == Spec => []SearchSeesOneSnapshot
    <1>1. IInv => SearchSeesOneSnapshot
      <2> SUFFICES ASSUME IInv, NEW s \in Searcher, reading[s] # None
                   PROVE  /\ rows[reading[s]] \in {approved[reading[s]], {}}
                          /\ approved[reading[s]] # {}
                          /\ reading[s] \notin partial
        BY DEF SearchSeesOneSnapshot
      <2>1. reading[s] \in Gen
        BY DEF IInv, TypeOK
      <2>2. QED
        BY <2>1 DEF IInv, Frozen, ReadingOld
    <1>2. QED
      BY <1>1, GenerationsInductive, PTL

(* refresh: a build that blocks the next one is under way or its process   *)
(* was killed.                                                             *)
THEOREM BuildsEnd == Spec => []BuildAccountedFor
    <1>1. IInv => BuildAccountedFor
      BY DEF IInv
    <1>2. QED
      BY <1>1, GenerationsInductive, PTL

-------------------------------------------------------------------------------
(* Refinement: ActiveCatalog                                               *)

LEMMA ChooseOnly ==
    ASSUME NEW P, NEW p, P = {p}
    PROVE  (CHOOSE x \in P : TRUE) = p
    OBVIOUS

(* At most one process promotes, so Offered is what that one built.        *)
LEMMA OnePromotes ==
    ASSUME NoRace, NEW p \in Refresher, At(p, "promote")
    PROVE  Promoting = {p} /\ Offered = rows[Mine(p)]
    <1>1. Promoting = {p}
      BY DEF NoRace, Promoting, At, Building
    <1>2. QED
      BY <1>1, ChooseOnly DEF Offered

(* A step outside of promotions leaves what searches see alone.            *)
LEMMA SameOffer ==
    ASSUME NoRace, NoRace', NEW p \in Refresher,
           ~At(p, "promote"), ~At(p, "promote")',
           \A q \in Refresher : q # p => process'[q] = process[q],
           \A q \in Refresher : At(q, "promote") => rows'[Mine(q)] = rows[Mine(q)],
           active' = active,
           active # None => rows'[active] = rows[active]
    PROVE  UNCHANGED <<Shown, Offered>>
    <1>1. Shown' = Shown
      BY DEF Shown
    <1>2. Promoting' = Promoting
      BY DEF Promoting, At
    <1>3. CASE Promoting = {}
      BY <1>1, <1>2, <1>3 DEF Offered
    <1>4. CASE Promoting # {}
      <2>1. PICK q \in Refresher : At(q, "promote")
        BY <1>4 DEF Promoting
      <2>2. Promoting = {q} /\ Offered = rows[Mine(q)]
        BY <2>1, OnePromotes
      <2>3. (CHOOSE x \in Promoting' : TRUE) = q
        BY <1>2, <2>2, ChooseOnly
      <2>4. Offered' = rows'[process'[q].gen]
        BY <1>2, <2>2, <2>3 DEF Offered, Mine
      <2>5. q # p
        BY <2>1
      <2>6. QED
        BY <1>1, <2>1, <2>2, <2>4, <2>5 DEF Mine
    <1>5. QED
      BY <1>3, <1>4

(* What a process does between Begin and the gate, and in cleanup, but for *)
(* the documents it stores and the generations it deletes.                 *)
LEMMA QuietProcess ==
    ASSUME IInv, IInv', NEW p \in Refresher,
           \/ \E g \in Gen : Begin(p, g)
           \/ CountDocument(p) \/ Indexed(p) \/ BuildFails(p) \/ Reject(p)
           \/ ReadPointer(p) \/ ListInactive(p)
           \/ Crash(p) /\ ~At(p, "promote")
    PROVE  UNCHANGED <<Shown, Offered>>
    <1>1. process[p].pc # "promote"
      BY DEF Begin, CountDocument, Indexed, BuildFails, Reject, ReadPointer, ListInactive, At
    <1>2. UNCHANGED <<rows, active>>
      BY DEF Begin, CountDocument, Indexed, BuildFails, Reject, ReadPointer, ListInactive, Crash,
             store
    <1>3. PICK r : process' = [process EXCEPT ![p] = r] /\ r.pc # "promote"
      <2>1. ASSUME NEW g \in Gen, Begin(p, g)
            PROVE  \E r : process' = [process EXCEPT ![p] = r] /\ r.pc # "promote"
        <3>1. PICK full \in BOOLEAN, todo \in SUBSET Doc :
                  process' = [process EXCEPT ![p] = [Waiting EXCEPT !.pc = "index", !.gen = g,
                                                              !.full = full, !.todo = todo]]
          BY <2>1 DEF Begin
        <3> DEFINE r == [Waiting EXCEPT !.pc = "index", !.gen = g, !.full = full, !.todo = todo]
        <3>2. r.pc = "index"
          BY DEF Waiting
        <3> HIDE DEF r
        <3>3. QED
          BY <3>1, <3>2 DEF r
      <2>2. \A pc \in {"index", "gate", "cleanup"} :
               Goto(p, pc) => \E r : process' = [process EXCEPT ![p] = r] /\ r.pc # "promote"
        <3> SUFFICES ASSUME NEW pc \in {"index", "gate", "cleanup"}, Goto(p, pc)
                     PROVE  \E r : process' = [process EXCEPT ![p] = r] /\ r.pc # "promote"
          OBVIOUS
        <3> DEFINE r == [process[p] EXCEPT !.pc = pc]
        <3>1. process[p] \in Process
          BY ProcessTyping DEF IInv
        <3>2. r.pc = pc
          BY <3>1 DEF Process
        <3>3. process' = [process EXCEPT ![p] = r]
          BY DEF Goto, IInv, TypeOK
        <3> HIDE DEF r
        <3>4. QED
          BY <3>2, <3>3
      <2>3. Exit(p) => \E r : process' = [process EXCEPT ![p] = r] /\ r.pc # "promote"
        <3>1. Waiting.pc # "promote"
          BY DEF Waiting
        <3>2. QED
          BY <3>1 DEF Exit
      <2>4. ReadPointer(p) => \E r : process' = [process EXCEPT ![p] = r] /\ r.pc # "promote"
        <3> DEFINE r == [process[p] EXCEPT !.pointer = active, !.pc = "list"]
        <3>1. process[p] \in Process
          BY ProcessTyping DEF IInv
        <3>2. r.pc = "list"
          BY <3>1 DEF Process
        <3>3. ReadPointer(p) => process' = [process EXCEPT ![p] = r]
          BY DEF ReadPointer, IInv, TypeOK
        <3> HIDE DEF r
        <3>4. QED
          BY <3>2, <3>3
      <2>5. ListInactive(p) => \E r : process' = [process EXCEPT ![p] = r] /\ r.pc # "promote"
        <3> DEFINE r == [process[p] EXCEPT !.doomed = TooOld(p), !.pc = "delete"]
        <3>1. process[p] \in Process
          BY ProcessTyping DEF IInv
        <3>2. r.pc = "delete"
          BY <3>1 DEF Process
        <3>3. ListInactive(p) => Exit(p) \/ process' = [process EXCEPT ![p] = r]
          BY DEF ListInactive, IInv, TypeOK
        <3> HIDE DEF r
        <3>4. QED
          BY <2>3, <3>2, <3>3
      <2>6. QED
        BY <2>1, <2>2, <2>3, <2>4, <2>5
           DEF CountDocument, Indexed, BuildFails, Reject, Crash
    <1>4. /\ process'[p] = r
          /\ \A q \in Refresher : q # p => process'[q] = process[q]
      BY <1>3 DEF IInv, TypeOK
    <1>5. ~At(p, "promote") /\ ~At(p, "promote")'
      BY <1>1, <1>3, <1>4 DEF At
    <1>6. NoRace /\ NoRace'
      BY DEF IInv
    <1>7. QED
      BY <1>2, <1>4, <1>5, <1>6, SameOffer

(* Documents are added to a build that is not offered yet.                 *)
LEMMA QuietIndexing ==
    ASSUME IInv, IInv', NEW p \in Refresher, NEW d \in Doc, IndexDocument(p, d)
    PROVE  UNCHANGED <<Shown, Offered>>
    <1>1. /\ process[p].pc = "index" /\ Mine(p) \in Gen /\ status[Mine(p)] = "building"
          /\ process[p] \in Process
      BY DEF IndexDocument, At, Mine, IInv, TypeOK, Process, BuildOwned, Building
    <1>2. /\ process'[p].pc = "count"
          /\ \A q \in Refresher : q # p => process'[q] = process[q]
      BY <1>1 DEF IndexDocument, IInv, TypeOK, Process
    <1>3. /\ active' = active
          /\ \A h \in Gen : h # Mine(p) => rows'[h] = rows[h]
      BY DEF IndexDocument, IInv, TypeOK
    <1>4. \A q \in Refresher : ~At(q, "promote")
      BY <1>1 DEF IInv, NoRace, At, Building
    <1>5. active # None => active # Mine(p)
      BY <1>1 DEF IInv, TypeOK, ActiveIsReady
    <1>6. active # None => rows'[active] = rows[active]
      BY <1>3, <1>5 DEF IInv, TypeOK
    <1>7. ~At(p, "promote")' /\ NoRace /\ NoRace'
      BY <1>2 DEF At, IInv
    <1>8. QED
      BY <1>2, <1>3, <1>4, <1>6, <1>7, SameOffer

(* Nothing that is shown or offered is deleted.                            *)
LEMMA QuietCleanup ==
    ASSUME IInv, IInv', NEW p \in Refresher, DeleteGenerations(p)
    PROVE  UNCHANGED <<Shown, Offered>>
    <1>1. /\ process[p].pc = "delete"
          /\ \A g \in process[p].doomed : status[g] \in Inactive \cup {"none"}
      BY DEF DeleteGenerations, At, IInv, DoomedStay
    <1>2. /\ process'[p].pc = "idle"
          /\ \A q \in Refresher : q # p => process'[q] = process[q]
      BY DEF DeleteGenerations, Exit, Waiting, IInv, TypeOK
    <1>3. /\ active' = active
          /\ \A h \in Gen \ process[p].doomed : rows'[h] = rows[h]
      BY DEF DeleteGenerations
    <1>4. \A q \in Refresher : At(q, "promote") => rows'[Mine(q)] = rows[Mine(q)]
      <2> SUFFICES ASSUME NEW q \in Refresher, At(q, "promote")
                   PROVE  rows'[Mine(q)] = rows[Mine(q)]
        OBVIOUS
      <2>1. Mine(q) \in Gen /\ status[Mine(q)] = "building"
        BY DEF At, Mine, Building, IInv, TypeOK, Process, BuildOwned
      <2>2. QED
        BY <1>1, <1>3, <2>1 DEF Inactive
    <1>5. active # None => rows'[active] = rows[active]
      BY <1>1, <1>3 DEF IInv, TypeOK, ActiveIsReady, Inactive
    <1>6. ~At(p, "promote") /\ ~At(p, "promote")' /\ NoRace /\ NoRace'
      BY <1>1, <1>2 DEF At, IInv
    <1>7. QED
      BY <1>2, <1>3, <1>4, <1>5, <1>6, SameOffer

(* The gate offers a snapshot or leaves everything as it is.               *)
LEMMA EvaluateOffers ==
    ASSUME IInv, IInv', NEW p \in Refresher, Evaluate(p)
    PROVE  Runtime!Offer \/ UNCHANGED <<Shown, Offered>>
    <1>1. process[p].pc = "gate" /\ process[p] \in Process /\ NoRace /\ NoRace'
      BY DEF Evaluate, At, IInv, TypeOK
    <1>2. \A q \in Refresher : ~At(q, "promote")
      BY <1>1 DEF NoRace, At, Building
    <1>3. UNCHANGED <<rows, active>>
      BY DEF Evaluate, store
    <1>4. CASE Goto(p, "reject")
      <2>1. /\ process'[p].pc = "reject"
            /\ \A q \in Refresher : q # p => process'[q] = process[q]
        BY <1>1, <1>4 DEF Goto, IInv, TypeOK, Process
      <2>2. ~At(p, "promote")'
        BY <2>1 DEF At
      <2>3. QED
        BY <1>1, <1>2, <1>3, <2>1, <2>2, SameOffer
    <1>5. CASE Goto(p, "promote") /\ rows[Mine(p)] # {}
      <2>1. process'[p].pc = "promote" /\ process'[p].gen = process[p].gen
        BY <1>1, <1>5 DEF Goto, IInv, TypeOK, Process
      <2>2. Promoting' = {p}
        BY <1>1, <2>1 DEF NoRace, Promoting, At, Building
      <2>3. (CHOOSE x \in Promoting' : TRUE) = p
        BY <2>2, ChooseOnly
      <2>4. Offered' = rows[Mine(p)]
        BY <1>3, <2>1, <2>2, <2>3 DEF Offered, Mine
      <2>5. Offered = {}
        BY <1>2 DEF Offered, Promoting
      <2>6. Shown' = Shown
        BY <1>3 DEF Shown
      <2>7. Mine(p) \in Gen
        BY <1>1 DEF IInv, BuildOwned, Mine, Building, Process
      <2>8. rows[Mine(p)] \in (SUBSET Doc) \ {{}}
        BY <1>5, <2>7 DEF IInv, TypeOK
      <2>9. QED
        BY <2>4, <2>5, <2>6, <2>8 DEF Runtime!Offer, Runtime!Nothing, Runtime!Snapshot
    <1>6. QED
      BY <1>4, <1>5 DEF Evaluate

(* A promotion shows what was offered.                                     *)
LEMMA PromoteSwitches ==
    ASSUME IInv, IInv', NEW p \in Refresher, Promote(p)
    PROVE  Runtime!Switch
    <1>1. At(p, "promote") /\ rows[Mine(p)] # {} /\ process[p] \in Process
      BY DEF Promote, IInv, TypeOK
    <1>2. Promoting = {p} /\ Offered = rows[Mine(p)]
      BY <1>1, OnePromotes DEF IInv
    <1>3. /\ process'[p].pc = "cleanup"
          /\ \A q \in Refresher : q # p => process'[q] = process[q]
      BY <1>1 DEF Promote, Goto, IInv, TypeOK, Process
    <1>4. Promoting' = {}
      BY <1>2, <1>3 DEF Promoting, At
    <1>5. active' = Mine(p) /\ rows' = rows /\ Mine(p) # None
      BY <1>1 DEF Promote, IInv, BuildOwned, At, Building
    <1>6. QED
      BY <1>1, <1>2, <1>4, <1>5 DEF Runtime!Switch, Runtime!Nothing, Shown, Offered

(* A process killed before it promotes takes its offer with it.            *)
LEMMA CrashWithdraws ==
    ASSUME IInv, IInv', NEW p \in Refresher, Crash(p), At(p, "promote")
    PROVE  Runtime!Withdraw
    <1>1. Promoting = {p}
      BY OnePromotes DEF IInv
    <1>2. /\ process'[p].pc = "idle"
          /\ \A q \in Refresher : q # p => process'[q] = process[q]
      BY DEF Crash, Exit, Waiting, IInv, TypeOK
    <1>3. Promoting' = {}
      BY <1>1, <1>2 DEF Promoting, At
    <1>4. UNCHANGED <<rows, active>>
      BY DEF Crash, store
    <1>5. QED
      BY <1>3, <1>4 DEF Runtime!Withdraw, Runtime!Nothing, Shown, Offered

LEMMA StepSimulates ==
    ASSUME IInv, IInv', [Next]_vars
    PROVE  [Runtime!Next]_<<Shown, Offered>>
    <1>1. CASE UNCHANGED vars
      BY <1>1 DEF vars, store, Shown, Offered, Promoting, At, Mine
    <1>2. ASSUME NEW p \in Refresher, NEW g \in Gen, Begin(p, g)
          PROVE  UNCHANGED <<Shown, Offered>>
      BY <1>2, QuietProcess
    <1>3. ASSUME NEW p \in Refresher, Step(p)
          PROVE  [Runtime!Next]_<<Shown, Offered>>
      <2>1. CASE Promote(p)
        BY <2>1, PromoteSwitches DEF Runtime!Next
      <2>2. CASE Evaluate(p)
        BY <2>2, EvaluateOffers DEF Runtime!Next
      <2>3. CASE \E d \in Doc : IndexDocument(p, d)
        BY <2>3, QuietIndexing
      <2>4. CASE DeleteGenerations(p)
        BY <2>4, QuietCleanup
      <2>5. QED
        BY <1>3, <2>1, <2>2, <2>3, <2>4, QuietProcess DEF Step
    <1>4. ASSUME NEW p \in Refresher, Crash(p)
          PROVE  [Runtime!Next]_<<Shown, Offered>>
      BY <1>4, QuietProcess, CrashWithdraws DEF Runtime!Next
    <1>5. ASSUME NEW s \in Searcher, ReadActive(s) \/ Search(s)
          PROVE  UNCHANGED <<Shown, Offered>>
      <2>1. UNCHANGED <<rows, active, process>>
        BY <1>5 DEF ReadActive, Search, store
      <2>2. Shown' = Shown /\ Promoting' = Promoting
        BY <2>1 DEF Shown, Promoting, At
      <2>3. QED
        BY <2>1, <2>2 DEF Offered, Mine
    <1>6. QED
      BY <1>1, <1>2, <1>3, <1>4, <1>5 DEF Next, BeginRefused, NotReady

(* The promise of ActiveCatalog: what a search can find changes only from  *)
(* one approved snapshot to the next, as a whole.                          *)
THEOREM RefreshesSwitchWhole == Spec => SwitchesWhole
    <1>1. Init => Runtime!Init
      BY DEF Init, Runtime!Init, Runtime!Nothing, Shown, Offered, Promoting, At, Waiting
    <1>2. IInv /\ IInv' /\ [Next]_vars => [Runtime!Next]_<<Shown, Offered>>
      BY StepSimulates
    <1>3. QED
      BY <1>1, <1>2, GenerationsInductive, PTL DEF Spec, SwitchesWhole, Runtime!Spec

===============================================================================
