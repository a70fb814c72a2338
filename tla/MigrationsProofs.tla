---------------------------- MODULE MigrationsProofs ----------------------------
(***************************************************************************)
(* Theorems about Database.initialize, for any number of processes that    *)
(* open the database, in any order, and that die anywhere.                 *)
(***************************************************************************)
EXTENDS Migrations, Counting

-----------------------------------------------------------------------------
(* About the scripts only this is needed.                                  *)

LEMMA ScriptsShape ==
    /\ Len(Scripts) \in Nat \ {0}
    /\ DOMAIN Scripts = 1..Len(Scripts)
    /\ \A v \in DOMAIN Scripts : /\ Len(Scripts[v]) \in Nat \ {0}
                                 /\ DOMAIN Scripts[v] = 1..Len(Scripts[v])
<1>1. Len(Scripts) = 9 /\ DOMAIN Scripts = 1..9
    BY DEF Scripts
<1>2. ASSUME NEW v \in 1..9
      PROVE  Len(Scripts[v]) \in Nat \ {0} /\ DOMAIN Scripts[v] = 1..Len(Scripts[v])
  <2>1. \/ Scripts[v] = <<"repeatable">>
        \/ Scripts[v] = <<"add", "add", "add", "repeatable">>
        \/ Scripts[v] = <<"add", "repeatable">>
    BY DEF Scripts
  <2>2. CASE Scripts[v] = <<"repeatable">>
    BY <2>2
  <2>3. CASE Scripts[v] = <<"add", "add", "add", "repeatable">>
    BY <2>3
  <2>4. CASE Scripts[v] = <<"add", "repeatable">>
    BY <2>4
  <2> QED
    BY <2>1, <2>2, <2>3, <2>4
<1> QED
    BY <1>1, <1>2

-----------------------------------------------------------------------------
(* The inductive invariant: what is recorded is a complete prefix of the   *)
(* scripts; a process that migrates stands right behind it and has         *)
(* executed what lies behind it; and as long as no script was cut off and  *)
(* no two processes ran one, every statement in the schema is recorded or  *)
(* was executed by the one process that migrates now.                      *)

Done(p) == {<<opener[p].version, i>> : i \in 1..opener[p].next - 1}

OpenerTypeOK ==
    opener \in [Opener -> {Off, [Off EXCEPT !.at = "up"]}
                          \cup [at : {"migrating"}, version : DOMAIN Scripts, next : Nat \ {0}]]

RecordedIsWhole ==
    /\ versions \subseteq DOMAIN Scripts
    /\ \A version \in versions :
          1..version \subseteq versions /\ Statements(version) \subseteq schema

OpenersFollow ==
    \A p \in Opener :
        /\ opener[p].at = "up" => versions = DOMAIN Scripts
        /\ Migrating(p) =>
              /\ 1..opener[p].version - 1 \subseteq versions
              /\ opener[p].next <= Len(Scripts[opener[p].version]) + 1
              /\ Done(p) \subseteq schema

AloneIsClean ==
    ~raced =>
        /\ \A p, q \in Opener : Migrating(p) /\ Migrating(q) => p = q
        /\ \A p \in Opener : Migrating(p) => opener[p].version \notin versions

UncutIsAccounted ==
    ~raced /\ ~cut =>
        \A done \in schema :
            \/ done[1] \in versions
            \/ \E p \in Opener : Migrating(p) /\ done \in Done(p)

RefusedHasCause == refused => cut \/ raced

Inv ==
    /\ cut \in BOOLEAN /\ raced \in BOOLEAN /\ refused \in BOOLEAN
    /\ OpenerTypeOK /\ RecordedIsWhole /\ OpenersFollow
    /\ AloneIsClean /\ UncutIsAccounted /\ RefusedHasCause

LEMMA InitInv == MigrationsInit => Inv
<1> SUFFICES ASSUME MigrationsInit PROVE Inv
    OBVIOUS
<1>1. \A p \in Opener : opener[p] = Off /\ opener[p].at = "off"
    BY DEF MigrationsInit, Off
<1>2. OpenerTypeOK
    BY DEF MigrationsInit, OpenerTypeOK
<1> QED
    BY <1>1, <1>2 DEF MigrationsInit, Inv, RecordedIsWhole, OpenersFollow, AloneIsClean,
                      UncutIsAccounted, RefusedHasCause, Migrating

(* SELECT MAX(version): everything up to it is recorded, nothing above it. *)
LEMMA HighestRecorded ==
    ASSUME RecordedIsWhole
    PROVE  /\ Max(versions \cup {0}) \in 0..Len(Scripts)
           /\ 1..Max(versions \cup {0}) \subseteq versions
           /\ Max(versions \cup {0}) + 1 \notin versions
<1> DEFINE free == {n \in Nat : n + 1 \notin versions}
<1>1. versions \subseteq 1..Len(Scripts) /\ Len(Scripts) \in Nat
    BY ScriptsShape DEF RecordedIsWhole
<1>2. Len(Scripts) \in free
    BY <1>1
<1>3. PICK m \in free : \A n \in free : m <= n
    BY <1>2, LeastExists
<1>4. m \in versions \cup {0}
  <2>1. m # 0 => m - 1 \in Nat /\ m - 1 \notin free
    BY <1>3
  <2> QED
    BY <2>1
<1>5. ASSUME NEW v \in versions \cup {0} PROVE v <= m
  <2>1. v > m => m + 1 \in 1..v
    BY <1>1
  <2> QED
    BY <1>1, <2>1 DEF RecordedIsWhole
<1>6. Max(versions \cup {0}) = m
  <2>1. \A n \in versions \cup {0} :
            (\A v \in versions \cup {0} : v <= n) => n = m
    BY <1>1, <1>4, <1>5
  <2> QED
    BY <1>4, <1>5, <2>1 DEF Max
<1>7. m \in 0..Len(Scripts)
    BY <1>1, <1>2, <1>3
<1>8. 1..m \subseteq versions
    BY <1>4, <1>7 DEF RecordedIsWhole
<1> QED
    BY <1>3, <1>6, <1>7, <1>8

(* A step of one process leaves the others where they are.                 *)
OpenerStates ==
    {Off, [Off EXCEPT !.at = "up"]}
    \cup [at : {"migrating"}, version : DOMAIN Scripts, next : Nat \ {0}]

LEMMA OneMoves ==
    ASSUME OpenerTypeOK, NEW p \in Opener, NEW value \in OpenerStates,
           opener' = [opener EXCEPT ![p] = value]
    PROVE  /\ OpenerTypeOK'
           /\ opener'[p] = value
           /\ \A q \in Opener : q # p => opener'[q] = opener[q]
BY DEF OpenerTypeOK, OpenerStates

LEMMA MigratingIsTyped ==
    ASSUME OpenerTypeOK, NEW p \in Opener, Migrating(p)
    PROVE  /\ opener[p] \in [at : {"migrating"}, version : DOMAIN Scripts, next : Nat \ {0}]
           /\ opener[p].version \in Nat \ {0} /\ opener[p].version <= Len(Scripts)
           /\ opener[p].version \in DOMAIN Scripts /\ opener[p].next \in Nat \ {0}
<1>1. opener[p] \in [at : {"migrating"}, version : DOMAIN Scripts, next : Nat \ {0}]
    BY DEF OpenerTypeOK, Migrating, Off
<1> QED
    BY <1>1, ScriptsShape

(* Where Proceed leads.                                                    *)
LEMMA ProceedLeads ==
    ASSUME OpenerTypeOK, NEW p \in Opener, NEW version \in 0..Len(Scripts),
           Proceed(p, version)
    PROVE  /\ OpenerTypeOK'
           /\ \A q \in Opener : q # p => opener'[q] = opener[q]
           /\ version = Len(Scripts) =>
                 opener'[p].at = "up" /\ ~Migrating(p)'
           /\ version # Len(Scripts) =>
                 /\ opener'[p].at = "migrating" /\ Migrating(p)'
                 /\ opener'[p].version = version + 1 /\ opener'[p].next = 1
                 /\ version + 1 \in DOMAIN Scripts
<1>1. CASE version = Len(Scripts)
  <2>1. opener' = [opener EXCEPT ![p] = [Off EXCEPT !.at = "up"]]
    BY <1>1 DEF Proceed
  <2>2. OpenerTypeOK' /\ opener'[p] = [Off EXCEPT !.at = "up"]
        /\ \A q \in Opener : q # p => opener'[q] = opener[q]
    BY <2>1, OneMoves DEF OpenerStates
  <2>3. opener'[p].at = "up"
    BY <2>2 DEF Off
  <2> QED
    BY <1>1, <2>2, <2>3 DEF Migrating
<1>2. CASE version # Len(Scripts)
  <2> DEFINE value == [at |-> "migrating", version |-> version + 1, next |-> 1]
  <2>1. opener' = [opener EXCEPT ![p] = value]
    BY <1>2 DEF Proceed
  <2>2. version + 1 \in DOMAIN Scripts
    BY <1>2, ScriptsShape
  <2>3. value \in OpenerStates
    BY <2>2 DEF OpenerStates
  <2>4. value.at = "migrating" /\ value.version = version + 1 /\ value.next = 1
    OBVIOUS
  <2> HIDE DEF value
  <2>5. OpenerTypeOK' /\ opener'[p] = value
        /\ \A q \in Opener : q # p => opener'[q] = opener[q]
    BY <2>1, <2>3, OneMoves
  <2> QED
    BY <1>2, <2>2, <2>4, <2>5 DEF Migrating
<1> QED
    BY <1>1, <1>2

-----------------------------------------------------------------------------
(* Every step keeps it.                                                    *)

LEMMA ReadKeepsInv ==
    ASSUME Inv, NEW p \in Opener, ReadVersion(p)
    PROVE  Inv'
<1> DEFINE m == Max(versions \cup {0})
<1>1. Inv /\ opener[p] = Off /\ Proceed(p, m)
      /\ raced' = (raced \/ \E q \in Opener : Migrating(q))
      /\ UNCHANGED <<schema, versions, cut, refused>>
    BY DEF ReadVersion
<1>2. /\ m \in 0..Len(Scripts) /\ 1..m \subseteq versions /\ m + 1 \notin versions
      /\ Len(Scripts) \in Nat
    BY <1>1, HighestRecorded, ScriptsShape DEF Inv
<1> HIDE DEF m
<1>3. ~Migrating(p)
    BY <1>1 DEF Migrating, Off
<1>4. /\ OpenerTypeOK'
      /\ \A q \in Opener : q # p => opener'[q] = opener[q]
      /\ m = Len(Scripts) => opener'[p].at = "up" /\ ~Migrating(p)'
      /\ m # Len(Scripts) =>
            /\ opener'[p].at = "migrating" /\ Migrating(p)'
            /\ opener'[p].version = m + 1 /\ opener'[p].next = 1
            /\ m + 1 \in DOMAIN Scripts
    BY <1>1, <1>2, ProceedLeads DEF Inv
<1>5. RecordedIsWhole'
    BY <1>1 DEF Inv, RecordedIsWhole
<1>6. OpenersFollow'
  <2> SUFFICES ASSUME NEW q \in Opener
      PROVE  /\ opener'[q].at = "up" => versions = DOMAIN Scripts
             /\ Migrating(q)' =>
                   /\ 1..opener'[q].version - 1 \subseteq versions
                   /\ opener'[q].next <= Len(Scripts[opener'[q].version]) + 1
                   /\ Done(q)' \subseteq schema
    BY <1>1 DEF OpenersFollow
  <2>1. CASE q # p
    BY <1>1, <1>4, <2>1 DEF Inv, OpenersFollow, Migrating, Done
  <2>2. CASE q = p /\ m = Len(Scripts)
    BY <1>1, <1>2, <1>4, <2>2, ScriptsShape DEF Inv, RecordedIsWhole
  <2>3. CASE q = p /\ m # Len(Scripts)
    <3>1. 1..(m + 1) - 1 \subseteq versions
      BY <1>2
    <3>2. Len(Scripts[m + 1]) \in Nat
      BY <1>4, <2>3, ScriptsShape
    <3>3. Done(q)' = {}
      BY <1>4, <2>3 DEF Done
    <3> QED
      BY <1>4, <2>3, <3>1, <3>2, <3>3
  <2> QED
    BY <2>1, <2>2, <2>3
<1>7. AloneIsClean'
  <2> SUFFICES ASSUME ~raced'
      PROVE  /\ \A q, r \in Opener : Migrating(q)' /\ Migrating(r)' => q = r
             /\ \A q \in Opener : Migrating(q)' => opener'[q].version \notin versions
    BY <1>1 DEF AloneIsClean
  <2>1. \A q \in Opener : q # p => ~Migrating(q)'
    BY <1>1, <1>4 DEF Migrating
  <2> QED
    BY <1>2, <1>4, <2>1
<1>8. UncutIsAccounted'
  <2> SUFFICES ASSUME ~raced', ~cut', NEW done \in schema PROVE done[1] \in versions
    BY <1>1 DEF UncutIsAccounted
  <2> QED
    BY <1>1 DEF Inv, UncutIsAccounted
<1>9. RefusedHasCause' /\ cut' \in BOOLEAN /\ raced' \in BOOLEAN /\ refused' \in BOOLEAN
    BY <1>1 DEF Inv, RefusedHasCause
<1> QED
    BY <1>4, <1>5, <1>6, <1>7, <1>8, <1>9 DEF Inv

(* A process that gives up, in whatever way, when a script is cut off or   *)
(* two have run one, or when it had not begun with its script.             *)
LEMMA GivingUpKeepsInv ==
    ASSUME Inv, NEW p \in Opener,
           opener' = [opener EXCEPT ![p] = Off],
           UNCHANGED <<schema, versions, raced>>,
           cut' \in BOOLEAN, refused' \in BOOLEAN, cut => cut',
           refused' => cut' \/ raced,
           Migrating(p) => cut' \/ raced \/ opener[p].next <= 1
    PROVE  Inv'
<1>1. /\ OpenerTypeOK' /\ opener'[p] = Off
      /\ \A q \in Opener : q # p => opener'[q] = opener[q]
    BY OneMoves DEF Inv, OpenerStates
<1>2. ~Migrating(p)' /\ opener'[p].at # "up"
    BY <1>1 DEF Migrating, Off
<1>3. \A q \in Opener : Migrating(q)' => q # p /\ Migrating(q) /\ opener'[q] = opener[q]
    BY <1>1, <1>2 DEF Migrating
<1>4. RecordedIsWhole'
    BY DEF Inv, RecordedIsWhole
<1>5. OpenersFollow'
  <2> SUFFICES ASSUME NEW q \in Opener, q # p
      PROVE  /\ opener'[q].at = "up" => versions = DOMAIN Scripts
             /\ Migrating(q)' =>
                   /\ 1..opener'[q].version - 1 \subseteq versions
                   /\ opener'[q].next <= Len(Scripts[opener'[q].version]) + 1
                   /\ Done(q)' \subseteq schema
    BY <1>2 DEF OpenersFollow
  <2> QED
    BY <1>1 DEF Inv, OpenersFollow, Migrating, Done
<1>6. AloneIsClean'
    BY <1>3 DEF Inv, AloneIsClean
<1>7. UncutIsAccounted'
  <2> SUFFICES ASSUME ~raced, ~cut', NEW done \in schema
      PROVE  \/ done[1] \in versions
             \/ \E q \in Opener : Migrating(q)' /\ done \in Done(q)'
    BY DEF UncutIsAccounted
  <2>1. CASE done[1] \in versions
    BY <2>1
  <2>2. CASE done[1] \notin versions
    <3>1. PICK q \in Opener : Migrating(q) /\ done \in Done(q)
      BY <2>2 DEF Inv, UncutIsAccounted
    <3>2. q # p
      <4>1. Migrating(p) => opener[p].next = 1
        BY MigratingIsTyped DEF Inv
      <4>2. Migrating(p) => Done(p) = {}
        BY <4>1 DEF Done
      <4> QED
        BY <3>1, <4>2
    <3>3. Migrating(q)' /\ done \in Done(q)'
      BY <1>1, <3>1, <3>2 DEF Migrating, Done
    <3> QED
      BY <3>3
  <2> QED
    BY <2>1, <2>2
<1>8. RefusedHasCause' /\ raced' \in BOOLEAN
    BY DEF Inv, RefusedHasCause
<1> QED
    BY <1>1, <1>4, <1>5, <1>6, <1>7, <1>8 DEF Inv

LEMMA RunKeepsInv ==
    ASSUME Inv, NEW p \in Opener, RunStatement(p)
    PROVE  Inv'
<1> DEFINE v == opener[p].version
           n == opener[p].next
           here == <<v, n>>
           value == [opener[p] EXCEPT !.next = @ + 1]
<1>1. Migrating(p) /\ here \in Statements(v) /\ UNCHANGED <<versions, cut, raced>>
    BY DEF RunStatement
<1>2. /\ v \in Nat \ {0} /\ v \in DOMAIN Scripts /\ n \in Nat \ {0}
      /\ opener[p] \in [at : {"migrating"}, version : DOMAIN Scripts, next : Nat \ {0}]
    BY <1>1, MigratingIsTyped DEF Inv
<1>3. n <= Len(Scripts[v]) /\ Len(Scripts[v]) \in Nat
  <2>1. n \in DOMAIN Scripts[v]
    BY <1>1 DEF Statements
  <2> QED
    BY <1>2, <2>1, ScriptsShape
<1>4. CASE here \in schema /\ Raises(p) /\ UNCHANGED schema
  <2>1. raced \/ cut
    <3> SUFFICES ASSUME ~raced, ~cut PROVE FALSE
      OBVIOUS
    <3>1. v \notin versions /\ \A q \in Opener : Migrating(q) => q = p
      BY <1>1 DEF Inv, AloneIsClean
    <3>2. here[1] = v /\ here \notin Done(p)
      BY <1>2 DEF Done
    <3> QED
      BY <1>4, <3>1, <3>2 DEF Inv, UncutIsAccounted
  <2> QED
    BY <1>1, <1>4, <2>1, GivingUpKeepsInv DEF Raises, Inv
<1>5. CASE /\ schema' = schema \cup {here}
           /\ opener' = [opener EXCEPT ![p].next = @ + 1]
           /\ UNCHANGED refused
  <2>1. opener' = [opener EXCEPT ![p] = value]
    BY <1>5
  <2>2. value \in OpenerStates /\ value.version = v /\ value.next = n + 1
        /\ value.at = "migrating"
    BY <1>2 DEF OpenerStates
  <2> HIDE DEF value
  <2>3. /\ OpenerTypeOK' /\ opener'[p] = value
        /\ \A q \in Opener : q # p => opener'[q] = opener[q]
    BY <2>1, <2>2, OneMoves DEF Inv
  <2>4. \A q \in Opener : /\ Migrating(q)' <=> Migrating(q)
                          /\ opener'[q].at = opener[q].at
                          /\ opener'[q].version = opener[q].version
    BY <1>1, <2>2, <2>3 DEF Migrating
  <2>5. Done(p)' = Done(p) \cup {here}
    BY <1>2, <2>2, <2>3 DEF Done
  <2>6. \A q \in Opener : q # p => Done(q)' = Done(q)
    BY <2>3 DEF Done
  <2>7. RecordedIsWhole'
    BY <1>1, <1>5 DEF Inv, RecordedIsWhole
  <2>8. OpenersFollow'
    <3> SUFFICES ASSUME NEW q \in Opener
        PROVE  /\ opener'[q].at = "up" => versions' = DOMAIN Scripts
               /\ Migrating(q)' =>
                     /\ 1..opener'[q].version - 1 \subseteq versions'
                     /\ opener'[q].next <= Len(Scripts[opener'[q].version]) + 1
                     /\ Done(q)' \subseteq schema'
      BY DEF OpenersFollow
    <3>1. CASE q # p
      BY <1>1, <1>5, <2>3, <2>4, <2>6, <3>1 DEF Inv, OpenersFollow
    <3>2. CASE q = p
      BY <1>1, <1>2, <1>3, <1>5, <2>2, <2>3, <2>4, <2>5, <3>2 DEF Inv, OpenersFollow
    <3> QED
      BY <3>1, <3>2
  <2>9. AloneIsClean'
    BY <1>1, <2>4 DEF Inv, AloneIsClean
  <2>10. UncutIsAccounted'
    <3> SUFFICES ASSUME ~raced, ~cut, NEW done \in schema \cup {here}
        PROVE  \/ done[1] \in versions
               \/ \E q \in Opener : Migrating(q)' /\ done \in Done(q)'
      BY <1>1, <1>5 DEF UncutIsAccounted
    <3>1. CASE done = here
      BY <1>1, <2>4, <2>5, <3>1
    <3>2. CASE done \in schema
      <4>1. done[1] \in versions \/ \E q \in Opener : Migrating(q) /\ done \in Done(q)
        BY <3>2 DEF Inv, UncutIsAccounted
      <4> QED
        BY <2>4, <2>5, <2>6, <4>1
    <3> QED
      BY <3>1, <3>2
  <2>11. RefusedHasCause' /\ cut' \in BOOLEAN /\ raced' \in BOOLEAN /\ refused' \in BOOLEAN
    BY <1>1, <1>5 DEF Inv, RefusedHasCause
  <2> QED
    BY <2>3, <2>7, <2>8, <2>9, <2>10, <2>11 DEF Inv
<1> QED
    BY <1>4, <1>5 DEF RunStatement

LEMMA RecordKeepsInv ==
    ASSUME Inv, NEW p \in Opener, Record(p)
    PROVE  Inv'
<1> DEFINE v == opener[p].version
<1>1. /\ Migrating(p) /\ opener[p].next > Len(Scripts[v])
      /\ UNCHANGED <<schema, cut, raced>>
    BY DEF Record
<1>2. /\ v \in Nat \ {0} /\ v \in DOMAIN Scripts /\ v <= Len(Scripts)
      /\ opener[p].next \in Nat /\ Len(Scripts) \in Nat
    BY <1>1, MigratingIsTyped, ScriptsShape DEF Inv
<1>3. CASE v \in versions /\ Raises(p) /\ UNCHANGED versions
  <2>1. raced
    BY <1>1, <1>3 DEF Inv, AloneIsClean
  <2> QED
    BY <1>1, <1>3, <2>1, GivingUpKeepsInv DEF Raises, Inv
<1>4. CASE /\ v \notin versions /\ versions' = versions \cup {v}
           /\ Proceed(p, v) /\ UNCHANGED refused
  <2>1. /\ OpenerTypeOK'
        /\ \A q \in Opener : q # p => opener'[q] = opener[q]
        /\ v = Len(Scripts) => opener'[p].at = "up" /\ ~Migrating(p)'
        /\ v # Len(Scripts) =>
              /\ opener'[p].at = "migrating" /\ Migrating(p)'
              /\ opener'[p].version = v + 1 /\ opener'[p].next = 1
              /\ v + 1 \in DOMAIN Scripts
    <3>1. v \in 0..Len(Scripts)
      BY <1>2
    <3> QED
      BY <1>4, <3>1, ProceedLeads DEF Inv
  <2>2. 1..v - 1 \subseteq versions /\ Done(p) \subseteq schema
        /\ opener[p].next <= Len(Scripts[v]) + 1
    BY <1>1 DEF Inv, OpenersFollow
  <2>3. Statements(v) \subseteq schema
    <3>1. DOMAIN Scripts[v] = 1..Len(Scripts[v]) /\ Len(Scripts[v]) \in Nat
      BY <1>2, ScriptsShape
    <3>2. 1..Len(Scripts[v]) = 1..opener[p].next - 1
      BY <1>1, <1>2, <2>2, <3>1
    <3>3. Statements(v) = Done(p)
      BY <3>1, <3>2 DEF Statements, Done
    <3> QED
      BY <2>2, <3>3
  <2>4. 1..v \subseteq versions'
    <3> SUFFICES ASSUME NEW i \in 1..v PROVE i \in versions'
      OBVIOUS
    <3>1. i = v \/ i \in 1..v - 1
      BY <1>2
    <3> QED
      BY <1>4, <2>2, <3>1
  <2>5. RecordedIsWhole'
    <3>1. versions' \subseteq DOMAIN Scripts
      BY <1>2, <1>4 DEF Inv, RecordedIsWhole
    <3>2. ASSUME NEW version \in versions'
          PROVE  1..version \subseteq versions' /\ Statements(version) \subseteq schema
      <4>1. CASE version = v
        BY <2>3, <2>4, <4>1
      <4>2. CASE version \in versions
        BY <1>4, <4>2 DEF Inv, RecordedIsWhole
      <4> QED
        BY <1>4, <4>1, <4>2
    <3> QED
      BY <1>1, <3>1, <3>2 DEF RecordedIsWhole, Statements
  <2>6. OpenersFollow'
    <3> SUFFICES ASSUME NEW q \in Opener
        PROVE  /\ opener'[q].at = "up" => versions' = DOMAIN Scripts
               /\ Migrating(q)' =>
                     /\ 1..opener'[q].version - 1 \subseteq versions'
                     /\ opener'[q].next <= Len(Scripts[opener'[q].version]) + 1
                     /\ Done(q)' \subseteq schema'
      BY DEF OpenersFollow
    <3>1. CASE q # p
      <4>1. opener'[q] = opener[q] /\ (Migrating(q)' <=> Migrating(q)) /\ Done(q)' = Done(q)
        BY <2>1, <3>1 DEF Migrating, Done
      <4>2. opener[q].at # "up"
        BY <1>2, <1>4 DEF Inv, OpenersFollow
      <4> QED
        BY <1>1, <1>4, <4>1, <4>2 DEF Inv, OpenersFollow
    <3>2. CASE q = p /\ v = Len(Scripts)
      <4>1. versions' = DOMAIN Scripts
        BY <2>4, <2>5, <3>2, ScriptsShape DEF RecordedIsWhole
      <4> QED
        BY <2>1, <3>2, <4>1
    <3>3. CASE q = p /\ v # Len(Scripts)
      <4>1. 1..(v + 1) - 1 \subseteq versions'
        BY <1>2, <2>4
      <4>2. Len(Scripts[v + 1]) \in Nat
        BY <2>1, <3>3, ScriptsShape
      <4>3. Done(q)' = {}
        BY <2>1, <3>3 DEF Done
      <4> QED
        BY <2>1, <3>3, <4>1, <4>2, <4>3
    <3> QED
      BY <3>1, <3>2, <3>3
  <2>7. AloneIsClean'
    <3> SUFFICES ASSUME ~raced
        PROVE  /\ \A q, r \in Opener : Migrating(q)' /\ Migrating(r)' => q = r
               /\ \A q \in Opener : Migrating(q)' => opener'[q].version \notin versions'
      BY <1>1 DEF AloneIsClean
    <3>1. \A q \in Opener : Migrating(q)' => q = p
      BY <1>1, <2>1 DEF Inv, AloneIsClean, Migrating
    <3>2. v + 1 \notin versions'
      <4>1. v \in 1..v + 1
        BY <1>2
      <4>2. v + 1 \notin versions
        BY <1>4, <4>1 DEF Inv, RecordedIsWhole
      <4> QED
        BY <1>2, <1>4, <4>2
    <3> QED
      BY <2>1, <3>1, <3>2
  <2>8. UncutIsAccounted'
    <3> SUFFICES ASSUME ~raced, ~cut, NEW done \in schema PROVE done[1] \in versions'
      BY <1>1 DEF UncutIsAccounted
    <3>1. \A q \in Opener : Migrating(q) => q = p
      BY <1>1 DEF Inv, AloneIsClean
    <3>2. done \in Done(p) => done[1] = v
      BY DEF Done
    <3> QED
      BY <1>4, <3>1, <3>2 DEF Inv, UncutIsAccounted
  <2>9. RefusedHasCause' /\ cut' \in BOOLEAN /\ raced' \in BOOLEAN /\ refused' \in BOOLEAN
    BY <1>1, <1>4 DEF Inv, RefusedHasCause
  <2> QED
    BY <2>1, <2>5, <2>6, <2>7, <2>8, <2>9 DEF Inv
<1> QED
    BY <1>3, <1>4 DEF Record

LEMMA DiesKeepsInv ==
    ASSUME Inv, NEW p \in Opener, Dies(p)
    PROVE  Inv'
<1>1. /\ opener' = [opener EXCEPT ![p] = Off]
      /\ cut' = (cut \/ (Migrating(p) /\ opener[p].next > 1))
      /\ UNCHANGED <<schema, versions, raced, refused>>
    BY DEF Dies
<1>2. Migrating(p) => opener[p].next \in Nat
    BY MigratingIsTyped DEF Inv
<1>3. cut' \in BOOLEAN /\ refused' \in BOOLEAN /\ (cut => cut')
    BY <1>1 DEF Inv
<1>4. refused' => cut' \/ raced
    BY <1>1 DEF Inv, RefusedHasCause
<1>5. Migrating(p) => cut' \/ raced \/ opener[p].next <= 1
  <2>1. Migrating(p) => opener[p].next > 1 \/ opener[p].next <= 1
    BY <1>2
  <2>2. Migrating(p) /\ opener[p].next > 1 => cut'
    BY <1>1
  <2> QED
    BY <2>1, <2>2
<1> QED
    BY <1>1, <1>3, <1>4, <1>5, GivingUpKeepsInv

(* However many processes open the database, whenever they do and wherever *)
(* they are killed: one that came up works on the whole schema, what is    *)
(* recorded is a complete prefix of the scripts, and a start is refused    *)
(* only after a script was cut off or was run by two at once.              *)
THEOREM MigratedWhenUp == MigrationsSpec => []UpIsMigrated
<1>1. Inv /\ [MigrationsNext]_migrationVars => Inv'
  <2> SUFFICES ASSUME Inv, [MigrationsNext]_migrationVars PROVE Inv'
    OBVIOUS
  <2>1. CASE UNCHANGED migrationVars
    BY <2>1 DEF migrationVars, Inv, OpenerTypeOK, RecordedIsWhole, OpenersFollow,
                AloneIsClean, UncutIsAccounted, RefusedHasCause, Migrating, Done, Statements
  <2>2. CASE MigrationsNext
    BY <2>2, ReadKeepsInv, RunKeepsInv, RecordKeepsInv, DiesKeepsInv DEF MigrationsNext
  <2> QED
    BY <2>1, <2>2
<1>2. Inv => UpIsMigrated
    BY DEF Inv, RecordedIsWhole, OpenersFollow, RefusedHasCause, UpIsMigrated
<1> QED
    BY InitInv, <1>1, <1>2, PTL DEF MigrationsSpec
===============================================================================
