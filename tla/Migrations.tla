------------------------------ MODULE Migrations ------------------------------
(***************************************************************************)
(* Database.initialize (app/db/database.py) with the scripts of            *)
(* app/db/migrations.py, run by every process that opens the database: the *)
(* bot, and each catalog command of the timer.                             *)
(*                                                                         *)
(* executescript commits what is open and then runs its statements one by  *)
(* one, each a transaction of its own; the version row is another one.  A  *)
(* process may die, or give up on a locked database, between any two.      *)
(* Statements that may be repeated (IF NOT EXISTS, DELETE, UPDATE) and     *)
(* follow one another are one; ADD COLUMN fails when the column is there.  *)
(***************************************************************************)
EXTENDS Integers, Sequences, FiniteSetsExt

CONSTANT Opener     \* processes that call initialize

VARIABLES
    schema,     \* statements that took effect, as <<version, position>>
    versions,   \* the rows of schema_migrations
    opener,     \* where each process is
    cut,        \* observed: a script was left half-way
    raced,      \* observed: two processes migrated at the same time
    refused     \* observed: initialize raised

migrationVars == <<schema, versions, opener, cut, raced, refused>>

Scripts ==
    << <<"repeatable">>, <<"repeatable">>,
       <<"add", "add", "add", "repeatable">>,
       <<"repeatable">>, <<"repeatable">>,
       <<"add", "repeatable">>,
       <<"repeatable">>, <<"repeatable">>,
       <<"add", "repeatable">> >>
Statements(version) == {<<version, i>> : i \in DOMAIN Scripts[version]}
Off == [at |-> "off", version |-> 0, next |-> 0]

MigrationsInit ==
    /\ schema = {} /\ versions = {}
    /\ opener = [p \in Opener |-> Off]
    /\ cut = FALSE /\ raced = FALSE /\ refused = FALSE

Migrating(p) == opener[p].at = "migrating"

(* On to the script after this version, or up when there is none.          *)
Proceed(p, version) ==
    opener' = [opener EXCEPT ![p] =
        IF version = Len(Scripts)
        THEN [Off EXCEPT !.at = "up"]
        ELSE [at |-> "migrating", version |-> version + 1, next |-> 1]]

ReadVersion(p) ==
    /\ opener[p] = Off
    /\ Proceed(p, Max(versions \cup {0}))
    /\ raced' = (raced \/ \E q \in Opener : Migrating(q))
    /\ UNCHANGED <<schema, versions, cut, refused>>

Raises(p) == opener' = [opener EXCEPT ![p] = Off] /\ refused' = TRUE

MutRunStatement(p) ==
    LET here == <<opener[p].version, opener[p].next>> IN
    /\ Migrating(p) /\ here \in Statements(here[1])
    /\ versions' = versions \cup {here[1]}
    /\ \/ /\ Scripts[here[1]][here[2]] = "add" /\ here \in schema
          /\ Raises(p) /\ UNCHANGED schema
       \/ /\ Scripts[here[1]][here[2]] = "add" => here \notin schema
          /\ schema' = schema \cup {here}
          /\ opener' = [opener EXCEPT ![p].next = @ + 1]
          /\ UNCHANGED refused
    /\ UNCHANGED <<cut, raced>>
RunStatement(p) ==
    LET here == <<opener[p].version, opener[p].next>> IN
    /\ Migrating(p) /\ here \in Statements(here[1])
    /\ \/ /\ Scripts[here[1]][here[2]] = "add" /\ here \in schema
          /\ Raises(p) /\ UNCHANGED schema
       \/ /\ Scripts[here[1]][here[2]] = "add" => here \notin schema
          /\ schema' = schema \cup {here}
          /\ opener' = [opener EXCEPT ![p].next = @ + 1]
          /\ UNCHANGED refused
    /\ UNCHANGED <<versions, cut, raced>>

(* version is a primary key.                                               *)
Record(p) ==
    LET version == opener[p].version IN
    /\ Migrating(p) /\ opener[p].next > Len(Scripts[version])
    /\ \/ version \in versions /\ Raises(p) /\ UNCHANGED versions
       \/ /\ version \notin versions /\ versions' = versions \cup {version}
          /\ Proceed(p, version)
          /\ UNCHANGED refused
    /\ UNCHANGED <<schema, cut, raced>>

Dies(p) ==
    /\ opener[p] # Off
    /\ opener' = [opener EXCEPT ![p] = Off]
    /\ cut' = (cut \/ (Migrating(p) /\ opener[p].next > 1))
    /\ UNCHANGED <<schema, versions, raced, refused>>

MigrationsNext ==
    \E p \in Opener : ReadVersion(p) \/ RunStatement(p) \/ Record(p) \/ Dies(p)

MigrationsSpec == MigrationsInit /\ [][MigrationsNext]_migrationVars

-----------------------------------------------------------------------------
(* A process that came up works on the whole schema, and a recorded        *)
(* version is in it with every earlier one, even when another process      *)
(* migrates at the same time or one was killed on the way; and a start     *)
(* fails only after a script was cut off or two processes ran it at once.  *)
UpIsMigrated ==
    /\ \A p \in Opener : opener[p].at = "up" => versions = DOMAIN Scripts
    /\ \A version \in versions :
          1..version \subseteq versions /\ Statements(version) \subseteq schema
    /\ refused => cut \/ raced
===============================================================================
