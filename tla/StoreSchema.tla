---------------------------- MODULE StoreSchema ----------------------------
(***************************************************************************)
(* Opening the store (db.rs, Database::open and migrate_schema): programs  *)
(* that open one SQLite file bring its schema to version 4 with scripts    *)
(* that are executed statement by statement, each in a transaction of its  *)
(* own.  A program may be killed between two statements, and the app and   *)
(* the command line may open the same file at the same time.               *)
(***************************************************************************)
EXTENDS Naturals, Sequences, SequencesExt

CONSTANTS Opener,      \* the programs that open the store
          MaxKills     \* bound: programs killed while they migrate

ASSUME KillsAssumption == MaxKills \in Nat

VARIABLES base,     \* [TableName -> Content]: the tables
          copy,     \* [Measured -> Content]: the tables *_new of the first migration
          column,   \* runs has the column error_message
          version,  \* PRAGMA user_version
          opener,   \* [Opener -> where it is, the version it goes by, what it has to execute]
          kills,    \* programs killed so far
          kept,     \* history: the tables that have held rows
          mixed     \* history: a kill, or a second program, came into the first migration

schemaVars == <<base, copy, column, version, opener, kills, kept, mixed>>

\* The tables of SCHEMA_SQL, in the order in which it creates them.
Order == <<"models", "sweeps", "runs", "results", "samples">>
Measured == ToSet(Order)
\* The tables that versions 3 and 4 add.
Later == <<"chat_sessions", "chat_messages", "eval_template_results">>
TableName == Measured \cup ToSet(Later)
Content == {"absent", "empty", "rows"}

\* Statements: what they do, and to which table.
Each(op, tables) == [i \in DOMAIN tables |-> <<op, tables[i]>>]

SetVersion(k) == << <<"version", k>> >>

\* SCHEMA_SQL: CREATE TABLE IF NOT EXISTS.
FreshScript == Each("ensure", Order)

\* A plausible fault: the old tables are dropped before they are copied.
CopyScriptDropsFirst ==
    Each("create", Order) \o Each("drop", Reverse(Order)) \o Each("rename", Order)

\* MIGRATION_V1_SQL: CREATE TABLE t_new, INSERT INTO t_new SELECT * FROM t,
\* DROP TABLE t, ALTER TABLE t_new RENAME TO t.
CopyScript ==
    Each("create", Order)
      \o Each("fill", <<"models", "sweeps", "results", "samples", "runs">>)
      \o Each("drop", Reverse(Order))
      \o Each("rename", Order)

FirstScript == (IF base["models"] # "absent" THEN CopyScript ELSE FreshScript) \o SetVersion(1)

NoColumn == base["runs"] # "absent" /\ ~column
AddColumn == << <<"addColumn", "runs">> >>

SecondScript == (IF NoColumn THEN AddColumn ELSE <<>>) \o SetVersion(2)

\* What takes a store from version k to k + 1; its guards are looked at now.
Script(k) ==
    CASE k = 0 -> FirstScript
      [] k = 1 -> SecondScript
      [] k = 2 -> Each("ensure", SubSeq(Later, 1, 2)) \o SetVersion(3)
      [] k = 3 -> Each("ensure", SubSeq(Later, 3, 3)) \o SetVersion(4)

Closed == [at |-> "closed", by |-> 0, todo |-> <<>>]

SchemaInit ==
    /\ base = [t \in TableName |-> "absent"]
    /\ copy = [t \in Measured |-> "absent"]
    /\ column = FALSE
    /\ version = 0
    /\ opener = [p \in Opener |-> Closed]
    /\ kills = 0
    /\ kept = {}
    /\ mixed = FALSE

\* A store that a release before versions has left, with its rows.
Inherits ==
    /\ \A p \in Opener : opener[p] = Closed
    /\ base["models"] = "absent" /\ version = 0 /\ kills = 0
    /\ base' = [t \in TableName |-> IF t \in Measured THEN "rows" ELSE "absent"]
    /\ kept' = Measured
    /\ UNCHANGED <<copy, column, version, opener, kills, mixed>>

\* p is somewhere in the migration to version 1.
InFirst(p) == opener[p].at = "migrating" /\ opener[p].by <= 1 /\ <<"version", 1>> \in ToSet(opener[p].todo)

\* Database::open reads the version once.
Opens(p) ==
    /\ opener[p].at \in {"closed", "failed"}
    /\ opener' = [opener EXCEPT ![p] = [at |-> "migrating", by |-> version, todo |-> <<>>]]
    /\ mixed' = (mixed \/ \E q \in Opener \ {p} : opener[q].at = "migrating" /\ opener[q].by <= 1)
    /\ UNCHANGED <<base, copy, column, version, kills, kept>>

Migrates(p) ==
    /\ opener[p].at = "migrating" /\ opener[p].todo = <<>> /\ opener[p].by < 4
    /\ opener' = [opener EXCEPT ![p].todo = Script(opener[p].by), ![p].by = @ + 1]
    /\ UNCHANGED <<base, copy, column, version, kills, kept, mixed>>

Opened(p) ==
    /\ opener[p].at = "migrating" /\ opener[p].todo = <<>> /\ opener[p].by >= 4
    /\ opener' = [opener EXCEPT ![p].at = "open"]
    /\ UNCHANGED <<base, copy, column, version, kills, kept, mixed>>

\* SQLite executes the statement s, or returns an error.
Allowed(s) ==
    CASE s[1] = "create" -> copy[s[2]] = "absent"
      [] s[1] = "fill"   -> /\ base[s[2]] # "absent" /\ copy[s[2]] # "absent"
                            /\ ~(base[s[2]] = "rows" /\ copy[s[2]] = "rows")
                            /\ ~(s[2] = "runs" /\ column)
      [] s[1] = "drop"   -> base[s[2]] # "absent"
      [] s[1] = "rename" -> copy[s[2]] # "absent" /\ base[s[2]] = "absent"
      [] s[1] = "addColumn" -> base["runs"] # "absent" /\ ~column
      [] OTHER -> TRUE

Sql(s) ==
    /\ base' = CASE s[1] = "drop"   -> [base EXCEPT ![s[2]] = "absent"]
                 [] s[1] = "rename" -> [base EXCEPT ![s[2]] = copy[s[2]]]
                 [] s[1] = "ensure" -> [base EXCEPT ![s[2]] = IF @ = "absent" THEN "empty" ELSE @]
                 [] OTHER -> base
    /\ copy' = CASE s[1] = "create" -> [copy EXCEPT ![s[2]] = "empty"]
                 [] s[1] = "fill"   -> [copy EXCEPT ![s[2]] = IF base[s[2]] = "rows" THEN "rows" ELSE @]
                 [] s[1] = "rename" -> [copy EXCEPT ![s[2]] = "absent"]
                 [] OTHER -> copy
    /\ column' = CASE s = <<"drop", "runs">> -> FALSE
                   [] s[1] = "addColumn" -> TRUE
                   [] OTHER -> column
    /\ version' = IF s[1] = "version" THEN s[2] ELSE version

Executes(p) ==
    /\ opener[p].at = "migrating" /\ opener[p].todo # <<>>
    /\ Allowed(Head(opener[p].todo))
    /\ Sql(Head(opener[p].todo))
    /\ opener' = [opener EXCEPT ![p].todo = Tail(@)]
    /\ UNCHANGED <<kills, kept, mixed>>

\* The error leaves open() and the connection is closed.
Fails(p) ==
    /\ opener[p].at = "migrating" /\ opener[p].todo # <<>>
    /\ ~Allowed(Head(opener[p].todo))
    /\ opener' = [opener EXCEPT ![p] = [Closed EXCEPT !.at = "failed"]]
    /\ UNCHANGED <<base, copy, column, version, kills, kept, mixed>>

SchemaKilled(p) ==
    /\ opener[p].at = "migrating" /\ kills < MaxKills
    /\ opener' = [opener EXCEPT ![p] = Closed]
    /\ kills' = kills + 1
    /\ mixed' = (mixed \/ InFirst(p))
    /\ UNCHANGED <<base, copy, column, version, kept>>

\* An open program writes rows of its own; the tables hang together, so it
\* fills those of a measurement at once.
Writes(p) ==
    /\ opener[p].at = "open"
    /\ \A t \in TableName : base[t] # "absent"
    /\ base' = [t \in TableName |-> "rows"]
    /\ kept' = TableName
    /\ UNCHANGED <<copy, column, version, opener, kills, mixed>>

Closes(p) ==
    /\ opener[p].at = "open"
    /\ opener' = [opener EXCEPT ![p] = Closed]
    /\ UNCHANGED <<base, copy, column, version, kills, kept, mixed>>

SchemaStep(p) == Migrates(p) \/ Opened(p) \/ Executes(p) \/ Fails(p)
SchemaNext ==
    \/ Inherits
    \/ \E p \in Opener : SchemaStep(p) \/ Opens(p) \/ SchemaKilled(p) \/ Writes(p) \/ Closes(p)

SchemaSpec == SchemaInit /\ [][SchemaNext]_schemaVars /\ \A p \in Opener : WF_schemaVars(SchemaStep(p))
-----------------------------------------------------------------------------
(* Properties. *)

SchemaTypeOK ==
    /\ base \in [TableName -> Content]
    /\ copy \in [Measured -> Content]
    /\ column \in BOOLEAN
    /\ version \in 0..4
    /\ \A p \in Opener : /\ opener[p].at \in {"closed", "migrating", "failed", "open"}
                         /\ opener[p].by \in 0..4
    /\ kills \in 0..MaxKills
    /\ kept \subseteq TableName
    /\ mixed \in BOOLEAN

\* The rows an older release left are there, under the name of their table or in
\* its copy, wherever the migrations stand, whoever was killed in them and however
\* often they were tried; until a program has opened the store and written to it.
OldRowsExist ==
    kept = Measured => \A t \in Measured : base[t] = "rows" \/ copy[t] = "rows"

\* Unless the first migration was cut short or two programs opened the store
\* at once, a program that has opened it sees every row it ever held.
RowsAreSeen ==
    ~mixed => \A p \in Opener : opener[p].at = "open" => \A t \in kept : base[t] = "rows"

\* While nobody is in the migration to version 1, the version never claims
\* more of the schema than there is.
VersionIsTrue ==
    ~mixed => /\ version >= 1 => \A t \in Measured : base[t] # "absent"
              /\ version >= 2 => column
              /\ version >= 3 => base["chat_sessions"] # "absent" /\ base["chat_messages"] # "absent"
              /\ version >= 4 => base["eval_template_results"] # "absent"

\* A program killed between two of the later statements does no harm: an opening
\* that finds the column already there opens the store, unless it is killed
\* itself.  (One that finds it missing may lose the race to add it, and fail.)
ReopenSucceeds ==
    \A p \in Opener :
        (opener[p].at = "migrating" /\ opener[p].todo = <<>> /\ column /\ ~mixed)
            ~> (opener[p].at \in {"open", "closed"} \/ mixed)

\* Two programs that migrate one store, and a kill in any of them, lose no row, hide
\* none from a program that has opened it, and claim no version it has not.
StoreSurvives ==
    /\ SchemaTypeOK
    /\ OldRowsExist
    /\ RowsAreSeen
    /\ VersionIsTrue
=============================================================================
