------------------------------- MODULE Migrate -------------------------------
(***************************************************************************)
(* database.Migrate: every start of the program brings the one database    *)
(* file up to the migrations embedded in its build, one transaction each.  *)
(* Several processes may start at once (a new container beside the old     *)
(* one), of older and newer builds, and any of them may fail or be killed  *)
(* at any statement. SQLite lets one of them write at a time.              *)
(***************************************************************************)
EXTENDS Naturals, Sequences

CONSTANTS
  Procs,   \* containers that may run the program on the database file
  Files,   \* Files[p]: how many migrations p's build embeds, sorted by name
  NoProc

ASSUME MigrateAssumption == Files \in [Procs -> Nat] /\ NoProc \notin Procs

VARIABLES
  schema,    \* the migrations whose statements took effect, in that order
  recorded,  \* table schema_migrations
  writer,    \* the process whose transaction holds SQLite's write lock
  mg,        \* mg[p]: the next statement of p's Migrate
  at         \* at[p]: the file p's loop is at

mvars == <<schema, recorded, writer, mg, at>>

Statement == {"off", "table", "check", "exec", "insert", "commit", "done"}

\* The migrations that took effect.
Applied == {schema[i] : i \in DOMAIN schema}

MigrateInit ==
  /\ schema = <<>> /\ recorded = {} /\ writer = NoProc
  /\ mg = [p \in Procs |-> "off"]
  /\ at = [p \in Procs |-> 1]

\* database.Open connects lazily: the first statement comes with CREATE TABLE.
Start(p) ==
  /\ mg[p] = "off"
  /\ mg' = [mg EXCEPT ![p] = "table"]
  /\ at' = [at EXCEPT ![p] = 1]
  /\ UNCHANGED <<schema, recorded, writer>>

\* CREATE TABLE IF NOT EXISTS schema_migrations. It need not wait for a writer:
\* whoever is in a transaction has been here before.
CreateTable(p) ==
  /\ mg[p] = "table"
  /\ mg' = [mg EXCEPT ![p] = "check"]
  /\ UNCHANGED <<schema, recorded, writer, at>>

\* A mutant: a schema with any file recorded is taken for up to date.
Mutant_Exists(m) == m \in Nat /\ recorded # {}

\* SELECT EXISTS: a read, of what is committed.
Exists(m) == m \in recorded

\* The loop: done after the last file, else skip the file or begin.
Check(p) ==
  /\ mg[p] = "check"
  /\ \/ /\ at[p] > Files[p]
        /\ mg' = [mg EXCEPT ![p] = "done"] /\ UNCHANGED at
     \/ /\ at[p] <= Files[p] /\ Exists(at[p])
        /\ at' = [at EXCEPT ![p] = @ + 1] /\ UNCHANGED mg
     \/ /\ at[p] <= Files[p] /\ ~Exists(at[p])
        /\ mg' = [mg EXCEPT ![p] = "exec"] /\ UNCHANGED at
  /\ UNCHANGED <<schema, recorded, writer>>

\* The file's statements: the first one takes the write lock. They fail when
\* another process has run the file since the check (Fail), and otherwise stay
\* in the transaction.
Exec(p) ==
  /\ mg[p] = "exec" /\ writer = NoProc /\ at[p] \notin Applied
  /\ writer' = p
  /\ mg' = [mg EXCEPT ![p] = "insert"]
  /\ UNCHANGED <<schema, recorded, at>>

Insert(p) ==
  /\ mg[p] = "insert" /\ at[p] \notin recorded
  /\ mg' = [mg EXCEPT ![p] = "commit"]
  /\ UNCHANGED <<schema, recorded, writer, at>>

\* A mutant: the record is not part of the file's transaction, and is lost.
Mutant_Commit(p) ==
  /\ mg[p] = "commit"
  /\ schema' = Append(schema, at[p])
  /\ writer' = NoProc
  /\ mg' = [mg EXCEPT ![p] = "check"]
  /\ at' = [at EXCEPT ![p] = @ + 1]
  /\ UNCHANGED recorded

Commit(p) ==
  /\ mg[p] = "commit"
  /\ schema' = Append(schema, at[p])
  /\ recorded' = recorded \cup {at[p]}
  /\ writer' = NoProc
  /\ mg' = [mg EXCEPT ![p] = "check"]
  /\ at' = [at EXCEPT ![p] = @ + 1]

\* The process ends, with an open transaction rolled back: an error of any
\* statement makes run return, and a kill has the same effect here.
Exit(p) ==
  /\ mg[p] # "off"
  /\ mg' = [mg EXCEPT ![p] = "off"]
  /\ writer' = IF writer = p THEN NoProc ELSE writer
  /\ UNCHANGED <<schema, recorded, at>>

\* A mutant: a file that fails is tried again.
Mutant_Fail(p) ==
  /\ mg[p] = "exec"
  /\ writer # NoProc
  /\ Exit(p)

\* Exit in the middle of Migrate with an error: the file already ran, or the
\* wait for another's transaction reached busy_timeout.
Fail(p) ==
  /\ mg[p] = "exec"
  /\ at[p] \in Applied \/ writer # NoProc
  /\ Exit(p)

Step(p) == CreateTable(p) \/ Check(p) \/ Exec(p) \/ Insert(p) \/ Commit(p)

MigrateNext == \E p \in Procs : Start(p) \/ Step(p) \/ Fail(p) \/ Exit(p)

MigrateSpec == MigrateInit /\ [][MigrateNext]_mvars

MigrateTypeOK ==
  /\ schema \in Seq(Nat) /\ recorded \subseteq Nat
  /\ writer \in Procs \cup {NoProc}
  /\ mg \in [Procs -> Statement]
  /\ at \in [Procs -> Nat]

\* Whatever was killed or raced, the schema is exactly what schema_migrations
\* says, every file ran once and in order: the next start can go on from there.
\* (migrate.go:10: "in filename order, each inside a transaction ... idempotent")
AppliedInOrder ==
  /\ recorded = Applied
  /\ \A i \in DOMAIN schema : schema[i] = i

\* A process that gets past Migrate, and every one that serves, finds all of
\* its build's migrations applied (main.go:53).
SchemaIsComplete == \A p \in Procs : mg[p] = "done" => 1 .. Files[p] \subseteq Applied
===============================================================================
