---------------------------- MODULE MigrateProofs ----------------------------
(***************************************************************************)
(* Theorems about Migrate, for any number of processes and builds.         *)
(***************************************************************************)
EXTENDS Migrate, TLAPS

\* The process in a transaction is the writer, and the one file it has run is
\* the next of the schema: every file before it is there, or the loop would be
\* at that one.
WriterInv ==
  \A p \in Procs :
    /\ mg[p] \in {"insert", "commit"} <=> writer = p
    /\ writer = p => at[p] \notin Applied

\* A process in its loop has found or applied every file before the current.
LoopInv ==
  \A p \in Procs :
    /\ at[p] \in Nat \ {0}
    /\ mg[p] \in {"check", "exec", "insert", "commit", "done"} => 1 .. at[p] - 1 \subseteq Applied
    /\ mg[p] \in {"exec", "insert", "commit"} => at[p] <= Files[p]
    /\ mg[p] = "table" => at[p] = 1

MigrateInv == MigrateTypeOK /\ WriterInv /\ LoopInv /\ AppliedInOrder /\ SchemaIsComplete

-------------------------------------------------------------------------------
\* In order and without gaps, the applied files are those up to the schema's
\* length.
LEMMA AppliedIsPrefix ==
  ASSUME MigrateTypeOK, AppliedInOrder
  PROVE  Len(schema) \in Nat /\ Applied = 1 .. Len(schema)
<1>1. schema \in Seq(Nat) /\ Len(schema) \in Nat /\ DOMAIN schema = 1 .. Len(schema)
  BY DEF MigrateTypeOK
<1>2. \A i \in 1 .. Len(schema) : schema[i] = i
  BY <1>1 DEF AppliedInOrder
<1> QED
  BY <1>1, <1>2 DEF Applied

LEMMA MigrateInitInv == MigrateInit => MigrateInv
<1> SUFFICES ASSUME MigrateInit PROVE MigrateInv
  OBVIOUS
<1>1. Applied = {}
  BY DEF MigrateInit, Applied
<1>2. MigrateTypeOK
  BY DEF MigrateInit, MigrateTypeOK, Statement
<1>3. WriterInv /\ LoopInv /\ AppliedInOrder /\ SchemaIsComplete
  BY <1>1, MigrateAssumption DEF MigrateInit, WriterInv, LoopInv, AppliedInOrder, SchemaIsComplete
<1> QED
  BY <1>2, <1>3 DEF MigrateInv

-------------------------------------------------------------------------------
\* COMMIT makes the schema one file longer, and that file is the next one.
LEMMA CommitInv ==
  ASSUME MigrateInv, NEW p \in Procs, Commit(p)
  PROVE  MigrateInv'
<1> USE MigrateAssumption
<1> DEFINE n == Len(schema)
<1>1. n \in Nat /\ Applied = 1 .. n
  BY AppliedIsPrefix DEF MigrateInv
<1>2. writer = p /\ at[p] \notin Applied /\ at[p] \in Nat \ {0} /\ 1 .. at[p] - 1 \subseteq Applied
      /\ at[p] <= Files[p]
  BY DEF MigrateInv, WriterInv, LoopInv, Commit
<1>3. at[p] = n + 1
  <2>1. at[p] > n
    BY <1>1, <1>2
  <2>2. ~(at[p] > n + 1)
    <3> SUFFICES ASSUME at[p] > n + 1 PROVE FALSE
      OBVIOUS
    <3>1. n + 1 \in 1 .. at[p] - 1
      BY <1>1, <1>2
    <3> QED
      BY <3>1, <1>1, <1>2
  <2> QED
    BY <2>1, <2>2, <1>1, <1>2
<1>4. schema \in Seq(Nat) /\ schema' = Append(schema, n + 1)
  BY <1>3 DEF MigrateInv, MigrateTypeOK, Commit
<1>5. schema' \in Seq(Nat) /\ Len(schema') = n + 1 /\ DOMAIN schema' = 1 .. n + 1
      /\ \A i \in 1 .. n + 1 : schema'[i] = IF i = n + 1 THEN n + 1 ELSE schema[i]
  BY <1>1, <1>4
<1>6. \A i \in 1 .. n + 1 : schema'[i] = i
  BY <1>1, <1>4, <1>5 DEF MigrateInv, AppliedInOrder
<1>7. Applied' = 1 .. n + 1
  BY <1>1, <1>5, <1>6 DEF Applied
<1>8. recorded' = Applied'
  BY <1>1, <1>3, <1>7 DEF MigrateInv, AppliedInOrder, Commit
<1>9. MigrateTypeOK'
  BY <1>1, <1>2, <1>5, <1>7, <1>8 DEF MigrateInv, MigrateTypeOK, Commit, Statement
<1>10. WriterInv'
  <2> SUFFICES ASSUME NEW q \in Procs
               PROVE  /\ mg'[q] \in {"insert", "commit"} <=> writer' = q
                      /\ writer' = q => at'[q] \notin Applied'
    BY DEF WriterInv
  <2>1. writer' = NoProc /\ writer' # q
    BY DEF Commit
  <2>2. mg'[q] \notin {"insert", "commit"}
    BY <1>2 DEF MigrateInv, MigrateTypeOK, WriterInv, Commit
  <2> QED
    BY <2>1, <2>2
<1>11. LoopInv'
  <2> SUFFICES ASSUME NEW q \in Procs
               PROVE  /\ at'[q] \in Nat \ {0}
                      /\ mg'[q] \in {"check", "exec", "insert", "commit", "done"}
                           => 1 .. at'[q] - 1 \subseteq Applied'
                      /\ mg'[q] \in {"exec", "insert", "commit"} => at'[q] <= Files[q]
                      /\ mg'[q] = "table" => at'[q] = 1
    BY DEF LoopInv
  <2>1. CASE q = p
    <3>1. at'[q] = n + 2 /\ mg'[q] = "check"
      BY <2>1, <1>1, <1>3 DEF MigrateInv, MigrateTypeOK, Commit
    <3> QED
      BY <3>1, <1>1, <1>7
  <2>2. CASE q # p
    <3>1. at'[q] = at[q] /\ mg'[q] = mg[q]
      BY <2>2 DEF MigrateInv, MigrateTypeOK, Commit
    <3>2. Applied \subseteq Applied'
      BY <1>1, <1>7
    <3> QED
      BY <3>1, <3>2 DEF MigrateInv, LoopInv
  <2> QED
    BY <2>1, <2>2
<1>12. AppliedInOrder'
  BY <1>5, <1>6, <1>8 DEF AppliedInOrder
<1>13. SchemaIsComplete'
  <2> SUFFICES ASSUME NEW q \in Procs, mg'[q] = "done" PROVE 1 .. Files[q] \subseteq Applied'
    BY DEF SchemaIsComplete
  <2>1. mg[q] = "done"
    BY DEF MigrateInv, MigrateTypeOK, Commit
  <2> QED
    BY <2>1, <1>1, <1>7 DEF MigrateInv, SchemaIsComplete
<1> QED
  BY <1>9, <1>10, <1>11, <1>12, <1>13 DEF MigrateInv

\* The other statements leave the schema and its records alone.
LEMMA OtherInv ==
  ASSUME MigrateInv, NEW p \in Procs,
         Start(p) \/ CreateTable(p) \/ Check(p) \/ Exec(p) \/ Insert(p) \/ Exit(p)
  PROVE  MigrateInv'
<1> USE MigrateAssumption
<1>1. schema' = schema /\ recorded' = recorded /\ Applied' = Applied
  BY DEF Start, CreateTable, Check, Exec, Insert, Exit, Applied
<1>2. Applied = 1 .. Len(schema) /\ Len(schema) \in Nat /\ recorded = Applied
  BY AppliedIsPrefix DEF MigrateInv, AppliedInOrder
<1>3. MigrateTypeOK'
  <2>1. /\ mg \in [Procs -> Statement] /\ at \in [Procs -> Nat]
        /\ writer \in Procs \cup {NoProc} /\ schema \in Seq(Nat) /\ recorded \subseteq Nat
    BY DEF MigrateInv, MigrateTypeOK
  <2>2. mg' \in [Procs -> Statement]
    BY <2>1 DEF Statement, Start, CreateTable, Check, Exec, Insert, Exit
  <2>3. at' \in [Procs -> Nat]
    BY <2>1 DEF Start, CreateTable, Check, Exec, Insert, Exit
  <2>4. writer' \in Procs \cup {NoProc}
    BY <2>1 DEF Start, CreateTable, Check, Exec, Insert, Exit
  <2> QED
    BY <1>1, <2>1, <2>2, <2>3, <2>4 DEF MigrateTypeOK
<1>4. WriterInv'
  <2> SUFFICES ASSUME NEW q \in Procs
               PROVE  /\ mg'[q] \in {"insert", "commit"} <=> writer' = q
                      /\ writer' = q => at'[q] \notin Applied'
    BY DEF WriterInv
  <2>1. /\ mg[q] \in {"insert", "commit"} <=> writer = q
        /\ writer = q => at[q] \notin Applied
        /\ mg[p] \in {"insert", "commit"} <=> writer = p
        /\ mg \in [Procs -> Statement] /\ at \in [Procs -> Nat]
    BY DEF MigrateInv, WriterInv, MigrateTypeOK
  <2>2. CASE Start(p) \/ CreateTable(p)
    BY <1>1, <2>1, <2>2 DEF Start, CreateTable
  <2>3. CASE Check(p)
    BY <1>1, <2>1, <2>3 DEF Check
  <2>4. CASE Exec(p)
    BY <1>1, <2>1, <2>4 DEF Exec
  <2>5. CASE Insert(p)
    BY <1>1, <2>1, <2>5 DEF Insert
  <2>6. CASE Exit(p)
    BY <1>1, <2>1, <2>6 DEF Exit
  <2> QED
    BY <2>2, <2>3, <2>4, <2>5, <2>6
<1>5. LoopInv'
  <2> SUFFICES ASSUME NEW q \in Procs
               PROVE  /\ at'[q] \in Nat \ {0}
                      /\ mg'[q] \in {"check", "exec", "insert", "commit", "done"}
                           => 1 .. at'[q] - 1 \subseteq Applied
                      /\ mg'[q] \in {"exec", "insert", "commit"} => at'[q] <= Files[q]
                      /\ mg'[q] = "table" => at'[q] = 1
    BY <1>1 DEF LoopInv
  <2>1. /\ at[q] \in Nat \ {0}
        /\ mg[q] \in {"check", "exec", "insert", "commit", "done"} => 1 .. at[q] - 1 \subseteq Applied
        /\ mg[q] \in {"exec", "insert", "commit"} => at[q] <= Files[q]
        /\ mg[q] = "table" => at[q] = 1
        /\ mg \in [Procs -> Statement] /\ at \in [Procs -> Nat]
    BY DEF MigrateInv, LoopInv, MigrateTypeOK
  <2>2. CASE q # p
    <3>1. at'[q] = at[q] /\ mg'[q] = mg[q]
      BY <2>1, <2>2 DEF Start, CreateTable, Check, Exec, Insert, Exit
    <3> QED
      BY <2>1, <3>1
  <2>3. CASE q = p /\ (Start(p) \/ CreateTable(p) \/ Exit(p))
    <3>1. 1 .. 0 = {}
      OBVIOUS
    <3> QED
      BY <2>1, <2>3, <3>1 DEF Start, CreateTable, Exit
  <2>4. CASE q = p /\ (Exec(p) \/ Insert(p))
    BY <2>1, <2>4 DEF Exec, Insert
  <2>5. CASE q = p /\ Check(p)
    <3>1. CASE at[p] > Files[p] /\ mg'[p] = "done" /\ at' = at
      BY <2>1, <2>5, <3>1 DEF Check
    <3>2. CASE at[p] <= Files[p] /\ at[p] \in recorded /\ at' = [at EXCEPT ![p] = @ + 1] /\ mg' = mg
      <4>1. mg[p] = "check" /\ at'[p] = at[p] + 1
        BY <2>1, <2>5, <3>2 DEF Check
      <4>2. 1 .. at[p] \subseteq Applied
        BY <1>2, <2>1, <2>5, <3>2, <4>1
      <4> QED
        BY <2>1, <2>5, <3>2, <4>1, <4>2
    <3>3. CASE at[p] <= Files[p] /\ mg' = [mg EXCEPT ![p] = "exec"] /\ at' = at
      BY <2>1, <2>5, <3>3 DEF Check
    <3>4. \/ at[p] > Files[p] /\ mg'[p] = "done" /\ at' = at
          \/ at[p] <= Files[p] /\ at[p] \in recorded /\ at' = [at EXCEPT ![p] = @ + 1] /\ mg' = mg
          \/ at[p] <= Files[p] /\ mg' = [mg EXCEPT ![p] = "exec"] /\ at' = at
      BY <2>1, <2>5 DEF Check, Exists
    <3> QED
      BY <3>1, <3>2, <3>3, <3>4
  <2> QED
    BY <2>2, <2>3, <2>4, <2>5
<1>6. AppliedInOrder'
  BY <1>1 DEF MigrateInv, AppliedInOrder
<1>7. SchemaIsComplete'
  <2> SUFFICES ASSUME NEW q \in Procs, mg'[q] = "done" PROVE 1 .. Files[q] \subseteq Applied
    BY <1>1 DEF SchemaIsComplete
  <2>1. mg \in [Procs -> Statement]
    BY DEF MigrateInv, MigrateTypeOK
  <2>2. CASE mg[q] = "done"
    BY <2>2 DEF MigrateInv, SchemaIsComplete
  <2>3. CASE mg[q] # "done"
    <3>1. q = p /\ mg[p] = "check" /\ at[p] > Files[p]
      BY <2>1, <2>3 DEF Start, CreateTable, Check, Exec, Insert, Exit
    <3>2. 1 .. at[p] - 1 \subseteq Applied /\ at[p] \in Nat
      BY <3>1 DEF MigrateInv, LoopInv
    <3> QED
      BY <3>1, <3>2
  <2> QED
    BY <2>2, <2>3
<1> QED
  BY <1>3, <1>4, <1>5, <1>6, <1>7 DEF MigrateInv

\* Every step of Migrate, and a stutter, keeps the invariant.
LEMMA MigrateStepInv == MigrateInv /\ [MigrateNext]_mvars => MigrateInv'
<1> SUFFICES ASSUME MigrateInv, [MigrateNext]_mvars PROVE MigrateInv'
  OBVIOUS
<1>1. CASE UNCHANGED mvars
  BY <1>1 DEF mvars, MigrateInv, MigrateTypeOK, WriterInv, LoopInv, AppliedInOrder,
              SchemaIsComplete, Applied
<1>2. ASSUME NEW p \in Procs, Start(p) \/ Step(p) \/ Fail(p) \/ Exit(p) PROVE MigrateInv'
  BY <1>2, CommitInv, OtherInv DEF Step, Fail
<1> QED
  BY <1>1, <1>2 DEF MigrateNext

-------------------------------------------------------------------------------
\* Type correctness of Migrate: table, write lock and the loops of the processes.
THEOREM MigrateTypeCorrect == MigrateSpec => []MigrateTypeOK
<1>1. MigrateInv => MigrateTypeOK
  BY DEF MigrateInv
<1> QED
  BY <1>1, MigrateInitInv, MigrateStepInv, PTL DEF MigrateSpec

\* Whatever is killed or raced, the schema is what schema_migrations says, every
\* file ran once and in order (migrate.go:10).
THEOREM AppliedAlwaysInOrder == MigrateSpec => []AppliedInOrder
<1>1. MigrateInv => AppliedInOrder
  BY DEF MigrateInv
<1> QED
  BY <1>1, MigrateInitInv, MigrateStepInv, PTL DEF MigrateSpec

\* A process past Migrate finds all of its build's migrations applied (main.go:53).
THEOREM SchemaAlwaysComplete == MigrateSpec => []SchemaIsComplete
<1>1. MigrateInv => SchemaIsComplete
  BY DEF MigrateInv
<1> QED
  BY <1>1, MigrateInitInv, MigrateStepInv, PTL DEF MigrateSpec
===============================================================================
