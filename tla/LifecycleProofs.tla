--------------------------- MODULE LifecycleProofs ---------------------------
(***************************************************************************)
(* Theorems about Lifecycle, for any number of containers, clients,        *)
(* requests, jobs and starts. Its steps are steps of Migrate and of        *)
(* Limiter, or leave them alone, so that their invariants hold here.       *)
(***************************************************************************)
EXTENDS Lifecycle, MigrateProofs, LimiterProofs

\* The part of TypeOK that is Lifecycle's own.
OwnTypeOK ==
  /\ stage \in [Procs -> Stage]
  /\ told \in [Procs -> BOOLEAN]
  /\ deadline \in [Procs -> 0 .. MaxTime]
  /\ job \in [Procs -> [Jobs -> JobState]]
  /\ rq \in [Requests -> Request]
  /\ messages \in [Requests -> Nat]
  /\ starts \in 0 .. MaxStarts

\* run() goes on only while the process is up.
StageInv == \A p \in Procs : stage[p] # "start" => Up(p)

\* What a request has been answered goes with what it has stored.
StoredInv ==
  \A r \in Requests :
    /\ rq[r].pc \in {"new", "insert"} => rq[r].got = "none"
    /\ rq[r].got = "redirect" => messages[r] > 0
    /\ messages[r] > 0 => rq[r].cut \/ rq[r].got = "redirect"
    /\ messages[r] > 1 => rq[r].cut

Inv == MigrateInv /\ LimiterInv /\ OwnTypeOK /\ StageInv /\ StoredInv

-------------------------------------------------------------------------------
(* The steps, as Migrate and Limiter see them.                                 *)

\* A start, a statement of Migrate, an end of the process, or nothing of it.
LEMMA StepsMigrate == [Next]_vars => [MigrateNext]_mvars
<1> SUFFICES ASSUME [Next]_vars PROVE [MigrateNext]_mvars
  OBVIOUS
<1>1. CASE UNCHANGED vars
  BY <1>1 DEF vars
<1>2. ASSUME NEW p \in Procs, Boot(p) \/ MigrateStep(p) PROVE MigrateNext
  BY <1>2 DEF Boot, MigrateStep, MigrateNext
<1>3. ASSUME NEW p \in Procs, FailToStart(p) \/ Return(p) \/ Kill(p) PROVE MigrateNext
  <2>1. Exit(p)
    BY <1>3 DEF FailToStart, Return, Kill, Gone
  <2> QED
    BY <2>1 DEF MigrateNext
<1>4. ASSUME NEW p \in Procs,
             StartJobs(p) \/ Listen(p) \/ Signal(p) \/ Drain(p) \/ ServeFails(p) \/ CloseDB(p)
               \/ \E r \in Requests : Submit(r, p)
      PROVE  UNCHANGED mvars
  BY <1>4 DEF StartJobs, Listen, Signal, Drain, ServeFails, CloseDB, Submit
<1>5. ASSUME NEW p \in Procs, NEW j \in Jobs,
             RunJob(p, j) \/ StopJob(p, j) \/ JobDone(p, j) \/ JobFails(p, j) \/ Report(p, j)
      PROVE  UNCHANGED mvars
  BY <1>5 DEF RunJob, StopJob, JobDone, JobFails, Report, JobGo
<1>6. ASSUME NEW r \in Requests,
             CreateMessage(r) \/ CreateMessageFails(r) \/ Reply(r) \/ HangUp(r) \/ Retry(r)
      PROVE  UNCHANGED mvars
  BY <1>6 DEF CreateMessage, CreateMessageFails, Reply, HangUp, Retry
<1>7. CASE PassTime
  BY <1>7 DEF PassTime
<1> QED
  BY <1>1, <1>2, <1>3, <1>4, <1>5, <1>6, <1>7 DEF Next, Process

\* An attempt, a fresh limiter, a tick of the clock, or nothing of it.
LEMMA StepsLimiter == [Next]_vars => [LimiterNext]_lvars
<1> SUFFICES ASSUME [Next]_vars PROVE [LimiterNext]_lvars
  OBVIOUS
<1>1. CASE UNCHANGED vars
  BY <1>1 DEF vars
<1>2. ASSUME NEW p \in Procs, FailToStart(p) \/ Return(p) \/ Kill(p) PROVE LimiterNext
  <2>1. Forget({p} \X Clients)
    BY <1>2 DEF FailToStart, Return, Kill, Gone
  <2>2. {p} \X Clients \in SUBSET Keys
    BY LifecycleAssumption
  <2> QED
    BY <2>1, <2>2 DEF LimiterNext
<1>3. ASSUME NEW p \in Procs, NEW r \in Requests, Submit(r, p) PROVE [LimiterNext]_lvars
  <2>1. <<p, From[r]>> \in Keys
    BY LifecycleAssumption
  <2>2. UNCHANGED lvars \/ Refuse(<<p, From[r]>>) \/ Accept(<<p, From[r]>>)
    BY <1>3 DEF Submit
  <2> QED
    BY <2>1, <2>2 DEF LimiterNext
<1>4. ASSUME NEW p \in Procs,
             Boot(p) \/ MigrateStep(p) \/ StartJobs(p) \/ Listen(p) \/ Signal(p) \/ Drain(p)
               \/ ServeFails(p) \/ CloseDB(p)
      PROVE  UNCHANGED lvars
  BY <1>4 DEF Boot, MigrateStep, StartJobs, Listen, Signal, Drain, ServeFails, CloseDB
<1>5. ASSUME NEW p \in Procs, NEW j \in Jobs,
             RunJob(p, j) \/ StopJob(p, j) \/ JobDone(p, j) \/ JobFails(p, j) \/ Report(p, j)
      PROVE  UNCHANGED lvars
  BY <1>5 DEF RunJob, StopJob, JobDone, JobFails, Report, JobGo
<1>6. ASSUME NEW r \in Requests,
             CreateMessage(r) \/ CreateMessageFails(r) \/ Reply(r) \/ HangUp(r) \/ Retry(r)
      PROVE  UNCHANGED lvars
  BY <1>6 DEF CreateMessage, CreateMessageFails, Reply, HangUp, Retry
<1>7. CASE PassTime
  BY <1>7 DEF PassTime, LimiterNext
<1> QED
  BY <1>1, <1>2, <1>3, <1>4, <1>5, <1>6, <1>7 DEF Next, Process

-------------------------------------------------------------------------------
(* The steps, as a request sees them.                                          *)

\* A step moves request r by one statement of its handler, cuts it, or leaves it.
RequestStep(r) ==
  \/ rq'[r] = rq[r] /\ messages'[r] = messages[r]
  \/ /\ rq[r].pc \in {"insert", "answer"} /\ messages'[r] = messages[r]
     /\ rq'[r] = Cut(rq[r])
  \/ /\ rq[r].pc = "new" /\ messages'[r] = messages[r]
     /\ \E p \in Procs, got \in {"dropped", "limited", "invalid"} :
          /\ \/ rq'[r] = [rq[r] EXCEPT !.at = p, !.pc = "answer", !.got = got]
             \/ rq'[r] = [rq[r] EXCEPT !.at = p, !.pc = "insert", !.got = "none"]
  \/ /\ rq[r].pc = "insert" /\ messages'[r] = messages[r] + 1
     /\ rq'[r] = [rq[r] EXCEPT !.pc = "answer", !.got = "redirect"]
  \/ /\ rq[r].pc = "insert" /\ messages'[r] = messages[r]
     /\ rq'[r] = [rq[r] EXCEPT !.pc = "answer", !.got = "error"]
  \/ /\ rq[r].pc = "answer" /\ messages'[r] = messages[r]
     /\ rq'[r] = [rq[r] EXCEPT !.pc = "done", !.at = NoProc]
  \/ /\ rq[r].pc = "done" /\ rq[r].got # "redirect" /\ messages'[r] = messages[r]
     /\ rq'[r] = [rq[r] EXCEPT !.pc = "new", !.got = "none"]

LEMMA RequestSteps ==
  ASSUME OwnTypeOK, [Next]_vars
  PROVE  /\ DOMAIN rq' = Requests /\ DOMAIN messages' = Requests
         /\ rq' = [r \in Requests |-> rq'[r]] /\ messages' = [r \in Requests |-> messages'[r]]
         /\ \A r \in Requests : RequestStep(r)
<1> DEFINE Goal == /\ DOMAIN rq' = Requests /\ DOMAIN messages' = Requests
                   /\ rq' = [r \in Requests |-> rq'[r]]
                   /\ messages' = [r \in Requests |-> messages'[r]]
                   /\ \A r \in Requests : RequestStep(r)
<1>1. rq \in [Requests -> Request] /\ messages \in [Requests -> Nat]
  BY DEF OwnTypeOK
<1>2. UNCHANGED <<rq, messages>> => Goal
  BY <1>1 DEF RequestStep
<1>3. CASE UNCHANGED vars
  BY <1>2, <1>3 DEF vars, svars
<1>4. ASSUME NEW p \in Procs, FailToStart(p) \/ Return(p) \/ Kill(p) PROVE Goal
  <2>1. Gone(p)
    BY <1>4 DEF FailToStart, Return, Kill
  <2>2. /\ messages' = messages
        /\ rq' = [r \in Requests |->
                    IF r \in InFlight(p) THEN Cut(rq[r])
                    ELSE rq[r]]
    BY <2>1 DEF Gone
  <2>3. \A r \in InFlight(p) : rq[r].pc \in {"insert", "answer"}
    BY DEF InFlight
  <2> QED
    BY <1>1, <2>2, <2>3 DEF RequestStep
<1>5. ASSUME NEW p \in Procs, NEW q \in Requests, Submit(q, p) PROVE Goal
  <2>1. /\ rq[q].pc = "new" /\ messages' = messages
        /\ \E pc, got : /\ rq' = [[rq EXCEPT ![q].at = p] EXCEPT ![q].pc = pc, ![q].got = got]
                        /\ \/ pc = "answer" /\ got \in {"dropped", "limited", "invalid"}
                           \/ pc = "insert" /\ got = "none"
    BY <1>5 DEF Submit
  <2>2. PICK pc, got : /\ rq' = [[rq EXCEPT ![q].at = p] EXCEPT ![q].pc = pc, ![q].got = got]
                       /\ \/ pc = "answer" /\ got \in {"dropped", "limited", "invalid"}
                          \/ pc = "insert" /\ got = "none"
    BY <2>1
  <2>3. /\ rq'[q] = [rq[q] EXCEPT !.at = p, !.pc = pc, !.got = got]
        /\ \A r \in Requests \ {q} : rq'[r] = rq[r]
        /\ DOMAIN rq' = Requests /\ rq' = [r \in Requests |-> rq'[r]]
    BY <1>1, <2>2 DEF Request
  <2>4. RequestStep(q)
    <3>1. /\ rq[q].pc = "new" /\ messages'[q] = messages[q]
      BY <2>1
    <3>2. CASE pc = "answer" /\ got \in {"dropped", "limited", "invalid"}
      BY <2>3, <3>1, <3>2 DEF RequestStep
    <3>3. CASE pc = "insert" /\ got = "none"
      <4>1. rq'[q] = [rq[q] EXCEPT !.at = p, !.pc = "insert", !.got = "none"]
        BY <2>3, <3>3
      <4>2. "dropped" \in {"dropped", "limited", "invalid"}
        OBVIOUS
      <4> QED
        BY <3>1, <4>1, <4>2 DEF RequestStep
    <3> QED
      BY <2>2, <3>2, <3>3
  <2>5. \A r \in Requests \ {q} : RequestStep(r)
    BY <2>1, <2>3 DEF RequestStep
  <2> QED
    BY <1>1, <2>1, <2>3, <2>4, <2>5
<1>6. ASSUME NEW p \in Procs,
             Boot(p) \/ MigrateStep(p) \/ StartJobs(p) \/ Listen(p) \/ Signal(p) \/ Drain(p)
               \/ ServeFails(p) \/ CloseDB(p)
      PROVE  UNCHANGED <<rq, messages>>
  BY <1>6 DEF Boot, MigrateStep, StartJobs, Listen, Signal, Drain, ServeFails, CloseDB, svars
<1>7. ASSUME NEW p \in Procs, NEW j \in Jobs,
             RunJob(p, j) \/ StopJob(p, j) \/ JobDone(p, j) \/ JobFails(p, j) \/ Report(p, j)
      PROVE  UNCHANGED <<rq, messages>>
  BY <1>7 DEF RunJob, StopJob, JobDone, JobFails, Report, JobGo
<1>8. CASE PassTime
  BY <1>2, <1>8 DEF PassTime, svars
<1>9. ASSUME NEW q \in Requests, CreateMessage(q) PROVE Goal
  <2>1. /\ rq[q].pc = "insert" /\ messages' = [messages EXCEPT ![q] = @ + 1]
        /\ rq' = [rq EXCEPT ![q].pc = "answer", ![q].got = "redirect"]
    BY <1>9 DEF CreateMessage, Go
  <2> QED
    BY <1>1, <2>1 DEF RequestStep, Request
<1>10. ASSUME NEW q \in Requests, HangUp(q) PROVE Goal
  <2>1. /\ rq[q].pc = "answer" /\ messages' = messages
        /\ rq' = [rq EXCEPT ![q] = Cut(@)]
    BY <1>10 DEF HangUp
  <2>2. /\ rq'[q] = Cut(rq[q])
        /\ \A r \in Requests \ {q} : rq'[r] = rq[r]
        /\ DOMAIN rq' = Requests /\ rq' = [r \in Requests |-> rq'[r]]
        /\ DOMAIN messages = Requests /\ messages = [r \in Requests |-> messages[r]]
    BY <1>1, <2>1 DEF Request
  <2> QED
    BY <2>1, <2>2 DEF RequestStep
<1>11. ASSUME NEW q \in Requests, CreateMessageFails(q) \/ Reply(q) \/ Retry(q) PROVE Goal
  <2>1. messages' = messages
    BY <1>11 DEF CreateMessageFails, Reply, Retry
  <2>2. CASE CreateMessageFails(q)
    <3>1. rq[q].pc = "insert" /\ rq' = [rq EXCEPT ![q].pc = "answer", ![q].got = "error"]
      BY <2>2 DEF CreateMessageFails, Go
    <3> QED
      BY <1>1, <2>1, <3>1 DEF RequestStep, Request
  <2>3. CASE Reply(q)
    <3>1. rq[q].pc = "answer" /\ rq' = [rq EXCEPT ![q].pc = "done", ![q].at = NoProc]
      BY <2>3 DEF Reply
    <3>2. rq'[q] = [rq[q] EXCEPT !.pc = "done", !.at = NoProc]
      BY <1>1, <3>1 DEF Request
    <3> QED
      BY <1>1, <2>1, <3>1, <3>2 DEF RequestStep
  <2>4. CASE Retry(q)
    <3>1. /\ rq[q].pc = "done" /\ rq[q].got # "redirect"
          /\ rq' = [rq EXCEPT ![q].pc = "new", ![q].got = "none"]
      BY <2>4 DEF Retry
    <3> QED
      BY <1>1, <2>1, <3>1 DEF RequestStep, Request
  <2> QED
    BY <1>11, <2>2, <2>3, <2>4
<1> QED
  BY <1>2, <1>3, <1>4, <1>5, <1>6, <1>7, <1>8, <1>9, <1>10, <1>11 DEF Next, Process

-------------------------------------------------------------------------------
(* The invariant.                                                              *)

LEMMA InitInv == Init => Inv
<1> SUFFICES ASSUME Init PROVE Inv
  OBVIOUS
<1> USE LifecycleAssumption, LimiterAssumption
<1>1. MigrateInv /\ LimiterInv
  BY MigrateInitInv, LimiterInitInv DEF Init
<1>2. OwnTypeOK
  BY DEF Init, OwnTypeOK, Stage, JobState, Request, Answer
<1>3. StageInv /\ StoredInv
  BY DEF Init, StageInv, StoredInv
<1> QED
  BY <1>1, <1>2, <1>3 DEF Inv

\* How a step changes the fields of a request and its rows.
LEMMA RequestFields ==
  ASSUME OwnTypeOK, NEW r \in Requests, RequestStep(r)
  PROVE  /\ rq'[r] \in Request /\ messages'[r] \in Nat
         /\ \/ /\ messages'[r] = messages[r] /\ rq'[r].got = rq[r].got /\ rq'[r].cut = rq[r].cut
               /\ rq'[r].pc = rq[r].pc \/ rq'[r].pc = "done"
            \/ /\ messages'[r] = messages[r]
               /\ rq'[r].pc = "done" /\ rq'[r].got = "cut" /\ rq'[r].cut
            \/ /\ messages'[r] = messages[r] /\ rq'[r].cut = rq[r].cut
               /\ rq[r].pc \in {"new", "insert"} \/ rq[r].got # "redirect"
               /\ rq'[r].got # "redirect"
               /\ rq'[r].pc \in {"new", "insert"} => rq'[r].got = "none"
            \/ /\ messages'[r] = messages[r] + 1 /\ rq'[r].cut = rq[r].cut
               /\ rq[r].pc = "insert" /\ rq'[r].pc = "answer" /\ rq'[r].got = "redirect"
<1> DEFINE q == rq[r]
<1>1. q \in Request /\ messages[r] \in Nat
  BY DEF OwnTypeOK
<1>2. CASE rq'[r] = q /\ messages'[r] = messages[r]
  BY <1>1, <1>2
<1>3. CASE messages'[r] = messages[r] /\ rq'[r] = Cut(q)
  BY <1>1, <1>3 DEF Cut, Request, Answer
<1>4. CASE /\ q.pc = "new" /\ messages'[r] = messages[r]
           /\ \E p \in Procs, got \in {"dropped", "limited", "invalid"} :
                \/ rq'[r] = [q EXCEPT !.at = p, !.pc = "answer", !.got = got]
                \/ rq'[r] = [q EXCEPT !.at = p, !.pc = "insert", !.got = "none"]
  <2>1. PICK p \in Procs, got \in {"dropped", "limited", "invalid"} :
               \/ rq'[r] = [q EXCEPT !.at = p, !.pc = "answer", !.got = got]
               \/ rq'[r] = [q EXCEPT !.at = p, !.pc = "insert", !.got = "none"]
    BY <1>4
  <2>2. CASE rq'[r] = [q EXCEPT !.at = p, !.pc = "answer", !.got = got]
    BY <1>1, <1>4, <2>2 DEF Request, Answer
  <2>3. CASE rq'[r] = [q EXCEPT !.at = p, !.pc = "insert", !.got = "none"]
    BY <1>1, <1>4, <2>3 DEF Request, Answer
  <2> QED
    BY <2>1, <2>2, <2>3
<1>5. CASE /\ q.pc = "insert" /\ messages'[r] = messages[r] + 1
           /\ rq'[r] = [q EXCEPT !.pc = "answer", !.got = "redirect"]
  <2>1. rq'[r] \in Request
    BY <1>1, <1>5 DEF Request, Answer
  <2>2. rq'[r].pc = "answer" /\ rq'[r].got = "redirect" /\ rq'[r].cut = q.cut
    BY <1>1, <1>5 DEF Request
  <2> QED
    BY <1>1, <1>5, <2>1, <2>2
<1>6. CASE /\ q.pc = "insert" /\ messages'[r] = messages[r]
           /\ rq'[r] = [q EXCEPT !.pc = "answer", !.got = "error"]
  BY <1>1, <1>6 DEF Request, Answer
<1>7. CASE messages'[r] = messages[r] /\ rq'[r] = [q EXCEPT !.pc = "done", !.at = NoProc]
  BY <1>1, <1>7 DEF Request, Answer
<1>8. CASE /\ q.got # "redirect" /\ messages'[r] = messages[r]
           /\ rq'[r] = [q EXCEPT !.pc = "new", !.got = "none"]
  BY <1>1, <1>8 DEF Request, Answer
<1>9. \/ rq'[r] = q /\ messages'[r] = messages[r]
      \/ messages'[r] = messages[r] /\ rq'[r] = Cut(q)
      \/ /\ q.pc = "new" /\ messages'[r] = messages[r]
         /\ \E p \in Procs, got \in {"dropped", "limited", "invalid"} :
              \/ rq'[r] = [q EXCEPT !.at = p, !.pc = "answer", !.got = got]
              \/ rq'[r] = [q EXCEPT !.at = p, !.pc = "insert", !.got = "none"]
      \/ /\ q.pc = "insert" /\ messages'[r] = messages[r] + 1
         /\ rq'[r] = [q EXCEPT !.pc = "answer", !.got = "redirect"]
      \/ /\ q.pc = "insert" /\ messages'[r] = messages[r]
         /\ rq'[r] = [q EXCEPT !.pc = "answer", !.got = "error"]
      \/ messages'[r] = messages[r] /\ rq'[r] = [q EXCEPT !.pc = "done", !.at = NoProc]
      \/ /\ q.got # "redirect" /\ messages'[r] = messages[r]
         /\ rq'[r] = [q EXCEPT !.pc = "new", !.got = "none"]
  BY DEF RequestStep
<1> QED
  BY <1>2, <1>3, <1>4, <1>5, <1>6, <1>7, <1>8, <1>9

\* A request stays a request, and its rows a number, through every step.
LEMMA RequestTypeStep ==
  ASSUME OwnTypeOK, [Next]_vars
  PROVE  rq' \in [Requests -> Request] /\ messages' \in [Requests -> Nat]
  BY RequestFields, RequestSteps

LEMMA StoredStep ==
  ASSUME OwnTypeOK, StoredInv, [Next]_vars
  PROVE  StoredInv'
<1>1. ASSUME NEW r \in Requests
      PROVE  /\ rq'[r].pc \in {"new", "insert"} => rq'[r].got = "none"
             /\ rq'[r].got = "redirect" => messages'[r] > 0
             /\ messages'[r] > 0 => rq'[r].cut \/ rq'[r].got = "redirect"
             /\ messages'[r] > 1 => rq'[r].cut
  <2>1. /\ rq[r].pc \in {"new", "insert"} => rq[r].got = "none"
        /\ rq[r].got = "redirect" => messages[r] > 0
        /\ messages[r] > 0 => rq[r].cut \/ rq[r].got = "redirect"
        /\ messages[r] > 1 => rq[r].cut
        /\ messages[r] \in Nat
    BY DEF StoredInv, OwnTypeOK
  <2>2. RequestStep(r)
    BY RequestSteps
  <2> QED
    BY <2>1, <2>2, RequestFields
<1> QED
  BY <1>1 DEF StoredInv

\* The variables of run(), the jobs and the count of starts.
LEMMA StageStep ==
  ASSUME MigrateTypeOK, LimiterTypeOK, OwnTypeOK, StageInv, [Next]_vars
  PROVE  /\ stage' \in [Procs -> Stage] /\ told' \in [Procs -> BOOLEAN]
         /\ deadline' \in [Procs -> 0 .. MaxTime]
         /\ job' \in [Procs -> [Jobs -> JobState]]
         /\ starts' \in 0 .. MaxStarts
         /\ StageInv'
<1> USE LifecycleAssumption, LimiterAssumption
<1> DEFINE Goal == /\ stage' \in [Procs -> Stage] /\ told' \in [Procs -> BOOLEAN]
                   /\ deadline' \in [Procs -> 0 .. MaxTime]
                   /\ job' \in [Procs -> [Jobs -> JobState]]
                   /\ starts' \in 0 .. MaxStarts
                   /\ StageInv'
<1>1. /\ stage \in [Procs -> Stage] /\ told \in [Procs -> BOOLEAN]
      /\ deadline \in [Procs -> 0 .. MaxTime]
      /\ job \in [Procs -> [Jobs -> JobState]]
      /\ starts \in 0 .. MaxStarts
      /\ mg \in [Procs -> Statement] /\ now \in 0 .. MaxTime
  BY DEF OwnTypeOK, MigrateTypeOK, LimiterTypeOK
<1>2. \A p \in Procs : stage[p] # "start" => mg[p] = "done"
  BY DEF StageInv, Up
<1>3. UNCHANGED <<stage, told, deadline, job, starts, mg>> => Goal
  BY <1>1, <1>2 DEF StageInv, Up
<1>4. CASE UNCHANGED vars
  BY <1>3, <1>4 DEF vars, svars, mvars
<1>5. ASSUME NEW p \in Procs, FailToStart(p) \/ Return(p) \/ Kill(p) PROVE Goal
  <2>1. /\ stage' = [stage EXCEPT ![p] = "start"] /\ told' = [told EXCEPT ![p] = FALSE]
        /\ deadline' = [deadline EXCEPT ![p] = 0]
        /\ job' = [job EXCEPT ![p] = [j \in Jobs |-> "none"]]
        /\ starts' = starts /\ mg' = [mg EXCEPT ![p] = "off"]
    BY <1>5 DEF FailToStart, Return, Kill, Gone, Exit
  <2>2. StageInv'
    BY <1>1, <1>2, <2>1 DEF StageInv, Up
  <2> QED
    BY <1>1, <2>1, <2>2 DEF Stage, JobState
<1>6. ASSUME NEW p \in Procs, Boot(p) PROVE Goal
  <2>1. /\ mg[p] = "off" /\ mg' = [mg EXCEPT ![p] = "table"]
        /\ UNCHANGED <<stage, told, deadline, job>> /\ starts' = starts + 1 /\ starts < MaxStarts
    BY <1>6 DEF Boot, Start
  <2>2. StageInv'
    BY <1>1, <1>2, <2>1 DEF StageInv, Up
  <2> QED
    BY <1>1, <2>1, <2>2
<1>7. ASSUME NEW p \in Procs, MigrateStep(p) PROVE Goal
  <2>1. /\ mg[p] # "done" /\ \A q \in Procs \ {p} : mg'[q] = mg[q]
        /\ UNCHANGED <<stage, told, deadline, job, starts>>
    BY <1>1, <1>7 DEF MigrateStep, svars, Step, CreateTable, Check, Exec, Insert, Commit
  <2>2. StageInv'
    BY <1>1, <1>2, <2>1 DEF StageInv, Up
  <2> QED
    BY <1>1, <2>1, <2>2
<1>8. ASSUME NEW p \in Procs, StartJobs(p) \/ Listen(p) \/ Signal(p) \/ Drain(p) \/ ServeFails(p) \/ CloseDB(p)
      PROVE  Goal
  <2>1. /\ mg[p] = "done" /\ mg' = mg /\ starts' = starts
        /\ \A q \in Procs \ {p} : stage'[q] = stage[q]
    BY <1>1, <1>8 DEF StartJobs, Listen, Signal, Drain, ServeFails, CloseDB, Up, mvars
  <2>2. StageInv'
    BY <1>2, <2>1 DEF StageInv, Up
  <2>3. stage' \in [Procs -> Stage] /\ told' \in [Procs -> BOOLEAN]
    BY <1>1, <1>8 DEF StartJobs, Listen, Signal, Drain, ServeFails, CloseDB, Stage
  <2>4. deadline' \in [Procs -> 0 .. MaxTime]
    BY <1>1, <1>8 DEF StartJobs, Listen, Signal, Drain, ServeFails, CloseDB
  <2>5. job' \in [Procs -> [Jobs -> JobState]]
    <3>1. CASE StartJobs(p)
      <4>1. job' = [job EXCEPT ![p] = [j \in Jobs |-> IF <<p, j>> \in Disabled THEN "none" ELSE "wait"]]
        BY <3>1 DEF StartJobs
      <4>2. [j \in Jobs |-> IF <<p, j>> \in Disabled THEN "none" ELSE "wait"] \in [Jobs -> JobState]
        BY DEF JobState
      <4> QED
        BY <1>1, <4>1, <4>2
    <3>2. CASE ~StartJobs(p)
      BY <1>1, <1>8, <3>2 DEF Listen, Signal, Drain, ServeFails, CloseDB
    <3> QED
      BY <3>1, <3>2
  <2> QED
    BY <1>1, <2>1, <2>2, <2>3, <2>4, <2>5
<1>9. ASSUME NEW p \in Procs, NEW j \in Jobs,
             RunJob(p, j) \/ StopJob(p, j) \/ JobDone(p, j) \/ JobFails(p, j) \/ Report(p, j)
      PROVE  Goal
  <2>1. /\ UNCHANGED <<stage, told, deadline, starts, mg>>
        /\ \E to \in JobState : job' = [job EXCEPT ![p][j] = to]
    BY <1>9 DEF RunJob, StopJob, JobDone, JobFails, Report, JobGo, mvars, JobState
  <2>2. StageInv'
    BY <1>2, <2>1 DEF StageInv, Up
  <2> QED
    BY <1>1, <2>1, <2>2
<1>10. ASSUME NEW r \in Requests,
              \/ CreateMessage(r) \/ CreateMessageFails(r) \/ Reply(r) \/ HangUp(r) \/ Retry(r)
              \/ \E p \in Procs : Submit(r, p)
       PROVE  Goal
  BY <1>3, <1>10 DEF CreateMessage, CreateMessageFails, Reply, HangUp, Retry, Submit, mvars
<1>11. CASE PassTime
  BY <1>3, <1>11 DEF PassTime, svars, mvars
<1> QED
  BY <1>4, <1>5, <1>6, <1>7, <1>8, <1>9, <1>10, <1>11 DEF Next, Process

LEMMA StepInv == Inv /\ [Next]_vars => Inv'
<1> SUFFICES ASSUME Inv, [Next]_vars PROVE Inv'
  OBVIOUS
<1>1. /\ MigrateInv /\ LimiterInv /\ OwnTypeOK /\ StageInv /\ StoredInv
      /\ MigrateTypeOK /\ LimiterTypeOK
  BY DEF Inv, MigrateInv, LimiterInv
<1>2. MigrateInv'
  BY <1>1, StepsMigrate, MigrateStepInv
<1>3. LimiterInv'
  BY <1>1, StepsLimiter, LimiterStepInv
<1>4. OwnTypeOK'
  BY <1>1, RequestTypeStep, StageStep DEF OwnTypeOK
<1>5. StageInv' /\ StoredInv'
  BY <1>1, StageStep, StoredStep
<1> QED
  BY <1>2, <1>3, <1>4, <1>5 DEF Inv

LEMMA SpecInv == Spec => []Inv
  BY InitInv, StepInv, PTL DEF Spec

-------------------------------------------------------------------------------
\* Every variable of the composed program keeps its type.
THEOREM LifecycleTypeCorrect == Spec => []TypeOK
<1>1. Inv => TypeOK
  BY DEF Inv, MigrateInv, LimiterInv, OwnTypeOK, TypeOK
<1> QED
  BY <1>1, SpecInv, PTL

\* Whatever containers start, race or are killed, the schema is what is recorded:
\* every migration once and in order (migrate.go:10).
THEOREM LifecycleAppliedInOrder == Spec => []AppliedInOrder
<1>1. Inv => AppliedInOrder
  BY DEF Inv, MigrateInv
<1> QED
  BY <1>1, SpecInv, PTL

\* Whoever serves has all of its build's migrations (main.go:53).
THEOREM LifecycleSchemaComplete == Spec => []SchemaIsComplete
<1>1. Inv => SchemaIsComplete
  BY DEF Inv, MigrateInv
<1> QED
  BY <1>1, SpecInv, PTL

\* Through starts and ends of processes, no window of any process holds more than
\* max attempts of a client (ratelimit.go:21).
THEOREM LifecycleWindowHolds == Spec => []WindowHolds
<1>1. Inv => WindowHolds
  BY DEF Inv, LimiterInv
<1> QED
  BY <1>1, SpecInv, PTL

\* The log counts what was let through in the window and nothing else.
THEOREM LifecycleOnlyAllowedCount == Spec => []OnlyAllowedCount
<1>1. Inv => OnlyAllowedCount
  BY DEF Inv, LimiterInv
<1> QED
  BY <1>1, SpecInv, PTL

\* A sender who was redirected finds the message stored (pages.go:220).
THEOREM RedirectedAlwaysStored == Spec => []RedirectedIsStored
<1>1. Inv => RedirectedIsStored
  BY DEF Inv, StoredInv, RedirectedIsStored
<1> QED
  BY <1>1, SpecInv, PTL

\* Only a sender who was cut off finds the message twice (handlers.go:86).
THEOREM TwiceAlwaysCut == Spec => []TwiceOnlyIfCut
<1>1. Inv => TwiceOnlyIfCut
  BY DEF Inv, StoredInv, TwiceOnlyIfCut
<1> QED
  BY <1>1, SpecInv, PTL

-------------------------------------------------------------------------------
(* The composition: what it is for Migrate, for Limiter and for a sender.      *)

\* The whole program, seen through the schema and its migrations, is Migrate: all
\* that is shown of starts that race and are killed holds of the program.
THEOREM LifecycleMigrates == Spec => MigrateSpec
<1>1. Init => MigrateInit
  BY DEF Init
<1> QED
  BY <1>1, StepsMigrate, PTL DEF Spec, MigrateSpec

\* And seen through its limiter it is Limiter, with the end of a process as the
\* loss of its log.
THEOREM LifecycleLimits == Spec => LimiterSpec
<1>1. Init => LimiterInit
  BY DEF Init
<1> QED
  BY <1>1, StepsLimiter, PTL DEF Spec, LimiterSpec

\* What Allow kept of the log is what was let through within the window.
LEMMA RefuseAtLimit ==
  ASSUME LimiterInv, NEW k \in Keys, Refuse(k)
  PROVE  Cardinality(InWindow(k, now)) >= MaxHits
<1>1. Kept(hits[k]) = InWindow(k, now) /\ now \in 0 .. MaxTime
  BY DEF LimiterInv, OnlyAllowedCount, LimiterTypeOK
<1>2. Cardinality(InWindow(k, now)) \in Nat /\ MaxHits \in Nat
  BY <1>1, WindowIsFinite, LimiterAssumption
<1> QED
  BY <1>1, <1>2 DEF Refuse, Within

\* Only Submit answers "limited", and only after Allow answered false.
LEMMA LimitedStep ==
  ASSUME Inv, [Next]_vars, NEW r \in Requests, rq[r].pc = "new", rq'[r].got = "limited"
  PROVE  Refuse(<<rq'[r].at, From[r]>>) /\ <<rq'[r].at, From[r]>> \in Keys
<1> DEFINE Goal == Refuse(<<rq'[r].at, From[r]>>) /\ <<rq'[r].at, From[r]>> \in Keys
<1>0. /\ rq \in [Requests -> Request] /\ rq[r].got = "none"
  BY DEF Inv, OwnTypeOK, StoredInv
<1>1. rq'[r] # rq[r]
  BY <1>0
<1>2. ASSUME NEW p \in Procs, FailToStart(p) \/ Return(p) \/ Kill(p) PROVE FALSE
  <2>1. r \notin InFlight(p)
    BY DEF InFlight
  <2>2. rq'[r] = rq[r]
    BY <1>2, <2>1 DEF FailToStart, Return, Kill, Gone
  <2> QED
    BY <1>1, <2>2
<1>3. ASSUME NEW p \in Procs, NEW q \in Requests, Submit(q, p) PROVE Goal
  <2> DEFINE To(pc, got) == rq' = [[rq EXCEPT ![q].at = p] EXCEPT ![q].pc = pc, ![q].got = got]
  <2>1. \/ To("answer", "dropped")
        \/ Refuse(<<p, From[q]>>) /\ To("answer", "limited")
        \/ To("answer", "invalid") \/ To("insert", "none")
    BY <1>3 DEF Submit
  <2>2. PICK pc \in {"answer", "insert"}, got \in {"dropped", "limited", "invalid", "none"} :
          To(pc, got) /\ (got = "limited" => Refuse(<<p, From[q]>>))
    BY <2>1
  <2>3. q = r
    BY <1>0, <1>1, <2>2
  <2>4. rq'[r].at = p /\ rq'[r].got = got
    BY <1>0, <2>2, <2>3 DEF Request
  <2>5. <<p, From[r]>> \in Keys
    BY LifecycleAssumption
  <2> QED
    BY <2>2, <2>3, <2>4, <2>5
<1>4. ASSUME NEW q \in Requests,
             CreateMessage(q) \/ CreateMessageFails(q) \/ Reply(q) \/ HangUp(q) \/ Retry(q)
      PROVE  FALSE
  <2>1. q # r
    BY <1>4 DEF CreateMessage, CreateMessageFails, Reply, HangUp, Retry
  <2>2. rq'[r] = rq[r]
    BY <1>0, <1>4, <2>1 DEF CreateMessage, CreateMessageFails, Reply, HangUp, Retry, Go
  <2> QED
    BY <1>1, <2>2
<1>5. ASSUME NEW p \in Procs,
             Boot(p) \/ MigrateStep(p) \/ StartJobs(p) \/ Listen(p) \/ Signal(p) \/ Drain(p)
               \/ ServeFails(p) \/ CloseDB(p)
      PROVE  UNCHANGED rq
  BY <1>5 DEF Boot, MigrateStep, StartJobs, Listen, Signal, Drain, ServeFails, CloseDB, svars
<1>6. ASSUME NEW p \in Procs, NEW j \in Jobs,
             RunJob(p, j) \/ StopJob(p, j) \/ JobDone(p, j) \/ JobFails(p, j) \/ Report(p, j)
      PROVE  UNCHANGED rq
  BY <1>6 DEF RunJob, StopJob, JobDone, JobFails, Report, JobGo
<1>7. CASE PassTime \/ UNCHANGED vars
  BY <1>1, <1>7 DEF PassTime, vars, svars
<1> QED
  BY <1>1, <1>2, <1>3, <1>4, <1>5, <1>6, <1>7 DEF Next, Process

\* Nobody is refused for attempts that were themselves refused, that are older
\* than the window, or that an earlier process let through (ratelimit.go:37).
THEOREM RefusedAlwaysAtLimit == Spec => RefusedOnlyAtLimit
<1>1. ASSUME Inv, [Next]_vars
      PROVE  [\A r \in Requests :
                rq[r].pc = "new" /\ rq'[r].got = "limited" =>
                  Cardinality(InWindow(<<rq'[r].at, From[r]>>, now)) >= MaxHits]_vars
  BY <1>1, LimitedStep, RefuseAtLimit DEF Inv
<1> QED
  BY <1>1, SpecInv, PTL DEF Spec, RefusedOnlyAtLimit

-------------------------------------------------------------------------------
(* The safety cores of JobsKeepRunning, SignalEnds and StartEnds: what those   *)
(* liveness properties rest on besides fairness, shown for every instance.     *)

\* A job that is not disabled has its goroutine from StartJobs to the signal,
\* whatever its runs and their reports did (scheduler.go:53).
JobsStayAlive ==
  \A p \in Procs, j \in Jobs :
    Up(p) /\ stage[p] # "start" /\ ~told[p] /\ <<p, j>> \notin Disabled => job[p][j] # "none"

\* Shutdown is called only after a signal, and waits no longer than the grace
\* period from now (serve.go:44).
DrainIsShort == \A p \in Procs : stage[p] = "drain" => told[p] /\ deadline[p] <= now + Grace

\* Whoever has the write lock is in a transaction whose next statement succeeds:
\* its record is not there yet (migrate.go:52).
WriterGoesOn ==
  writer # NoProc =>
    mg[writer] = "commit" \/ (mg[writer] = "insert" /\ at[writer] \notin recorded)

\* What a step does to the stage, the signal and the jobs of process p.
ProcessStep(p) ==
  \/ /\ stage'[p] = stage[p] /\ told'[p] = told[p] /\ deadline'[p] = deadline[p]
     /\ job'[p] = job[p] /\ (Up(p)' => Up(p) \/ stage[p] = "start")
  \/ stage'[p] = "start" /\ ~Up(p)'
  \/ /\ stage'[p] = "listen" /\ told'[p] = told[p]
     /\ job'[p] = [j \in Jobs |-> IF <<p, j>> \in Disabled THEN "none" ELSE "wait"]
  \/ /\ stage[p] # "start" /\ stage'[p] \in {"serve", "close"} /\ Up(p)
     /\ told'[p] = told[p] /\ job'[p] = job[p]
  \/ /\ stage'[p] = stage[p] /\ told'[p] /\ deadline'[p] = deadline[p]
  \/ /\ told[p] /\ told'[p] /\ stage'[p] = "drain" /\ now' = now
     /\ deadline'[p] = IF now + Grace < MaxTime THEN now + Grace ELSE MaxTime
  \/ /\ stage'[p] = stage[p] /\ told'[p] = told[p] /\ deadline'[p] = deadline[p] /\ Up(p)
     /\ \E j \in Jobs, to \in {"none", "wait", "run", "report"} :
          job'[p] = [job[p] EXCEPT ![j] = to] /\ (to = "none" => told[p])

LEMMA ProcessSteps ==
  ASSUME Inv, [Next]_vars, NEW p \in Procs
  PROVE  ProcessStep(p)
<1>1. /\ stage \in [Procs -> Stage] /\ told \in [Procs -> BOOLEAN]
      /\ deadline \in [Procs -> 0 .. MaxTime]
      /\ job \in [Procs -> [Jobs -> JobState]] /\ mg \in [Procs -> Statement]
  BY DEF Inv, OwnTypeOK, MigrateInv, MigrateTypeOK
<1>2. stage[p] # "start" => mg[p] = "done"
  BY DEF Inv, StageInv, Up
<1>3. UNCHANGED <<stage, told, deadline, job, mg>> => ProcessStep(p)
  BY DEF ProcessStep, Up
<1>4. CASE UNCHANGED vars
  BY <1>3, <1>4 DEF vars, svars, mvars
<1>5. ASSUME NEW q \in Procs, FailToStart(q) \/ Return(q) \/ Kill(q) PROVE ProcessStep(p)
  <2>1. /\ stage' = [stage EXCEPT ![q] = "start"] /\ told' = [told EXCEPT ![q] = FALSE]
        /\ deadline' = [deadline EXCEPT ![q] = 0]
        /\ job' = [job EXCEPT ![q] = [j \in Jobs |-> "none"]]
        /\ mg' = [mg EXCEPT ![q] = "off"]
    BY <1>5 DEF FailToStart, Return, Kill, Gone, Exit
  <2>2. CASE q = p
    BY <1>1, <2>1, <2>2 DEF ProcessStep, Up
  <2>3. CASE q # p
    BY <1>1, <2>1, <2>3 DEF ProcessStep, Up
  <2> QED
    BY <2>2, <2>3
<1>6. ASSUME NEW q \in Procs, Boot(q) \/ MigrateStep(q) PROVE ProcessStep(p)
  <2>1. UNCHANGED <<stage, told, deadline, job>>
    BY <1>6 DEF Boot, MigrateStep, svars
  <2>2. mg[q] # "done" /\ \A o \in Procs \ {q} : mg'[o] = mg[o]
    BY <1>1, <1>6 DEF Boot, Start, MigrateStep, Step, CreateTable, Check, Exec, Insert, Commit
  <2>3. Up(p)' => Up(p) \/ stage[p] = "start"
    BY <1>2, <2>2 DEF Up
  <2> QED
    BY <2>1, <2>3 DEF ProcessStep
<1>7. ASSUME NEW q \in Procs, StartJobs(q) PROVE ProcessStep(p)
  <2>1. /\ stage' = [stage EXCEPT ![q] = "listen"] /\ UNCHANGED <<told, deadline, mg>>
        /\ job' = [job EXCEPT ![q] = [j \in Jobs |-> IF <<q, j>> \in Disabled THEN "none" ELSE "wait"]]
    BY <1>7 DEF StartJobs, mvars
  <2>2. CASE q = p
    BY <1>1, <2>1, <2>2 DEF ProcessStep
  <2>3. CASE q # p
    BY <1>1, <2>1, <2>3 DEF ProcessStep, Up
  <2> QED
    BY <2>2, <2>3
<1>8. ASSUME NEW q \in Procs, Listen(q) \/ ServeFails(q) \/ CloseDB(q) PROVE ProcessStep(p)
  <2>1. /\ stage[q] # "start" /\ Up(q) /\ UNCHANGED <<told, deadline, mg, job>>
        /\ \E s \in {"serve", "close"} : stage' = [stage EXCEPT ![q] = s]
    BY <1>8 DEF Listen, ServeFails, CloseDB, mvars
  <2>2. CASE q = p
    BY <1>1, <2>1, <2>2 DEF ProcessStep
  <2>3. CASE q # p
    BY <1>1, <2>1, <2>3 DEF ProcessStep, Up
  <2> QED
    BY <2>2, <2>3
<1>9. ASSUME NEW q \in Procs, Signal(q) PROVE ProcessStep(p)
  <2>1. told' = [told EXCEPT ![q] = TRUE] /\ UNCHANGED <<stage, deadline, mg, job>>
    BY <1>9 DEF Signal, mvars
  <2> QED
    BY <1>1, <2>1 DEF ProcessStep, Up
<1>10. ASSUME NEW q \in Procs, Drain(q) PROVE ProcessStep(p)
  <2>1. /\ told[q] /\ stage' = [stage EXCEPT ![q] = "drain"] /\ UNCHANGED <<told, job, mg, now>>
        /\ deadline' = [deadline EXCEPT ![q] = IF now + Grace < MaxTime THEN now + Grace ELSE MaxTime]
    BY <1>10 DEF Drain, mvars, lvars
  <2>2. CASE q = p
    BY <1>1, <2>1, <2>2 DEF ProcessStep
  <2>3. CASE q # p
    BY <1>1, <2>1, <2>3 DEF ProcessStep, Up
  <2> QED
    BY <2>2, <2>3
<1>11. ASSUME NEW q \in Procs, NEW j \in Jobs,
              RunJob(q, j) \/ StopJob(q, j) \/ JobDone(q, j) \/ JobFails(q, j) \/ Report(q, j)
       PROVE  ProcessStep(p)
  <2>1. /\ Up(q) /\ UNCHANGED <<stage, told, deadline, mg>>
        /\ \E to \in {"none", "wait", "run", "report"} :
             job' = [job EXCEPT ![q][j] = to] /\ (to = "none" => told[q])
    BY <1>11 DEF RunJob, StopJob, JobDone, JobFails, Report, JobGo, mvars
  <2>2. CASE q = p
    <3>1. PICK to \in {"none", "wait", "run", "report"} :
            job' = [job EXCEPT ![q][j] = to] /\ (to = "none" => told[q])
      BY <2>1
    <3>2. job'[p] = [job[p] EXCEPT ![j] = to]
      BY <1>1, <2>2, <3>1
    <3> QED
      BY <2>1, <2>2, <3>1, <3>2 DEF ProcessStep
  <2>3. CASE q # p
    BY <1>1, <2>1, <2>3 DEF ProcessStep, Up
  <2> QED
    BY <2>2, <2>3
<1>12. ASSUME NEW r \in Requests,
              \/ CreateMessage(r) \/ CreateMessageFails(r) \/ Reply(r) \/ HangUp(r) \/ Retry(r)
              \/ \E q \in Procs : Submit(r, q)
       PROVE  ProcessStep(p)
  BY <1>3, <1>12 DEF CreateMessage, CreateMessageFails, Reply, HangUp, Retry, Submit, mvars
<1>13. CASE PassTime
  BY <1>3, <1>13 DEF PassTime, svars, mvars
<1> QED
  BY <1>4, <1>5, <1>6, <1>7, <1>8, <1>9, <1>10, <1>11, <1>12, <1>13 DEF Next, Process

LEMMA AliveStep ==
  ASSUME Inv, JobsStayAlive, [Next]_vars
  PROVE  JobsStayAlive'
<1> SUFFICES ASSUME NEW p \in Procs, NEW j \in Jobs,
                    Up(p)', stage'[p] # "start", ~told'[p], <<p, j>> \notin Disabled
             PROVE  job'[p][j] # "none"
  BY DEF JobsStayAlive, Up
<1>1. ProcessStep(p) /\ job[p] \in [Jobs -> JobState]
  BY ProcessSteps DEF Inv, OwnTypeOK
<1>2. Up(p) /\ stage[p] # "start" /\ ~told[p] => job[p][j] # "none"
  BY DEF JobsStayAlive
<1>3. ASSUME NEW i \in Jobs, NEW to \in {"none", "wait", "run", "report"},
             stage'[p] = stage[p], told'[p] = told[p], Up(p),
             job'[p] = [job[p] EXCEPT ![i] = to], to = "none" => told[p]
      PROVE  job'[p][j] # "none"
  BY <1>1, <1>2, <1>3
<1>4. CASE job'[p] = job[p] /\ told'[p] = told[p] /\ Up(p) /\ stage[p] # "start"
  BY <1>2, <1>4
<1>5. CASE job'[p] = [i \in Jobs |-> IF <<p, i>> \in Disabled THEN "none" ELSE "wait"]
  BY <1>5
<1> QED
  BY <1>1, <1>3, <1>4, <1>5 DEF ProcessStep

LEMMA ShortStep ==
  ASSUME Inv, DrainIsShort, [Next]_vars
  PROVE  DrainIsShort'
<1> SUFFICES ASSUME NEW p \in Procs, stage'[p] = "drain"
             PROVE  told'[p] /\ deadline'[p] <= now' + Grace
  BY DEF DrainIsShort
<1>1. ProcessStep(p)
  BY ProcessSteps
<1>2. /\ now \in 0 .. MaxTime /\ deadline \in [Procs -> 0 .. MaxTime]
      /\ Grace \in Nat /\ MaxTime \in Nat
  BY LifecycleAssumption, LimiterAssumption DEF Inv, LimiterInv, LimiterTypeOK, OwnTypeOK
<1>3. now' \in {now, now + 1}
  BY StepsLimiter DEF LimiterNext, Accept, Refuse, Forget, Tick, lvars
<1>4. stage[p] = "drain" => told[p] /\ deadline[p] <= now + Grace
  BY DEF DrainIsShort
<1>5. CASE stage[p] = "drain" /\ deadline'[p] = deadline[p] /\ (told[p] => told'[p])
  BY <1>2, <1>3, <1>4, <1>5
<1>6. CASE /\ told'[p] /\ now' = now
           /\ deadline'[p] = IF now + Grace < MaxTime THEN now + Grace ELSE MaxTime
  BY <1>2, <1>6
<1> QED
  BY <1>1, <1>5, <1>6 DEF ProcessStep

\* No failing or panicking run, and no failing report, takes a job's goroutine
\* away: a job that is not disabled is there until the signal (scheduler.go:53).
THEOREM JobsAlwaysAlive == Spec => []JobsStayAlive
<1>1. Init => JobsStayAlive
  BY DEF Init, JobsStayAlive
<1> QED
  BY <1>1, AliveStep, SpecInv, PTL DEF Spec

\* A drain goes back to a signal and ends by itself: its deadline is never further
\* away than the grace period, whatever requests and jobs do (serve.go:44).
THEOREM DrainAlwaysShort == Spec => []DrainIsShort
<1>1. Init => DrainIsShort
  BY DEF Init, DrainIsShort
<1> QED
  BY <1>1, ShortStep, SpecInv, PTL DEF Spec

\* The write lock is never left with a process that is gone, or whose INSERT would
\* fail: whoever waits for it waits for a transaction that ends (migrate.go:52).
THEOREM WriterAlwaysGoesOn == Spec => []WriterGoesOn
<1>1. Inv => WriterGoesOn
  <2> SUFFICES ASSUME Inv, writer # NoProc
               PROVE  \/ mg[writer] = "commit"
                      \/ mg[writer] = "insert" /\ at[writer] \notin recorded
    BY DEF WriterGoesOn
  <2>1. writer \in Procs
    BY DEF Inv, MigrateInv, MigrateTypeOK
  <2> QED
    BY <2>1 DEF Inv, MigrateInv, WriterInv, AppliedInOrder
<1> QED
  BY <1>1, SpecInv, PTL
===============================================================================
