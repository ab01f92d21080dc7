------------------------------ MODULE Lifecycle ------------------------------
(***************************************************************************)
(* The program from start to end (main.go run, serve.go): migrate, start   *)
(* the background jobs, listen, serve, drain on SIGTERM, close the         *)
(* database; with the one resource whose requests are modelled here, the   *)
(* public message form (HandleMessages) behind its rate limiter. Migrate   *)
(* and Limiter give the start and the limiter their steps. A process may   *)
(* be killed at any time; what it keeps in memory (limiter, jobs, requests *)
(* in flight) is gone then, the database file stays.                       *)
(***************************************************************************)
EXTENDS Migrate, Limiter

CONSTANTS
  Clients,     \* client addresses (clientIP)
  Requests,    \* people with a message to post, each in one request at a time
  From,        \* From[r]: the client address r comes from
  Breaks,      \* bound: the requests whose connection may break under a live process
  Jobs,        \* the background jobs
  Disabled,    \* <<p, j>>: p's environment sets j's interval to zero or less
  Grace,       \* shutdownGrace, in ticks
  MaxStarts    \* bound: starts altogether

ASSUME LifecycleAssumption ==
  /\ Keys = Procs \X Clients
  /\ From \in [Requests -> Clients] /\ Breaks \subseteq Requests
  /\ Disabled \subseteq Procs \X Jobs
  /\ Grace \in Nat /\ MaxStarts \in Nat

VARIABLES
  stage,     \* stage[p]: how far run() is, once Migrate is done
  told,      \* told[p]: SIGTERM or Ctrl-C reached p
  deadline,  \* deadline[p]: when Shutdown gives up
  job,       \* job[p][j]: the state of a job's goroutine
  rq,        \* rq[r]: a request: its process, next step and answer
  messages,  \* table messages: how many rows hold r's message
  starts     \* starts so far

svars == <<stage, told, deadline, job, rq, messages, starts>>
vars  == <<mvars, lvars, svars>>

Stage    == {"start", "listen", "serve", "drain", "close"}
JobState == {"none", "wait", "run", "report"}
Answer   == {"none", "redirect", "dropped", "limited", "invalid", "error", "cut"}
Request  == [at : Procs \cup {NoProc}, pc : {"new", "insert", "answer", "done"},
             got : Answer, cut : BOOLEAN]

Init ==
  /\ MigrateInit /\ LimiterInit
  /\ stage = [p \in Procs |-> "start"]
  /\ told = [p \in Procs |-> FALSE]
  /\ deadline = [p \in Procs |-> 0]
  /\ job = [p \in Procs |-> [j \in Jobs |-> "none"]]
  /\ rq = [r \in Requests |-> [at |-> NoProc, pc |-> "new", got |-> "none", cut |-> FALSE]]
  /\ messages = [r \in Requests |-> 0]
  /\ starts = 0

Up(p)       == mg[p] = "done"
InFlight(p) == {r \in Requests : rq[r].at = p /\ rq[r].pc \in {"insert", "answer"}}

-------------------------------------------------------------------------------
(***************************************************************************)
(* Starting and stopping.                                                  *)
(***************************************************************************)
Boot(p) ==
  /\ starts < MaxStarts /\ Start(p)
  /\ starts' = starts + 1
  /\ UNCHANGED <<lvars, stage, told, deadline, job, rq, messages>>

MigrateStep(p) == Step(p) /\ UNCHANGED <<lvars, svars>>

\* The connection of request q is broken before its answer came.
Cut(q) == [q EXCEPT !.at = NoProc, !.pc = "done", !.got = "cut", !.cut = TRUE]

\* The end of the process: its memory goes, its open requests are cut.
Gone(p) ==
  /\ Exit(p) /\ Forget({p} \X Clients)
  /\ stage' = [stage EXCEPT ![p] = "start"]
  /\ told' = [told EXCEPT ![p] = FALSE]
  /\ deadline' = [deadline EXCEPT ![p] = 0]
  /\ job' = [job EXCEPT ![p] = [j \in Jobs |-> "none"]]
  /\ rq' = [r \in Requests |-> IF r \in InFlight(p) THEN Cut(rq[r]) ELSE rq[r]]
  /\ UNCHANGED <<messages, starts>>

\* Starting fails: in Migrate, or after it for want of APP_SECRET, or since the
\* port is taken. Whether it does is up to the environment.
FailToStart(p) ==
  /\ Fail(p) \/ (Up(p) /\ stage[p] \in {"start", "listen"} /\ Exit(p))
  /\ Gone(p)

\* NotifyContext and scheduler.Start: one goroutine for each job added.
StartJobs(p) ==
  /\ Up(p) /\ stage[p] = "start"
  /\ stage' = [stage EXCEPT ![p] = "listen"]
  /\ job' = [job EXCEPT ![p] = [j \in Jobs |-> IF <<p, j>> \in Disabled THEN "none" ELSE "wait"]]
  /\ UNCHANGED <<mvars, lvars, told, deadline, rq, messages, starts>>

Listen(p) ==
  /\ Up(p) /\ stage[p] = "listen"
  /\ stage' = [stage EXCEPT ![p] = "serve"]
  /\ UNCHANGED <<mvars, lvars, told, deadline, job, rq, messages, starts>>

\* The signal, once it is caught; before that it kills.
Signal(p) ==
  /\ Up(p) /\ stage[p] # "start" /\ ~told[p]
  /\ told' = [told EXCEPT ![p] = TRUE]
  /\ UNCHANGED <<mvars, lvars, stage, deadline, job, rq, messages, starts>>

\* serve sees ctx.Done and calls Shutdown: the listener is closed. (The end of
\* the model's clock is taken for the end of a grace period that outlasts it.)
Drain(p) ==
  /\ Up(p) /\ stage[p] = "serve" /\ told[p]
  /\ stage' = [stage EXCEPT ![p] = "drain"]
  /\ deadline' = [deadline EXCEPT ![p] = IF now + Grace < MaxTime THEN now + Grace ELSE MaxTime]
  /\ UNCHANGED <<mvars, lvars, told, job, rq, messages, starts>>

\* Serve returns an error, and so does serve, at once: the deferred db.Close runs
\* under whatever requests there are. Nobody tells their connections.
ServeFails(p) ==
  /\ Up(p) /\ stage[p] = "serve"
  /\ stage' = [stage EXCEPT ![p] = "close"]
  /\ UNCHANGED <<mvars, lvars, told, deadline, job, rq, messages, starts>>

\* A mutant: Shutdown without a timeout.
Mutant_Drained(p) == InFlight(p) = {}

\* Shutdown returns: all is answered, or shutdownCtx is done.
Drained(p) == InFlight(p) = {} \/ now >= deadline[p]

\* Shutdown has returned, and the deferred db.Close runs.
CloseDB(p) ==
  /\ Up(p) /\ stage[p] = "drain" /\ Drained(p)
  /\ stage' = [stage EXCEPT ![p] = "close"]
  /\ UNCHANGED <<mvars, lvars, told, deadline, job, rq, messages, starts>>

Return(p) == stage[p] = "close" /\ Gone(p)

\* SIGKILL, a crash, or a signal before NotifyContext.
Kill(p) == Gone(p)

-------------------------------------------------------------------------------
(***************************************************************************)
(* HandleMessages, POST. A SQL statement fails once the database is closed *)
(* and when another process's transaction outlasts busy_timeout.           *)
(***************************************************************************)
Go(r, pc, got) == rq' = [rq EXCEPT ![r].pc = pc, ![r].got = got]

\* RequestID to LoadUser, then the honeypot (a bot is redirected as if all had
\* gone well: "dropped"), the limiter and the validation, in this order.
Submit(r, p) ==
  LET k   == <<p, From[r]>>
      due == [rq EXCEPT ![r].at = p]
      To(pc, got) == rq' = [due EXCEPT ![r].pc = pc, ![r].got = got]
  IN
  /\ Up(p) /\ stage[p] = "serve" /\ rq[r].pc = "new"
  /\ \/ To("answer", "dropped") /\ UNCHANGED lvars
     \/ Refuse(k) /\ To("answer", "limited")
     \/ Accept(k) /\ (To("answer", "invalid") \/ To("insert", "none"))
  /\ UNCHANGED <<mvars, stage, told, deadline, job, messages, starts>>

Open(p) == stage[p] # "close"

\* A mutant: the list of messages is rendered after the INSERT, and may fail.
Mutant_CreateMessage(r) ==
  LET p == rq[r].at IN
  /\ rq[r].pc = "insert" /\ Open(p) /\ writer = NoProc
  /\ messages' = [messages EXCEPT ![r] = @ + 1]
  /\ \E got \in {"redirect", "error"} : Go(r, "answer", got)
  /\ UNCHANGED <<mvars, lvars, stage, told, deadline, job, starts>>

\* CreateMessage, then the redirect.
CreateMessage(r) ==
  LET p == rq[r].at IN
  /\ rq[r].pc = "insert" /\ Open(p) /\ writer = NoProc
  /\ messages' = [messages EXCEPT ![r] = @ + 1]
  /\ Go(r, "answer", "redirect")
  /\ UNCHANGED <<mvars, lvars, stage, told, deadline, job, starts>>

\* A mutant: the sender is redirected although the INSERT failed.
Mutant_CreateMessageFails(r) ==
  /\ rq[r].pc = "insert"
  /\ Go(r, "answer", "redirect")
  /\ UNCHANGED <<mvars, lvars, stage, told, deadline, job, messages, starts>>

\* The INSERT fails, or the handler panics: MakeHandler or RecoverAndReport
\* makes it a 500 (and reports it, best effort).
CreateMessageFails(r) ==
  /\ rq[r].pc = "insert"
  /\ Go(r, "answer", "error")
  /\ UNCHANGED <<mvars, lvars, stage, told, deadline, job, messages, starts>>

\* The answer reaches the sender.
Reply(r) ==
  /\ rq[r].pc = "answer"
  /\ rq' = [rq EXCEPT ![r].pc = "done", ![r].at = NoProc]
  /\ UNCHANGED <<mvars, lvars, stage, told, deadline, job, messages, starts>>

\* The answer reaches nobody: the sender has left (which may also fail the INSERT),
\* or the handler outlasted WriteTimeout. (Bound: once for each request in Breaks, and
\* only when the answer says that all went well.)
HangUp(r) ==
  /\ r \in Breaks /\ rq[r].pc = "answer" /\ rq[r].got = "redirect" /\ ~rq[r].cut
  /\ rq' = [rq EXCEPT ![r] = Cut(@)]
  /\ UNCHANGED <<mvars, lvars, stage, told, deadline, job, messages, starts>>

\* A sender who saw no success may send the form again, to any process.
Retry(r) ==
  /\ rq[r].pc = "done" /\ rq[r].got \in {"limited", "error", "cut"}
  /\ rq' = [rq EXCEPT ![r].pc = "new", ![r].got = "none"]
  /\ UNCHANGED <<mvars, lvars, stage, told, deadline, job, messages, starts>>

-------------------------------------------------------------------------------
(***************************************************************************)
(* scheduler.go: runLoop and runOnce of one job.                           *)
(***************************************************************************)
JobGo(p, j, from, to) ==
  /\ Up(p) /\ job[p][j] = from
  /\ job' = [job EXCEPT ![p][j] = to]
  /\ UNCHANGED <<mvars, lvars, stage, told, deadline, rq, messages, starts>>

\* The ticker fires; also after ctx is done, since select picks either.
RunJob(p, j) == JobGo(p, j, "wait", "run")

\* Nothing waits for the loop that ends.
StopJob(p, j) == told[p] /\ JobGo(p, j, "wait", "none")

JobDone(p, j) == Open(p) /\ writer = NoProc /\ JobGo(p, j, "run", "wait")

\* A mutant: a job that fails or panics takes its goroutine down.
Mutant_JobFails(p, j) == JobGo(p, j, "run", "none")

\* An error or a panic is logged, reported (for at most five seconds) and
\* survived.
JobFails(p, j) == JobGo(p, j, "run", "report")
Report(p, j)   == JobGo(p, j, "report", "wait")

-------------------------------------------------------------------------------
PassTime == Tick /\ UNCHANGED <<mvars, svars>>

Process(p) ==
  \/ Boot(p) \/ MigrateStep(p) \/ FailToStart(p) \/ StartJobs(p) \/ Listen(p)
  \/ Signal(p) \/ Drain(p) \/ ServeFails(p) \/ CloseDB(p) \/ Return(p) \/ Kill(p)
  \/ \E r \in Requests : Submit(r, p)
  \/ \E j \in Jobs : RunJob(p, j) \/ StopJob(p, j) \/ JobDone(p, j) \/ JobFails(p, j) \/ Report(p, j)

Next ==
  \/ \E p \in Procs : Process(p)
  \/ \E r \in Requests : CreateMessage(r) \/ CreateMessageFails(r) \/ Reply(r) \/ HangUp(r) \/ Retry(r)
  \/ PassTime

Spec == Init /\ [][Next]_vars

\* The main goroutine and those of the jobs run, and the clock goes on: their
\* statements and reports have timeouts. A request may outlast any grace period;
\* starts, signals, kills, errors of Serve, submissions and retries are up to others.
FairSpec ==
  /\ Spec
  /\ WF_vars(PassTime)
  /\ \A p \in Procs :
       /\ WF_vars(\/ MigrateStep(p) \/ FailToStart(p) \/ StartJobs(p) \/ Listen(p)
                  \/ Drain(p) \/ CloseDB(p) \/ Return(p))
       /\ \A j \in {i \in Jobs : <<p, i>> \notin Disabled} :
            WF_vars(RunJob(p, j) \/ JobDone(p, j) \/ JobFails(p, j) \/ Report(p, j))

-------------------------------------------------------------------------------
TypeOK ==
  /\ MigrateTypeOK /\ LimiterTypeOK
  /\ stage \in [Procs -> Stage]
  /\ told \in [Procs -> BOOLEAN]
  /\ deadline \in [Procs -> 0 .. MaxTime]
  /\ job \in [Procs -> [Jobs -> JobState]]
  /\ rq \in [Requests -> Request]
  /\ messages \in [Requests -> Nat]
  /\ starts \in 0 .. MaxStarts

\* A sender who was redirected finds the message stored, through drains, failed
\* statements, kills and restarts; only to bots the form pretends. (pages.go:220:
\* "Add a message and it persists across restarts.")
RedirectedIsStored ==
  \A r \in Requests :
    rq[r].pc = "done" /\ rq[r].got = "redirect" => messages[r] > 0

\* A message is stored twice only for a sender whose connection was cut before
\* the answer came, by a process that ended, by a timeout or by the sender: no
\* 500 hides an INSERT that worked.
TwiceOnlyIfCut == \A r \in Requests : messages[r] > 1 => rq[r].cut

\* A sender is refused only when max attempts of that address were let through
\* within the window that ends now: neither refused attempts nor those of before
\* the window or of an earlier process count against anybody (ratelimit.go:37).
RefusedOnlyAtLimit ==
  [][\A r \in Requests :
       rq[r].pc = "new" /\ rq'[r].got = "limited" =>
         Cardinality(InWindow(<<rq'[r].at, From[r]>>, now)) >= MaxHits]_vars

\* A job that is not disabled keeps being run while the process serves,
\* whatever earlier runs and their reports did.
JobsKeepRunning ==
  \A p \in Procs, j \in Jobs : <<p, j>> \notin Disabled =>
    (Up(p) /\ stage[p] = "serve" ~> job[p][j] = "run" \/ told[p] \/ ~Up(p))

\* A signal ends the process, also with a request that never ends or a job that
\* is running.
SignalEnds == \A p \in Procs : told[p] ~> mg[p] = "off"

\* A start ends: the process serves or is gone, even when another one migrates
\* the same file at the same time.
StartEnds == \A p \in Procs : mg[p] = "table" ~> mg[p] = "off" \/ stage[p] = "serve"
===============================================================================
