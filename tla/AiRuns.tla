------------------------------- MODULE AiRuns --------------------------------
(***************************************************************************)
(* AI extraction: run_ai_job_stream_async takes the jobs that pass the     *)
(* metadata gate, in whatever order they come, and keeps a window of tasks *)
(* at work on them; each task (process_job) spends a budget of provider    *)
(* requests, repairs malformed answers, backs off, and falls back to a     *)
(* second model; all share one limiter.  A crash or an escaping exception  *)
(* ends the run, and the user continues later.                             *)
(*                                                                         *)
(* asyncio: a task runs until it awaits something that is not at hand.     *)
(* The locks are never held across such a point, so from the answer of the *)
(* provider to the next request or sleep a task is one step.               *)
(***************************************************************************)
EXTENDS RateLimiter

CONSTANTS MaxAttempts,       \* AI_MAX_ATTEMPTS_PER_JOB
          FallbackAttempts,  \* AI_FALLBACK_MAX_ATTEMPTS_PER_JOB
          HasFallback,       \* JOB_AI_FALLBACK_MODEL is another model
          MaxRepairs,        \* MAX_SCHEMA_REPAIR_ATTEMPTS
          MaxStarted,        \* MAX_JOBS_PER_RUN, 0 = no limit
          PromptTokens, RepairTokens,  \* estimates of a job's prompts
          Usages,            \* reported input tokens, 0 = none
          Delays,            \* pauses a transient failure asks for
          MaxFaults          \* bound: crashes, database errors, lost producers

ASSUME AiAssumption ==
  /\ MaxAttempts \in Nat \ {0} /\ FallbackAttempts \in Nat \ {0}
  /\ HasFallback \in BOOLEAN
  /\ MaxRepairs \in Nat /\ MaxStarted \in Nat /\ MaxFaults \in Nat
  /\ PromptTokens \in [Tasks -> Nat] /\ RepairTokens \in [Tasks -> Nat]
  /\ Usages \subseteq Nat /\ Delays \subseteq Nat

Models == {"primary", "fallback"}
Limit(m) == IF m = "primary" THEN MaxAttempts ELSE FallbackAttempts

VARIABLES
  ai,                               \* jobs.ai_status
  phase, todo, started, pending,    \* the stream
  pc, model, remaining, repairs,    \* process_job, by job
  used,                             \* history: requests of this run, by model
  owed,                             \* history: pause the job's failure asked for
  faults

stream == <<phase, todo, started, pending>>
budget == <<model, remaining, repairs>>
vars   == <<limiter, ai, stream, pc, budget, used, owed, faults>>

\* queued: sleeping before, or not yet at, acquire; polling: in acquire.
Working == {"queued", "polling", "sent"}

TypeOK ==
  /\ LimiterTypeOK
  /\ ai \in [Tasks -> {"NEW", "PROCESSING", "FAILED", "EXTRACTED"}]
  /\ phase \in {"off", "hung", "pull", "drain", "gather", "unwind"}
  /\ todo \subseteq Tasks /\ started \subseteq Tasks /\ pending \subseteq started
  /\ pc \in [Tasks -> Working \cup {"none", "done", "raised"}]
  /\ model \in [Tasks -> Models]
  /\ \A t \in Tasks : remaining[t] \in 0..Limit(model[t])
  /\ repairs \in [Tasks -> 0..MaxRepairs]
  /\ used \in [Tasks -> [Models -> Nat]]
  /\ owed \in [Tasks -> Nat]
  /\ faults \in 0..MaxFaults

\* What a run starts with, and leaves behind.
ZeroOf  == [t \in Tasks |-> 0]
NoUse   == [t \in Tasks |-> [m \in Models |-> 0]]
NoTask  == [t \in Tasks |-> "none"]
Primary == [t \in Tasks |-> "primary"]

Init ==
  /\ FreshLimiter
  /\ todo = {} /\ started = {} /\ pending = {}
  /\ pc = NoTask /\ model = Primary /\ remaining = ZeroOf /\ repairs = ZeroOf
  /\ used = NoUse /\ owed = ZeroOf
  /\ ai = [t \in Tasks |-> "NEW"]
  /\ phase = "off"
  /\ faults = 0

Fault == faults < MaxFaults /\ faults' = faults + 1

\* load_queue: the ready_for_ai view.
ReadyAgain(t) == ai[t] # "PROCESSING"                       \* mutant
Ready(t) == ai[t] \in {"NEW", "FAILED"}

SetAiUnlessFailed(t, s) ==                                  \* mutant
  ai' = IF s = "FAILED" THEN ai ELSE [ai EXCEPT ![t] = s]
SetAi(t, s) == ai' = [ai EXCEPT ![t] = s]
Goes(t, to) == pc' = [pc EXCEPT ![t] = to]

-----------------------------------------------------------------------------
(* The stream.                                                             *)

StartRunCold ==                                             \* mutant
  /\ phase = "off" /\ phase' = "pull"
  /\ todo' = Tasks
  /\ UNCHANGED <<limiter, ai, started, pending, pc, budget, used, owed, faults>>

StartRunAll ==                                              \* mutant
  /\ phase = "off" /\ phase' = "pull"
  /\ todo' = Tasks
  /\ ai' = [t \in Tasks |-> IF ai[t] # "NEW" THEN "FAILED" ELSE ai[t]]
  /\ UNCHANGED <<limiter, started, pending, pc, budget, used, owed, faults>>

\* The worker that continues a batch first recovers what its predecessor left
\* in PROCESSING, then opens a stream with a limiter of its own.  When produce()
\* dies before its try clause, the stream waits for a source that never ends.
StartRun ==
  /\ phase = "off"
  /\ \/ phase' = "pull" /\ UNCHANGED faults
     \/ phase' = "hung" /\ Fault
  /\ todo' = Tasks
  /\ ai' = [t \in Tasks |-> IF ai[t] = "PROCESSING" THEN "FAILED" ELSE ai[t]]
  /\ UNCHANGED <<limiter, started, pending, pc, budget, used, owed>>

LimitReached == MaxStarted > 0 /\ Cardinality(started) >= MaxStarted

Skip(t) ==
  /\ phase = "pull" /\ t \in todo
  /\ LimitReached \/ ~Ready(t)
  /\ todo' = todo \ {t}
  /\ UNCHANGED <<limiter, ai, phase, started, pending, pc, budget, used, owed, faults>>

WindowFullLate(n) == n > MaxConcurrency                     \* mutant
WindowFull(n) == n >= MaxConcurrency

Start(t) ==
  /\ phase = "pull" /\ t \in todo
  /\ ~LimitReached /\ Ready(t)
  /\ todo' = todo \ {t}
  /\ started' = started \cup {t}
  /\ pending' = pending \cup {t}
  /\ phase' = IF WindowFull(Cardinality(pending) + 1) THEN "drain" ELSE "pull"
  /\ Goes(t, "queued")
  /\ remaining' = [remaining EXCEPT ![t] = MaxAttempts]
  /\ UNCHANGED <<limiter, ai, model, repairs, used, owed, faults>>

Finished == {t \in pending : pc[t] \in {"done", "raised"}}
Raised   == {t \in pending : pc[t] = "raised"}

\* asyncio.wait returns every task that is finished; the result of one that
\* raised raises here.
DrainOne ==
  /\ phase = "drain"
  /\ Finished # {}
  /\ pending' = pending \ Finished
  /\ phase' = IF Raised = {} THEN "pull" ELSE "unwind"
  /\ UNCHANGED <<limiter, ai, todo, started, pc, budget, used, owed, faults>>

\* The source ends: with its last job, or early because the producer failed
\* inside its try clause.
EndOfSource ==
  /\ phase = "pull"
  /\ \/ todo = {} /\ UNCHANGED faults
     \/ Fault
  /\ phase' = "gather"
  /\ UNCHANGED <<limiter, ai, todo, started, pending, pc, budget, used, owed>>

\* The event loop closes: what still runs is cancelled where it stands.
Closes ==
  /\ phase' = "off"
  /\ NewLimiter
  /\ todo' = {} /\ started' = {} /\ pending' = {}
  /\ pc' = NoTask /\ model' = Primary /\ remaining' = ZeroOf /\ repairs' = ZeroOf
  /\ used' = NoUse /\ owed' = ZeroOf

GatherAll ==
  /\ phase = "gather" /\ Raised = {} /\ Finished = pending
  /\ Closes
  /\ UNCHANGED <<ai, faults>>

GatherRaises ==
  /\ phase = "gather" /\ Raised # {}
  /\ phase' = "unwind"
  /\ UNCHANGED <<limiter, ai, todo, started, pending, pc, budget, used, owed, faults>>

\* run_streaming_pipeline_async still waits for its producer, and other tasks
\* go on meanwhile.
Unwind ==
  /\ phase = "unwind"
  /\ Closes
  /\ UNCHANGED <<ai, faults>>

Crash ==
  /\ Fault /\ phase \notin {"off", "hung"}
  /\ Closes
  /\ UNCHANGED ai

\* Whoever notices a run that hangs may kill it; nobody is obliged to.
HungIsKilled ==
  /\ phase = "hung"
  /\ Closes
  /\ UNCHANGED <<ai, faults>>

-----------------------------------------------------------------------------
(* process_job.                                                            *)

\* The sleep before a retry is no longer than the pause it gave the limiter.
Acquire(t) ==
  /\ pc[t] = "queued"
  /\ SlotFree /\ TakesSlot(t)
  /\ Goes(t, "polling")
  /\ UNCHANGED <<window, cooldown, launches, ai, stream, budget, used, owed, faults>>

Estimate(t) == IF repairs[t] = 0 THEN PromptTokens[t] ELSE RepairTokens[t]

Admitted(t) == pc[t] = "polling" /\ Admits(Estimate(t)) /\ Reserves(t, Estimate(t))

\* on_request_acquired: mark_attempt, then the request goes out.  One step, as
\* the update is taken to be instant: SQLite may make it wait for the lock.
SpendUnlessRepair(t) ==                                     \* mutant
  IF repairs[t] > 0 THEN remaining[t] ELSE remaining[t] - 1
Spend(t) == remaining[t] - 1

SendAnyway(t) ==                                            \* mutant
  /\ Admitted(t)
  /\ remaining' = [remaining EXCEPT ![t] = Spend(t)]
  /\ used' = [used EXCEPT ![t][model[t]] = @ + 1]
  /\ SetAi(t, "PROCESSING") /\ Goes(t, "sent") /\ Launches
  /\ UNCHANGED <<cooldown, holders, stream, model, repairs, owed, faults>>

Send(t) ==
  /\ Admitted(t)
  /\ remaining[t] > 0
  /\ remaining' = [remaining EXCEPT ![t] = Spend(t)]
  /\ used' = [used EXCEPT ![t][model[t]] = @ + 1]
  /\ SetAi(t, "PROCESSING")
  /\ Goes(t, "sent")
  /\ Launches
  /\ UNCHANGED <<cooldown, holders, stream, model, repairs, owed, faults>>

\* A repair finds the budget spent: not transient, so no fallback either.
RefuseRepair(t) ==
  /\ Admitted(t)
  /\ remaining[t] = 0
  /\ Releases(t)
  /\ SetAi(t, "FAILED")
  /\ Goes(t, "done")
  /\ UNCHANGED <<cooldown, launches, stream, budget, used, owed, faults>>

MarkFails(t) ==
  /\ Fault
  /\ Admitted(t)
  /\ remaining[t] > 0
  /\ Releases(t)
  /\ SetAi(t, "FAILED")
  /\ Goes(t, "done")
  /\ UNCHANGED <<cooldown, launches, stream, budget, used, owed>>

\* A response: its usage is reconciled and the slot is given back.
Answered(t) == pc[t] = "sent" /\ \E usage \in Usages : Reconciles(t, usage)

\* save_success and the post-AI rules.
Extracted(t) ==
  /\ Answered(t) /\ Releases(t)
  /\ SetAi(t, "EXTRACTED")
  /\ Goes(t, "done")
  /\ UNCHANGED <<cooldown, launches, stream, budget, used, owed, faults>>

\* save_success raises, and nothing catches it.
SaveFails(t) ==
  /\ Fault
  /\ Answered(t) /\ Releases(t)
  /\ Goes(t, "raised")
  /\ UNCHANGED <<cooldown, launches, ai, stream, budget, used, owed>>

\* The repair request takes the slot again at once.
Repair(t) ==
  /\ Answered(t)
  /\ repairs[t] < MaxRepairs
  /\ repairs' = [repairs EXCEPT ![t] = @ + 1]
  /\ Goes(t, "polling")
  /\ UNCHANGED <<cooldown, holders, launches, ai, stream, model, remaining, used, owed, faults>>

\* An exception reaches process_job: from the provider, or from an answer whose
\* usage has been reconciled, because it has no text or because the last repair
\* is malformed too.  That message quotes the answer and may look transient.
Raises(t) ==
  /\ \/ pc[t] = "sent" /\ UNCHANGED window
     \/ Answered(t)
  /\ Releases(t)
  /\ SetAi(t, "FAILED")
  /\ repairs' = [repairs EXCEPT ![t] = 0]
  /\ UNCHANGED <<launches, stream, used, faults>>

FailsForGood(t) ==
  /\ Raises(t)
  /\ Goes(t, "done")
  /\ UNCHANGED <<cooldown, model, remaining, owed>>

FailsForNow(t) ==
  /\ Raises(t)
  /\ \E delay \in Delays : Pauses(delay) /\ owed' = [owed EXCEPT ![t] = delay]

Retry(t) ==
  /\ FailsForNow(t)
  /\ remaining[t] > 0
  /\ Goes(t, "queued")
  /\ UNCHANGED <<model, remaining>>

Fallback(t) ==
  /\ FailsForNow(t)
  /\ remaining[t] = 0
  /\ HasFallback /\ model[t] = "primary"
  /\ model' = [model EXCEPT ![t] = "fallback"]
  /\ remaining' = [remaining EXCEPT ![t] = FallbackAttempts]
  /\ Goes(t, "queued")

Exhausted(t) ==
  /\ FailsForNow(t)
  /\ remaining[t] = 0
  /\ ~HasFallback \/ model[t] = "fallback"
  /\ Goes(t, "done")
  /\ UNCHANGED <<model, remaining>>

-----------------------------------------------------------------------------
TimePasses ==
  /\ window # <<>> \/ cooldown > 0
  /\ Tick
  /\ owed' = [t \in Tasks |-> IF owed[t] > 0 THEN owed[t] - 1 ELSE 0]
  /\ UNCHANGED <<ai, stream, pc, budget, used, faults>>

Stream ==
  \/ \E t \in Tasks : Skip(t) \/ Start(t)
  \/ DrainOne \/ GatherAll \/ GatherRaises \/ Unwind
  \/ EndOfSource

Job(t) ==
  \/ Acquire(t) \/ Send(t) \/ RefuseRepair(t) \/ MarkFails(t)
  \/ Extracted(t) \/ SaveFails(t) \/ Repair(t)
  \/ FailsForGood(t) \/ Retry(t) \/ Fallback(t) \/ Exhausted(t)

Next ==
  \/ StartRun \/ Stream \/ Crash \/ HungIsKilled \/ TimePasses
  \/ \E t \in Tasks : Job(t)

Spec == Init /\ [][Next]_vars

\* The user keeps continuing, a running worker goes on, the provider answers
\* every request, and no job for ever in the wrong way.
FairSpec ==
  /\ Spec
  /\ WF_vars(StartRun) /\ WF_vars(Stream) /\ WF_vars(TimePasses)
  /\ \A t \in Tasks : WF_vars(Job(t)) /\ SF_vars(Extracted(t))

-----------------------------------------------------------------------------
\* A continuation spends at most the budget of each model on a job, repairs
\* included, and the fallback only when the primary's budget is gone
\* (README.md:46-53, process_job).
BudgetKept ==
  \A t \in Tasks :
    /\ \A m \in Models : used[t][m] <= Limit(m)
    /\ used[t]["fallback"] > 0 => HasFallback /\ used[t]["primary"] = MaxAttempts

\* While a job is in its retry cycle no more than the window's other jobs are;
\* with the default window of one, a job finishes before the next is started
\* (README.md:63).  So no task ever waits for a slot of the limiter.
CyclesBounded == Cardinality({t \in Tasks : pc[t] \in Working}) <= MaxConcurrency

\* No request goes out before every pause that an earlier failure of the run
\* asked for is over (README.md:58-62).
PausesHonoured ==
  [][\A t \in Tasks : pc[t] = "polling" /\ pc'[t] = "sent" =>
       \A u \in Tasks : owed[u] = 0]_vars

\* A job in PROCESSING is being worked on, unless a fault abandoned it: the end
\* of an undisturbed run leaves none behind.
NothingAbandoned ==
  faults = 0 => \A t \in Tasks : ai[t] = "PROCESSING" => pc[t] \in {"polling", "sent"}

\* An extracted job is never sent again (README.md:65).
ExtractedKept ==
  [][\A t \in Tasks : ai[t] = "EXTRACTED" => ai'[t] = "EXTRACTED" /\ pc'[t] # "sent"]_vars

\* Every job is extracted in the end, if its prompts fit the token limit and the
\* provider will answer it properly at some time, however often runs fail, unless
\* a run hangs that nobody kills.
JobsExtracted == \A t \in Tasks : <>(ai[t] = "EXTRACTED") \/ <>[](phase = "hung")

\* What the stage looks like from outside.  Every job that passed the gate is
\* wanted, and the window bounds the calls under way.
Stage == INSTANCE StageContract
  WITH Items   <- Tasks,
       Width   <- MaxConcurrency,
       settled <- {t \in Tasks : ai[t] = "EXTRACTED"},
       tried   <- {t \in Tasks : ai[t] # "NEW"},
       calling <- {t \in Tasks : pc[t] = "sent"},
       spent   <- {},
       wanted  <- Tasks,
       run     <- IF phase = "off" THEN "closed" ELSE IF phase = "hung" THEN "hung" ELSE "open"

\* run_ai_job_stream_async keeps the contract of a stage, through repairs, retries,
\* the fallback model, tasks that raise and runs that crash; each continuation
\* has a budget of its own, so no job's last call is ever lost.
KeepsContract == Stage!Spec
=============================================================================
