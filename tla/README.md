# TLA+ verification of Job Simple Search

This directory holds a TLA+ model of the job-search pipeline in `src/`, the
TLC configurations that check it on small instances, and proofs checked by
TLAPS. `README.md` and other paths below are relative to the repository root;
`pipeline/`, `ui/` and the like are in its `src/simplejobsearch/`.

## 1. Inventory

The program is a daily pipeline over one SQLite database (WAL mode). The web
portal, the command line, the scheduler and the Windows workers are separate
processes that share service functions and the database; two operating-system
file locks (`discovery` and `continue_pipeline`, plus one per recorded task)
are all that keeps some of them apart.

| Component | Source | State | Operations | What makes it correct |
|---|---|---|---|---|
| Daily workflow | `src/simplejobsearch/workflow.py` | `daily_batches`, `daily_batch_jobs` | create/attach/mark/refresh a batch, final decisions, reconcile, backlog | statuses agree with the members' rows; recorded work is never undone |
| Discovery | `search/collector.py`, `daily_collector.py` | `search_runs`, `search_hits`, new `jobs` | run all queries, classify titles, store one run | one transaction per run; rediscovery touches nothing |
| Pipeline worker | `pipeline/orchestrator.py`, `streaming.py` | job columns, AI tasks in flight | resolve, gate, stream, judge, complete | COMPLETE only when nothing is left |
| Detail fetcher | `details_fetcher.py`, `pipeline/details.py` | attempts, `details_status` | fetch with retries, finalize exhausted, circuit breaker | attempts bounded, every job gets an outcome |
| Metadata gate, post-AI, rules | `metadata_gate.py`, `post_ai_engine.py`, `rule_engine.py` | verdict columns, `pipeline_rules` | classify by ordered rules, reapply | one deterministic verdict per job |
| AI extraction | `ai_extractor.py`, `pipeline/ai_extractor.py`, `retry.py` | `ai_status`, rolling RPM/TPM windows | retry, fall back, save | request rate and retry budget respected |
| Review portal | `ui/views.py` | decisions, rules | title review, overrides, final review, settings | a request is applied once, to rows that still wait for it |
| Scheduler, CLI, Windows workers | `scheduler/`, `cli.py`, `windows_automation.py` | none of their own | nightly, afternoon, reminder, recovery, continue | catch up without replacing finished work |
| Operational history | `operations.py`, `notifications/` | `task_runs`, `notification_events`, locks | record a run, detect abandoned rows | at most one worker per task; no row stays RUNNING for ever |
| Configuration, migrations, queries | `config.py`, `db.py`, `search/queries.py` | schema, `search_queries` | load, migrate, sync | sequential start-up code |

Hard behaviours: searches that do not take the pipeline lock and overlap a
continuation; portal requests that take no lock at all; several transactions
where one decision is made (judge / COMPLETE, decision / refresh, collect /
attach, count / status / write); rows read before a lock probe and used after it; crashes between any
two commits; an exception that leaves a worker waiting for ever with its lock held;
postings shared by several batches. `PROJECT.json` lists each
hazard at its line with the properties that cover it.

## 2. Plan

The most important behaviour is the life of a batch over the shared database,
so it came first; the modules after it open up one stage each. State of the
plan:

| Step | Module(s) | State |
|---|---|---|
| 1 | `JobState`, `Workflow`: batch, job rows and every process that writes them | modelled, checked, proved |
| 2 | `Details`: attempt budget, circuit breaker, hand-over queue | modelled, checked, proved |
| 3 | `TaskRuns`: task locks, run history, notification history | modelled, checked, proved |
| 4 | `RateLimiter`, `AiRuns`: task window, retry cycle, request and token limits | modelled, checked, proved |
| 5 | `StageContract`: what a stage that calls a remote service promises, with `Details` and `AiRuns` shown to implement it | checked; its safety part proved for both |
| 6 | `RuleEngine`: the matcher and the verdicts of the three rule stages | modelled, checked through step 7 |
| 7 | `RuleBook`, `ReviewInbox`: searches that classify with the rules they loaded, rule and category editing, the inbox shared by several windows, the pipeline's use of the rules | modelled, checked, proved |
| 8 | `AiLimits`, `ReviewInboxViews`: the request and token limits with their sums, the sorted pages of the inbox | proved |
| 9 | an abstract batch (absent, collecting, reviewed, processing, settled) that `Workflow` implements | not done: several of its transitions are broken by the disagreements of section 6, so the contract would have to be weaker than the documents |
| 10 | paging and parsing inside one search run | not done: everything a search returns is stored in one transaction, and the order of pages decides nothing after it |

Composition: `Workflow` extends `JobState`; `AiRuns` extends `RateLimiter`;
`ReviewInbox` extends `RuleBook`, which extends `RuleEngine`. `Details` and
`AiRuns` refine by hand what `Workflow` has as single steps (`FetchDetails` and
`StageFails`; `LoadForAi`, `Extract` and `StageFails`), so the attempt budgets
and limits do not multiply the states of the workflow; that each of the two
keeps the contract such a step relies on is `KeepsContract`. `ReviewInbox` looks
at the same postings from the side of rules and windows, with the pipeline
reduced to the steps that read a decision or a rule. `TaskRuns` is independent
of what a task does. The `MC` modules give the constants values; modules named
`...Proofs`, and `AiLimits`, `RuleLessons` and `ReviewInboxViews`, hold
theorems; `AiLimits` extends `AiRunsProofs`, and `ReviewInboxViews` extends
`RuleLessons`, which extends `ReviewInboxProofs`.

## 3. Modules

In every module one action is one committed transaction, one operation on a
lock or queue, or one read whose result a later action uses. SQLite serialises
the transactions; what lies between two of them is open to every other process.

### JobState and Workflow

`JobState` has one row of `jobs`, reduced to the columns on which a query
branches, and those queries as predicates (`Approved`, `Unfinished`,
`ReadyForAi`, `MissesPostAi`, ...). `NOT_FETCHED` and `FAILED_OR_EMPTY` are one
value there, as are the three terminal verdicts and the two final decisions,
since no query of the workflow tells them apart.

`Workflow` has the tables `jobs`, `daily_batches`, `daily_batch_jobs` and
`search_runs`, and the local state of each process:

| Actor | Code | Variables | Actions |
|---|---|---|---|
| discovery | `run_daily_search`, `daily_collector.main` | `dPc dBatch dGuarded dHits` | `GuardedSearch`, `DirectSearch`, `MarkSearching`, `Collect`, `AttachSearchRun`, `FinishDiscovery`, `DiscoveryFails`, `DiscoveryCrashes` |
| nightly task, morning reminder | `nightly_search_task`, `morning_review_reminder_task` | `nPc nBatch mSeen` | `NightlyReads`, `NightlyProbes`, `NightlySearches`, `NightlyBusy`, `ReminderStarts`, `ReminderLooks`, `ReminderMarks` |
| pipeline worker | `continue_after_review`, `run_streaming_pipeline` | `pPc pBatch pStatus pQueue work pLeft pSeen` | `Continue` up to `FinishPipeline`, one step per stage and job, `PipelineFails`, `PipelineHangs`, `PipelineCrashes`, `HungIsKilled` |
| reconcile | `reconcile_batch_summaries` | `rPc rRow rTodo rVerdict rSeen` | `StartReconcile`, `ReconcileReads`, `ReconcileWrites`, `ReconcileLooks`, `ReconcileRefreshes`, `ReconcileCrashes` |
| portal | `ui/views.py`, `set_final_decisions` | `uOp uTodo uLast uSeen` | `Review`, `OverrideDecision`, `PageMarks`, `AttachBacklog`, `FinalDecision`, `ReapplyMetadata`, `ReapplyPostAi`, `PortalLooks`, `PortalWrites`, `PortalStops` |

The two locks are not variables: a lock is held exactly while its holder's
program counter says so (`PipelineLockFree`, `DiscoveryLockFree`). Which hits a
search returns and which verdict a rule gives is left open within what the code
can answer. `Actors` switches optional actors on, so that each run looks at the
interleavings it is about.

`refresh_final_review_state` and `mark_review_state` are three statements each,
and nothing spans them: count what is pending, read the status, write. Every
caller (worker, reconcile command, portal, page poll, reminder) takes the three
as separate steps, with what it has read so far in a variable of its own (`pSeen`,
`rSeen`, `uSeen`, `mSeen`; `FinalLook`, `MarkLook`, then `WriteFinalState`,
`WriteMark`). So the last to write may be the first to have read.

A row counts its fetch attempts, and `mark_attempt` commits before the call: a
crash in between leaves `NOT_FETCHED` with an attempt gone, and when none is left
`load_detail_queue` offers the job no more and `finalize_exhausted_failures` does
not touch it. `PipelineHangs` is the exception of `streaming.py:107`, before the
`try` whose `finally` ends the queue: the worker waits for ever and holds the
pipeline lock until somebody kills it (`HungIsKilled`), which nobody has to.

Four history variables say what a property must name and the tables do not hold:
`touched`, the jobs that other actors changed since a worker read what was left;
`slipped`, the hits that a search without the pipeline lock attached after a
gate had counted; `orphaned`, the postings whose first run was stored and whose
worker failed or died before it attached them; `outdated`, the batches whose final
state was already untrue when it was written.

### Details

One continuation after another over a batch: `finalize_exhausted_failures`,
`load_detail_queue` with its order and its limit, `mark_attempt` before every
remote call, the three ways to save an outcome, `on_fetched`, the circuit
breaker, and the `None` that ends `ready_queue`, or that is never put because the
producer died first (`ProducerDies`, `HungIsKilled`). The thread (`Thread`) and the
event loop (`TakeReady`, `Return`) are separate processes, and the portal may
change a title decision while the thread works on the queue it loaded
(`Override`). `promised` is a history variable: what the run owes the metadata
stage. Page contents and delays between calls are left out.

### TaskRuns

The lock file of one recorded task, its rows in `task_runs` and
`notification_events`, the workers in `recorded_task`, the portals in
`active_recorded_tasks` and the commands that take the bare lock. `_write`
swallows database errors, so every history write is an action with a lost
variant (`Write`). A process may die while it holds the lock. An update of the
portal and its commit are one step.

### RateLimiter and AiRuns

`RateLimiter` is `RollingRateHandler`: the window (request times and token
reservations, always in step, so one sequence), the cooldown and the slots, and
what each method does to them. How long a refused request sleeps is left out:
sleeping only delays the next look. Time is counted in ticks.

`AiRuns` has the stream (`run_ai_job_stream_async`: source, task window, drain,
gather, unwinding after an exception) and `process_job` for each job: `Acquire`,
`Send` (`mark_attempt`), `RefuseRepair`, `MarkFails`, `Extracted`, `SaveFails`,
`Repair`, `FailsForGood`, `Retry`, `Fallback`, `Exhausted`. No lock of this code
is held across a point where a task is suspended, so a task runs from the answer
of the provider to its next request or sleep in one step. The source offers its
jobs in any order, because the metadata stage does, and may end early, because
its producer may fail, or never, because the producer may die before the `try`
that ends the queue (phase `hung`). `mark_attempt` between reservation and launch
is instant here; in the code SQLite may hold it, and with it the event loop, for
up to 30 seconds, so the limits are exact only as far as that wait is short against
the window. `StartRun` includes `recover_interrupted_ai_jobs`, with
which every continuation begins, and each run has a new limiter. Prompts, the
text of answers and the length of delays are reduced to sizes.

### StageContract

The abstract stage: a run is open, closed, or hangs; it calls for an item at most
once at a time, never for one that has its result, and for `Width` items at once;
only an item that was tried gets a result, and none loses it; an item that stays
wanted gets one (`WantedSettle`), unless its last call was lost to a fault
(`spent`) or a run hangs for ever. `Details` maps items to its jobs, `Width` to 1,
`settled` to the jobs with an outcome, `tried` to those with an attempt, `calling`
to the job whose page is being fetched and `spent` to the jobs out of attempts that
no outcome was ever saved for; `AiRuns` maps them to its
tasks, `MaxConcurrency`, the extracted jobs, those that were ever marked and
those whose request is under way, with nothing spent, since every continuation
has budgets of its own. `Reconsider` is the user who changes a title
decision while the stage runs.

### RuleEngine, RuleBook and ReviewInbox

`RuleEngine` is `rule_engine.py` without its wording: the matcher
`Matches` (what is unknown satisfies no rule, also no negative one), the order of
rules by priority and key, the layers of `classify_pre_description`
(`ClassifyPre`), the metadata and POST_AI verdicts, and the facts that
`post_ai_engine.py` derives before it judges (`PostRow`). Texts are opaque;
folding, containment, patterns and conversions to numbers, truth values and
languages are constants of the module. The columns a rule may look at and the
category keys are constants too (`Fields`, `CategoryKeys`), so that a rule's type
is a set of records over them.

`RuleBook` puts them to work over `pipeline_rules`, `review_categories`, `jobs`,
`search_runs` and `search_hits`. A search loads rules and categories
(`StartRun`), stores its results and what it newly classified in one transaction
(`StoreRun`) and its status in another (`FinishRun`, `FailRun`); `Raw` is what
the search returned, `Row` what is stored. `AddRule`, `EnableRules`,
`SaveCategory`, `EnableCategories`, `ReapplyMetadata` and `ReapplyPostAi` are the
rules page. The details worker keeps the list it loaded (`LoadForDetails`,
`FetchDetails`), the gate the verdict it has yet to write (`LoadForGate`,
`PersistGate`). `lessons` is a history variable: what EXCLUDE + ADD RULE taught
and nobody switched off since.

`ReviewInbox` adds the page. View, scope, page number, page size and filter are
globals of the process, so all windows share them; each window has the grid it
was last given (`shown`), and a handler the rows it took from it (`picked`)
before it does anything. `Decide`, `Teach`, `Override` and `PanelDecision` apply
them later. `Refresh` is `refresh_review`: it renders for every window after
every change. `Sessions` says which activities go on together in a behaviour.

## 4. What is checked

Every run is exhaustive over its instance.

| Run | Instance | Properties | What it shows |
|---|---|---|---|
| `wf_core` | 1 posting, 1 batch, 2 searches, 1 fault, searches outside the pipeline lock | `TypeOK`, `WorkOrder`, `ReviewJobsTracked`, `RecordedWorkKept`, `CompletionIsJudged`, `ProcessingStartsReviewed` | nothing recorded is undone; an undecided title is lost to the pending count only when its first run was stored and never attached; `COMPLETE` follows from the worker's own last look; what the gate did not see, an unlocked search attached |
| `wf_editors` | 1 posting, 2 batches, 1 search, no faults, every actor but the unlocked searches | `Inv`, `ExclusionStops`, `CompletionIsJudged`, `ProcessingStartsReviewed` | the invariant of the proofs; an exclusion stops a posting anywhere in the pipeline; both writers of `COMPLETE`; a stale `READY_TO_CONTINUE` of a page or of the reminder lets no batch into its stages |
| `wf_continued` | 1 posting, 1 batch, 2 attempts, 2 faults, rules and reconcile, fair | `Inv`, `UnfinishedJobsFinish` | an approved member is finished in the end, but for attempts that crashes used up and a worker that hangs for ever; the invariant with crashed and hanging workers |
| `wf_finalize` | 1 posting shared by 2 batches, 2 searches, reconcile, no faults, fair | `FinalizationHappens` | a complete and decided batch becomes `FINALIZED`, unless the last refresh to write had read something that was changed since |
| `details_runs` | 3 jobs, 2 attempts, limit 2, breaker 2, 2 faults, 1 job overridden, fair | `TypeOK`, `StreamDelivers`, `OutcomesKept`, `ApprovedSettles`, `KeepsContract` | nothing fetched misses the metadata stage; outcomes stay; every approved job gets one, but for attempts that crashes used up and a run that hangs for ever; the stage implements `StageContract` |
| `history_safe` | 2 workers, 1 portal, 1 bare holder, 3 lock takings, 2 crashes, 1 lost write, fair | `TypeOK`, `LiveNotInterrupted`, `OneRunAtATime`, `HistoryKept`, `RunsAreClosed` | the history tells the truth about live runs and no row stays open |
| `ai_parallel` | 3 jobs, 2 at a time, 2 requests and 3 tokens a window of 2 ticks, 2+1 attempts, 1 repair, 1 fault | `RpmRespected`, `TpmRespected`, `CyclesBounded`, `PausesHonoured` | the limits and pauses hold in every interleaving of tasks and time |
| `ai_continued` | 2 jobs, one started per run, 1 fault, fair | `TypeOK`, `BudgetKept`, `NothingAbandoned`, `ExtractedKept`, `JobsExtracted`, `KeepsContract` | budgets, recovery, every job extracted in the end unless a run hangs for ever; the stage implements `StageContract` |
| `inbox` | 3 postings in 2 groups, 2 searches, 2 windows, 2 rule edits, 1 fault, 1 change of view, page or filter, 8 combinations of activities | `TypeOK`, `OneRulePerValue`, `ExclusionStops`, `NothingHidden`, `LearnedExclusion`, `DecisionsStand`, `NeverABlankPage` | a taught exclusion holds for later searches and is taught once; stale windows undo no decision; no posting and no page is lost |
| `wf_finalized`, `wf_nightly_race`, `details_exhausted` | smallest instance that has the case | one each | the disagreements of section 6 |

Why the bounds are enough. Postings of a batch move by themselves and meet only in
sets (pending, unfinished, final pending) that the code asks whether they are
empty: one posting gives both answers. Two batches suffice for a posting they
share, and two searches for a rediscovery. One fault at any point reaches every
mixture of committed and lost transactions that one stopped process leaves behind,
and the process that follows runs on it; `wf_continued` and `details_runs` allow as
many faults as a job has attempts, so that crashes alone may use them up. In
`Details` three jobs with a limit and a
breaker of two leave one job behind the limit; two attempts give a first and a
last. In `TaskRuns` three lock takings let a worker die, the portal look, and a
second worker start. In `ai_parallel` a window of two ticks has an inside, a
boundary and an outside; two slots for three jobs make one wait. In `inbox` two
of the postings are one group in two spellings, so a lesson of one meets the
other, and the third has no title; two groups and page sizes of one and two give
a first, a last and a vanishing page; two edits let the user teach and switch
off, or teach twice. The activities are combined by the state they share,
because all of them at once only multiply independent states; the safety
theorems about `ReviewInbox` hold for any combination. A bound on faults also
bounds the failures that a liveness property must survive, not the properties'
meaning: the theorems do not depend on it.

Fairness. Each assumption is stated beside the specification that makes it.

- `Workflow!FairSpec`: a process that has started goes on (weak fairness of its
  steps, refreshes included); the user decides every title and continues a batch
  again and again until it is complete with nothing left (strong fairness: the lock
  may be busy at times). No search ever has to start, the rules never have to be
  reapplied, and nobody has to kill a worker that hangs.
- `Details!FairSpec`: the user continues the batch; the thread and the loop go on.
- `TaskRuns!FairSpec`: workers and bare holders go on, and the portal's page
  reloads itself while it is open. Nobody has to start the task. The page probes
  five tasks (`ui/views.py:6208-6216`); for the others `RunsAreClosed` says only
  that their next worker closes what is abandoned.
- `AiRuns!FairSpec`: the user continues; the stream, the tasks and the clock go
  on; the provider answers, and for each job properly at some time if it is asked
  often enough (strong fairness of `Extracted`). Without the last, a job may fail
  for ever, and rightly.

A crash or failure is never fair, and finitely many are allowed. The liveness
properties can be violated by the code: each has a mutation of the mapped code
under which its run fails.

`ReviewInbox` has no fairness: its users and searches owe nobody a step.

Deadlock is checked in every run but `history_safe`, whose bounded lock takings
run out, and `inbox`, whose searches and edits do.

## 5. What is proved

The theorems are for every set of postings or jobs, every number of batches,
runs, attempts, workers, portals, windows, rules and faults, from the named
assumptions on the constants alone. The runs check the same formulas on an
instance.

| Module | Theorem | Statement |
|---|---|---|
| `WorkflowProofs` | `TypeCorrect` | `Spec => []TypeOK` |
| | `InvariantHolds` | `Spec => []Inv` |
| | `RecordedWorkSafe` | `Spec => RecordedWorkKept` |
| | `CompletionJudged` | `Spec => CompletionIsJudged` |
| | `InboxComplete` | `Spec => []ReviewJobsTracked` |
| | `StartsAreReviewed` | `Spec => ProcessingStartsReviewed`, whoever takes part |
| | `ExclusionHalts`, `PipelineOrder` | `ExclusionStops`, `WorkOrder` |
| `DetailsProofs` | `TypeCorrect`, `Delivered`, `OutcomesSafe` | `TypeOK`, `StreamDelivers`, `OutcomesKept` |
| | `ContractKept` | `Spec => Stage!Safety` |
| `AiRunsProofs` | `BudgetSafe`, `NothingLeftBehind`, `WindowBounds`, `PausesSafe`, `ExtractedSafe` | `BudgetKept`, `NothingAbandoned`, `CyclesBounded`, `PausesHonoured`, `ExtractedKept` |
| | `ContractKept` | `Spec => Stage!Safety` |
| `AiLimits` | `TypesSafe`, `RpmSafe`, `TpmSafe` | `TypeOK`, `RpmRespected`, `TpmRespected` |
| `ReviewInboxProofs` | `ExclusionHolds`, `DecisionsHold` | `ExclusionStops`, `DecisionsStand` |
| `RuleLessons` | `OneRuleHolds`, `LessonsHold` | `OneRulePerValue`, `LearnedExclusion` |
| `ReviewInboxViews` | `InboxTypes`, `NothingIsHidden`, `NoPageIsBlank` | `TypeOK`, `NothingHidden`, `NeverABlankPage` |
| `TaskRunsProofs` | `TypeCorrect`, `LiveRunsSafe`, `RunsExclusive`, `HistorySafe` | `TypeOK`, `LiveNotInterrupted`, `OneRunAtATime`, `HistoryKept` |

*Workflow.* `TypeOK` is inductive by itself and proved action by action. The
safety proofs need `Inv`: columns are filled in order (`WorkOrder`), which only
holds because a job in a stage has what the stages before it produced
(`StageOrder`) and because what is attached or queued is stored (`StoredHits`);
one process holds the pipeline lock (`LockHolders`); a worker that may write
`COMPLETE` has started the batch (`StagesStarted`), and what it read as left
still covers everything unfinished but for `touched` (`LeftIsKnown`); what is
pending behind the gate's count is in `slipped` (`GateIsCounted`); and who is
looking looks at the batch it works on (`LooksAimed`). The proof of the step splits the actions by what they change: a lemma about one row
(`RowStep`), frames for the actors that change no row, the bookkeeping of
`touched` by the others, and the writers of `status`. `CompletionIsJudged` then
is `LeftIsKnown` read at the step that writes `COMPLETE`, and
`ProcessingStartsReviewed` is `GateIsCounted` read at the step that writes
`PROCESSING`, for every choice of actors: the searches without the lock are named
in `slipped` and not assumed away. `ReviewJobsTracked` has a small invariant of its
own on top; `orphaned` grows in two actions only, `DiscoveryFails` and
`DiscoveryCrashes` after `Collect`, so every other fault and actor loses nothing.

*Details.* Jobs still to fetch have no outcome and an attempt left, since the
queue was loaded once and holds each job once (`QueueOK`): that gives
`OutcomesKept` and the bound on the attempts. A job the run owes is seen, or in
`ready_queue`, or being announced, and `End` is put last and only when nothing
is announced any more (`StreamOK`): that gives `StreamDelivers`.

*TaskRuns.* A process past the lock taking is the one holder (`LockOK`); a
running worker's own rows are only as far as it has written them (`HolderOK`);
invocations to come have no rows (`FreshOK`); and without lost writes a delivery
in progress belongs to an open or interrupted run, and a worker past its sweeps
leaves nothing of the others open (`ClosedOK`). So a portal that holds the lock
knows that every open row is abandoned.

*AiRuns.* What is spent of a model's budget and what is left add up whatever a
job goes through (`BudgetOK`); a working task is in the window and has not been
started before (`WindowOK`); a request under way holds a slot (`SlotsOK`); every
pause a job is owed is part of the limiter's cooldown (`PauseOK`), which gives
`PausesHonoured`; without a fault only a task at work is in `PROCESSING`
(`CalmOK`).

*The limits.* The sums of `RateLimiter` are folds of the community modules. No
recursion is proved about; the choice of a finite set's function (`Sums`) is
shown to exist and to be unique by a least set that would lack it (`SumsExist`,
`SumsAgree`), from which a sum can be taken apart at any element and added
pointwise (`SumAdds`). `LimiterInv` then relates two histories that the code never
compares: a launch is never older than its reservation, so for every age the
launches below it are no more than the entries below it (`LaunchesOK`), and of
those at most `Rpm` are there (`RoomOK`). Until its answer is there a request is
accounted at its estimate (`UnansweredOK`), so `reconcile` changes what an entry
takes of the limit by the answer's excess or less, and what the entries take up
to their estimates always fits (`TokensOK`). `TypesSafe` adds the types of the
stream and of the tasks.

*The stage contract.* Every step of `Details` and of `AiRuns` maps to a step of
`StageContract` or changes nothing there, under their invariants. The liveness
part of the contract (`WantedSettle`) is checked in the two runs.

*Exclusion.* `ExclusionStops` is not inductive: it needs that a posting on the
details worker's list, or with a verdict the gate has yet to write, was settled
when it was taken, and that every grid of a pending view, however old, holds only
postings that needed review (`GridsOK`). So a decision applied late meets either
an undecided posting, which nothing was fetched for, or one that keeps its
decision. `ExclusionHalts` shows the same over the batch worker's actions.

*Lessons.* The table holds a rule for every standing lesson, enabled and in the
early layer, and no two rules of the inbox for one value (`TablesOK`); every
search keeps such a table from the moment it loaded it (`SnapOK`). `ClassifyPre`
then decides for the lesson unless an earlier exception speaks. `Teach` keeps
this because for each folded text among the selected rows exactly one row speaks
(`OneSpeaks`), which rests on rows being disjoint groups (`GroupsOK`) and on
keys being new. `TextsAssumption` is used: a company or title comes as one text,
and folding leaves something of a text that is not blank; without it, teaching
`title contains ""` would match nothing.

*The inbox's types and pages.* `TInv` types the tables, what a search loaded,
the postings, the workers and the page's globals; it leans on the two invariants
before it (`TablesOK` for what `First` returns, `GateOK` for where a verdict is
written, `GroupsOK` for what a lesson is taught from). It is also what makes the
sort keys of a row comparable: a pending posting has a suggestion, a category
shown has a place in the alphabet. So `Precedes` is a strict total order on the
rows of a view (`PrecedesOrders`; two groups differ in their first posting), and
in a finite total order every number of predecessors below the size is taken
(`PlaceTaken`, by the least element that has enough). A page whose number is in
range then has the row whose place is its first (`PageFilled`), and every row is
on the page its place gives it (`OnSomePage`). `NoPageIsBlank` is the former at
every step that gives a window rows, since `Clamp` brings the number into range;
`NothingIsHidden` is the latter with the case analysis of the three views
(`OneView`). `FormsAssumption` says what the forms and the migrations may enter,
`RankAssumption` that categories are ordered.

Only model-checked: liveness, which is outside what the proof system handles
(`UnfinishedJobsFinish`, `FinalizationHappens`, `ApprovedSettles`,
`RunsAreClosed`, `JobsExtracted` and the part of `KeepsContract` that is
`WantedSettle`); and the disagreements of section 6.

## 6. Where code and documents disagree

Each of these has a run in which TLC finds the counterexample.

- `wf_finalized`: `README.md:25-28` says that `final_review_status` moves to
  `FINALIZED` after every proposal is decided. A posting shared by two batches
  may get its proposal in one while the other stays `FINALIZED`:
  `continue_after_review` refreshes its own batch only.
- `wf_nightly_race`: `README.md:249-251` says completed search results are
  preserved. The nightly task acts on a row it read as `SEARCHING`; if that
  search completes before the probe of the lock, a second one replaces it.
- `details_exhausted`: `details_fetcher.py:669` says exhausted failures are made
  terminal so that they cannot block a batch. An attempt whose outcome was never
  saved leaves `NOT_FETCHED` with the budget spent, and that row is neither
  fetched nor terminal.

Three more contradict a document, follow from the same models, and have no run of
their own. For each, the property that does hold names the case as its exception,
and a mutation of the code makes the case larger than that.

- `README.md:41-44` says a batch is `COMPLETE` only when every approved member is.
  What is left is read in one transaction (`orchestrator.py:277`) and `COMPLETE`
  written in another (`:297`); a rule reapplied in between makes a member
  unfinished. What holds is `CompletionIsJudged`, with the member in `touched`.
- `README.md:25-28`, again on `FINALIZED`. The worker counts one open proposal, the
  portal decides it and writes `FINALIZED`, and the worker then writes the
  `AWAITING_REVIEW` it had worked out (`workflow.py:340-366`). The batch is complete
  with nothing pending and is not `FINALIZED` until something else refreshes it,
  which nothing has to. What holds is `FinalizationHappens`, with the batch in
  `outdated`.
- `README.md:25-28` says a batch remains automation-`COMPLETE`. A page poll that read
  `READY_TO_CONTINUE` before a worker ran overwrites the worker's `COMPLETE`
  afterwards (`workflow.py:508-512`), and no later mark repairs that. What holds is
  `UnfinishedJobsFinish`, which speaks of the members and not of the status, and
  `ProcessingStartsReviewed`.

Some more are in the models, or were met while writing them, where no document
promises otherwise or no recorded work changes:

- A search of which every query failed ends like an empty one, and its batch is
  ready to continue (`daily_collector.py:1798`); a failure while the summary is
  printed turns a run that has ended into `FAILED`.
- `set_final_decisions` commits a decision before it refreshes the batches
  (`workflow.py:455`): a portal that dies in between leaves another batch's final
  state as it was, until something refreshes that batch.
- A posting stored by a run that is never attached is found as known by later
  searches and attached as not new, so no pending count includes it; it shows in
  the inbox's scope "All runs" only (`search/collector.py:66`).
- A read that raises at `pipeline/streaming.py:107` leaves the worker waiting for
  ever with the pipeline lock held; every later continuation finds it busy.
- Continuing without a date takes the newest batch, so a crashed older one stays
  `PROCESSING` until it is named (`orchestrator.py:195`).
- Each continuation has a new limiter, so limits hold within one continuation
  (`pipeline/ai_extractor.py:53`); a job that fails again in every run uses up
  the places of `AI_MAX_JOBS_PER_RUN` (`:83`).
- The probe of a task's lock takes the lock, so a worker that starts at that
  moment is refused, and a command that holds the bare lock makes an abandoned
  row look active (`operations.py:120`).
- The results tab's scope "All pre-fetch" resolves to the latest run
  (`ui/views.py:438`), although `ui/views.py:5979` speaks of every discovery
  decision that was not fetched yet; and its view of learned exclusions does not
  show exclusions by a user's own rule that the inbox reused.
- A rule of priority 0 counts as priority 1000 (`rule_engine.py`), and the form
  turns 0 into 500.
- The gate's write may replace the verdict of a newer reapplication
  (`metadata_gate.py:162`).
- The title rules see NaN as a known value in the row of a search, and as
  unknown in the stored row.
- A run that fails while it stores its results commits what it had written
  (`daily_collector.py:1775-1789`): in `RuleBook` that is `StoreRun` of as many
  postings, followed by `FailRun`.
- The pending view shows `mixed` for a row without any known category
  (`ui/views.py:1219-1223`). A posting that needs review always has one, so
  `RowCategory` does not tell the two apart.

## 7. What is not modelled

- Message bodies, links, page rendering and form widgets: formatting only. Of the
  portal, the map and the lists of fetched and extracted postings, which only
  display and filter.
- Queries, parsing and paging of a search; page parsing; prompts and parsing of
  answers: one nondeterministic outcome each.
- The text functions of the rule engine (folding, patterns, number and language
  parsing): constants of `RuleEngine`, any function will do.
- Configuration, migrations and the query catalogue: sequential start-up code.
- PowerShell and Windows process management: they start and stop the processes
  whose every stop is a crash here.
- Recovery by Windows and the portal's process management: they start commands
  that are modelled, at times that are arbitrary here.
- Cached display counts of a batch, metrics and summaries: no decision reads
  them.
- SQLite itself: transactions are serial and durable, as the code relies on.
