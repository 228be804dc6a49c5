------------------------------ MODULE Workflow ------------------------------
(***************************************************************************)
(* The daily workflow: the batch table, the jobs table and every process   *)
(* that writes them.  Discovery workers, the nightly task, one pipeline    *)
(* worker, the reconcile command and the review portal share one SQLite    *)
(* database; two operating-system locks (discovery and continue_pipeline)  *)
(* are all that keeps some of them apart.  One action is one committed     *)
(* transaction, or one read whose result a later step acts on.             *)
(***************************************************************************)
EXTENDS Naturals, FiniteSets, JobState

CONSTANTS Jobs,        \* the postings the provider may return
          NumBatches,  \* batch dates 1..NumBatches, in calendar order
          MaxRuns,     \* bound: how many search runs are stored
          MaxFaults,   \* bound: crashes, exceptions and failed remote calls
          Actors       \* which optional actors take part

AllActors == {"direct", "nightly", "reconcile", "rules", "overrides", "backlog",
              "page", "reminder"}

ASSUME NumBatchesAssumption == NumBatches \in Nat \ {0}
ASSUME MaxRunsAssumption    == MaxRuns \in Nat
ASSUME MaxFaultsAssumption  == MaxFaults \in Nat
ASSUME ActorsAssumption     == Actors \subseteq AllActors

Batches == 1..NumBatches
Runs    == 1..MaxRuns
NoBatch == 0
NoRun   == 0

BatchStatus == {"ABSENT", "SEARCH_PENDING", "SEARCHING", "WAITING_FOR_REVIEW",
                "READY_TO_CONTINUE", "PROCESSING", "COMPLETE", "FAILED"}
FinalReviewStatus == {"NOT_STARTED", "AWAITING_REVIEW", "FINALIZED"}
ReviewStates      == {"WAITING_FOR_REVIEW", "READY_TO_CONTINUE"}
Membership        == {"no", "old", "new"}       \* "new" is is_new = 1
RunStatus         == {"NONE", "SUCCESS", "EMPTY", "FAILED"}  \* SUCCESS or PARTIAL
Stages     == {"none", "fetch", "fetching", "ready", "ai", "extracting", "post"}
PipelinePc == {"idle", "resolved", "closing", "gate", "cleared", "begun", "hung",
               "finalized", "stages", "swept", "judged", "completed", "refreshed"}

VARIABLES
  job, firstRun,                         \* jobs: columns; run that first saw it
  status, runOf, started, finalState,    \* daily_batches
  member,                                \* daily_batch_jobs
  runStatus, runCount,                   \* search_runs
  dPc, dBatch, dGuarded, dHits,          \* the holder of the discovery lock
  nPc, nBatch, mSeen,                    \* the nightly task; the morning reminder
  pPc, pBatch, pStatus, pQueue, work, pLeft, pSeen,  \* continue_after_review
  rPc, rRow, rTodo, rVerdict, rSeen,     \* reconcile_batch_summaries
  uOp, uTodo, uLast, uSeen,              \* refreshes a portal request still owes
  faults,                                \* faults so far
  touched,   \* history: jobs others changed since a worker read what is left
  slipped,   \* history: hits attached behind the gate's back
  orphaned,  \* history: postings whose first run was lost before its attachment
  outdated   \* history: batches whose last final state was untrue when written

jobVars   == <<job, firstRun>>
batchVars == <<status, runOf, started, finalState, member>>
runVars   == <<runStatus, runCount>>
dVars     == <<dPc, dBatch, dGuarded, dHits>>
nVars     == <<nPc, nBatch, mSeen>>
pVars     == <<pPc, pBatch, pStatus, pQueue, work, pLeft, pSeen>>
rVars     == <<rPc, rRow, rTodo, rVerdict, rSeen>>
uVars     == <<uOp, uTodo, uLast, uSeen>>
notes     == <<slipped, orphaned, outdated>>
ghosts    == <<faults, touched, notes>>
vars      == <<jobVars, batchVars, runVars, dVars, nVars, pVars, rVars, uVars, ghosts>>

RowType == [status : BatchStatus, run : BOOLEAN, started : BOOLEAN]

\* What a refresh has read so far: whether its count left something pending, then
\* whether the status it read afterwards makes the summary "due".
LookType == [batch : 0..NumBatches, pending : BOOLEAN,
             saw : {"nothing", "count", "due", "other"}]
NotLooking == [batch |-> NoBatch, pending |-> FALSE, saw |-> "nothing"]

JobsTypeOK ==
  /\ job \in [Jobs -> JobRow]
  /\ firstRun \in [Jobs -> 0..MaxRuns]

BatchesTypeOK ==
  /\ status \in [Batches -> BatchStatus]
  /\ runOf \in [Batches -> 0..MaxRuns]
  /\ started \in [Batches -> BOOLEAN]
  /\ finalState \in [Batches -> FinalReviewStatus]
  /\ member \in [Batches -> [Jobs -> Membership]]

RunsTypeOK ==
  /\ runStatus \in [Runs -> RunStatus]
  /\ runCount \in 0..MaxRuns

SearchTypeOK ==
  /\ dPc \in {"idle", "created", "searching", "collected", "attached"}
  /\ dBatch \in IF dPc = "idle" THEN {NoBatch} ELSE Batches
  /\ dGuarded \in BOOLEAN
  /\ dHits \subseteq Jobs
  /\ nPc \in {"idle", "probe", "go", "retry"}
  /\ nBatch \in IF nPc = "idle" THEN {NoBatch} ELSE Batches
  /\ mSeen \in LookType

PipelineTypeOK ==
  /\ pPc \in PipelinePc
  /\ pBatch \in IF pPc = "idle" THEN {NoBatch} ELSE Batches
  /\ pStatus \in BatchStatus
  /\ pQueue \subseteq Jobs
  /\ work \in [Jobs -> Stages]
  /\ pLeft \subseteq Jobs
  /\ pSeen \in LookType

ReconcileTypeOK ==
  /\ rPc \in {"idle", "read", "write", "refresh"}
  /\ rRow \in [Batches -> RowType]
  /\ rTodo \subseteq Batches
  /\ rVerdict \in {"ABSENT", "WAITING_FOR_REVIEW", "READY_TO_CONTINUE", "COMPLETE", "FAILED"}
  /\ rPc = "write" => rVerdict # "ABSENT"
  /\ rSeen \in LookType

PortalTypeOK ==
  /\ uOp \in {"none", "final", "mark"}
  /\ uTodo \subseteq Batches
  /\ uLast \in 0..NumBatches
  /\ uSeen \in LookType

GhostTypeOK ==
  /\ faults \in 0..MaxFaults
  /\ touched \subseteq Jobs /\ slipped \subseteq Jobs /\ orphaned \subseteq Jobs
  /\ outdated \subseteq Batches

TypeOK ==
  /\ JobsTypeOK /\ BatchesTypeOK /\ RunsTypeOK /\ SearchTypeOK
  /\ PipelineTypeOK /\ ReconcileTypeOK /\ PortalTypeOK /\ GhostTypeOK

-----------------------------------------------------------------------------
(* Queries over the shared tables.                                         *)

Exists(b)  == status[b] # "ABSENT"
Members(b) == {j \in Jobs : member[b][j] # "no"}
FirstBatchOf(j) ==                                          \* mutant
  {b \in Batches : member[b][j] # "no" /\ \A c \in 1..(b - 1) : member[c][j] = "no"}
BatchesOf(j) == {b \in Batches : member[b][j] # "no"}

\* Newly found titles of a membership table m that nobody has decided yet.
PendingIn(m, rows) == {j \in Jobs : m[j] = "new" /\ AwaitsReview(rows[j])}
PendingReview(b)   == PendingIn(member[b], job)

UnfinishedJobs(b) == {j \in Members(b) : Unfinished(job[j])}
FinalPending(b)   == {j \in Members(b) : AwaitsFinalDecision(job[j])}

HasRun(b)     == runOf[b] # NoRun
Reviewable(b) == HasRun(b) /\ runStatus[runOf[b]] = "SUCCESS"

\* resolve_batch without a date: the batch of the latest reviewable run, else
\* the batch with the latest date.
IsDefault(b) ==
  /\ Exists(b)
  /\ IF \E c \in Batches : Reviewable(c)
     THEN /\ Reviewable(b)
          /\ \A c \in Batches : Reviewable(c) => runOf[c] <= runOf[b]
     ELSE \A c \in Batches : Exists(c) => c <= b

CreatedStatus(b) == IF Exists(b) THEN status[b] ELSE "SEARCH_PENDING"

\* final_review_status as the rows of this moment would have it.
TrueFinalState(b) ==
  IF status[b] # "COMPLETE" THEN "NOT_STARTED"
  ELSE IF FinalPending(b) = {} THEN "FINALIZED" ELSE "AWAITING_REVIEW"

SetStatus(b, s)  == status' = [status EXCEPT ![b] = s]

\* refresh_final_review_state and mark_review_state are three statements each,
\* and no lock spans them: count what is pending, read the status, write.
Looked(seen, b, left, due) ==
  IF seen.saw = "nothing"
  THEN [batch |-> b, pending |-> left # {}, saw |-> "count"]
  ELSE [seen EXCEPT !.saw = IF due THEN "due" ELSE "other"]

FinalLook(seen, b) == Looked(seen, b, FinalPending(b), status[b] = "COMPLETE")
MarkLook(seen, b)  == Looked(seen, b, PendingReview(b), status[b] \in ReviewStates)

Looking(seen)   == seen.saw \in {"nothing", "count"}
HasLooked(seen) == seen.saw \in {"due", "other"}

WriteFinalState(seen) ==
  LET written == IF seen.saw = "other" THEN "NOT_STARTED"
                 ELSE IF seen.pending THEN "AWAITING_REVIEW" ELSE "FINALIZED"
  IN /\ finalState' = [finalState EXCEPT ![seen.batch] = written]
     /\ outdated' = IF written = TrueFinalState(seen.batch)
                    THEN outdated \ {seen.batch} ELSE outdated \cup {seen.batch}

WriteMark(seen) ==
  status' = IF seen.saw = "other" THEN status
            ELSE [status EXCEPT ![seen.batch] = IF seen.pending THEN "WAITING_FOR_REVIEW"
                                                               ELSE "READY_TO_CONTINUE"]

Fault == faults < MaxFaults /\ faults' = faults + 1

\* continue_pipeline is held by the pipeline worker, by a guarded discovery
\* and by the reconcile command.
LockWithoutSearch == pPc = "idle" /\ rPc = "idle"           \* mutant
PipelineLockFree == pPc = "idle" /\ ~dGuarded /\ rPc = "idle"
DiscoveryLockFree == dPc = "idle"

-----------------------------------------------------------------------------
NoWork == [j \in Jobs |-> "none"]
NoRows == [b \in Batches |-> [status |-> "ABSENT", run |-> FALSE, started |-> FALSE]]

DiscoveryIdle ==
  dPc' = "idle" /\ dBatch' = NoBatch /\ dGuarded' = FALSE /\ dHits' = {}

PipelineIdleKeepsBatch ==                                   \* mutant
  /\ pPc' = "idle" /\ pBatch' = pBatch /\ pStatus' = "ABSENT"
  /\ pQueue' = {} /\ work' = NoWork /\ pLeft' = {} /\ pSeen' = NotLooking

PipelineIdle ==
  /\ pPc' = "idle" /\ pBatch' = NoBatch /\ pStatus' = "ABSENT"
  /\ pQueue' = {} /\ work' = NoWork /\ pLeft' = {} /\ pSeen' = NotLooking

ReconcileIdle ==
  /\ rPc' = "idle" /\ rRow' = NoRows /\ rTodo' = {} /\ rVerdict' = "ABSENT"
  /\ rSeen' = NotLooking

Init ==
  /\ job = [j \in Jobs |-> UnknownJob]
  /\ firstRun = [j \in Jobs |-> NoRun]
  /\ status = [b \in Batches |-> "ABSENT"]
  /\ runOf = [b \in Batches |-> NoRun]
  /\ started = [b \in Batches |-> FALSE]
  /\ finalState = [b \in Batches |-> "NOT_STARTED"]
  /\ member = [b \in Batches |-> [j \in Jobs |-> "no"]]
  /\ runStatus = [r \in Runs |-> "NONE"]
  /\ runCount = 0
  /\ dPc = "idle" /\ dBatch = NoBatch /\ dGuarded = FALSE /\ dHits = {}
  /\ nPc = "idle" /\ nBatch = NoBatch /\ mSeen = NotLooking
  /\ pPc = "idle" /\ pBatch = NoBatch /\ pStatus = "ABSENT"
  /\ pQueue = {} /\ work = NoWork /\ pLeft = {} /\ pSeen = NotLooking
  /\ rPc = "idle" /\ rRow = NoRows /\ rTodo = {} /\ rVerdict = "ABSENT"
  /\ rSeen = NotLooking
  /\ uOp = "none" /\ uTodo = {} /\ uLast = NoBatch /\ uSeen = NotLooking
  /\ faults = 0
  /\ touched = {} /\ slipped = {} /\ orphaned = {} /\ outdated = {}

\* The history variable: job rows S changed while a worker holds the result of
\* its last look at what is unfinished.
Touch(S) ==
  touched' = IF pPc = "judged" \/ rPc = "write" THEN touched \cup S ELSE touched

-----------------------------------------------------------------------------
(* Discovery.                                                              *)

\* run_daily_search up to get_or_create_batch.  The afternoon task and the
\* Windows worker hold the pipeline lock (guarded); the command line, the
\* portal on other systems and the nightly task do not.
StartDiscovery(b, guarded) ==
  /\ DiscoveryLockFree
  /\ runCount < MaxRuns
  /\ guarded => PipelineLockFree
  /\ SetStatus(b, CreatedStatus(b))
  /\ dPc' = "created"
  /\ dBatch' = b
  /\ dGuarded' = guarded
  /\ UNCHANGED <<jobVars, runOf, started, finalState, member, runVars, dHits,
                 pVars, rVars, uVars, ghosts>>

GuardedSearch(b) == StartDiscovery(b, TRUE)  /\ UNCHANGED nVars
DirectSearch(b)  == StartDiscovery(b, FALSE) /\ UNCHANGED nVars

MarkSearching ==
  /\ dPc = "created"
  /\ SetStatus(dBatch, "SEARCHING")
  /\ dPc' = "searching"
  /\ UNCHANGED <<jobVars, runOf, started, finalState, member, runVars, dBatch,
                 dGuarded, dHits, nVars, pVars, rVars, uVars, ghosts>>

\* Hits without a row in jobs; the others are only touched.
EveryHit(hits) == hits                                      \* mutant
NewHits(hits)  == {j \in hits : ~Known(job[j])}

\* The collector: one transaction stores the postings and the hits.  A posting
\* seen before keeps everything it has.  A run without hits is EMPTY, or FAILED
\* when a search failed, and is returned all the same.
Collect(hits) ==
  LET run == runCount + 1
      new == NewHits(hits)
  IN /\ dPc = "searching"
     /\ run \in Runs
     /\ \E class \in [new -> ClassifierStatus] :
          job' = [j \in Jobs |-> IF j \in new THEN [job[j] EXCEPT !.class = class[j]]
                                              ELSE job[j]]
     /\ firstRun' = [j \in Jobs |-> IF j \in new THEN run ELSE firstRun[j]]
     /\ \E s \in IF hits = {} THEN {"EMPTY", "FAILED"} ELSE {"SUCCESS"} :
          runStatus' = [runStatus EXCEPT ![run] = s]
     /\ runCount' = run
     /\ dHits' = hits
     /\ dPc' = "collected"
     /\ UNCHANGED <<batchVars, dBatch, dGuarded, nVars, pVars, rVars, uVars, ghosts>>

\* attach_search_run: a member once new stays new; then the status follows from
\* the new pending count.
AttachedAfresh(m) ==                                        \* mutant
  [j \in Jobs |-> IF j \notin dHits THEN m[j]
                  ELSE IF firstRun[j] = runCount THEN "new" ELSE "old"]

Attached(m) ==
  [j \in Jobs |-> IF j \notin dHits THEN m[j]
                  ELSE IF m[j] = "new" \/ firstRun[j] = runCount THEN "new" ELSE "old"]

AttachSearchRun ==
  LET now == Attached(member[dBatch])
  IN /\ dPc = "collected"
     /\ member' = [member EXCEPT ![dBatch] = now]
     /\ SetStatus(dBatch, IF PendingIn(now, job) = {} THEN "READY_TO_CONTINUE"
                                                      ELSE "WAITING_FOR_REVIEW")
     /\ runOf' = [runOf EXCEPT ![dBatch] = runCount]
     /\ Touch(dHits)
     /\ slipped' = IF pPc \in {"gate", "cleared"} /\ dBatch = pBatch /\ ~dGuarded
                   THEN slipped \cup dHits ELSE slipped
     /\ dPc' = "attached"
     /\ UNCHANGED <<jobVars, started, finalState, runVars, dBatch, dGuarded, dHits,
                    nVars, pVars, rVars, uVars, faults, orphaned, outdated>>

\* record_query_metrics and the summary; then the lock is released.
FinishDiscovery ==
  /\ dPc = "attached"
  /\ DiscoveryIdle
  /\ UNCHANGED <<jobVars, batchVars, runVars, nVars, pVars, rVars, uVars, ghosts>>

\* The history variable: a run stored but not yet attached is lost, and with it
\* the "new" mark of the postings it was the first to see.
Orphan ==
  orphaned' = IF dPc = "collected"
              THEN orphaned \cup {j \in dHits : firstRun[j] = runCount} ELSE orphaned

\* Any exception after the batch was marked: the batch is FAILED, whatever
\* was committed stays.
DiscoveryFails ==
  /\ dPc \in {"searching", "collected", "attached"}
  /\ Fault
  /\ SetStatus(dBatch, "FAILED")
  /\ Orphan
  /\ DiscoveryIdle
  /\ UNCHANGED <<jobVars, runOf, started, finalState, member, runVars, nVars, pVars,
                 rVars, uVars, touched, slipped, outdated>>

DiscoveryCrashes ==
  /\ dPc # "idle"
  /\ Fault
  /\ Orphan
  /\ DiscoveryIdle
  /\ UNCHANGED <<jobVars, batchVars, runVars, nVars, pVars, rVars, uVars, touched,
                 slipped, outdated>>

Discovery ==
  \/ \E b \in Batches : GuardedSearch(b)
  \/ "direct" \in Actors /\ \E b \in Batches : DirectSearch(b)
  \/ MarkSearching
  \/ \E hits \in SUBSET Jobs : Collect(hits)
  \/ AttachSearchRun
  \/ FinishDiscovery
  \/ DiscoveryFails
  \/ DiscoveryCrashes

-----------------------------------------------------------------------------
(* The nightly task: it reads the batch row once and decides later.        *)

NightlyWanted(b) ==
  \/ CreatedStatus(b) = "SEARCH_PENDING"
  \/ status[b] = "FAILED" /\ ~Reviewable(b)

NightlyReads(b) ==
  /\ nPc = "idle"
  /\ \/ status[b] = "SEARCHING" /\ nPc' = "probe"
     \/ NightlyWanted(b) /\ nPc' = "go"
  /\ nBatch' = b
  /\ SetStatus(b, CreatedStatus(b))
  /\ UNCHANGED <<jobVars, runOf, started, finalState, member, runVars, dVars, mSeen,
                 pVars, rVars, uVars, ghosts>>

\* The row said SEARCHING: whoever can take the discovery lock now concludes
\* that the search was abandoned.
NightlyProbes ==
  /\ nPc = "probe"
  /\ \/ DiscoveryLockFree /\ nPc' = "retry" /\ UNCHANGED nBatch
     \/ ~DiscoveryLockFree /\ nPc' = "idle" /\ nBatch' = NoBatch
  /\ UNCHANGED <<jobVars, batchVars, runVars, dVars, mSeen, pVars, rVars, uVars, ghosts>>

NightlySearches ==
  /\ nPc \in {"go", "retry"}
  /\ StartDiscovery(nBatch, FALSE)
  /\ nPc' = "idle"
  /\ nBatch' = NoBatch
  /\ UNCHANGED mSeen

NightlyBusy ==
  /\ nPc \in {"go", "retry"}
  /\ ~DiscoveryLockFree
  /\ nPc' = "idle"
  /\ nBatch' = NoBatch
  /\ UNCHANGED <<jobVars, batchVars, runVars, dVars, mSeen, pVars, rVars, uVars, ghosts>>

Nightly ==
  /\ "nightly" \in Actors
  /\ \/ \E b \in Batches : NightlyReads(b)
     \/ NightlyProbes
     \/ NightlySearches
     \/ NightlyBusy

\* morning_review_reminder_task marks the default batch, in a process of its own.
ReminderStarts(b) ==
  /\ mSeen = NotLooking
  /\ IsDefault(b)
  /\ mSeen' = [NotLooking EXCEPT !.batch = b]
  /\ UNCHANGED <<jobVars, batchVars, runVars, dVars, nPc, nBatch, pVars, rVars, uVars,
                 ghosts>>

ReminderLooks ==
  /\ mSeen.batch # NoBatch
  /\ Looking(mSeen)
  /\ mSeen' = MarkLook(mSeen, mSeen.batch)
  /\ UNCHANGED <<jobVars, batchVars, runVars, dVars, nPc, nBatch, pVars, rVars, uVars,
                 ghosts>>

ReminderMarks ==
  /\ HasLooked(mSeen)
  /\ WriteMark(mSeen)
  /\ mSeen' = NotLooking
  /\ UNCHANGED <<jobVars, runOf, started, finalState, member, runVars, dVars, nPc,
                 nBatch, pVars, rVars, uVars, ghosts>>

Reminder ==
  /\ "reminder" \in Actors
  /\ (\E b \in Batches : ReminderStarts(b)) \/ ReminderLooks \/ ReminderMarks

-----------------------------------------------------------------------------
(* The pipeline worker, continue_after_review.                             *)

\* resolve_batch, by date or by default, and the row the later checks use.
Continue(b) ==
  /\ PipelineLockFree
  /\ Exists(b)
  /\ pPc' = "resolved"
  /\ pBatch' = b
  /\ pStatus' = status[b]
  /\ UNCHANGED <<jobVars, batchVars, runVars, dVars, nVars, pQueue, work, pLeft, pSeen,
                 rVars, uVars, ghosts>>

\* A COMPLETE batch with nothing unfinished only has its final state refreshed.
AlreadyComplete ==
  /\ pPc = "resolved"
  /\ pStatus = "COMPLETE"
  /\ UnfinishedJobs(pBatch) = {}
  /\ pPc' = "closing"
  /\ UNCHANGED <<jobVars, batchVars, runVars, dVars, nVars, pBatch, pStatus, pQueue,
                 work, pLeft, pSeen, rVars, uVars, ghosts>>

\* The refresh of its own batch, then the end, or the metrics after COMPLETE.
PipelineLooks ==
  /\ pPc \in {"closing", "completed"}
  /\ Looking(pSeen)
  /\ pSeen' = FinalLook(pSeen, pBatch)
  /\ UNCHANGED <<jobVars, batchVars, runVars, dVars, nVars, pPc, pBatch, pStatus, pQueue,
                 work, pLeft, rVars, uVars, ghosts>>

FinishClosing ==
  /\ pPc = "closing"
  /\ HasLooked(pSeen)
  /\ WriteFinalState(pSeen)
  /\ PipelineIdle
  /\ UNCHANGED <<jobVars, status, runOf, started, member, runVars, dVars, nVars,
                 rVars, uVars, faults, touched, slipped, orphaned>>

\* A COMPLETE batch that has unfinished jobs again is opened for repair.
Reopen ==
  /\ pPc = "resolved"
  /\ pStatus = "COMPLETE"
  /\ UnfinishedJobs(pBatch) # {}
  /\ SetStatus(pBatch, "FAILED")
  /\ pStatus' = "FAILED"
  /\ UNCHANGED <<jobVars, runOf, started, finalState, member, runVars, dVars, nVars,
                 pPc, pBatch, pQueue, work, pLeft, pSeen, rVars, uVars, ghosts>>

GateTrustsStatus ==                                         \* mutant
  /\ pPc = "resolved" /\ pStatus # "COMPLETE"
  /\ pSeen' = [MarkLook(NotLooking, pBatch)
                EXCEPT !.pending = status[pBatch] = "WAITING_FOR_REVIEW"]
  /\ slipped' = {}
  /\ pPc' = "gate"
  /\ UNCHANGED <<jobVars, batchVars, runVars, dVars, nVars, pBatch, pStatus, pQueue,
                 work, pLeft, rVars, uVars, faults, touched, orphaned, outdated>>

\* mark_review_state: the count of undecided titles is the first thing read.
ReviewGate ==
  /\ pPc = "resolved"
  /\ pStatus # "COMPLETE"
  /\ pSeen' = MarkLook(NotLooking, pBatch)
  /\ slipped' = {}
  /\ pPc' = "gate"
  /\ UNCHANGED <<jobVars, batchVars, runVars, dVars, nVars, pBatch, pStatus, pQueue,
                 work, pLeft, rVars, uVars, faults, touched, orphaned, outdated>>

GateLooks ==
  /\ pPc = "gate"
  /\ Looking(pSeen)
  /\ pSeen' = MarkLook(pSeen, pBatch)
  /\ UNCHANGED <<jobVars, batchVars, runVars, dVars, nVars, pPc, pBatch, pStatus, pQueue,
                 work, pLeft, rVars, uVars, ghosts>>

\* PendingReviewError while titles are undecided: it leaves the batch as marked.
GateDecides ==
  /\ pPc = "gate"
  /\ HasLooked(pSeen)
  /\ WriteMark(pSeen)
  /\ \/ pSeen.pending /\ PipelineIdle
     \/ /\ ~pSeen.pending
        /\ pPc' = "cleared"
        /\ pSeen' = NotLooking
        /\ UNCHANGED <<pBatch, pStatus, pQueue, work, pLeft>>
  /\ UNCHANGED <<jobVars, runOf, started, finalState, member, runVars, dVars, nVars,
                 rVars, uVars, ghosts>>

BeginProcessing ==
  /\ pPc = "cleared"
  /\ pQueue' = Members(pBatch)
  /\ SetStatus(pBatch, "PROCESSING")
  /\ started' = [started EXCEPT ![pBatch] = TRUE]
  /\ slipped' = {}
  /\ pPc' = "begun"
  /\ UNCHANGED <<jobVars, runOf, finalState, member, runVars, dVars, nVars, pBatch,
                 pStatus, work, pLeft, pSeen, rVars, uVars, faults, touched, orphaned,
                 outdated>>

\* produce() reads the fetched jobs before the try whose finally ends the stream:
\* when that read raises, the consumer waits for ever, with the lock held.
PipelineHangs ==
  /\ pPc = "begun"
  /\ Fault
  /\ pPc' = "hung"
  /\ UNCHANGED <<jobVars, batchVars, runVars, dVars, nVars, pBatch, pStatus, pQueue,
                 work, pLeft, pSeen, rVars, uVars, touched, notes>>

\* finalize_exhausted_failures: a fetch that failed for the last time is terminal.
FinalizeExhausted ==
  /\ pPc = "begun"
  /\ job' = [j \in Jobs |->
       IF j \in pQueue /\ job[j].details = "FAILED_OR_EMPTY" /\ Exhausted(job[j])
       THEN [job[j] EXCEPT !.details = "UNAVAILABLE"] ELSE job[j]]
  /\ pPc' = "finalized"
  /\ UNCHANGED <<firstRun, batchVars, runVars, dVars, nVars, pBatch, pStatus, pQueue,
                 work, pLeft, pSeen, rVars, uVars, ghosts>>

\* The two queues of run_streaming_pipeline: approved jobs already fetched go to
\* the gate, those without details and with attempts left to the fetcher.
EnterStages ==
  /\ pPc = "finalized"
  /\ work' = [j \in Jobs |->
       IF j \notin pQueue \/ ~Approved(job[j]) THEN "none"
       ELSE IF job[j].details = "FETCHED" THEN "ready"
       ELSE IF Unfetched(job[j]) /\ ~Exhausted(job[j]) THEN "fetch" ELSE "none"]
  /\ pPc' = "stages"
  /\ UNCHANGED <<jobVars, batchVars, runVars, dVars, nVars, pBatch, pStatus, pQueue,
                 pLeft, pSeen, rVars, uVars, ghosts>>

\* What every step of a job through the stages leaves alone.
StageFrame ==
  UNCHANGED <<firstRun, batchVars, runVars, dVars, nVars, pPc, pBatch, pStatus,
              pQueue, pLeft, pSeen, rVars, uVars, touched, notes>>

InStage(j, stage) == pPc = "stages" /\ work[j] = stage
MoveTo(j, stage)  == work' = [work EXCEPT ![j] = stage]

\* mark_attempt is committed before the request, one job at a time.
StartFetch(j) ==
  /\ InStage(j, "fetch")
  /\ \A k \in Jobs : work[k] # "fetching"
  /\ job' = [job EXCEPT ![j].attempts = @ + 1]
  /\ MoveTo(j, "fetching")
  /\ UNCHANGED faults
  /\ StageFrame

FetchDetails(j) ==
  /\ InStage(j, "fetching")
  /\ \E outcome \in {"FETCHED", "UNAVAILABLE", "FAILED_OR_EMPTY"} :
       /\ job' = [job EXCEPT ![j].details = outcome]
       /\ MoveTo(j, IF outcome = "FETCHED" THEN "ready" ELSE "none")
  /\ UNCHANGED faults
  /\ StageFrame

\* The gate evaluates a job once; a verdict it already has is kept.
MetadataGate(j) ==
  /\ InStage(j, "ready")
  /\ IF job[j].gate = ""
     THEN \E verdict \in GateVerdicts(job[j]) :
            job' = [job EXCEPT ![j].gate = verdict]
     ELSE job' = job
  /\ MoveTo(j, IF job'[j].gate = "PASS" THEN "ai" ELSE "none")
  /\ UNCHANGED faults
  /\ StageFrame

\* load_queue for this one job, just before its AI task starts.
LoadForAi(j) ==
  /\ InStage(j, "ai")
  /\ MoveTo(j, IF ReadyForAi(job[j]) THEN "extracting" ELSE "none")
  /\ UNCHANGED <<job, faults>>
  /\ StageFrame

Extract(j) ==
  /\ InStage(j, "extracting")
  /\ job' = [job EXCEPT ![j].ai = "EXTRACTED"]
  /\ MoveTo(j, "post")
  /\ UNCHANGED faults
  /\ StageFrame

\* Post-AI looks at the facts and the rules, not at the gate.
PostAi(j) ==
  /\ InStage(j, "post")
  /\ job' = [job EXCEPT ![j].post = "TERMINAL"]
  /\ MoveTo(j, "none")
  /\ UNCHANGED faults
  /\ StageFrame

\* A fetch left out by the per-run cap or the circuit breaker, AI retries used up,
\* or a swallowed post-AI exception: the job leaves the run as it is, for the next
\* continuation.
StageFails(j) ==
  /\ pPc = "stages"
  /\ work[j] \in {"fetch", "extracting", "post"}
  /\ Fault
  /\ MoveTo(j, "none")
  /\ UNCHANGED job
  /\ StageFrame

\* The last post-AI pass, one transaction, over everything the run had taken.
SweepPostAi ==
  /\ pPc = "stages"
  /\ work = NoWork
  /\ job' = [j \in Jobs |-> IF j \in pQueue /\ MissesPostAi(job[j])
                            THEN [job[j] EXCEPT !.post = "TERMINAL"] ELSE job[j]]
  /\ pPc' = "swept"
  /\ UNCHANGED <<firstRun, batchVars, runVars, dVars, nVars, pBatch, pStatus, pQueue,
                 work, pLeft, pSeen, rVars, uVars, ghosts>>

\* unfinished_pipeline_job_ids over the membership of this moment.
LeftOfQueue == {j \in pQueue : Unfinished(job[j])}           \* mutant
JobsLeft == UnfinishedJobs(pBatch)

Judge ==
  /\ pPc = "swept"
  /\ pLeft' = JobsLeft
  /\ touched' = {}
  /\ pPc' = "judged"
  /\ UNCHANGED <<jobVars, batchVars, runVars, dVars, nVars, pBatch, pStatus, pQueue,
                 work, pSeen, rVars, uVars, faults, notes>>

FinishIncomplete ==
  /\ pPc = "judged"
  /\ pLeft # {}
  /\ SetStatus(pBatch, "FAILED")
  /\ touched' = {}
  /\ PipelineIdle
  /\ UNCHANGED <<jobVars, runOf, started, finalState, member, runVars, dVars, nVars,
                 rVars, uVars, faults, notes>>

FinishComplete ==
  /\ pPc = "judged"
  /\ pLeft = {}
  /\ SetStatus(pBatch, "COMPLETE")
  /\ touched' = {}
  /\ pPc' = "completed"
  /\ UNCHANGED <<jobVars, runOf, started, finalState, member, runVars, dVars, nVars,
                 pBatch, pStatus, pQueue, work, pLeft, pSeen, rVars, uVars, faults,
                 notes>>

RefreshCompleted ==
  /\ pPc = "completed"
  /\ HasLooked(pSeen)
  /\ WriteFinalState(pSeen)
  /\ pPc' = "refreshed"
  /\ pSeen' = NotLooking
  /\ UNCHANGED <<jobVars, status, runOf, started, member, runVars, dVars, nVars, pBatch,
                 pStatus, pQueue, work, pLeft, rVars, uVars, faults, touched, slipped,
                 orphaned>>

\* record_query_metrics and the summary; then the lock is released.
FinishPipeline ==
  /\ pPc = "refreshed"
  /\ PipelineIdle
  /\ UNCHANGED <<jobVars, batchVars, runVars, dVars, nVars, rVars, uVars, ghosts>>

\* The except clause around the stages, the verdict and the metrics.
PipelineFails ==
  /\ pPc \in {"begun", "finalized", "stages", "swept", "judged", "completed", "refreshed"}
  /\ Fault
  /\ SetStatus(pBatch, "FAILED")
  /\ touched' = {}
  /\ PipelineIdle
  /\ UNCHANGED <<jobVars, runOf, started, finalState, member, runVars, dVars, nVars,
                 rVars, uVars, notes>>

\* The process dies; before the try clause an exception has the same effect.
PipelineCrashes ==
  /\ pPc # "idle"
  /\ Fault
  /\ touched' = {}
  /\ PipelineIdle
  /\ UNCHANGED <<jobVars, batchVars, runVars, dVars, nVars, rVars, uVars, notes>>

\* Whoever notices a worker that hangs may kill it; nobody is obliged to.
HungIsKilled ==
  /\ pPc = "hung"
  /\ PipelineIdle
  /\ UNCHANGED <<jobVars, batchVars, runVars, dVars, nVars, rVars, uVars, ghosts>>

StageStep(j) ==
  \/ StartFetch(j) \/ FetchDetails(j) \/ MetadataGate(j) \/ LoadForAi(j)
  \/ Extract(j) \/ PostAi(j) \/ StageFails(j)

\* The steps before the stages.
PipelineOpens ==
  \/ AlreadyComplete \/ Reopen \/ ReviewGate \/ GateLooks \/ GateDecides
  \/ BeginProcessing \/ FinalizeExhausted \/ EnterStages

Pipeline ==
  \/ \E b \in Batches : Continue(b)
  \/ PipelineOpens \/ PipelineHangs
  \/ \E j \in Jobs : StageStep(j)
  \/ SweepPostAi \/ Judge \/ FinishIncomplete \/ FinishComplete
  \/ PipelineLooks \/ FinishClosing \/ RefreshCompleted \/ FinishPipeline
  \/ PipelineFails \/ PipelineCrashes \/ HungIsKilled

-----------------------------------------------------------------------------
(* The reconcile command: one snapshot of all rows, then batch by batch.   *)

Reconcilable(row) ==
  /\ row.status \notin {"ABSENT", "SEARCH_PENDING", "SEARCHING", "PROCESSING"}
  /\ row.status = "FAILED" => row.run \/ row.started

StartReconcile ==
  LET rows == [b \in Batches |->
                 [status |-> status[b], run |-> HasRun(b), started |-> started[b]]]
  IN /\ PipelineLockFree
     /\ \E b \in Batches : Reconcilable(rows[b])
     /\ rRow' = rows
     /\ rTodo' = {b \in Batches : Reconcilable(rows[b])}
     /\ rPc' = "read"
     /\ UNCHANGED <<jobVars, batchVars, runVars, dVars, nVars, pVars, rVerdict, rSeen,
                    uVars, ghosts>>

Turn(b) == b \in rTodo /\ \A c \in rTodo : b <= c

VerdictOfReview(b) ==                                       \* mutant
  IF PendingReview(b) # {} THEN "WAITING_FOR_REVIEW"
  ELSE IF ~rRow[b].started THEN "READY_TO_CONTINUE" ELSE "COMPLETE"

Verdict(b) ==
  IF PendingReview(b) # {} THEN "WAITING_FOR_REVIEW"
  ELSE IF ~rRow[b].started THEN "READY_TO_CONTINUE"
  ELSE IF UnfinishedJobs(b) = {} THEN "COMPLETE" ELSE "FAILED"

ReconcileReads(b) ==
  /\ rPc = "read"
  /\ Turn(b)
  /\ rVerdict' = Verdict(b)
  /\ touched' = {}
  /\ rPc' = "write"
  /\ UNCHANGED <<jobVars, batchVars, runVars, dVars, nVars, pVars, rRow, rTodo, rSeen,
                 uVars, faults, notes>>

ReconcileWrites(b) ==
  /\ rPc = "write"
  /\ Turn(b)
  /\ SetStatus(b, rVerdict)
  /\ touched' = {}
  /\ rPc' = "refresh"
  /\ UNCHANGED <<jobVars, runOf, started, finalState, member, runVars, dVars, nVars,
                 pVars, rRow, rTodo, rVerdict, rSeen, uVars, faults, notes>>

ReconcileLooks(b) ==
  /\ rPc = "refresh"
  /\ Turn(b)
  /\ Looking(rSeen)
  /\ rSeen' = FinalLook(rSeen, b)
  /\ UNCHANGED <<jobVars, batchVars, runVars, dVars, nVars, pVars, rPc, rRow, rTodo,
                 rVerdict, uVars, ghosts>>

ReconcileRefreshes(b) ==
  /\ rPc = "refresh"
  /\ Turn(b)
  /\ HasLooked(rSeen)
  /\ WriteFinalState(rSeen)
  /\ IF rTodo = {b} THEN ReconcileIdle
     ELSE /\ rTodo' = rTodo \ {b}
          /\ rPc' = "read"
          /\ rSeen' = NotLooking
          /\ UNCHANGED <<rRow, rVerdict>>
  /\ UNCHANGED <<jobVars, status, runOf, started, member, runVars, dVars, nVars,
                 pVars, uVars, faults, touched, slipped, orphaned>>

ReconcileCrashes ==
  /\ rPc # "idle"
  /\ Fault
  /\ touched' = {}
  /\ ReconcileIdle
  /\ UNCHANGED <<jobVars, batchVars, runVars, dVars, nVars, pVars, uVars, notes>>

ReconcileStep(b) ==
  ReconcileReads(b) \/ ReconcileWrites(b) \/ ReconcileLooks(b) \/ ReconcileRefreshes(b)

Reconcile ==
  /\ "reconcile" \in Actors
  /\ \/ StartReconcile
     \/ \E b \in Batches : ReconcileStep(b)
     \/ ReconcileCrashes

-----------------------------------------------------------------------------
(* The review portal.  It takes no lock; its handlers run on one event loop, *)
(* one request at a time.                                                    *)

PortalFree == uOp = "none"

\* A request commits, then refreshes the batches it concerns, one by one, and at
\* last, after final decisions, its own batch once more.
Owe(op, S, last) ==
  /\ uOp' = IF S = {} THEN "none" ELSE op
  /\ uTodo' = S
  /\ uLast' = last

\* save_review_decisions, and the exclusion that also adds a rule.
Review(j, decision) ==
  /\ PortalFree
  /\ AwaitsReview(job[j])
  /\ job' = [job EXCEPT ![j].human = decision]
  /\ Touch({j})
  /\ UNCHANGED <<firstRun, batchVars, runVars, dVars, nVars, pVars, rVars, uVars, faults,
                 notes>>

OverrideUntilExtracted(j, decision) ==                         \* mutant
  /\ PortalFree
  /\ Known(job[j]) /\ ~AwaitsReview(job[j])
  /\ job[j].ai = ""
  /\ job[j].human # decision
  /\ job' = [job EXCEPT ![j].human = decision]
  /\ Touch({j})
  /\ Owe("mark", BatchesOf(j), NoBatch)
  /\ UNCHANGED <<firstRun, batchVars, runVars, dVars, nVars, pVars, rVars, uSeen, faults,
                 notes>>

\* save_prefetch_decisions: until its details are fetched, a title decision may
\* be changed.  The review state of the job's batches follows, batch by batch.
OverrideDecision(j, decision) ==
  /\ PortalFree
  /\ Known(job[j]) /\ ~AwaitsReview(job[j])
  /\ Unfetched(job[j])
  /\ job[j].human # decision
  /\ job' = [job EXCEPT ![j].human = decision]
  /\ Touch({j})
  /\ Owe("mark", BatchesOf(j), NoBatch)
  /\ UNCHANGED <<firstRun, batchVars, runVars, dVars, nVars, pVars, rVars, uSeen, faults,
                 notes>>

\* The continue page polls the default batch and marks it.
PageMarks(b) ==
  /\ PortalFree
  /\ IsDefault(b)
  /\ Owe("mark", {b}, NoBatch)
  /\ UNCHANGED <<jobVars, batchVars, runVars, dVars, nVars, pVars, rVars, uSeen, ghosts>>

\* Process All Remaining: approved jobs without details and with attempts left
\* that no continuation of the default batch would reach.
AttachBacklog(b) ==
  LET S == {j \in Jobs : /\ Approved(job[j]) /\ Unfetched(job[j])
                         /\ ~Exhausted(job[j]) /\ member[b][j] = "no"}
  IN /\ PortalFree
     /\ IsDefault(b)
     /\ S # {}
     /\ member' = [member EXCEPT ![b] = [j \in Jobs |-> IF j \in S THEN "old" ELSE @[j]]]
     /\ Touch(S)
     /\ UNCHANGED <<jobVars, status, runOf, started, finalState, runVars, dVars, nVars,
                    pVars, rVars, uVars, faults, notes>>

\* set_final_decisions commits the decision first, then refreshes every batch
\* the job belongs to, each in a transaction of its own.
FinalDecision(b, j) ==
  /\ PortalFree
  /\ status[b] = "COMPLETE"
  /\ j \in Members(b)
  /\ AwaitsFinalDecision(job[j])
  /\ job' = [job EXCEPT ![j].final = "DECIDED"]
  /\ Owe("final", BatchesOf(j), b)
  /\ UNCHANGED <<firstRun, batchVars, runVars, dVars, nVars, pVars, rVars, uSeen, ghosts>>

\* Reapplying the metadata rules walks over every fetched job, one commit each.
ReapplyMetadata(j) ==
  /\ PortalFree
  /\ job[j].details = "FETCHED"
  /\ \E verdict \in GateVerdicts(job[j]) : job' = [job EXCEPT ![j].gate = verdict]
  /\ Touch({j})
  /\ UNCHANGED <<firstRun, batchVars, runVars, dVars, nVars, pVars, rVars, uVars, faults,
                 notes>>

\* Reapplying the post-AI rules is one transaction over every extracted job.
HasMetadata(row) == row.gate # ""                           \* mutant
HasFacts(row)    == row.ai = "EXTRACTED"

ReapplyPostAi ==
  /\ PortalFree
  /\ job' = [j \in Jobs |-> IF HasFacts(job[j])
                            THEN [job[j] EXCEPT !.post = "TERMINAL"] ELSE job[j]]
  /\ Owe("final", {b \in Batches : Exists(b)}, NoBatch)
  /\ UNCHANGED <<firstRun, batchVars, runVars, dVars, nVars, pVars, rVars, uSeen, ghosts>>

\* One of the refreshes the last request still owes.
PortalLooks(b) ==
  /\ b \in uTodo /\ uSeen.batch \in {NoBatch, b}
  /\ Looking(uSeen)
  /\ uSeen' = IF uOp = "final" THEN FinalLook(uSeen, b) ELSE MarkLook(uSeen, b)
  /\ UNCHANGED <<jobVars, batchVars, runVars, dVars, nVars, pVars, rVars, uOp, uTodo,
                 uLast, ghosts>>

PortalWrites(b) ==
  /\ b \in uTodo /\ uSeen.batch = b
  /\ HasLooked(uSeen)
  /\ \/ uOp = "final" /\ WriteFinalState(uSeen) /\ UNCHANGED status
     \/ uOp = "mark" /\ WriteMark(uSeen) /\ UNCHANGED <<finalState, outdated>>
  /\ IF uTodo = {b} /\ uLast # NoBatch THEN Owe(uOp, {uLast}, NoBatch)
     ELSE Owe(uOp, uTodo \ {b}, uLast)
  /\ uSeen' = NotLooking
  /\ UNCHANGED <<jobVars, runOf, started, member, runVars, dVars, nVars, pVars, rVars,
                 faults, touched, slipped, orphaned>>

PortalStops ==
  /\ uOp # "none"
  /\ Fault
  /\ Owe("none", {}, NoBatch)
  /\ uSeen' = NotLooking
  /\ UNCHANGED <<jobVars, batchVars, runVars, dVars, nVars, pVars, rVars, touched, notes>>

Portal ==
  \/ \E j \in Jobs, d \in HumanDecision : Review(j, d)
  \/ "overrides" \in Actors /\ \E j \in Jobs, d \in HumanDecision : OverrideDecision(j, d)
  \/ "page" \in Actors /\ \E b \in Batches : PageMarks(b)
  \/ "backlog" \in Actors /\ \E b \in Batches : AttachBacklog(b)
  \/ \E b \in Batches, j \in Jobs : FinalDecision(b, j)
  \/ "rules" \in Actors /\ \E j \in Jobs : ReapplyMetadata(j)
  \/ "rules" \in Actors /\ ReapplyPostAi
  \/ \E b \in Batches : PortalLooks(b) \/ PortalWrites(b)
  \/ PortalStops

-----------------------------------------------------------------------------
Next == Discovery \/ Nightly \/ Reminder \/ Pipeline \/ Reconcile \/ Portal

Spec == Init /\ [][Next]_vars

\* Scheduling.  Faults are finitely many; whoever started something goes on
\* with it; the user decides every title, and continues every batch again and
\* again until it is complete with nothing left unfinished.  No search is ever
\* obliged to start, and the rules are never obliged to be reapplied.
Fairness ==
  /\ WF_vars(MarkSearching)
  /\ WF_vars(\E hits \in SUBSET Jobs : Collect(hits))
  /\ WF_vars(AttachSearchRun)
  /\ WF_vars(FinishDiscovery)
  /\ \A b \in Batches :
       SF_vars(Continue(b) /\ (status[b] # "COMPLETE" \/ UnfinishedJobs(b) # {}))
  /\ WF_vars(PipelineOpens)
  /\ \A j \in Jobs : WF_vars(StageStep(j))
  /\ WF_vars(SweepPostAi \/ Judge \/ FinishIncomplete \/ FinishComplete)
  /\ WF_vars(PipelineLooks \/ FinishClosing \/ RefreshCompleted \/ FinishPipeline)
  /\ \A b \in Batches : WF_vars(ReconcileStep(b))
  /\ \A j \in Jobs : SF_vars(\E d \in HumanDecision : Review(j, d))
  /\ \A b \in Batches : WF_vars(PortalLooks(b) \/ PortalWrites(b))

FairSpec == Spec /\ Fairness

-----------------------------------------------------------------------------
(* Properties.                                                             *)

\* The columns of a job are filled in pipeline order whoever runs when: no gate
\* verdict without fetched details, no facts before the gate, no proposal
\* without facts, no final decision without a proposal; and only a stored
\* posting is a member of a batch.
WorkOrder ==
  /\ \A j \in Jobs :
       /\ job[j].human # "" \/ job[j].details # "" => Known(job[j])
       /\ job[j].gate # "" => job[j].details = "FETCHED"
       /\ job[j].ai # "" => job[j].gate # ""
       /\ job[j].post # "" => job[j].ai = "EXTRACTED"
       /\ job[j].final # "" => job[j].post = "TERMINAL"
       /\ firstRun[j] # NoRun <=> Known(job[j])
  /\ \A b \in Batches : \A j \in Members(b) : Known(job[j])

\* An excluded title goes no further, also when the exclusion comes while the
\* worker has the job on its list or fetches it: it never passes the gate and is
\* never extracted or proposed (save_prefetch_decisions, the gate's first rule).
ExclusionStops ==
  \A j \in Jobs : job[j].human = "EXCLUDE" =>
    job[j].gate # "PASS" /\ job[j].ai = "" /\ job[j].post = ""

\* Rediscovery, restarts, retries and concurrent portal requests never undo
\* recorded work: a decision, fetched or terminal details, facts, a proposal, a
\* final decision, batch membership and its "new" mark all stay.
KeepsRecordedWork ==
  /\ \A j \in Jobs :
       /\ Known(job[j]) => job'[j].class = job[j].class
       /\ job[j].human # "" => job'[j].human # ""
       /\ ~Unfetched(job[j]) => job'[j].details = job[j].details
       /\ job[j].details # "" => job'[j].details # ""
       /\ job'[j].attempts >= job[j].attempts
       /\ job[j].gate # "" => job'[j].gate # ""
       /\ job[j].ai # "" => job'[j].ai = job[j].ai
       /\ job[j].post # "" => job'[j].post = job[j].post
       /\ job[j].final # "" => job'[j].final = job[j].final
  /\ \A b \in Batches :
       /\ Exists(b) => status'[b] # "ABSENT"
       /\ started[b] => started'[b]
       /\ \A j \in Jobs :
            /\ member[b][j] = "new" => member'[b][j] = "new"
            /\ member[b][j] = "old" => member'[b][j] # "no"

RecordedWorkKept == [][KeepsRecordedWork]_vars

\* A batch is marked COMPLETE only after its stages were started, and every
\* approved member that is unfinished at that moment is one another actor
\* changed after the worker read what was left.
Completes(b) == status[b] # "COMPLETE" /\ status'[b] = "COMPLETE"

CompletesAsJudged ==
  \A b \in Batches : Completes(b) => started[b] /\ UnfinishedJobs(b) \subseteq touched

CompletionIsJudged == [][CompletesAsJudged]_vars

\* Every undecided title that needs a human is a new member of some batch, whose
\* pending count includes it, or about to become one.  The only titles ever lost to
\* that count are those first seen by a run that was stored and, because its worker
\* failed or died right then, never attached; rediscovery, reapplied rules,
\* overrides, the backlog request and every other crash lose none.
ReviewJobsTracked ==
  \A j \in Jobs : AwaitsReview(job[j]) =>
    \/ \E b \in Batches : member[b][j] = "new"
    \/ dPc = "collected" /\ j \in dHits /\ firstRun[j] = runCount
    \/ j \in orphaned

\* A batch enters its stages with an undecided new title only when a search that
\* takes no pipeline lock attached that title to it after the gate had counted: a
\* guarded search never comes between the gate and PROCESSING.
StartsReviewed ==
  \A b \in Batches :
    status[b] # "PROCESSING" /\ status'[b] = "PROCESSING" => PendingReview(b) \subseteq slipped

ProcessingStartsReviewed == [][StartsReviewed]_vars

\* An approved member of a batch that the user keeps continuing does not stay
\* unfinished for ever, with two exceptions: crashes used up its fetch attempts
\* before any outcome was saved (only FAILED_OR_EMPTY is ever finalized), or the
\* pipeline worker hangs and nobody kills it.
SpentUnseen(j) == job[j].details = "" /\ Exhausted(job[j]) /\ work[j] # "fetching"

UnfinishedJobsFinish ==
  \A b \in Batches, j \in Jobs :
    j \in UnfinishedJobs(b)
      ~> j \notin UnfinishedJobs(b) \/ SpentUnseen(j) \/ [](pPc = "hung")

\* A complete batch without an undecided proposal becomes FINALIZED, whichever
\* batch the last decision was made in, unless the last refresh to write had read
\* its count or the status before another process changed them.
FinalizationHappens ==
  \A b \in Batches :
    status[b] = "COMPLETE" /\ FinalPending(b) = {}
      ~> \/ finalState[b] = "FINALIZED" \/ b \in outdated
         \/ status[b] # "COMPLETE" \/ FinalPending(b) # {}

-----------------------------------------------------------------------------
(* The inductive invariant behind the safety properties.                   *)

\* A job in a stage has what the stages before it produce.
StageOrder ==
  \A j \in Jobs :
    /\ work[j] # "none" => pPc = "stages"
    /\ work[j] = "fetch" => Known(job[j]) /\ Unfetched(job[j]) /\ ~Exhausted(job[j])
    /\ work[j] = "fetching" => Known(job[j]) /\ Unfetched(job[j])
    /\ work[j] = "ready" => job[j].details = "FETCHED"
    /\ work[j] = "ai" => job[j].gate # ""
    /\ work[j] = "extracting" => job[j].gate # "" /\ job[j].ai = ""
    /\ work[j] = "post" => job[j].ai = "EXTRACTED"

\* The hits of the run being attached are stored; the batch it fills exists.
StoredHits ==
  /\ dPc = "collected" => \A j \in dHits : Known(job[j])
  /\ pQueue \subseteq {j \in Jobs : Known(job[j])}

\* One holder of the pipeline lock at a time.
LockHolders ==
  /\ pPc = "idle" \/ rPc = "idle"
  /\ dGuarded => dPc # "idle" /\ pPc = "idle" /\ rPc = "idle"

\* The stages of a batch run, and its row is reconciled to COMPLETE, only after
\* pipeline_started_at was set.
StagesStarted ==
  /\ pPc \notin {"idle", "resolved", "closing", "gate", "cleared"} => started[pBatch]
  /\ rPc # "idle" => \A b \in Batches : rRow[b].started => started[b]
  /\ rPc = "write" /\ rVerdict = "COMPLETE" =>
       \A b \in Batches : Turn(b) => rRow[b].started

\* What a worker last read to be left is still all that is left, but for the
\* jobs other actors changed since.
LeftIsKnown ==
  /\ pPc = "judged" => UnfinishedJobs(pBatch) \subseteq pLeft \cup touched
  /\ rPc = "write" /\ rVerdict = "COMPLETE" =>
       \A b \in Batches : Turn(b) => UnfinishedJobs(b) \subseteq touched

\* Every undecided new title of a batch past the gate's count came behind its back.
GateIsCounted ==
  pPc = "cleared" \/ (pPc = "gate" /\ ~pSeen.pending)
    => PendingReview(pBatch) \subseteq slipped

\* Who is looking looks at the batch it works on, and has a batch once it has read.
LooksAimed ==
  /\ mSeen.saw # "nothing" => mSeen.batch # NoBatch
  /\ pSeen.saw # "nothing" => pSeen.batch = pBatch /\ pPc \in {"closing", "gate", "completed"}
  /\ rSeen.saw # "nothing" => rPc = "refresh" /\ Turn(rSeen.batch)
  /\ uSeen.saw # "nothing" => uSeen.batch # NoBatch

Inv ==
  /\ TypeOK /\ WorkOrder /\ StageOrder /\ StoredHits /\ LockHolders
  /\ StagesStarted /\ LeftIsKnown /\ GateIsCounted /\ LooksAimed

-----------------------------------------------------------------------------
(* What the repository says and the code does not keep.                    *)

\* README: final_review_status moves to FINALIZED "after every Post-AI proposal
\* is decided".  Looked at while no worker and no portal request is under way.
FinalizedMeansDecided ==
  pPc = "idle" /\ rPc = "idle" /\ uOp = "none" =>
    \A b \in Batches :
      status[b] = "COMPLETE" /\ finalState[b] = "FINALIZED" => FinalPending(b) = {}

\* README: an interrupted SEARCHING batch is retried only when no discovery
\* worker owns the discovery lock; "Completed search results and active searches
\* are preserved".  A retry must not replace a search that did complete.
CompletedSearchPreserved ==
  [][nPc = "retry" /\ dPc = "idle" /\ dPc' = "created" /\ nPc' = "idle"
       => ~(/\ status[nBatch] \in {"WAITING_FOR_REVIEW", "READY_TO_CONTINUE"}
            /\ Reviewable(nBatch))]_vars
=============================================================================
