--------------------------- MODULE WorkflowProofs ---------------------------
(* Theorems about Workflow, for any jobs, dates, bounds and actors: its      *)
(* types, the inductive invariant and the safety properties that follow from *)
(* it, and, last, that an excluded title goes no further.                    *)
EXTENDS Workflow, TLAPS

USE NumBatchesAssumption, MaxRunsAssumption, MaxFaultsAssumption, MaxAttemptsAssumption
USE DEF Batches, Runs, NoBatch, NoRun

LEMMA RowsAfterUpdate ==
  ASSUME NEW row \in JobRow
  PROVE  /\ \A c \in ClassifierStatus : [row EXCEPT !.class = c] \in JobRow
         /\ [row EXCEPT !.post = "TERMINAL"] \in JobRow
         /\ [row EXCEPT !.details = "UNAVAILABLE"] \in JobRow
  BY DEF JobRow

\* A look is a look, whatever it sees; and what is written after one.
LEMMA LookTypes ==
  /\ NotLooking \in LookType
  /\ \A seen \in LookType, b \in Batches :
       FinalLook(seen, b) \in LookType /\ MarkLook(seen, b) \in LookType
  BY DEF NotLooking, LookType, FinalLook, MarkLook, Looked

LEMMA WrittenTypes ==
  ASSUME BatchesTypeOK, GhostTypeOK, NEW seen, seen.batch \in Batches, WriteFinalState(seen)
  PROVE  finalState' \in [Batches -> FinalReviewStatus] /\ outdated' \subseteq Batches
  <1>1. PICK written \in FinalReviewStatus : finalState' = [finalState EXCEPT ![seen.batch] = written]
    BY DEF WriteFinalState, FinalReviewStatus
  <1>2. outdated' \in {outdated \ {seen.batch}, outdated \cup {seen.batch}}
    BY DEF WriteFinalState
  <1> QED
    BY <1>1, <1>2 DEF BatchesTypeOK, GhostTypeOK

LEMMA MarkedTypes ==
  ASSUME BatchesTypeOK, NEW seen, WriteMark(seen)
  PROVE  status' \in [Batches -> BatchStatus]
  BY DEF WriteMark, BatchesTypeOK, BatchStatus

LEMMA UnknownType == UnknownJob \in JobRow
  <1>1. 0 \in 0..MaxAttempts
    OBVIOUS
  <1> QED
    BY <1>1 DEF UnknownJob, JobRow, Blank

LEMMA InitTypeOK == Init => TypeOK
  <1> SUFFICES ASSUME Init PROVE TypeOK
    OBVIOUS
  <1> USE DEF Init
  <1>1. JobsTypeOK
    BY UnknownType DEF JobsTypeOK
  <1>2. BatchesTypeOK
    BY DEF BatchesTypeOK, BatchStatus, FinalReviewStatus, Membership
  <1>3. RunsTypeOK
    BY DEF RunsTypeOK, RunStatus
  <1>4. SearchTypeOK
    BY LookTypes DEF SearchTypeOK
  <1>5. PipelineTypeOK
    BY LookTypes DEF PipelineTypeOK, PipelinePc, BatchStatus, NoWork, Stages
  <1>6. ReconcileTypeOK
    BY LookTypes DEF ReconcileTypeOK, NoRows, RowType, BatchStatus
  <1>7. PortalTypeOK /\ GhostTypeOK
    BY LookTypes DEF PortalTypeOK, GhostTypeOK
  <1> QED
    BY <1>1, <1>2, <1>3, <1>4, <1>5, <1>6, <1>7 DEF TypeOK

(* One lemma per part: a step that leaves the part's variables alone keeps   *)
(* the part.                                                                *)
LEMMA TypeFrames ==
  /\ JobsTypeOK /\ UNCHANGED jobVars => JobsTypeOK'
  /\ BatchesTypeOK /\ UNCHANGED batchVars => BatchesTypeOK'
  /\ RunsTypeOK /\ UNCHANGED runVars => RunsTypeOK'
  /\ SearchTypeOK /\ UNCHANGED <<dVars, nVars>> => SearchTypeOK'
  /\ PipelineTypeOK /\ UNCHANGED pVars => PipelineTypeOK'
  /\ ReconcileTypeOK /\ UNCHANGED rVars => ReconcileTypeOK'
  /\ PortalTypeOK /\ UNCHANGED uVars => PortalTypeOK'
  /\ GhostTypeOK /\ UNCHANGED ghosts => GhostTypeOK'
  BY DEF JobsTypeOK, BatchesTypeOK, RunsTypeOK, SearchTypeOK, PipelineTypeOK,
         ReconcileTypeOK, PortalTypeOK, GhostTypeOK, jobVars, batchVars, runVars,
         dVars, nVars, pVars, rVars, uVars, ghosts, notes

LEMMA DiscoveryKeepsTypes == TypeOK /\ Discovery => TypeOK'
  <1> SUFFICES ASSUME TypeOK, Discovery PROVE TypeOK'
    OBVIOUS
  <1>1. ASSUME NEW b \in Batches, GuardedSearch(b) PROVE TypeOK'
    <2>1. BatchesTypeOK'
      BY <1>1 DEF TypeOK, BatchesTypeOK, BatchStatus, SetStatus, CreatedStatus,
         batchVars, GuardedSearch, StartDiscovery
    <2>2. SearchTypeOK'
      BY <1>1 DEF TypeOK, SearchTypeOK, nVars, GuardedSearch, StartDiscovery
    <2> QED
      BY <1>1, <2>1, <2>2, TypeFrames DEF TypeOK, GuardedSearch, StartDiscovery
  <1>2. ASSUME NEW b \in Batches, DirectSearch(b) PROVE TypeOK'
    <2>1. BatchesTypeOK'
      BY <1>2 DEF TypeOK, BatchesTypeOK, BatchStatus, SetStatus, CreatedStatus,
         DirectSearch, StartDiscovery
    <2>2. SearchTypeOK'
      BY <1>2 DEF TypeOK, SearchTypeOK, nVars, DirectSearch, StartDiscovery
    <2> QED
      BY <1>2, <2>1, <2>2, TypeFrames DEF TypeOK, DirectSearch, StartDiscovery
  <1>3. ASSUME MarkSearching PROVE TypeOK'
    <2>1. BatchesTypeOK'
      BY <1>3 DEF TypeOK, BatchesTypeOK, BatchStatus, SetStatus, MarkSearching
    <2>2. SearchTypeOK'
      BY <1>3 DEF TypeOK, SearchTypeOK, nVars, MarkSearching
    <2> QED
      BY <1>3, <2>1, <2>2, TypeFrames DEF TypeOK, MarkSearching
  <1>4. ASSUME NEW hits \in SUBSET Jobs, Collect(hits) PROVE TypeOK'
    <2>1. JobsTypeOK'
      <3>1. PICK class \in [{j \in hits : ~Known(job[j])} -> ClassifierStatus] :
              job' = [j \in Jobs |-> IF j \in {i \in hits : ~Known(job[i])}
                                     THEN [job[j] EXCEPT !.class = class[j]] ELSE job[j]]
        BY <1>4 DEF Collect, NewHits
      <3>2. ASSUME NEW j \in Jobs PROVE job'[j] \in JobRow
        <4>1. job[j] \in JobRow
          BY DEF TypeOK, JobsTypeOK
        <4>2. CASE j \in hits /\ ~Known(job[j])
          BY <3>1, <4>1, <4>2, RowsAfterUpdate
        <4>3. CASE ~(j \in hits /\ ~Known(job[j]))
          BY <3>1, <4>1, <4>3
        <4> QED
          BY <4>2, <4>3
      <3> QED
        BY <1>4, <3>1, <3>2 DEF TypeOK, JobsTypeOK, Collect
    <2>2. RunsTypeOK'
      BY <1>4 DEF TypeOK, RunsTypeOK, RunStatus, Collect
    <2>3. SearchTypeOK'
      BY <1>4 DEF TypeOK, SearchTypeOK, nVars, Collect
    <2> QED
      BY <1>4, <2>1, <2>2, <2>3, TypeFrames DEF TypeOK, Collect
  <1>5. ASSUME AttachSearchRun PROVE TypeOK'
    <2>1. BatchesTypeOK'
      BY <1>5 DEF TypeOK, BatchesTypeOK, BatchStatus, SetStatus, Membership,
         RunsTypeOK, SearchTypeOK, Attached, AttachSearchRun
    <2>2. SearchTypeOK'
      BY <1>5 DEF TypeOK, SearchTypeOK, nVars, AttachSearchRun
    <2>3. GhostTypeOK'
      BY <1>5 DEF TypeOK, GhostTypeOK, SearchTypeOK, Touch, AttachSearchRun
    <2> QED
      BY <1>5, <2>1, <2>2, <2>3, TypeFrames DEF TypeOK, AttachSearchRun
  <1>6. ASSUME FinishDiscovery PROVE TypeOK'
    <2>1. SearchTypeOK'
      BY <1>6 DEF TypeOK, SearchTypeOK, nVars, DiscoveryIdle, FinishDiscovery
    <2> QED
      BY <1>6, <2>1, TypeFrames DEF TypeOK, FinishDiscovery
  <1>7. ASSUME DiscoveryFails PROVE TypeOK'
    <2>1. BatchesTypeOK'
      BY <1>7 DEF TypeOK, BatchesTypeOK, BatchStatus, SetStatus, SearchTypeOK,
         DiscoveryFails
    <2>2. SearchTypeOK'
      BY <1>7 DEF TypeOK, SearchTypeOK, nVars, DiscoveryIdle, DiscoveryFails
    <2>3. GhostTypeOK'
      BY <1>7 DEF TypeOK, GhostTypeOK, SearchTypeOK, Fault, Orphan, DiscoveryFails
    <2> QED
      BY <1>7, <2>1, <2>2, <2>3, TypeFrames DEF TypeOK, DiscoveryFails
  <1>8. ASSUME DiscoveryCrashes PROVE TypeOK'
    <2>1. SearchTypeOK'
      BY <1>8 DEF TypeOK, SearchTypeOK, nVars, DiscoveryIdle, DiscoveryCrashes
    <2>2. GhostTypeOK'
      BY <1>8 DEF TypeOK, GhostTypeOK, SearchTypeOK, Fault, Orphan, DiscoveryCrashes, notes
    <2> QED
      BY <1>8, <2>1, <2>2, TypeFrames DEF TypeOK, DiscoveryCrashes
  <1> QED
    BY <1>1, <1>2, <1>3, <1>4, <1>5, <1>6, <1>7, <1>8 DEF Discovery

LEMMA NightlyKeepsTypes == TypeOK /\ Nightly => TypeOK'
  <1> SUFFICES ASSUME TypeOK, Nightly PROVE TypeOK'
    OBVIOUS
  <1>1. ASSUME NEW b \in Batches, NightlyReads(b) PROVE TypeOK'
    <2>1. BatchesTypeOK'
      BY <1>1 DEF TypeOK, BatchesTypeOK, BatchStatus, SetStatus, CreatedStatus,
         NightlyReads
    <2>2. SearchTypeOK'
      BY <1>1 DEF TypeOK, SearchTypeOK, dVars, NightlyReads
    <2> QED
      BY <1>1, <2>1, <2>2, TypeFrames DEF TypeOK, NightlyReads
  <1>2. ASSUME NightlyProbes PROVE TypeOK'
    <2>1. SearchTypeOK'
      BY <1>2 DEF TypeOK, SearchTypeOK, dVars, NightlyProbes
    <2> QED
      BY <1>2, <2>1, TypeFrames DEF TypeOK, NightlyProbes
  <1>3. ASSUME NightlySearches PROVE TypeOK'
    <2>1. BatchesTypeOK'
      BY <1>3 DEF TypeOK, BatchesTypeOK, BatchStatus, SetStatus, CreatedStatus,
         NightlySearches, StartDiscovery
    <2>2. SearchTypeOK'
      BY <1>3 DEF TypeOK, SearchTypeOK, NightlySearches, StartDiscovery
    <2> QED
      BY <1>3, <2>1, <2>2, TypeFrames DEF TypeOK, NightlySearches,
         StartDiscovery
  <1>4. ASSUME NightlyBusy PROVE TypeOK'
    <2>1. SearchTypeOK'
      BY <1>4 DEF TypeOK, SearchTypeOK, dVars, NightlyBusy
    <2> QED
      BY <1>4, <2>1, TypeFrames DEF TypeOK, NightlyBusy
  <1> QED
    BY <1>1, <1>2, <1>3, <1>4 DEF Nightly

LEMMA ReminderKeepsTypes == TypeOK /\ LooksAimed /\ Reminder => TypeOK'
  <1> SUFFICES ASSUME TypeOK, LooksAimed, Reminder PROVE TypeOK'
    OBVIOUS
  <1>0. mSeen \in LookType
    BY DEF TypeOK, SearchTypeOK
  <1>1. ASSUME NEW b \in Batches, ReminderStarts(b) PROVE TypeOK'
    <2>1. mSeen' \in LookType
      <3>1. mSeen' = [batch |-> b, pending |-> FALSE, saw |-> "nothing"]
        BY <1>1 DEF ReminderStarts, NotLooking
      <3> QED
        BY <3>1 DEF LookType
    <2>2. SearchTypeOK'
      BY <1>1, <2>1 DEF TypeOK, SearchTypeOK, dVars, ReminderStarts
    <2> QED
      BY <1>1, <2>2, TypeFrames DEF TypeOK, ReminderStarts
  <1>2. ASSUME ReminderLooks PROVE TypeOK'
    <2>1. mSeen.batch \in Batches
      BY <1>0, <1>2 DEF ReminderLooks, LookType
    <2>2. SearchTypeOK'
      BY <1>0, <1>2, <2>1, LookTypes DEF TypeOK, SearchTypeOK, dVars, ReminderLooks
    <2> QED
      BY <1>2, <2>2, TypeFrames DEF TypeOK, ReminderLooks
  <1>3. ASSUME ReminderMarks PROVE TypeOK'
    <2>1. BatchesTypeOK'
      BY <1>3, MarkedTypes DEF TypeOK, BatchesTypeOK, ReminderMarks
    <2>2. SearchTypeOK'
      BY <1>3, LookTypes DEF TypeOK, SearchTypeOK, dVars, ReminderMarks
    <2> QED
      BY <1>3, <2>1, <2>2, TypeFrames DEF TypeOK, ReminderMarks
  <1> QED
    BY <1>1, <1>2, <1>3 DEF Reminder

LEMMA PipelineKeepsTypes == TypeOK /\ StageOrder /\ LooksAimed /\ Pipeline => TypeOK'
  <1> SUFFICES ASSUME TypeOK, StageOrder, LooksAimed, Pipeline PROVE TypeOK'
    OBVIOUS
  <1>0. ASSUME PipelineIdle PROVE PipelineTypeOK'
    BY <1>0, LookTypes DEF PipelineTypeOK, PipelineIdle, PipelinePc, BatchStatus, NoWork,
       Stages
  <1>a. pPc # "idle" => pBatch \in Batches
    BY DEF TypeOK, PipelineTypeOK
  <1>b. HasLooked(pSeen) => pSeen.batch = pBatch /\ pPc # "idle"
    BY DEF LooksAimed, HasLooked
  <1>1. ASSUME NEW b \in Batches, Continue(b) PROVE TypeOK'
    <2>1. PipelineTypeOK'
      BY <1>1 DEF TypeOK, PipelineTypeOK, BatchesTypeOK, PipelinePc, Continue
    <2> QED
      BY <1>1, <2>1, TypeFrames DEF TypeOK, Continue
  <1>2. ASSUME AlreadyComplete PROVE TypeOK'
    <2>1. PipelineTypeOK'
      BY <1>2 DEF TypeOK, PipelineTypeOK, PipelinePc, AlreadyComplete
    <2> QED
      BY <1>2, <2>1, TypeFrames DEF TypeOK, AlreadyComplete
  <1>3. ASSUME Reopen PROVE TypeOK'
    <2>1. BatchesTypeOK'
      BY <1>3 DEF TypeOK, BatchesTypeOK, BatchStatus, SetStatus, Reopen
    <2>2. PipelineTypeOK'
      BY <1>3 DEF TypeOK, PipelineTypeOK, BatchStatus, PipelinePc, Reopen
    <2> QED
      BY <1>3, <2>1, <2>2, TypeFrames DEF TypeOK, Reopen
  <1>4. ASSUME ReviewGate PROVE TypeOK'
    <2>1. PipelineTypeOK'
      BY <1>4, <1>a, LookTypes DEF TypeOK, PipelineTypeOK, PipelinePc, ReviewGate
    <2>2. GhostTypeOK'
      BY <1>4 DEF TypeOK, GhostTypeOK, ReviewGate
    <2> QED
      BY <1>4, <2>1, <2>2, TypeFrames DEF TypeOK, ReviewGate
  <1>21. ASSUME GateLooks PROVE TypeOK'
    <2>1. PipelineTypeOK'
      BY <1>21, <1>a, LookTypes DEF TypeOK, PipelineTypeOK, PipelinePc, GateLooks
    <2> QED
      BY <1>21, <2>1, TypeFrames DEF TypeOK, GateLooks
  <1>22. ASSUME GateDecides PROVE TypeOK'
    <2>1. BatchesTypeOK'
      BY <1>22, MarkedTypes DEF TypeOK, BatchesTypeOK, GateDecides
    <2>2. PipelineTypeOK'
      <3>1. CASE PipelineIdle
        BY <3>1, <1>0
      <3>2. CASE ~PipelineIdle
        BY <1>22, <3>2, <1>a, LookTypes DEF TypeOK, PipelineTypeOK, PipelinePc, GateDecides
      <3> QED
        BY <3>1, <3>2
    <2> QED
      BY <1>22, <2>1, <2>2, TypeFrames DEF TypeOK, GateDecides
  <1>5. ASSUME BeginProcessing PROVE TypeOK'
    <2>1. BatchesTypeOK'
      BY <1>5 DEF TypeOK, BatchesTypeOK, BatchStatus, SetStatus, BeginProcessing
    <2>2. PipelineTypeOK'
      BY <1>5 DEF TypeOK, PipelineTypeOK, PipelinePc, Members, BeginProcessing
    <2>3. GhostTypeOK'
      BY <1>5 DEF TypeOK, GhostTypeOK, BeginProcessing
    <2> QED
      BY <1>5, <2>1, <2>2, <2>3, TypeFrames DEF TypeOK, BeginProcessing
  <1>23. ASSUME PipelineHangs PROVE TypeOK'
    <2>1. PipelineTypeOK'
      BY <1>23 DEF TypeOK, PipelineTypeOK, PipelinePc, PipelineHangs
    <2>2. GhostTypeOK'
      BY <1>23 DEF TypeOK, GhostTypeOK, Fault, PipelineHangs, notes
    <2> QED
      BY <1>23, <2>1, <2>2, TypeFrames DEF TypeOK, PipelineHangs
  <1>24. ASSUME FinalizeExhausted PROVE TypeOK'
    <2>1. ASSUME NEW j \in Jobs PROVE job'[j] \in JobRow
      <3>1. job[j] \in JobRow
        BY DEF TypeOK, JobsTypeOK
      <3>2. job'[j] \in {job[j], [job[j] EXCEPT !.details = "UNAVAILABLE"]}
        BY <1>24 DEF FinalizeExhausted
      <3> QED
        BY <3>1, <3>2, RowsAfterUpdate
    <2>2. JobsTypeOK'
      BY <1>24, <2>1 DEF TypeOK, JobsTypeOK, FinalizeExhausted
    <2>3. PipelineTypeOK'
      BY <1>24 DEF TypeOK, PipelineTypeOK, PipelinePc, FinalizeExhausted
    <2> QED
      BY <1>24, <2>2, <2>3, TypeFrames DEF TypeOK, FinalizeExhausted
  <1>6. ASSUME EnterStages PROVE TypeOK'
    <2>1. PipelineTypeOK'
      BY <1>6 DEF TypeOK, PipelineTypeOK, PipelinePc, Stages, EnterStages
    <2> QED
      BY <1>6, <2>1, TypeFrames DEF TypeOK, EnterStages
  <1>25. ASSUME NEW j \in Jobs, StartFetch(j) PROVE TypeOK'
    <2>1. JobsTypeOK'
      <3>1. job[j] \in JobRow /\ ~Exhausted(job[j])
        BY <1>25 DEF TypeOK, JobsTypeOK, StartFetch, InStage, StageOrder
      <3>2. job[j].attempts + 1 \in 0..MaxAttempts
        BY <3>1 DEF JobRow, Exhausted
      <3>3. [job[j] EXCEPT !.attempts = job[j].attempts + 1] \in JobRow
        BY <3>1, <3>2 DEF JobRow
      <3> QED
        BY <1>25, <3>3 DEF TypeOK, JobsTypeOK, StartFetch, StageFrame
    <2>2. PipelineTypeOK'
      BY <1>25 DEF TypeOK, PipelineTypeOK, MoveTo, Stages, StartFetch, StageFrame
    <2>3. GhostTypeOK'
      BY <1>25 DEF TypeOK, GhostTypeOK, notes, StartFetch, StageFrame
    <2> QED
      BY <1>25, <2>1, <2>2, <2>3, TypeFrames DEF TypeOK, StartFetch, StageFrame
  <1>7. ASSUME NEW j \in Jobs, FetchDetails(j) PROVE TypeOK'
    <2>1. JobsTypeOK'
      BY <1>7 DEF TypeOK, JobsTypeOK, JobRow, jobVars, FetchDetails, StageFrame
    <2>2. PipelineTypeOK'
      BY <1>7 DEF TypeOK, PipelineTypeOK, MoveTo, Stages, pVars, FetchDetails,
         StageFrame
    <2>3. GhostTypeOK'
      BY <1>7 DEF TypeOK, GhostTypeOK, notes, FetchDetails, StageFrame
    <2> QED
      BY <1>7, <2>1, <2>2, <2>3, TypeFrames DEF TypeOK, FetchDetails, StageFrame
  <1>8. ASSUME NEW j \in Jobs, MetadataGate(j) PROVE TypeOK'
    <2>1. JobsTypeOK'
      <3>1. CASE job[j].gate = ""
        <4>1. PICK verdict \in GateStatus : job' = [job EXCEPT ![j].gate = verdict]
          BY <1>8, <3>1 DEF MetadataGate, GateVerdicts, GateStatus
        <4>2. job[j] \in JobRow
          BY DEF TypeOK, JobsTypeOK
        <4>3. [job[j] EXCEPT !.gate = verdict] \in JobRow
          BY <4>2 DEF JobRow
        <4>4. UNCHANGED firstRun
          BY <1>8 DEF MetadataGate, StageFrame
        <4> QED
          BY <4>1, <4>3, <4>4 DEF TypeOK, JobsTypeOK
      <3>2. CASE job[j].gate # ""
        BY <1>8, <3>2 DEF TypeOK, JobsTypeOK, MetadataGate, StageFrame
      <3> QED
        BY <3>1, <3>2
    <2>2. PipelineTypeOK'
      BY <1>8 DEF TypeOK, PipelineTypeOK, MoveTo, Stages, MetadataGate,
         StageFrame
    <2>3. GhostTypeOK'
      BY <1>8 DEF TypeOK, GhostTypeOK, notes, MetadataGate, StageFrame
    <2> QED
      BY <1>8, <2>1, <2>2, <2>3, TypeFrames DEF TypeOK, MetadataGate, StageFrame
  <1>9. ASSUME NEW j \in Jobs, LoadForAi(j) PROVE TypeOK'
    <2>1. JobsTypeOK'
      BY <1>9 DEF TypeOK, JobsTypeOK, LoadForAi, StageFrame
    <2>2. PipelineTypeOK'
      BY <1>9 DEF TypeOK, PipelineTypeOK, MoveTo, Stages, LoadForAi, StageFrame
    <2>3. GhostTypeOK'
      BY <1>9 DEF TypeOK, GhostTypeOK, notes, LoadForAi, StageFrame
    <2> QED
      BY <1>9, <2>1, <2>2, <2>3, TypeFrames DEF TypeOK, LoadForAi, StageFrame
  <1>10. ASSUME NEW j \in Jobs, Extract(j) PROVE TypeOK'
    <2>1. JobsTypeOK'
      BY <1>10 DEF TypeOK, JobsTypeOK, JobRow, Extract, StageFrame
    <2>2. PipelineTypeOK'
      BY <1>10 DEF TypeOK, PipelineTypeOK, MoveTo, Stages, Extract, StageFrame
    <2>3. GhostTypeOK'
      BY <1>10 DEF TypeOK, GhostTypeOK, notes, Extract, StageFrame
    <2> QED
      BY <1>10, <2>1, <2>2, <2>3, TypeFrames DEF TypeOK, Extract, StageFrame
  <1>11. ASSUME NEW j \in Jobs, PostAi(j) PROVE TypeOK'
    <2>1. JobsTypeOK'
      BY <1>11 DEF TypeOK, JobsTypeOK, JobRow, PostAi, StageFrame
    <2>2. PipelineTypeOK'
      BY <1>11 DEF TypeOK, PipelineTypeOK, MoveTo, Stages, PostAi, StageFrame
    <2>3. GhostTypeOK'
      BY <1>11 DEF TypeOK, GhostTypeOK, notes, PostAi, StageFrame
    <2> QED
      BY <1>11, <2>1, <2>2, <2>3, TypeFrames DEF TypeOK, PostAi, StageFrame
  <1>12. ASSUME NEW j \in Jobs, StageFails(j) PROVE TypeOK'
    <2>1. JobsTypeOK'
      BY <1>12 DEF TypeOK, JobsTypeOK, StageFails, StageFrame
    <2>2. PipelineTypeOK'
      BY <1>12 DEF TypeOK, PipelineTypeOK, MoveTo, Stages, StageFails,
         StageFrame
    <2>3. GhostTypeOK'
      BY <1>12 DEF TypeOK, GhostTypeOK, notes, Fault, StageFails, StageFrame
    <2> QED
      BY <1>12, <2>1, <2>2, <2>3, TypeFrames DEF TypeOK, StageFails, StageFrame
  <1>13. ASSUME SweepPostAi PROVE TypeOK'
    <2>1. JobsTypeOK'
      BY <1>13 DEF TypeOK, JobsTypeOK, JobRow, SweepPostAi
    <2>2. PipelineTypeOK'
      BY <1>13 DEF TypeOK, PipelineTypeOK, PipelinePc, SweepPostAi
    <2> QED
      BY <1>13, <2>1, <2>2, TypeFrames DEF TypeOK, SweepPostAi
  <1>14. ASSUME Judge PROVE TypeOK'
    <2>1. PipelineTypeOK'
      BY <1>14 DEF TypeOK, PipelineTypeOK, PipelinePc, JobsLeft, UnfinishedJobs,
         Members, Judge
    <2>2. GhostTypeOK'
      BY <1>14 DEF TypeOK, GhostTypeOK, notes, Judge
    <2> QED
      BY <1>14, <2>1, <2>2, TypeFrames DEF TypeOK, Judge
  <1>15. ASSUME FinishIncomplete PROVE TypeOK'
    <2>1. BatchesTypeOK'
      BY <1>15 DEF TypeOK, BatchesTypeOK, BatchStatus, SetStatus,
         FinishIncomplete
    <2>2. PipelineTypeOK'
      BY <1>15, <1>0 DEF FinishIncomplete
    <2>3. GhostTypeOK'
      BY <1>15 DEF TypeOK, GhostTypeOK, notes, FinishIncomplete
    <2> QED
      BY <1>15, <2>1, <2>2, <2>3, TypeFrames DEF TypeOK, FinishIncomplete
  <1>16. ASSUME FinishComplete PROVE TypeOK'
    <2>1. BatchesTypeOK'
      BY <1>16 DEF TypeOK, BatchesTypeOK, BatchStatus, SetStatus, FinishComplete
    <2>2. PipelineTypeOK'
      BY <1>16 DEF TypeOK, PipelineTypeOK, PipelinePc, FinishComplete
    <2>3. GhostTypeOK'
      BY <1>16 DEF TypeOK, GhostTypeOK, notes, FinishComplete
    <2> QED
      BY <1>16, <2>1, <2>2, <2>3, TypeFrames DEF TypeOK, FinishComplete
  <1>17. ASSUME RefreshCompleted PROVE TypeOK'
    <2>1. BatchesTypeOK' /\ GhostTypeOK'
      BY <1>17, <1>a, <1>b, WrittenTypes DEF TypeOK, BatchesTypeOK, GhostTypeOK,
         RefreshCompleted
    <2>2. PipelineTypeOK'
      BY <1>17, LookTypes DEF TypeOK, PipelineTypeOK, PipelinePc, RefreshCompleted
    <2> QED
      BY <1>17, <2>1, <2>2, TypeFrames DEF TypeOK, RefreshCompleted
  <1>26. ASSUME PipelineLooks PROVE TypeOK'
    <2>1. PipelineTypeOK'
      BY <1>26, <1>a, LookTypes DEF TypeOK, PipelineTypeOK, PipelinePc, PipelineLooks
    <2> QED
      BY <1>26, <2>1, TypeFrames DEF TypeOK, PipelineLooks
  <1>27. ASSUME FinishClosing PROVE TypeOK'
    <2>1. BatchesTypeOK' /\ GhostTypeOK'
      BY <1>27, <1>a, <1>b, WrittenTypes DEF TypeOK, BatchesTypeOK, GhostTypeOK,
         FinishClosing
    <2>2. PipelineTypeOK'
      BY <1>27, <1>0 DEF FinishClosing
    <2> QED
      BY <1>27, <2>1, <2>2, TypeFrames DEF TypeOK, FinishClosing
  <1>28. ASSUME HungIsKilled PROVE TypeOK'
    <2>1. PipelineTypeOK'
      BY <1>28, <1>0 DEF HungIsKilled
    <2> QED
      BY <1>28, <2>1, TypeFrames DEF TypeOK, HungIsKilled
  <1>18. ASSUME FinishPipeline PROVE TypeOK'
    <2>1. PipelineTypeOK'
      BY <1>18, <1>0 DEF FinishPipeline
    <2> QED
      BY <1>18, <2>1, TypeFrames DEF TypeOK, FinishPipeline
  <1>19. ASSUME PipelineFails PROVE TypeOK'
    <2>1. BatchesTypeOK'
      BY <1>19 DEF TypeOK, BatchesTypeOK, BatchStatus, SetStatus, PipelineFails
    <2>2. PipelineTypeOK'
      BY <1>19, <1>0 DEF PipelineFails
    <2>3. GhostTypeOK'
      BY <1>19 DEF TypeOK, GhostTypeOK, notes, Fault, PipelineFails
    <2> QED
      BY <1>19, <2>1, <2>2, <2>3, TypeFrames DEF TypeOK, PipelineFails
  <1>20. ASSUME PipelineCrashes PROVE TypeOK'
    <2>1. PipelineTypeOK'
      BY <1>20, <1>0 DEF PipelineCrashes
    <2>2. GhostTypeOK'
      BY <1>20 DEF TypeOK, GhostTypeOK, notes, Fault, PipelineCrashes
    <2> QED
      BY <1>20, <2>1, <2>2, TypeFrames DEF TypeOK, PipelineCrashes
  <1> QED
    BY <1>1, <1>2, <1>3, <1>4, <1>5, <1>6, <1>7, <1>8, <1>9, <1>10, <1>11, <1>12, <1>13,
       <1>14, <1>15, <1>16, <1>17, <1>18, <1>19, <1>20, <1>21, <1>22, <1>23, <1>24, <1>25,
       <1>26, <1>27, <1>28 DEF Pipeline, PipelineOpens, StageStep

LEMMA ReconcileKeepsTypes == TypeOK /\ LooksAimed /\ Reconcile => TypeOK'
  <1> SUFFICES ASSUME TypeOK, LooksAimed, Reconcile PROVE TypeOK'
    OBVIOUS
  <1>1. ASSUME StartReconcile PROVE TypeOK'
    <2>1. ReconcileTypeOK'
      BY <1>1 DEF TypeOK, ReconcileTypeOK, RowType, BatchesTypeOK, BatchStatus,
         HasRun, StartReconcile
    <2> QED
      BY <1>1, <2>1, TypeFrames DEF TypeOK, StartReconcile
  <1>2. ASSUME NEW b \in Batches, ReconcileReads(b) PROVE TypeOK'
    <2>1. ReconcileTypeOK'
      BY <1>2 DEF TypeOK, ReconcileTypeOK, Verdict, BatchStatus, ReconcileReads
    <2>2. GhostTypeOK'
      BY <1>2 DEF TypeOK, GhostTypeOK, notes, ReconcileReads
    <2> QED
      BY <1>2, <2>1, <2>2, TypeFrames DEF TypeOK, ReconcileReads
  <1>3. ASSUME NEW b \in Batches, ReconcileWrites(b) PROVE TypeOK'
    <2>1. BatchesTypeOK'
      BY <1>3 DEF TypeOK, BatchesTypeOK, BatchStatus, SetStatus,
         ReconcileTypeOK, ReconcileWrites
    <2>2. ReconcileTypeOK'
      BY <1>3 DEF TypeOK, ReconcileTypeOK, ReconcileWrites
    <2>3. GhostTypeOK'
      BY <1>3 DEF TypeOK, GhostTypeOK, notes, ReconcileWrites
    <2> QED
      BY <1>3, <2>1, <2>2, <2>3, TypeFrames DEF TypeOK, ReconcileWrites
  <1>6. ASSUME NEW b \in Batches, ReconcileLooks(b) PROVE TypeOK'
    <2>1. ReconcileTypeOK'
      BY <1>6, LookTypes DEF TypeOK, ReconcileTypeOK, ReconcileLooks
    <2> QED
      BY <1>6, <2>1, TypeFrames DEF TypeOK, ReconcileLooks
  <1>4. ASSUME NEW b \in Batches, ReconcileRefreshes(b) PROVE TypeOK'
    <2>0. rSeen.batch \in Batches
      BY <1>4 DEF ReconcileRefreshes, HasLooked, LooksAimed, Turn, TypeOK, ReconcileTypeOK
    <2>1. BatchesTypeOK' /\ GhostTypeOK'
      BY <1>4, <2>0, WrittenTypes DEF TypeOK, BatchesTypeOK, GhostTypeOK, ReconcileRefreshes
    <2>2. ReconcileTypeOK'
      <3>1. CASE rTodo = {b}
        <4>1. ReconcileIdle
          BY <1>4, <3>1 DEF ReconcileRefreshes
        <4> QED
          BY <4>1, LookTypes DEF ReconcileTypeOK, ReconcileIdle, NoRows, RowType, BatchStatus
      <3>2. CASE rTodo # {b}
        BY <1>4, <3>2, LookTypes DEF TypeOK, ReconcileTypeOK, ReconcileRefreshes
      <3> QED
        BY <3>1, <3>2
    <2> QED
      BY <1>4, <2>1, <2>2, TypeFrames DEF TypeOK, ReconcileRefreshes
  <1>5. ASSUME ReconcileCrashes PROVE TypeOK'
    <2>1. ReconcileTypeOK'
      BY <1>5, LookTypes DEF TypeOK, ReconcileTypeOK, ReconcileIdle, NoRows, RowType,
         BatchStatus, ReconcileCrashes
    <2>2. GhostTypeOK'
      BY <1>5 DEF TypeOK, GhostTypeOK, notes, Fault, ReconcileCrashes
    <2> QED
      BY <1>5, <2>1, <2>2, TypeFrames DEF TypeOK, ReconcileCrashes
  <1> QED
    BY <1>1, <1>2, <1>3, <1>4, <1>5, <1>6 DEF Reconcile, ReconcileStep

LEMMA PortalKeepsTypes == TypeOK /\ Portal => TypeOK'
  <1> SUFFICES ASSUME TypeOK, Portal PROVE TypeOK'
    OBVIOUS
  <1>1. ASSUME NEW j \in Jobs, NEW d \in HumanDecision, Review(j, d) PROVE TypeOK'
    <2>1. JobsTypeOK'
      BY <1>1 DEF TypeOK, JobsTypeOK, JobRow, HumanDecision, Review
    <2>2. GhostTypeOK'
      BY <1>1 DEF TypeOK, GhostTypeOK, notes, Touch, Review
    <2> QED
      BY <1>1, <2>1, <2>2, TypeFrames DEF TypeOK, Review
  <1>2. ASSUME NEW j \in Jobs, NEW d \in HumanDecision, OverrideDecision(j, d) PROVE TypeOK'
    <2>1. JobsTypeOK'
      BY <1>2 DEF TypeOK, JobsTypeOK, JobRow, HumanDecision, OverrideDecision
    <2>2. PortalTypeOK'
      BY <1>2 DEF TypeOK, PortalTypeOK, Owe, BatchesOf, OverrideDecision
    <2>3. GhostTypeOK'
      BY <1>2 DEF TypeOK, GhostTypeOK, notes, Touch, OverrideDecision
    <2> QED
      BY <1>2, <2>1, <2>2, <2>3, TypeFrames DEF TypeOK, OverrideDecision
  <1>3. ASSUME NEW b \in Batches, PageMarks(b) PROVE TypeOK'
    <2>1. PortalTypeOK'
      BY <1>3 DEF TypeOK, PortalTypeOK, Owe, PageMarks
    <2> QED
      BY <1>3, <2>1, TypeFrames DEF TypeOK, PageMarks
  <1>4. ASSUME NEW b \in Batches, AttachBacklog(b) PROVE TypeOK'
    <2>1. PICK S \in SUBSET Jobs :
            /\ member' = [member EXCEPT ![b] = [j \in Jobs |-> IF j \in S THEN "old" ELSE @[j]]]
            /\ Touch(S)
      BY <1>4 DEF AttachBacklog
    <2>2. BatchesTypeOK'
      BY <1>4, <2>1 DEF TypeOK, BatchesTypeOK, Membership, AttachBacklog
    <2>3. GhostTypeOK'
      BY <1>4, <2>1 DEF TypeOK, GhostTypeOK, notes, Touch, AttachBacklog
    <2> QED
      BY <1>4, <2>2, <2>3, TypeFrames DEF TypeOK, AttachBacklog
  <1>5. ASSUME NEW b \in Batches, NEW j \in Jobs, FinalDecision(b, j) PROVE TypeOK'
    <2>1. JobsTypeOK'
      BY <1>5 DEF TypeOK, JobsTypeOK, JobRow, FinalDecision
    <2>2. PortalTypeOK'
      BY <1>5 DEF TypeOK, PortalTypeOK, Owe, BatchesOf, FinalDecision
    <2> QED
      BY <1>5, <2>1, <2>2, TypeFrames DEF TypeOK, FinalDecision
  <1>6. ASSUME NEW j \in Jobs, ReapplyMetadata(j) PROVE TypeOK'
    <2>1. JobsTypeOK'
      BY <1>6 DEF TypeOK, JobsTypeOK, JobRow, GateVerdicts, GateStatus,
         ReapplyMetadata
    <2>2. GhostTypeOK'
      BY <1>6 DEF TypeOK, GhostTypeOK, notes, Touch, ReapplyMetadata
    <2> QED
      BY <1>6, <2>1, <2>2, TypeFrames DEF TypeOK, ReapplyMetadata
  <1>7. ASSUME ReapplyPostAi PROVE TypeOK'
    <2>1. JobsTypeOK'
      <3>1. ASSUME NEW j \in Jobs PROVE job'[j] \in JobRow
        <4>1. job[j] \in JobRow
          BY DEF TypeOK, JobsTypeOK
        <4>2. job'[j] = IF HasFacts(job[j]) THEN [job[j] EXCEPT !.post = "TERMINAL"]
                                            ELSE job[j]
          BY <1>7 DEF ReapplyPostAi
        <4> QED
          BY <4>1, <4>2, RowsAfterUpdate
      <3> QED
        BY <1>7, <3>1 DEF TypeOK, JobsTypeOK, ReapplyPostAi
    <2>2. PortalTypeOK'
      BY <1>7 DEF TypeOK, PortalTypeOK, Owe, ReapplyPostAi
    <2> QED
      BY <1>7, <2>1, <2>2, TypeFrames DEF TypeOK, ReapplyPostAi
  <1>8. ASSUME NEW b \in Batches, PortalLooks(b) PROVE TypeOK'
    <2>1. PortalTypeOK'
      BY <1>8, LookTypes DEF TypeOK, PortalTypeOK, PortalLooks
    <2> QED
      BY <1>8, <2>1, TypeFrames DEF TypeOK, PortalLooks
  <1>10. ASSUME NEW b \in Batches, PortalWrites(b) PROVE TypeOK'
    <2>1. BatchesTypeOK' /\ GhostTypeOK'
      BY <1>10, WrittenTypes, MarkedTypes DEF TypeOK, BatchesTypeOK, GhostTypeOK,
         PortalWrites
    <2>2. PortalTypeOK'
      <3>1. uTodo \ {b} \subseteq Batches /\ (uLast # NoBatch => uLast \in Batches)
        BY DEF TypeOK, PortalTypeOK
      <3>2. uSeen' \in LookType
        BY <1>10, LookTypes DEF PortalWrites
      <3>3. uOp \in {"none", "final", "mark"} /\ uLast \in 0..NumBatches
        BY DEF TypeOK, PortalTypeOK
      <3>4. CASE uTodo = {b} /\ uLast # NoBatch
        BY <1>10, <3>1, <3>2, <3>3, <3>4 DEF PortalTypeOK, Owe, PortalWrites
      <3>5. CASE ~(uTodo = {b} /\ uLast # NoBatch)
        BY <1>10, <3>1, <3>2, <3>3, <3>5 DEF PortalTypeOK, Owe, PortalWrites
      <3> QED
        BY <3>4, <3>5
    <2> QED
      BY <1>10, <2>1, <2>2, TypeFrames DEF TypeOK, PortalWrites
  <1>9. ASSUME PortalStops PROVE TypeOK'
    <2>1. PortalTypeOK'
      BY <1>9, LookTypes DEF TypeOK, PortalTypeOK, Owe, PortalStops
    <2>2. GhostTypeOK'
      BY <1>9 DEF TypeOK, GhostTypeOK, notes, Fault, PortalStops
    <2> QED
      BY <1>9, <2>1, <2>2, TypeFrames DEF TypeOK, PortalStops
  <1> QED
    BY <1>1, <1>2, <1>3, <1>4, <1>5, <1>6, <1>7, <1>8, <1>9, <1>10 DEF Portal

LEMMA NextTypeOK == TypeOK /\ StageOrder /\ LooksAimed /\ [Next]_vars => TypeOK'
  <1>1. TypeOK /\ UNCHANGED vars => TypeOK'
    BY TypeFrames DEF TypeOK, vars
  <1> QED
    BY <1>1, DiscoveryKeepsTypes, NightlyKeepsTypes, ReminderKeepsTypes, PipelineKeepsTypes,
       ReconcileKeepsTypes, PortalKeepsTypes DEF Next

-----------------------------------------------------------------------------
(* The inductive invariant.                                                  *)

(* What each actor leaves alone.                                            *)
LEMMA ActorFrames ==
  /\ Discovery => UNCHANGED <<started, finalState, pVars, rVars, uVars>>
  /\ Nightly => UNCHANGED <<jobVars, started, finalState, member, runVars, pVars, rVars,
                            uVars>>
  /\ Reminder => UNCHANGED <<jobVars, runOf, started, finalState, member, runVars, dVars,
                             pVars, rVars, uVars, ghosts>>
  /\ Pipeline => UNCHANGED <<firstRun, runOf, member, runVars, dVars, nVars, rVars, uVars>>
  /\ Reconcile => UNCHANGED <<jobVars, runOf, started, member, runVars, dVars, nVars,
                              pVars, uVars>>
  /\ Portal => UNCHANGED <<firstRun, runOf, started, runVars, dVars, nVars, pVars, rVars>>
  <1>1. Discovery => UNCHANGED <<started, finalState, pVars, rVars, uVars>>
    BY DEF Discovery, GuardedSearch, DirectSearch, StartDiscovery, MarkSearching, Collect,
           AttachSearchRun, FinishDiscovery, DiscoveryFails, DiscoveryCrashes, batchVars
  <1>2. Nightly => UNCHANGED <<jobVars, started, finalState, member, runVars, pVars, rVars,
                               uVars>>
    BY DEF Nightly, NightlyReads, NightlyProbes, NightlySearches, NightlyBusy,
           StartDiscovery, batchVars
  <1>6. Reminder => UNCHANGED <<jobVars, runOf, started, finalState, member, runVars, dVars,
                                pVars, rVars, uVars, ghosts>>
    BY DEF Reminder, ReminderStarts, ReminderLooks, ReminderMarks, batchVars
  <1>3. Pipeline => UNCHANGED <<firstRun, runOf, member, runVars, dVars, nVars, rVars, uVars>>
    BY DEF Pipeline, PipelineOpens, PipelineLooks, FinishClosing, PipelineHangs,
       HungIsKilled, FinalizeExhausted, Continue, AlreadyComplete, Reopen, ReviewGate,
       GateLooks, GateDecides, BeginProcessing, EnterStages, StageStep, StartFetch,
       FetchDetails, MetadataGate, LoadForAi, Extract, PostAi, StageFails, StageFrame,
       SweepPostAi, Judge, FinishIncomplete, FinishComplete, RefreshCompleted,
       FinishPipeline, PipelineFails, PipelineCrashes, batchVars, jobVars
  <1>4. Reconcile => UNCHANGED <<jobVars, runOf, started, member, runVars, dVars, nVars,
                                 pVars, uVars>>
    BY DEF Reconcile, ReconcileStep, ReconcileLooks, StartReconcile, ReconcileReads,
       ReconcileWrites, ReconcileRefreshes, ReconcileCrashes, batchVars
  <1>5. Portal => UNCHANGED <<firstRun, runOf, started, runVars, dVars, nVars, pVars, rVars>>
    BY DEF Portal, Review, OverrideDecision, PageMarks, AttachBacklog, FinalDecision,
       ReapplyMetadata, ReapplyPostAi, PortalLooks, PortalWrites, PortalStops, batchVars,
       jobVars
  <1> QED
    BY <1>1, <1>2, <1>3, <1>4, <1>5, <1>6

-----------------------------------------------------------------------------
(* How one row may change in one step, whoever takes it.                    *)

RowSame(j) == job'[j] = job[j] /\ firstRun'[j] = firstRun[j]

RowFound(j) ==
  /\ ~Known(job[j])
  /\ \E c \in ClassifierStatus : job'[j] = [job[j] EXCEPT !.class = c]
  /\ firstRun'[j] \in Runs

\* What the portal and a pipeline step may do to a row.
RowEdited(j) ==
  /\ firstRun'[j] = firstRun[j]
  /\ \/ Known(job[j]) /\ \E d \in HumanDecision : job'[j] = [job[j] EXCEPT !.human = d]
     \/ job[j].details = "FETCHED" /\ \E v \in GateStatus : job'[j] = [job[j] EXCEPT !.gate = v]
     \/ job[j].ai = "EXTRACTED" /\ job'[j] = [job[j] EXCEPT !.post = "TERMINAL"]
     \/ AwaitsFinalDecision(job[j]) /\ job'[j] = [job[j] EXCEPT !.final = "DECIDED"]

\* What only the stage that holds the job may do to it, or the worker before them.
RowStaged(j) ==
  /\ firstRun'[j] = firstRun[j]
  /\ \/ /\ work[j] = "fetch"
        /\ job'[j] = [job[j] EXCEPT !.attempts = @ + 1]
     \/ /\ work[j] = "fetching"
        /\ \E s \in {"FETCHED", "UNAVAILABLE", "FAILED_OR_EMPTY"} :
             job'[j] = [job[j] EXCEPT !.details = s]
     \/ work[j] = "extracting" /\ job'[j] = [job[j] EXCEPT !.ai = "EXTRACTED"]
     \/ job[j].details = "FAILED_OR_EMPTY" /\ job'[j] = [job[j] EXCEPT !.details = "UNAVAILABLE"]

RowStep(j) == RowSame(j) \/ RowFound(j) \/ RowEdited(j) \/ RowStaged(j)

LEMMA DiscoveryRows ==
  ASSUME TypeOK, Discovery
  PROVE  \A j \in Jobs : RowSame(j) \/ RowFound(j)
  <1>1. ASSUME NEW hits \in SUBSET Jobs, Collect(hits), NEW j \in Jobs
        PROVE  RowSame(j) \/ RowFound(j)
    <2>1. PICK class \in [NewHits(hits) -> ClassifierStatus] :
            job' = [i \in Jobs |-> IF i \in NewHits(hits)
                                   THEN [job[i] EXCEPT !.class = class[i]] ELSE job[i]]
      BY <1>1 DEF Collect
    <2>2. CASE j \in NewHits(hits)
      <3>1. class[j] \in ClassifierStatus /\ job'[j] = [job[j] EXCEPT !.class = class[j]]
        BY <2>1, <2>2
      <3>2. firstRun'[j] \in Runs /\ ~Known(job[j])
        BY <1>1, <2>2 DEF Collect, NewHits
      <3> QED
        BY <3>1, <3>2 DEF RowFound
    <2>3. CASE j \notin NewHits(hits)
      BY <1>1, <2>1, <2>3 DEF Collect, RowSame
    <2> QED
      BY <2>2, <2>3
  <1>2. ASSUME ~ \E hits \in SUBSET Jobs : Collect(hits) PROVE UNCHANGED jobVars
    BY <1>2 DEF Discovery, GuardedSearch, DirectSearch, StartDiscovery, MarkSearching,
                AttachSearchRun, FinishDiscovery, DiscoveryFails, DiscoveryCrashes
  <1> QED
    BY <1>1, <1>2 DEF RowSame, jobVars

LEMMA PipelineRows ==
  ASSUME TypeOK, WorkOrder, StageOrder, Pipeline
  PROVE  \A j \in Jobs : RowSame(j) \/ RowEdited(j) \/ RowStaged(j)
  <1> USE DEF TypeOK, JobsTypeOK
  <1>0. UNCHANGED firstRun
    BY ActorFrames
  <1>1. ASSUME NEW i \in Jobs, FetchDetails(i), NEW j \in Jobs
        PROVE  RowSame(j) \/ RowEdited(j) \/ RowStaged(j)
    <2>1. PICK s \in {"FETCHED", "UNAVAILABLE", "FAILED_OR_EMPTY"} :
             job' = [job EXCEPT ![i].details = s]
      BY <1>1 DEF FetchDetails
    <2>2. CASE j = i
      <3>1. job'[j] = [job[j] EXCEPT !.details = s] /\ work[j] = "fetching"
        BY <1>1, <2>1, <2>2 DEF FetchDetails, InStage
      <3> QED
        BY <1>0, <3>1 DEF RowEdited, RowStaged
    <2> QED
      BY <1>0, <2>1, <2>2 DEF RowSame
  <1>7. ASSUME NEW i \in Jobs, StartFetch(i), NEW j \in Jobs
        PROVE  RowSame(j) \/ RowEdited(j) \/ RowStaged(j)
    <2>1. job' = [job EXCEPT ![i].attempts = @ + 1] /\ work[i] = "fetch"
      BY <1>7 DEF StartFetch, InStage
    <2>2. CASE j = i
      <3>1. job'[j] = [job[j] EXCEPT !.attempts = @ + 1] /\ work[j] = "fetch"
        BY <2>1, <2>2
      <3> QED
        BY <1>0, <3>1 DEF RowEdited, RowStaged
    <2> QED
      BY <1>0, <2>1, <2>2 DEF RowSame
  <1>8. ASSUME FinalizeExhausted, NEW j \in Jobs
        PROVE  RowSame(j) \/ RowEdited(j) \/ RowStaged(j)
    <2>1. CASE j \in pQueue /\ job[j].details = "FAILED_OR_EMPTY" /\ Exhausted(job[j])
      <3>1. job'[j] = [job[j] EXCEPT !.details = "UNAVAILABLE"]
        BY <1>8, <2>1 DEF FinalizeExhausted
      <3> QED
        BY <1>0, <2>1, <3>1 DEF RowEdited, RowStaged
    <2>2. CASE ~(j \in pQueue /\ job[j].details = "FAILED_OR_EMPTY" /\ Exhausted(job[j]))
      BY <1>0, <1>8, <2>2 DEF FinalizeExhausted, RowSame
    <2> QED
      BY <2>1, <2>2
  <1>2. ASSUME NEW i \in Jobs, MetadataGate(i), NEW j \in Jobs
        PROVE  RowSame(j) \/ RowEdited(j) \/ RowStaged(j)
    <2>1. CASE job[i].gate = ""
      <3>1. PICK v \in GateStatus : job' = [job EXCEPT ![i].gate = v]
        BY <1>2, <2>1 DEF MetadataGate, GateVerdicts, GateStatus
      <3>2. CASE j = i
        <4>1. job'[j] = [job[j] EXCEPT !.gate = v] /\ job[j].details = "FETCHED"
          BY <1>2, <3>1, <3>2 DEF MetadataGate, InStage, StageOrder
        <4> QED
          BY <1>0, <4>1 DEF RowEdited, RowStaged
      <3> QED
        BY <1>0, <3>1, <3>2 DEF RowSame
    <2>2. CASE job[i].gate # ""
      BY <1>0, <1>2, <2>2 DEF MetadataGate, RowSame
    <2> QED
      BY <2>1, <2>2
  <1>3. ASSUME NEW i \in Jobs, Extract(i), NEW j \in Jobs
        PROVE  RowSame(j) \/ RowEdited(j) \/ RowStaged(j)
    <2>1. CASE j = i
      <3>1. job'[j] = [job[j] EXCEPT !.ai = "EXTRACTED"] /\ work[j] = "extracting"
        BY <1>3, <2>1 DEF Extract, InStage
      <3> QED
        BY <1>0, <3>1 DEF RowEdited, RowStaged
    <2> QED
      BY <1>0, <1>3, <2>1 DEF Extract, RowSame
  <1>4. ASSUME NEW i \in Jobs, PostAi(i), NEW j \in Jobs
        PROVE  RowSame(j) \/ RowEdited(j) \/ RowStaged(j)
    <2>1. CASE j = i
      <3>1. job'[j] = [job[j] EXCEPT !.post = "TERMINAL"] /\ job[j].ai = "EXTRACTED"
        BY <1>4, <2>1 DEF PostAi, InStage, StageOrder
      <3> QED
        BY <1>0, <3>1 DEF RowEdited, RowStaged
    <2> QED
      BY <1>0, <1>4, <2>1 DEF PostAi, RowSame
  <1>5. ASSUME SweepPostAi, NEW j \in Jobs
        PROVE  RowSame(j) \/ RowEdited(j) \/ RowStaged(j)
    <2>1. CASE j \in pQueue /\ MissesPostAi(job[j])
      <3>1. job'[j] = [job[j] EXCEPT !.post = "TERMINAL"] /\ job[j].ai = "EXTRACTED"
        BY <1>5, <2>1 DEF SweepPostAi, MissesPostAi
      <3> QED
        BY <1>0, <3>1 DEF RowEdited, RowStaged
    <2>2. CASE ~(j \in pQueue /\ MissesPostAi(job[j]))
      BY <1>0, <1>5, <2>2 DEF SweepPostAi, RowSame
    <2> QED
      BY <2>1, <2>2
  <1>6. \/ \E i \in Jobs : \/ StartFetch(i) \/ FetchDetails(i) \/ MetadataGate(i)
                           \/ Extract(i) \/ PostAi(i)
        \/ FinalizeExhausted \/ SweepPostAi
        \/ UNCHANGED job
    BY DEF Pipeline, PipelineOpens, PipelineLooks, FinishClosing, PipelineHangs,
       HungIsKilled, Continue, AlreadyComplete, Reopen, ReviewGate,
       GateLooks, GateDecides, BeginProcessing, EnterStages, StageStep, LoadForAi,
       StageFails, Judge, FinishIncomplete, FinishComplete, RefreshCompleted,
       FinishPipeline, PipelineFails, PipelineCrashes, jobVars
  <1> QED
    BY <1>0, <1>1, <1>2, <1>3, <1>4, <1>5, <1>6, <1>7, <1>8 DEF RowSame

LEMMA PortalRows ==
  ASSUME TypeOK, WorkOrder, Portal
  PROVE  \A j \in Jobs : RowSame(j) \/ RowEdited(j)
  <1> USE DEF TypeOK, JobsTypeOK
  <1>0. UNCHANGED firstRun
    BY ActorFrames
  <1>1. ASSUME NEW i \in Jobs, NEW d \in HumanDecision, NEW j \in Jobs,
               Review(i, d) \/ OverrideDecision(i, d)
        PROVE  RowSame(j) \/ RowEdited(j)
    <2>1. job' = [job EXCEPT ![i].human = d] /\ Known(job[i])
      BY <1>1 DEF Review, OverrideDecision, AwaitsReview, Known
    <2>2. CASE j = i
      <3>1. job'[j] = [job[j] EXCEPT !.human = d] /\ Known(job[j])
        BY <2>1, <2>2
      <3> QED
        BY <1>0, <3>1 DEF RowEdited
    <2> QED
      BY <1>0, <2>1, <2>2 DEF RowSame
  <1>2. ASSUME NEW b \in Batches, NEW i \in Jobs, FinalDecision(b, i), NEW j \in Jobs
        PROVE  RowSame(j) \/ RowEdited(j)
    <2>1. CASE j = i
      <3>1. job'[j] = [job[j] EXCEPT !.final = "DECIDED"] /\ AwaitsFinalDecision(job[j])
        BY <1>2, <2>1 DEF FinalDecision
      <3> QED
        BY <1>0, <3>1 DEF RowEdited
    <2> QED
      BY <1>0, <1>2, <2>1 DEF FinalDecision, RowSame
  <1>3. ASSUME NEW i \in Jobs, ReapplyMetadata(i), NEW j \in Jobs
        PROVE  RowSame(j) \/ RowEdited(j)
    <2>1. PICK v \in GateStatus : job' = [job EXCEPT ![i].gate = v]
      BY <1>3 DEF ReapplyMetadata, GateVerdicts, GateStatus
    <2>2. CASE j = i
      <3>1. job'[j] = [job[j] EXCEPT !.gate = v] /\ job[j].details = "FETCHED"
        BY <1>3, <2>1, <2>2 DEF ReapplyMetadata
      <3> QED
        BY <1>0, <3>1 DEF RowEdited
    <2> QED
      BY <1>0, <2>1, <2>2 DEF RowSame
  <1>4. ASSUME ReapplyPostAi, NEW j \in Jobs
        PROVE  RowSame(j) \/ RowEdited(j)
    <2>1. CASE HasFacts(job[j])
      <3>1. job'[j] = [job[j] EXCEPT !.post = "TERMINAL"] /\ job[j].ai = "EXTRACTED"
        BY <1>4, <2>1 DEF ReapplyPostAi, HasFacts
      <3> QED
        BY <1>0, <3>1 DEF RowEdited
    <2>2. CASE ~HasFacts(job[j])
      BY <1>0, <1>4, <2>2 DEF ReapplyPostAi, RowSame
    <2> QED
      BY <2>1, <2>2
  <1>5. \/ \E i \in Jobs, d \in HumanDecision : Review(i, d) \/ OverrideDecision(i, d)
        \/ \E b \in Batches, i \in Jobs : FinalDecision(b, i)
        \/ \E i \in Jobs : ReapplyMetadata(i)
        \/ ReapplyPostAi
        \/ UNCHANGED job
    BY DEF Portal, PageMarks, AttachBacklog, PortalLooks, PortalWrites, PortalStops, jobVars
  <1> QED
    BY <1>0, <1>1, <1>2, <1>3, <1>4, <1>5 DEF RowSame

LEMMA NextRows ==
  ASSUME TypeOK, WorkOrder, StageOrder, [Next]_vars
  PROVE  \A j \in Jobs : RowStep(j)
  <1>1. UNCHANGED jobVars => \A j \in Jobs : RowSame(j)
    BY DEF jobVars, RowSame
  <1>2. Nightly \/ Reminder \/ Reconcile \/ UNCHANGED vars => UNCHANGED jobVars
    BY ActorFrames DEF vars
  <1> QED
    BY <1>1, <1>2, DiscoveryRows, PipelineRows, PortalRows DEF Next, RowStep

-----------------------------------------------------------------------------
(* What a step keeps of a row, and of the membership tables.                *)

AttemptsKept(j) == job'[j].attempts >= job[j].attempts

RowKept(j) ==
  /\ Known(job[j]) => job'[j].class = job[j].class
  /\ job[j].human # "" => job'[j].human # ""
  /\ ~Unfetched(job[j]) => job'[j].details = job[j].details
  /\ job[j].details # "" => job'[j].details # ""
  /\ AttemptsKept(j)
  /\ job[j].gate # "" => job'[j].gate # ""
  /\ job[j].ai # "" => job'[j].ai = job[j].ai
  /\ job[j].post # "" => job'[j].post = job[j].post
  /\ job[j].final # "" => job'[j].final = job[j].final

RowOrdered(j) ==
  /\ job[j].human # "" \/ job[j].details # "" => Known(job[j])
  /\ job[j].gate # "" => job[j].details = "FETCHED"
  /\ job[j].ai # "" => job[j].gate # ""
  /\ job[j].post # "" => job[j].ai = "EXTRACTED"
  /\ job[j].final # "" => job[j].post = "TERMINAL"
  /\ firstRun[j] # NoRun <=> Known(job[j])

LEMMA AttemptsType == ASSUME NEW row \in JobRow PROVE row.attempts \in Nat
  <1>1. row.attempts \in 0..MaxAttempts
    BY DEF JobRow
  <1> QED
    BY <1>1

LEMMA RowStepAttempts ==
  ASSUME NEW j \in Jobs, job[j] \in JobRow, RowStep(j)
  PROVE  AttemptsKept(j)
  <1>1. job[j].attempts \in Nat
    BY AttemptsType
  <1>2. job'[j].attempts \in {job[j].attempts, job[j].attempts + 1}
    BY DEF RowStep, RowSame, RowFound, RowEdited, RowStaged, JobRow
  <1> QED
    BY <1>1, <1>2 DEF AttemptsKept

LEMMA RowStepKeeps ==
  ASSUME TypeOK, WorkOrder, StageOrder, NEW j \in Jobs, RowStep(j)
  PROVE  RowKept(j) /\ RowOrdered(j)'
  <1> USE DEF RowKept, RowOrdered, Unfetched
  <1>1. job[j] \in JobRow /\ firstRun[j] \in 0..MaxRuns /\ RowOrdered(j)
    BY DEF TypeOK, JobsTypeOK, WorkOrder
  <1>0. AttemptsKept(j)
    BY <1>1, RowStepAttempts
  <1>2. CASE RowSame(j)
    BY <1>0, <1>1, <1>2 DEF RowSame, Known
  <1>3. CASE RowFound(j)
    <2>1. PICK c \in ClassifierStatus : job'[j] = [job[j] EXCEPT !.class = c]
      BY <1>3 DEF RowFound
    <2>2. firstRun'[j] # NoRun /\ ~Known(job[j])
      BY <1>3 DEF RowFound
    <2>3. /\ job'[j].class # "" /\ job'[j].human = "" /\ job'[j].details = ""
          /\ job'[j].gate = "" /\ job'[j].ai = "" /\ job'[j].post = "" /\ job'[j].final = ""
          /\ job'[j].attempts = job[j].attempts
      BY <1>0, <1>1, <2>1, <2>2 DEF ClassifierStatus, JobRow, Known
    <2>4. job[j].human = "" /\ job[j].details = "" /\ job[j].gate = "" /\ job[j].ai = ""
          /\ job[j].post = "" /\ job[j].final = ""
      BY <1>0, <1>1, <2>2 DEF Known
    <2> QED
      BY <1>0, <2>2, <2>3, <2>4 DEF Known
  <1>4. CASE RowEdited(j) \/ RowStaged(j)
    <2>0. firstRun'[j] = firstRun[j]
      BY <1>4 DEF RowEdited, RowStaged
    <2>1. ASSUME Known(job[j]), NEW d \in HumanDecision, job'[j] = [job[j] EXCEPT !.human = d]
          PROVE  RowKept(j) /\ RowOrdered(j)'
      BY <1>0, <1>1, <2>0, <2>1 DEF JobRow, Known, HumanDecision
    <2>2. ASSUME Known(job[j]), Unfetched(job[j]), job[j].gate = "",
                 NEW s \in {"FETCHED", "UNAVAILABLE", "FAILED_OR_EMPTY"},
                 job'[j] = [job[j] EXCEPT !.details = s]
          PROVE  RowKept(j) /\ RowOrdered(j)'
      BY <1>0, <1>1, <2>0, <2>2 DEF JobRow, Known
    <2>7. ASSUME Known(job[j]), job'[j] = [job[j] EXCEPT !.attempts = @ + 1]
          PROVE  RowKept(j) /\ RowOrdered(j)'
      BY <1>0, <1>1, <2>0, <2>7 DEF JobRow, Known
    <2>8. /\ work[j] = "fetch" => Known(job[j])
          /\ work[j] = "fetching" \/ job[j].details = "FAILED_OR_EMPTY" =>
               Known(job[j]) /\ Unfetched(job[j]) /\ job[j].gate = ""
      BY <1>1 DEF StageOrder
    <2>3. ASSUME job[j].details = "FETCHED", NEW v \in GateStatus,
                 job'[j] = [job[j] EXCEPT !.gate = v]
          PROVE  RowKept(j) /\ RowOrdered(j)'
      BY <1>0, <1>1, <2>0, <2>3 DEF JobRow, Known, GateStatus
    <2>4. ASSUME work[j] = "extracting", job'[j] = [job[j] EXCEPT !.ai = "EXTRACTED"]
          PROVE  RowKept(j) /\ RowOrdered(j)'
      BY <1>0, <1>1, <2>0, <2>4 DEF JobRow, Known, StageOrder
    <2>5. ASSUME job[j].ai = "EXTRACTED", job'[j] = [job[j] EXCEPT !.post = "TERMINAL"]
          PROVE  RowKept(j) /\ RowOrdered(j)'
      BY <1>0, <1>1, <2>0, <2>5 DEF JobRow, Known, Blank
    <2>6. ASSUME AwaitsFinalDecision(job[j]), job'[j] = [job[j] EXCEPT !.final = "DECIDED"]
          PROVE  RowKept(j) /\ RowOrdered(j)'
      BY <1>0, <1>1, <2>0, <2>6 DEF JobRow, Known, AwaitsFinalDecision
    <2> QED
      BY <1>4, <2>1, <2>2, <2>3, <2>4, <2>5, <2>6, <2>7, <2>8 DEF RowEdited, RowStaged
  <1> QED
    BY <1>2, <1>3, <1>4 DEF RowStep

MemberKept(b, j) ==
  /\ member[b][j] = "new" => member'[b][j] = "new"
  /\ member[b][j] = "old" => member'[b][j] # "no"
  /\ member'[b][j] # "no" => member[b][j] # "no" \/ Known(job[j])

LEMMA MembersStep ==
  ASSUME TypeOK, WorkOrder, StoredHits, [Next]_vars
  PROVE  \A b \in Batches, j \in Jobs : MemberKept(b, j)
  <1> USE DEF MemberKept, TypeOK, BatchesTypeOK
  <1>1. ASSUME AttachSearchRun PROVE \A b \in Batches, j \in Jobs : MemberKept(b, j)
    <2>1. dBatch \in Batches
      BY <1>1 DEF AttachSearchRun, SearchTypeOK
    <2>2. \A b \in Batches, j \in Jobs :
            member'[b][j] = IF b = dBatch /\ j \in dHits
                            THEN IF member[b][j] = "new" \/ firstRun[j] = runCount
                                 THEN "new" ELSE "old"
                            ELSE member[b][j]
      BY <1>1, <2>1 DEF AttachSearchRun, Attached
    <2>3. \A j \in dHits : Known(job[j])
      BY <1>1 DEF AttachSearchRun, StoredHits
    <2> QED
      BY <2>2, <2>3
  <1>2. ASSUME NEW c \in Batches, AttachBacklog(c)
        PROVE  \A b \in Batches, j \in Jobs : MemberKept(b, j)
    <2>1. PICK S \in SUBSET Jobs :
            /\ member' = [member EXCEPT ![c] = [j \in Jobs |-> IF j \in S THEN "old" ELSE @[j]]]
            /\ \A j \in S : member[c][j] = "no" /\ Approved(job[j])
      <3> DEFINE S == {j \in Jobs : /\ Approved(job[j]) /\ Unfetched(job[j])
                                    /\ ~Exhausted(job[j]) /\ member[c][j] = "no"}
      <3>1. member' = [member EXCEPT ![c] = [j \in Jobs |-> IF j \in S THEN "old" ELSE @[j]]]
        BY <1>2, Zenon DEF AttachBacklog
      <3>2. S \in SUBSET Jobs /\ \A j \in S : member[c][j] = "no" /\ Approved(job[j])
        OBVIOUS
      <3> HIDE DEF S
      <3> QED
        BY <3>1, <3>2
    <2>2. \A b \in Batches, j \in Jobs :
            member'[b][j] = IF b = c /\ j \in S THEN "old" ELSE member[b][j]
      BY <2>1
    <2>3. \A j \in S : member[c][j] = "no" /\ Known(job[j])
      BY <2>1 DEF Approved, Known, WorkOrder
    <2> QED
      BY <2>2, <2>3
  <1>3. \/ AttachSearchRun
        \/ \E c \in Batches : AttachBacklog(c)
        \/ UNCHANGED member
    <2>1. Discovery => AttachSearchRun \/ UNCHANGED member
      BY DEF Discovery, GuardedSearch, DirectSearch, StartDiscovery, MarkSearching, Collect,
             FinishDiscovery, DiscoveryFails, DiscoveryCrashes, batchVars
    <2>2. Portal => \/ \E c \in Batches : AttachBacklog(c)
                    \/ UNCHANGED member
      BY DEF Portal, Review, OverrideDecision, PageMarks, FinalDecision, ReapplyMetadata,
         ReapplyPostAi, PortalLooks, PortalWrites, PortalStops, batchVars
    <2> QED
      BY <2>1, <2>2, ActorFrames DEF Next, vars, batchVars
  <1>4. UNCHANGED member => \A b \in Batches, j \in Jobs : MemberKept(b, j)
    OBVIOUS
  <1> QED
    BY <1>1, <1>2, <1>3, <1>4

LEMMA WorkOrderStep ==
  ASSUME TypeOK, WorkOrder, StageOrder, StoredHits, [Next]_vars
  PROVE  WorkOrder'
  <1>1. \A j \in Jobs : RowKept(j) /\ RowOrdered(j)'
    BY NextRows, RowStepKeeps
  <1>2. ASSUME NEW b \in Batches', NEW j \in Members(b)' PROVE Known(job[j])'
    <2>1. j \in Jobs /\ member'[b][j] # "no"
      BY <1>2 DEF Members
    <2>2. Known(job[j])
      BY <2>1, MembersStep DEF MemberKept, WorkOrder, Members
    <2> QED
      BY <1>1, <2>1, <2>2 DEF RowKept, Known
  <1> QED
    BY <1>1, <1>2 DEF WorkOrder, RowOrdered

-----------------------------------------------------------------------------
(* The other parts of the invariant, one lemma each.                        *)

LEMMA OthersKeepStages ==
  ASSUME TypeOK, WorkOrder, StageOrder,
         Discovery \/ Nightly \/ Reminder \/ Reconcile \/ Portal
  PROVE  StageOrder'
  <1>1. UNCHANGED pVars
    BY ActorFrames
  <1>2. \A j \in Jobs : RowSame(j) \/ RowFound(j) \/ RowEdited(j)
    BY ActorFrames, DiscoveryRows, PortalRows DEF RowSame, jobVars
  <1>3. ASSUME NEW j \in Jobs
        PROVE  /\ job'[j].details = job[j].details /\ job'[j].ai = job[j].ai
               /\ job'[j].attempts = job[j].attempts
    <2>1. job[j] \in JobRow
      BY DEF TypeOK, JobsTypeOK
    <2> QED
      BY <1>2, <2>1 DEF JobRow, RowSame, RowFound, RowEdited
  <1>4. \A j \in Jobs : RowKept(j)
    BY NextRows, RowStepKeeps DEF Next
  <1>5. \A j \in Jobs : /\ Known(job[j]) => Known(job'[j])
                        /\ Unfetched(job[j]) <=> Unfetched(job'[j])
                        /\ Exhausted(job[j]) <=> Exhausted(job'[j])
                        /\ job[j].gate # "" => job'[j].gate # ""
    BY <1>3, <1>4 DEF RowKept, Known, Unfetched, Exhausted
  <1> QED
    BY <1>1, <1>3, <1>5 DEF StageOrder, pVars

LEMMA PipelineKeepsStages ==
  ASSUME TypeOK, WorkOrder, StageOrder, Pipeline
  PROVE  StageOrder'
  <1> USE DEF TypeOK
  <1>1. ASSUME NEW i \in Jobs, StageStep(i) PROVE StageOrder'
    <2>1. /\ pPc = "stages" /\ pPc' = pPc
          /\ \A j \in Jobs \ {i} : job'[j] = job[j] /\ work'[j] = work[j]
      BY <1>1 DEF StageStep, StartFetch, FetchDetails, MetadataGate, LoadForAi, Extract,
         PostAi, StageFails, StageFrame, InStage, MoveTo, JobsTypeOK, PipelineTypeOK
    <2>2. /\ work'[i] # "fetch"
          /\ work'[i] = "fetching" => Known(job'[i]) /\ Unfetched(job'[i])
          /\ work'[i] = "ready" => job'[i].details = "FETCHED"
          /\ work'[i] = "ai" => job'[i].gate # ""
          /\ work'[i] = "extracting" => job'[i].gate # "" /\ job'[i].ai = ""
          /\ work'[i] = "post" => job'[i].ai = "EXTRACTED"
      <3>0. work \in [Jobs -> Stages] /\ job \in [Jobs -> JobRow]
        BY DEF PipelineTypeOK, JobsTypeOK
      <3>1. CASE FetchDetails(i)
        <4>1. \/ job'[i].details = "FETCHED" /\ work'[i] = "ready"
              \/ work'[i] = "none"
          BY <3>0, <3>1 DEF FetchDetails, MoveTo, JobRow
        <4> QED
          BY <4>1
      <3>6. CASE StartFetch(i)
        <4>1. /\ work'[i] = "fetching" /\ job'[i] = [job[i] EXCEPT !.attempts = @ + 1]
              /\ Known(job[i]) /\ Unfetched(job[i])
          BY <3>0, <3>6 DEF StartFetch, InStage, MoveTo, StageOrder
        <4>2. job'[i].class = job[i].class /\ job'[i].details = job[i].details
          BY <3>0, <4>1 DEF JobRow
        <4> QED
          BY <4>1, <4>2 DEF Known, Unfetched
      <3>2. CASE MetadataGate(i)
        <4>1. work'[i] = IF job'[i].gate = "PASS" THEN "ai" ELSE "none"
          BY <3>0, <3>2 DEF MetadataGate, MoveTo
        <4> QED
          BY <4>1
      <3>3. CASE LoadForAi(i)
        <4>1. /\ work'[i] = IF ReadyForAi(job[i]) THEN "extracting" ELSE "none"
              /\ job'[i] = job[i]
          BY <3>0, <3>3 DEF LoadForAi, MoveTo
        <4> QED
          BY <4>1 DEF ReadyForAi
      <3>4. CASE Extract(i)
        <4>1. work'[i] = "post" /\ job'[i].ai = "EXTRACTED"
          BY <3>0, <3>4 DEF Extract, MoveTo, JobRow
        <4> QED
          BY <4>1
      <3>5. CASE PostAi(i) \/ StageFails(i)
        <4>1. work'[i] = "none"
          BY <3>0, <3>5 DEF PostAi, StageFails, MoveTo
        <4> QED
          BY <4>1
      <3> QED
        BY <1>1, <3>1, <3>2, <3>3, <3>4, <3>5, <3>6 DEF StageStep
    <2> QED
      BY <2>1, <2>2 DEF StageOrder
  <1>2. CASE EnterStages
    <2>1. /\ pPc' = "stages" /\ UNCHANGED job
          /\ \A j \in Jobs : work'[j] =
               IF j \notin pQueue \/ ~Approved(job[j]) THEN "none"
               ELSE IF job[j].details = "FETCHED" THEN "ready"
               ELSE IF Unfetched(job[j]) /\ ~Exhausted(job[j]) THEN "fetch" ELSE "none"
      BY <1>2 DEF EnterStages, jobVars
    <2>2. \A j \in Jobs : Approved(job[j]) => Known(job[j])
      BY DEF Approved, Known, WorkOrder
    <2> QED
      BY <2>1, <2>2 DEF StageOrder
  <1>3. CASE SweepPostAi
    <2>1. \A j \in Jobs : work'[j] = "none"
      BY <1>3 DEF SweepPostAi, NoWork
    <2> QED
      BY <2>1 DEF StageOrder
  <1>4. CASE PipelineIdle
    <2>1. \A j \in Jobs : work'[j] = "none"
      BY <1>4 DEF PipelineIdle, NoWork
    <2> QED
      BY <2>1 DEF StageOrder
  <1>5. CASE pPc # "stages" /\ UNCHANGED work
    <2>1. \A j \in Jobs : work'[j] = "none"
      BY <1>5 DEF StageOrder
    <2> QED
      BY <2>1 DEF StageOrder
  <1>6. \/ \E i \in Jobs : StageStep(i)
        \/ EnterStages \/ SweepPostAi \/ PipelineIdle
        \/ pPc # "stages" /\ UNCHANGED work
    BY DEF Pipeline, PipelineOpens, PipelineLooks, FinishClosing, PipelineHangs,
       HungIsKilled, FinalizeExhausted, Continue, AlreadyComplete, Reopen, ReviewGate,
       GateLooks, GateDecides, BeginProcessing, Judge, FinishIncomplete, FinishComplete,
       RefreshCompleted, FinishPipeline, PipelineFails, PipelineCrashes, PipelineLockFree
  <1> QED
    BY <1>1, <1>2, <1>3, <1>4, <1>5, <1>6

LEMMA StageOrderStep ==
  ASSUME TypeOK, WorkOrder, StageOrder, [Next]_vars
  PROVE  StageOrder'
  <1>1. UNCHANGED vars => StageOrder'
    BY DEF StageOrder, vars, jobVars, pVars
  <1> QED
    BY <1>1, OthersKeepStages, PipelineKeepsStages DEF Next

LEMMA StoredHitsStep ==
  ASSUME TypeOK, WorkOrder, StageOrder, StoredHits, [Next]_vars
  PROVE  StoredHits'
  <1>1. \A j \in Jobs : Known(job[j]) => Known(job'[j])
    BY NextRows, RowStepKeeps DEF RowKept, Known
  <1>2. dHits \subseteq Jobs /\ pQueue \subseteq Jobs
    BY DEF TypeOK, SearchTypeOK, PipelineTypeOK
  <1>3. ASSUME dPc' = "collected" PROVE \A j \in dHits' : Known(job'[j])
    <2>1. ASSUME NEW hits \in SUBSET Jobs, Collect(hits), NEW j \in hits
          PROVE  Known(job'[j])
      <3>1. RowStep(j)
        BY <2>1, NextRows
      <3>2. CASE j \in NewHits(hits)
        <4>1. firstRun'[j] # NoRun
          BY <2>1, <3>2 DEF Collect
        <4> QED
          BY <4>1, <3>1, RowStepKeeps DEF RowOrdered
      <3>3. CASE j \notin NewHits(hits)
        BY <1>1, <2>1, <3>3 DEF NewHits
      <3> QED
        BY <3>2, <3>3
    <2>2. CASE \E hits \in SUBSET Jobs : Collect(hits)
      BY <2>1, <2>2 DEF Collect
    <2>3. CASE ~ \E hits \in SUBSET Jobs : Collect(hits)
      <3>1. UNCHANGED <<dPc, dHits>>
        <4>1. Discovery => UNCHANGED <<dPc, dHits>>
          BY <1>3, <2>3 DEF Discovery, GuardedSearch, DirectSearch, StartDiscovery,
             MarkSearching, AttachSearchRun, FinishDiscovery, DiscoveryFails,
             DiscoveryCrashes, DiscoveryIdle
        <4>2. Nightly => UNCHANGED <<dPc, dHits>>
          BY <1>3 DEF Nightly, NightlyReads, NightlyProbes, NightlySearches, NightlyBusy,
                      StartDiscovery, dVars
        <4> QED
          BY <4>1, <4>2, ActorFrames DEF Next, vars, dVars
      <3> QED
        BY <1>1, <1>2, <1>3, <3>1 DEF StoredHits
    <2> QED
      BY <2>2, <2>3
  <1>4. pQueue' \subseteq {j \in Jobs : Known(job'[j])}
    <2>1. CASE BeginProcessing
      BY <1>1, <2>1 DEF BeginProcessing, Members, WorkOrder, TypeOK, PipelineTypeOK
    <2>2. CASE ~BeginProcessing
      <3>1. pQueue' = pQueue \/ pQueue' = {}
        <4>1. Pipeline => pQueue' = pQueue \/ pQueue' = {}
          BY <2>2 DEF Pipeline, PipelineOpens, PipelineLooks, FinishClosing, PipelineHangs,
             HungIsKilled, FinalizeExhausted, Continue, AlreadyComplete, Reopen, ReviewGate,
             GateLooks, GateDecides, EnterStages, StageStep, StartFetch, FetchDetails,
             MetadataGate, LoadForAi, Extract, PostAi, StageFails, StageFrame, SweepPostAi,
             Judge, FinishIncomplete, FinishComplete, RefreshCompleted, FinishPipeline,
             PipelineFails, PipelineCrashes, PipelineIdle
        <4> QED
          BY <4>1, ActorFrames DEF Next, vars, pVars
      <3> QED
        BY <1>1, <3>1 DEF StoredHits
    <2> QED
      BY <2>1, <2>2
  <1> QED
    BY <1>3, <1>4 DEF StoredHits

LEMMA LockHoldersStep ==
  ASSUME TypeOK, LockHolders, [Next]_vars
  PROVE  LockHolders'
  <1> USE DEF LockHolders
  <1>1. CASE Discovery
    BY <1>1, ActorFrames DEF Discovery, GuardedSearch, DirectSearch, StartDiscovery,
       MarkSearching, Collect, AttachSearchRun, FinishDiscovery, DiscoveryFails,
       DiscoveryCrashes, DiscoveryIdle, PipelineLockFree, pVars, rVars
  <1>2. CASE Nightly
    BY <1>2, ActorFrames DEF Nightly, NightlyReads, NightlyProbes, NightlySearches,
       NightlyBusy, StartDiscovery, dVars, pVars, rVars
  <1>3. CASE Pipeline
    <2>1. pPc' # "idle" => pPc # "idle" \/ PipelineLockFree
      BY <1>3 DEF Pipeline, PipelineOpens, PipelineLooks, FinishClosing, PipelineHangs,
         HungIsKilled, FinalizeExhausted, AlreadyComplete, Reopen, ReviewGate, GateLooks,
         GateDecides, BeginProcessing, EnterStages, StageStep, StartFetch, FetchDetails,
         MetadataGate, LoadForAi, Extract, PostAi, StageFails, InStage, SweepPostAi, Judge,
         FinishIncomplete, FinishComplete, RefreshCompleted, FinishPipeline, PipelineFails,
         PipelineCrashes, PipelineIdle, Continue
    <2> QED
      BY <1>3, <2>1, ActorFrames DEF PipelineLockFree, rVars, dVars
  <1>4. CASE Reconcile
    <2>1. rPc' # "idle" => rPc # "idle" \/ PipelineLockFree
      BY <1>4 DEF Reconcile, ReconcileStep, ReconcileLooks, StartReconcile, ReconcileReads,
         ReconcileWrites, ReconcileRefreshes, ReconcileCrashes, ReconcileIdle
    <2> QED
      BY <1>4, <2>1, ActorFrames DEF PipelineLockFree, pVars, dVars
  <1>5. CASE Portal \/ Reminder \/ UNCHANGED vars
    BY <1>5, ActorFrames DEF vars, pVars, rVars, dVars
  <1> QED
    BY <1>1, <1>2, <1>3, <1>4, <1>5 DEF Next

LEMMA StagesStartedStep ==
  ASSUME TypeOK, LockHolders, StagesStarted, [Next]_vars
  PROVE  StagesStarted'
  <1> USE DEF StagesStarted
  <1>1. CASE Discovery \/ Nightly \/ Reminder \/ Portal \/ UNCHANGED vars
    BY <1>1, ActorFrames DEF vars, pVars, rVars, batchVars, Turn
  <1>2. CASE Pipeline
    <2>1. \A b \in Batches : started[b] => started'[b]
      BY <1>2 DEF TypeOK, BatchesTypeOK, batchVars, Pipeline, PipelineOpens, PipelineLooks,
         FinishClosing, PipelineHangs, HungIsKilled, FinalizeExhausted, Continue,
         AlreadyComplete, Reopen, ReviewGate, GateLooks, GateDecides, BeginProcessing,
         EnterStages, StageStep, StartFetch, FetchDetails, MetadataGate, LoadForAi, Extract,
         PostAi, StageFails, StageFrame, SweepPostAi, Judge, FinishIncomplete,
         FinishComplete, RefreshCompleted, FinishPipeline, PipelineFails, PipelineCrashes
    <2>2. ASSUME pPc' \notin {"idle", "resolved", "closing", "gate", "cleared"} PROVE started'[pBatch']
      <3>1. CASE BeginProcessing
        BY <3>1 DEF BeginProcessing, TypeOK, BatchesTypeOK, PipelineTypeOK
      <3>2. CASE ~BeginProcessing
        <4>1. pPc \notin {"idle", "resolved", "closing", "gate", "cleared"} /\ pBatch' = pBatch
          BY <1>2, <2>2, <3>2 DEF Pipeline, PipelineOpens, PipelineLooks, FinishClosing,
             PipelineHangs, HungIsKilled, FinalizeExhausted, Continue, AlreadyComplete,
             Reopen, ReviewGate, GateLooks, GateDecides, EnterStages, StageStep, StartFetch,
             FetchDetails, MetadataGate, LoadForAi, Extract, PostAi, StageFails, StageFrame,
             InStage, SweepPostAi, Judge, FinishIncomplete, FinishComplete,
             RefreshCompleted, FinishPipeline, PipelineFails, PipelineCrashes, PipelineIdle
        <4> QED
          BY <2>1, <4>1 DEF TypeOK, PipelineTypeOK
      <3> QED
        BY <3>1, <3>2
    <2>3. UNCHANGED rVars
      BY <1>2, ActorFrames
    <2> QED
      BY <2>1, <2>2, <2>3 DEF rVars, Turn
  <1>3. CASE Reconcile
    <2>1. UNCHANGED <<started, pVars>>
      BY <1>3, ActorFrames
    <2>2. CASE StartReconcile
      BY <2>1, <2>2 DEF StartReconcile, pVars
    <2>3. ASSUME NEW b \in Batches, ReconcileReads(b) PROVE StagesStarted'
      <3>1. \A c \in Batches : Turn(c) => c = b
        BY <2>3 DEF ReconcileReads, Turn
      <3>2. rVerdict' = "COMPLETE" => rRow[b].started
        BY <2>3 DEF ReconcileReads, Verdict
      <3> QED
        BY <2>1, <2>3, <3>1, <3>2 DEF ReconcileReads, Turn, pVars
    <2>4. ASSUME NEW b \in Batches, ReconcileWrites(b) PROVE StagesStarted'
      BY <2>1, <2>4 DEF ReconcileWrites, pVars
    <2>5. ASSUME NEW b \in Batches, ReconcileRefreshes(b) PROVE StagesStarted'
      BY <2>1, <2>5 DEF ReconcileRefreshes, ReconcileIdle, pVars
    <2>7. ASSUME NEW b \in Batches, ReconcileLooks(b) PROVE StagesStarted'
      BY <2>1, <2>7 DEF ReconcileLooks, pVars
    <2>6. CASE ReconcileCrashes
      BY <2>1, <2>6 DEF ReconcileCrashes, ReconcileIdle, pVars
    <2> QED
      BY <1>3, <2>2, <2>3, <2>4, <2>5, <2>6, <2>7 DEF Reconcile, ReconcileStep
  <1> QED
    BY <1>1, <1>2, <1>3 DEF Next

-----------------------------------------------------------------------------
(* While a worker holds the result of its last look, whoever else makes a   *)
(* job unfinished leaves its mark in touched.                               *)

LEMMA OthersTouch ==
  ASSUME TypeOK, WorkOrder, Discovery \/ Nightly \/ Reminder \/ Portal,
         pPc = "judged" \/ rPc = "write"
  PROVE  /\ touched \subseteq touched'
         /\ \A b \in Batches : UnfinishedJobs(b)' \subseteq UnfinishedJobs(b) \cup touched'
  <1> DEFINE Goal == /\ touched \subseteq touched'
                     /\ \A b \in Batches :
                          UnfinishedJobs(b)' \subseteq UnfinishedJobs(b) \cup touched'
  <1>0. SUFFICES Goal
    OBVIOUS
  <1> USE DEF TypeOK, JobsTypeOK
  <1>1. ASSUME NEW S \in SUBSET Jobs, Touch(S),
               \A j \in Jobs \ S : /\ Unfinished(job'[j]) => Unfinished(job[j])
                                   /\ \A b \in Batches : member'[b][j] = member[b][j]
        PROVE  Goal
    BY <1>1 DEF UnfinishedJobs, Members, Touch
  <1>2. ASSUME UNCHANGED touched,
               \A b \in Batches, j \in Jobs :
                 member[b][j] # "no" => (Unfinished(job'[j]) => Unfinished(job[j])),
               UNCHANGED member
        PROVE  Goal
    BY <1>2 DEF UnfinishedJobs, Members
  <1>3. ASSUME NEW hits \in SUBSET Jobs, Collect(hits) PROVE Goal
    <2>1. \A j \in Jobs : Known(job[j]) => job'[j] = job[j]
      BY <1>3 DEF Collect, NewHits
    <2>2. \A b \in Batches, j \in Jobs : member[b][j] # "no" => Known(job[j])
      BY DEF WorkOrder, Members
    <2>3. UNCHANGED <<touched, member>>
      BY <1>3 DEF Collect, ghosts, batchVars
    <2> QED
      BY <1>2, <2>1, <2>2, <2>3
  <1>4. CASE AttachSearchRun
    <2>1. UNCHANGED job /\ Touch(dHits) /\ dHits \in SUBSET Jobs
      BY <1>4 DEF AttachSearchRun, jobVars, SearchTypeOK
    <2>2. \A b \in Batches, j \in Jobs \ dHits : member'[b][j] = member[b][j]
      BY <1>4 DEF AttachSearchRun, Attached, BatchesTypeOK, SearchTypeOK
    <2> QED
      BY <1>1, <2>1, <2>2
  <1>5. ASSUME NEW i \in Jobs, NEW d \in HumanDecision, Review(i, d) \/ OverrideDecision(i, d)
        PROVE  Goal
    <2>1. Touch({i}) /\ UNCHANGED member /\ \A j \in Jobs \ {i} : job'[j] = job[j]
      BY <1>5 DEF Review, OverrideDecision, batchVars
    <2> QED
      BY <1>1, <2>1
  <1>6. ASSUME NEW b \in Batches, AttachBacklog(b) PROVE Goal
    <2>1. PICK S \in SUBSET Jobs :
            /\ member' = [member EXCEPT ![b] = [j \in Jobs |-> IF j \in S THEN "old" ELSE @[j]]]
            /\ Touch(S) /\ UNCHANGED job
      BY <1>6 DEF AttachBacklog, jobVars
    <2>2. \A c \in Batches, j \in Jobs \ S : member'[c][j] = member[c][j]
      BY <2>1 DEF BatchesTypeOK
    <2> QED
      BY <1>1, <2>1, <2>2
  <1>7. ASSUME NEW b \in Batches, NEW i \in Jobs, FinalDecision(b, i) PROVE Goal
    <2>1. UNCHANGED <<touched, member>>
      BY <1>7 DEF FinalDecision, ghosts, batchVars
    <2>2. ASSUME NEW j \in Jobs PROVE Unfinished(job'[j]) => Unfinished(job[j])
      <3>1. /\ job'[j].human = job[j].human /\ job'[j].class = job[j].class
            /\ job'[j].details = job[j].details /\ job'[j].gate = job[j].gate
            /\ job'[j].post = job[j].post
        BY <1>7 DEF FinalDecision, JobRow
      <3> QED
        BY <3>1 DEF Unfinished, Approved
    <2> QED
      BY <1>2, <2>1, <2>2
  <1>8. ASSUME NEW i \in Jobs, ReapplyMetadata(i) PROVE Goal
    <2>1. Touch({i}) /\ UNCHANGED member
      BY <1>8 DEF ReapplyMetadata, batchVars
    <2>2. \A j \in Jobs \ {i} : job'[j] = job[j]
      BY <1>8 DEF ReapplyMetadata
    <2> QED
      BY <1>1, <2>1, <2>2
  <1>9. CASE ReapplyPostAi
    <2>1. UNCHANGED <<touched, member>>
      BY <1>9 DEF ReapplyPostAi, ghosts, batchVars
    <2>2. ASSUME NEW j \in Jobs PROVE Unfinished(job'[j]) => Unfinished(job[j])
      <3>1. job'[j] = job[j] \/ job'[j] = [job[j] EXCEPT !.post = "TERMINAL"]
        BY <1>9 DEF ReapplyPostAi
      <3>2. CASE job'[j] = [job[j] EXCEPT !.post = "TERMINAL"]
        <4>1. /\ job'[j].human = job[j].human /\ job'[j].class = job[j].class
              /\ job'[j].details = job[j].details /\ job'[j].gate = job[j].gate
              /\ job'[j].post = "TERMINAL"
          BY <3>2 DEF JobRow
        <4> QED
          BY <4>1 DEF Unfinished, Approved
      <3> QED
        BY <3>1, <3>2
    <2> QED
      BY <1>2, <2>1, <2>2
  <1>10. UNCHANGED <<job, member, touched>> => Goal
    BY <1>2
  <1>11. \/ \E hits \in SUBSET Jobs : Collect(hits)
         \/ AttachSearchRun
         \/ UNCHANGED <<job, member, touched>>
         \/ Portal
    BY DEF Discovery, GuardedSearch, DirectSearch, StartDiscovery, MarkSearching,
           FinishDiscovery, DiscoveryFails, DiscoveryCrashes, Nightly, NightlyReads,
           NightlyProbes, NightlySearches, NightlyBusy, Reminder, ReminderStarts,
           ReminderLooks, ReminderMarks, jobVars, batchVars, ghosts
  <1>12. Portal =>
           \/ \E i \in Jobs, d \in HumanDecision : Review(i, d) \/ OverrideDecision(i, d)
           \/ \E b \in Batches : AttachBacklog(b)
           \/ \E b \in Batches, i \in Jobs : FinalDecision(b, i)
           \/ \E i \in Jobs : ReapplyMetadata(i)
           \/ ReapplyPostAi
           \/ UNCHANGED <<job, member, touched>>
    BY DEF Portal, PageMarks, PortalLooks, PortalWrites, PortalStops, jobVars, batchVars,
       ghosts
  <1> QED
    BY <1>3, <1>4, <1>5, <1>6, <1>7, <1>8, <1>9, <1>10, <1>11, <1>12

LEMMA LeftIsKnownStep ==
  ASSUME TypeOK, WorkOrder, LockHolders, LeftIsKnown, [Next]_vars
  PROVE  LeftIsKnown'
  <1>1. CASE Discovery \/ Nightly \/ Reminder \/ Portal
    <2>1. UNCHANGED <<pVars, rVars>>
      BY <1>1, ActorFrames
    <2>2. CASE pPc = "judged" \/ rPc = "write"
      <3>1. /\ touched \subseteq touched'
            /\ \A b \in Batches : UnfinishedJobs(b)' \subseteq UnfinishedJobs(b) \cup touched'
        BY <1>1, <2>2, OthersTouch
      <3>2. pPc = "judged" => pBatch \in Batches
        BY DEF TypeOK, PipelineTypeOK
      <3> QED
        BY <2>1, <3>1, <3>2 DEF LeftIsKnown, pVars, rVars, Turn
    <2>3. CASE ~(pPc = "judged" \/ rPc = "write")
      BY <2>1, <2>3 DEF LeftIsKnown, pVars, rVars
    <2> QED
      BY <2>2, <2>3
  <1>2. CASE Pipeline
    <2>1. rPc = "idle" /\ rPc' = "idle"
      BY <1>2, ActorFrames DEF rVars, LockHolders, PipelineLockFree, Pipeline,
         PipelineOpens, PipelineLooks, FinishClosing, PipelineHangs, HungIsKilled,
         FinalizeExhausted, Continue, AlreadyComplete, Reopen, ReviewGate, GateLooks,
         GateDecides, BeginProcessing, EnterStages, StageStep, StartFetch, FetchDetails,
         MetadataGate, LoadForAi, Extract, PostAi, StageFails, InStage, SweepPostAi, Judge,
         FinishIncomplete, FinishComplete, RefreshCompleted, FinishPipeline, PipelineFails,
         PipelineCrashes
    <2>2. CASE Judge
      BY <2>1, <2>2 DEF Judge, JobsLeft, LeftIsKnown, UnfinishedJobs, Members, jobVars,
         batchVars
    <2>3. CASE ~Judge
      <3>1. pPc' # "judged"
        BY <1>2, <2>3 DEF Pipeline, PipelineOpens, PipelineLooks, FinishClosing,
           PipelineHangs, HungIsKilled, FinalizeExhausted, Continue, AlreadyComplete,
           Reopen, ReviewGate, GateLooks, GateDecides, BeginProcessing, EnterStages,
           StageStep, StartFetch, FetchDetails, MetadataGate, LoadForAi, Extract, PostAi,
           StageFails, StageFrame, InStage, SweepPostAi, FinishIncomplete, FinishComplete,
           RefreshCompleted, FinishPipeline, PipelineFails, PipelineCrashes, PipelineIdle
      <3> QED
        BY <2>1, <3>1 DEF LeftIsKnown
    <2> QED
      BY <2>2, <2>3
  <1>3. CASE Reconcile
    <2>1. pPc' # "judged"
      BY <1>3, ActorFrames DEF pVars, LockHolders, PipelineLockFree, Reconcile,
         ReconcileStep, ReconcileLooks, StartReconcile, ReconcileReads, ReconcileWrites,
         ReconcileRefreshes, ReconcileCrashes
    <2>2. ASSUME NEW b \in Batches, ReconcileReads(b) PROVE LeftIsKnown'
      <3>1. \A c \in Batches : Turn(c)' => c = b
        BY <2>2 DEF ReconcileReads, Turn
      <3>2. rVerdict' = "COMPLETE" => UnfinishedJobs(b) = {}
        BY <2>2 DEF ReconcileReads, Verdict
      <3>3. UnfinishedJobs(b)' = UnfinishedJobs(b)
        BY <2>2 DEF ReconcileReads, UnfinishedJobs, Members, jobVars, batchVars
      <3> QED
        BY <2>1, <3>1, <3>2, <3>3 DEF LeftIsKnown
    <2>3. CASE ~ \E b \in Batches : ReconcileReads(b)
      <3>1. rPc' # "write"
        BY <1>3, <2>3 DEF Reconcile, ReconcileStep, ReconcileLooks, StartReconcile,
           ReconcileWrites, ReconcileRefreshes, ReconcileCrashes, ReconcileIdle
      <3> QED
        BY <2>1, <3>1 DEF LeftIsKnown
    <2> QED
      BY <2>2, <2>3
  <1>4. CASE UNCHANGED vars
    BY <1>4 DEF LeftIsKnown, UnfinishedJobs, Members, Turn, vars, jobVars, batchVars, pVars,
       rVars, ghosts
  <1> QED
    BY <1>1, <1>2, <1>3, <1>4 DEF Next

-----------------------------------------------------------------------------
(* The gate's count stays right but for what came behind its back, and who   *)
(* looks, looks at its own batch.                                           *)

LEMMA GateIsCountedStep ==
  ASSUME Inv, [Next]_vars
  PROVE  GateIsCounted'
  <1> USE DEF Inv, TypeOK
  <1> DEFINE Counted == pPc = "cleared" \/ (pPc = "gate" /\ ~pSeen.pending)
  <1>1. ASSUME Counted, UNCHANGED pVars,
               NEW j \in Jobs, member'[pBatch][j] = "new", AwaitsReview(job'[j])
        PROVE  j \in slipped'
    <2>0. pBatch \in Batches /\ pPc \in {"gate", "cleared"}
      BY <1>1 DEF PipelineTypeOK
    <2>1. RowStep(j) /\ RowKept(j) /\ RowOrdered(j)
      BY NextRows, RowStepKeeps DEF WorkOrder, RowOrdered
    <2>2. slipped \subseteq slipped'
      <3>1. Discovery => slipped \subseteq slipped'
        BY DEF Discovery, GuardedSearch, DirectSearch, StartDiscovery, MarkSearching, Collect,
           AttachSearchRun, FinishDiscovery, DiscoveryFails, DiscoveryCrashes, ghosts, notes
      <3>2. Nightly => UNCHANGED slipped
        BY DEF Nightly, NightlyReads, NightlyProbes, NightlySearches, NightlyBusy,
           StartDiscovery, ghosts, notes
      <3>3. Reconcile => UNCHANGED slipped
        BY DEF Reconcile, ReconcileStep, ReconcileLooks, StartReconcile, ReconcileReads,
           ReconcileWrites, ReconcileRefreshes, ReconcileCrashes, ghosts, notes
      <3>4. Portal => UNCHANGED slipped
        BY DEF Portal, Review, OverrideDecision, PageMarks, AttachBacklog, FinalDecision,
           ReapplyMetadata, ReapplyPostAi, PortalLooks, PortalWrites, PortalStops, ghosts,
           notes
      <3>5. Pipeline => UNCHANGED slipped
        <4>1. ~ReviewGate /\ ~BeginProcessing
          BY <1>1, <2>0 DEF ReviewGate, BeginProcessing, pVars
        <4> QED
          BY <4>1 DEF Pipeline, PipelineOpens, PipelineLooks, FinishClosing, PipelineHangs,
             HungIsKilled, FinalizeExhausted, Continue, AlreadyComplete, Reopen, GateLooks,
             GateDecides, EnterStages, StageStep, StartFetch, FetchDetails, MetadataGate,
             LoadForAi, Extract, PostAi, StageFails, StageFrame, SweepPostAi, Judge,
             FinishIncomplete, FinishComplete, RefreshCompleted, FinishPipeline,
             PipelineFails, PipelineCrashes, ghosts, notes
      <3>6. Reminder \/ UNCHANGED vars => UNCHANGED slipped
        BY ActorFrames DEF vars, ghosts, notes
      <3> QED
        BY <3>1, <3>2, <3>3, <3>4, <3>5, <3>6 DEF Next
    <2>3. CASE AttachSearchRun
      <3>1. dBatch \in Batches /\ ~dGuarded /\ UNCHANGED job
        BY <2>0, <2>3 DEF AttachSearchRun, SearchTypeOK, LockHolders, jobVars
      <3>2. member'[pBatch][j] = IF pBatch = dBatch THEN Attached(member[dBatch])[j]
                                                    ELSE member[pBatch][j]
        BY <2>0, <2>3, <3>1 DEF AttachSearchRun, BatchesTypeOK
      <3>3. CASE pBatch = dBatch /\ j \in dHits
        BY <2>0, <2>3, <3>1, <3>3 DEF AttachSearchRun
      <3>4. CASE ~(pBatch = dBatch /\ j \in dHits)
        BY <1>1, <2>2, <3>1, <3>2, <3>4 DEF Attached, GateIsCounted, PendingReview, PendingIn
      <3> QED
        BY <3>3, <3>4
    <2>4. CASE ~AttachSearchRun
      <3>1. member[pBatch][j] = "new"
        <4>1. (\E c \in Batches : AttachBacklog(c)) \/ UNCHANGED member
          BY <2>4, ActorFrames DEF Next, vars, batchVars, Discovery, GuardedSearch,
             DirectSearch, StartDiscovery, MarkSearching, Collect, FinishDiscovery,
             DiscoveryFails, DiscoveryCrashes, Portal, Review, OverrideDecision, PageMarks,
             FinalDecision, ReapplyMetadata, ReapplyPostAi, PortalLooks, PortalWrites,
             PortalStops
        <4>2. ASSUME NEW c \in Batches, AttachBacklog(c) PROVE member[pBatch][j] = "new"
          <5>1. PICK S \in SUBSET Jobs :
                  member' = [member EXCEPT
                               ![c] = [i \in Jobs |-> IF i \in S THEN "old" ELSE @[i]]]
            BY <4>2 DEF AttachBacklog
          <5> QED
            BY <1>1, <2>0, <5>1 DEF BatchesTypeOK
        <4> QED
          BY <1>1, <4>1, <4>2
      <3>2. Known(job[j])
        BY <2>0, <3>1 DEF WorkOrder, Members
      <3>3. AwaitsReview(job[j])
        BY <1>1, <2>1, <3>2 DEF RowKept, AwaitsReview
      <3> QED
        BY <1>1, <2>2, <3>1, <3>3 DEF GateIsCounted, PendingReview, PendingIn
    <2> QED
      BY <2>3, <2>4
  <1>2. CASE UNCHANGED pVars
    <2>1. Counted' => Counted /\ pBatch' = pBatch
      BY <1>2 DEF pVars
    <2> QED
      BY <1>1, <1>2, <2>1 DEF GateIsCounted, PendingReview, PendingIn
  <1>3. CASE Pipeline
    <2>2. CASE ReviewGate
      <3>1. /\ pPc' = "gate" /\ pBatch' = pBatch /\ UNCHANGED <<job, member>>
            /\ pSeen'.pending = (PendingReview(pBatch) # {})
        BY <2>2 DEF ReviewGate, MarkLook, Looked, NotLooking, jobVars, batchVars
      <3> QED
        BY <3>1 DEF GateIsCounted, PendingReview, PendingIn
    <2>3. CASE GateLooks
      <3>1. /\ pPc' = "gate" /\ pPc = "gate" /\ pBatch' = pBatch
            /\ UNCHANGED <<job, member, slipped>>
            /\ \/ pSeen'.pending = (PendingReview(pBatch) # {})
               \/ pSeen'.pending = pSeen.pending
        BY <2>3 DEF GateLooks, MarkLook, Looked, jobVars, batchVars, ghosts, notes,
           PipelineTypeOK, LookType
      <3> QED
        BY <3>1 DEF GateIsCounted, PendingReview, PendingIn
    <2>4. CASE GateDecides
      <3>1. /\ pPc = "gate" /\ UNCHANGED <<job, member, slipped>>
            /\ \/ pPc' = "idle"
               \/ pPc' = "cleared" /\ ~pSeen.pending /\ pBatch' = pBatch
        BY <2>4 DEF GateDecides, PipelineIdle, jobVars, ghosts, notes
      <3> QED
        BY <3>1 DEF GateIsCounted, PendingReview, PendingIn
    <2>5. CASE ~(ReviewGate \/ GateLooks \/ GateDecides)
      <3>1. pPc' \notin {"gate", "cleared"}
        BY <1>3, <2>5 DEF Pipeline, PipelineOpens, PipelineLooks, FinishClosing,
           PipelineHangs, HungIsKilled, FinalizeExhausted, Continue, AlreadyComplete, Reopen,
           BeginProcessing, EnterStages, StageStep, StartFetch, FetchDetails, MetadataGate,
           LoadForAi, Extract, PostAi, StageFails, StageFrame, InStage, SweepPostAi, Judge,
           FinishIncomplete, FinishComplete, RefreshCompleted, FinishPipeline,
           PipelineFails, PipelineCrashes, PipelineIdle
      <3> QED
        BY <3>1 DEF GateIsCounted
    <2> QED
      BY <2>2, <2>3, <2>4, <2>5
  <1> QED
    BY <1>2, <1>3, ActorFrames DEF Next, vars

LEMMA LooksAimedStep ==
  ASSUME TypeOK, LooksAimed, [Next]_vars
  PROVE  LooksAimed'
  <1> USE DEF LooksAimed
  <1>0. NotLooking.saw = "nothing"
    BY DEF NotLooking
  <1>1. (mSeen.saw # "nothing" => mSeen.batch # NoBatch)'
    <2>1. CASE Reminder
      BY <2>1, <1>0 DEF Reminder, ReminderStarts, ReminderLooks, ReminderMarks, MarkLook,
         Looked, NotLooking, TypeOK, SearchTypeOK, LookType
    <2>2. CASE ~Reminder
      <3>1. UNCHANGED mSeen
        BY <2>2, ActorFrames DEF Next, vars, nVars, Discovery, GuardedSearch, DirectSearch,
           MarkSearching, Collect, AttachSearchRun, FinishDiscovery, DiscoveryFails,
           DiscoveryCrashes, Nightly, NightlyReads, NightlyProbes, NightlySearches,
           NightlyBusy
      <3> QED
        BY <3>1
    <2> QED
      BY <2>1, <2>2
  <1>2. (pSeen.saw # "nothing" =>
           pSeen.batch = pBatch /\ pPc \in {"closing", "gate", "completed"})'
    <2>1. CASE PipelineLooks \/ GateLooks \/ ReviewGate
      BY <2>1 DEF PipelineLooks, GateLooks, ReviewGate, FinalLook, MarkLook, Looked,
         NotLooking, Looking, TypeOK, PipelineTypeOK, LookType
    <2>2. CASE Pipeline /\ ~(PipelineLooks \/ GateLooks \/ ReviewGate)
      <3>1. \/ pSeen' = NotLooking
            \/ /\ pSeen' = pSeen
               /\ \/ pPc' = pPc /\ pBatch' = pBatch
                  \/ pPc \notin {"closing", "gate", "completed"}
        BY <2>2 DEF Pipeline, PipelineOpens, FinishClosing, PipelineHangs, HungIsKilled,
           FinalizeExhausted, Continue, AlreadyComplete, Reopen, GateDecides,
           BeginProcessing, EnterStages, StageStep, StartFetch, FetchDetails, MetadataGate,
           LoadForAi, Extract, PostAi, StageFails, StageFrame, SweepPostAi, Judge,
           FinishIncomplete, FinishComplete, RefreshCompleted, FinishPipeline,
           PipelineFails, PipelineCrashes, PipelineIdle, PipelineLockFree
      <3> QED
        BY <1>0, <3>1
    <2>3. CASE ~Pipeline
      BY <2>3, ActorFrames DEF Next, vars, pVars
    <2> QED
      BY <2>1, <2>2, <2>3
  <1>3. (rSeen.saw # "nothing" => rPc = "refresh" /\ Turn(rSeen.batch))'
    <2>1. ASSUME NEW b \in Batches, ReconcileLooks(b)
          PROVE  rSeen'.batch \in {b, rSeen.batch} /\ UNCHANGED <<rPc, rTodo>>
                 /\ (rSeen'.batch # b => rSeen.saw # "nothing")
      BY <2>1 DEF ReconcileLooks, FinalLook, Looked, TypeOK, ReconcileTypeOK, LookType
    <2>2. CASE \E b \in Batches : ReconcileLooks(b)
      BY <2>1, <2>2 DEF ReconcileLooks, Turn
    <2>3. CASE Reconcile /\ ~ \E b \in Batches : ReconcileLooks(b)
      <3>1. rSeen' = NotLooking \/ (rSeen' = rSeen /\ rPc # "refresh")
        BY <2>3 DEF Reconcile, ReconcileStep, StartReconcile, ReconcileReads,
           ReconcileWrites, ReconcileRefreshes, ReconcileCrashes, ReconcileIdle,
           PipelineLockFree
      <3> QED
        BY <1>0, <3>1
    <2>4. CASE ~Reconcile
      BY <2>4, ActorFrames DEF Next, vars, rVars, Turn
    <2> QED
      BY <2>2, <2>3, <2>4
  <1>4. (uSeen.saw # "nothing" => uSeen.batch # NoBatch)'
    <2>1. CASE \E b \in Batches : PortalLooks(b)
      BY <2>1 DEF PortalLooks, FinalLook, MarkLook, Looked, TypeOK, PortalTypeOK, LookType
    <2>2. CASE Portal /\ ~ \E b \in Batches : PortalLooks(b)
      <3>1. uSeen' = NotLooking \/ uSeen' = uSeen
        BY <2>2 DEF Portal, Review, OverrideDecision, PageMarks, AttachBacklog,
           FinalDecision, ReapplyMetadata, ReapplyPostAi, PortalWrites, PortalStops, uVars
      <3> QED
        BY <1>0, <3>1
    <2>3. CASE ~Portal
      BY <2>3, ActorFrames DEF Next, vars, uVars
    <2> QED
      BY <2>1, <2>2, <2>3
  <1> QED
    BY <1>1, <1>2, <1>3, <1>4

-----------------------------------------------------------------------------
LEMMA InitInv == Init => Inv
  <1> SUFFICES ASSUME Init PROVE Inv
    OBVIOUS
  <1>1. TypeOK
    BY InitTypeOK
  <1>2. WorkOrder /\ StageOrder /\ StoredHits
    BY DEF Init, WorkOrder, StageOrder, StoredHits, NoWork, Members, Known, UnknownJob
  <1>3. LockHolders /\ StagesStarted /\ LeftIsKnown
    BY DEF Init, LockHolders, StagesStarted, LeftIsKnown
  <1>4. GateIsCounted /\ LooksAimed
    BY DEF Init, GateIsCounted, LooksAimed, NotLooking
  <1> QED
    BY <1>1, <1>2, <1>3, <1>4 DEF Inv

LEMMA NextInv == Inv /\ [Next]_vars => Inv'
  BY NextTypeOK, WorkOrderStep, StageOrderStep, StoredHitsStep, LockHoldersStep,
     StagesStartedStep, LeftIsKnownStep, GateIsCountedStep, LooksAimedStep DEF Inv

(* The rows, the stages, the locks and what each worker last read agree in   *)
(* every reachable state; in particular no column of a job is filled before  *)
(* the ones the pipeline derives it from.                                    *)
THEOREM InvariantHolds == Spec => []Inv
  BY InitInv, NextInv, PTL DEF Spec

(* Every variable keeps its type, whatever the actors do.                  *)
THEOREM TypeCorrect == Spec => []TypeOK
  <1>1. Inv => TypeOK
    BY DEF Inv
  <1> QED
    BY InvariantHolds, <1>1, PTL

-----------------------------------------------------------------------------
(* What a step may write to a batch's status.                               *)

LEMMA StatusStep ==
  ASSUME TypeOK, [Next]_vars
  PROVE  \A b \in Batches : status'[b] # status[b] =>
           /\ status'[b] # "ABSENT"
           /\ status'[b] = "COMPLETE" =>
                \/ FinishComplete /\ b = pBatch
                \/ ReconcileWrites(b) /\ rVerdict = "COMPLETE"
           /\ status'[b] = "PROCESSING" => BeginProcessing /\ b = pBatch
  <1> USE DEF TypeOK, BatchesTypeOK, SetStatus
  <1> DEFINE Goal == \A b \in Batches : status'[b] # status[b] =>
                       /\ status'[b] # "ABSENT"
                       /\ status'[b] = "COMPLETE" =>
                            \/ FinishComplete /\ b = pBatch
                            \/ ReconcileWrites(b) /\ rVerdict = "COMPLETE"
                       /\ status'[b] = "PROCESSING" => BeginProcessing /\ b = pBatch
  <1>0. SUFFICES Goal
    OBVIOUS
  <1>1. ASSUME NEW c, NEW s \in BatchStatus \ {"ABSENT", "COMPLETE", "PROCESSING"},
               status' = [status EXCEPT ![c] = s]
        PROVE  Goal
    BY <1>1
  <1>2. ASSUME NEW c, status' = [status EXCEPT ![c] = CreatedStatus(c)] PROVE Goal
    BY <1>2 DEF CreatedStatus, Exists
  <1>3. ASSUME NEW seen, WriteMark(seen) PROVE Goal
    BY <1>3 DEF WriteMark
  <1>4. UNCHANGED status => Goal
    OBVIOUS
  <1> HIDE DEF Goal
  <1> USE DEF BatchStatus
  <1>5. CASE Discovery
    <2>1. ASSUME NEW b \in Batches, GuardedSearch(b) \/ DirectSearch(b) PROVE Goal
      <3>1. status' = [status EXCEPT ![b] = CreatedStatus(b)]
        BY <2>1 DEF GuardedSearch, DirectSearch, StartDiscovery
      <3> QED
        BY <1>2, <3>1, Zenon
    <2>2. CASE MarkSearching
      BY <1>1, <2>2 DEF MarkSearching
    <2>3. CASE AttachSearchRun
      <3>1. \/ status' = [status EXCEPT ![dBatch] = "READY_TO_CONTINUE"]
            \/ status' = [status EXCEPT ![dBatch] = "WAITING_FOR_REVIEW"]
        BY <2>3 DEF AttachSearchRun
      <3> QED
        BY <1>1, <3>1
    <2>4. CASE DiscoveryFails
      BY <1>1, <2>4 DEF DiscoveryFails
    <2>5. CASE (\E hits \in SUBSET Jobs : Collect(hits)) \/ FinishDiscovery \/ DiscoveryCrashes
      BY <1>4, <2>5 DEF Collect, FinishDiscovery, DiscoveryCrashes, batchVars
    <2> QED
      BY <1>5, <2>1, <2>2, <2>3, <2>4, <2>5 DEF Discovery
  <1>6. CASE Nightly
    <2>1. ASSUME NEW b \in Batches, NightlyReads(b) PROVE Goal
      <3>1. status' = [status EXCEPT ![b] = CreatedStatus(b)]
        BY <2>1 DEF NightlyReads
      <3> QED
        BY <1>2, <3>1, Zenon
    <2>2. CASE NightlySearches
      <3>1. status' = [status EXCEPT ![nBatch] = CreatedStatus(nBatch)]
        BY <2>2 DEF NightlySearches, StartDiscovery
      <3> QED
        BY <1>2, <3>1, Zenon
    <2>3. CASE NightlyProbes \/ NightlyBusy
      BY <1>4, <2>3 DEF NightlyProbes, NightlyBusy, batchVars
    <2> QED
      BY <1>6, <2>1, <2>2, <2>3 DEF Nightly
  <1>7. CASE Pipeline
    <2>1. CASE Reopen \/ FinishIncomplete \/ PipelineFails
      BY <1>1, <2>1 DEF Reopen, FinishIncomplete, PipelineFails
    <2>2. CASE GateDecides
      <3>1. WriteMark(pSeen)
        BY <2>2 DEF GateDecides
      <3> QED
        BY <1>3, <3>1, Zenon
    <2>3. CASE BeginProcessing
      BY <2>3 DEF BeginProcessing, Goal
    <2>4. CASE FinishComplete
      BY <2>4 DEF FinishComplete, Goal
    <2>5. CASE ~(Reopen \/ FinishIncomplete \/ PipelineFails \/ GateDecides
                 \/ BeginProcessing \/ FinishComplete)
      <3>1. UNCHANGED status
        BY <1>7, <2>5 DEF Pipeline, PipelineOpens, ReviewGate, GateLooks, PipelineLooks, FinishClosing,
           PipelineHangs, HungIsKilled, FinalizeExhausted, Continue, AlreadyComplete,
           EnterStages, StageStep, StartFetch, FetchDetails, MetadataGate, LoadForAi,
           Extract, PostAi, StageFails, StageFrame, SweepPostAi, Judge, RefreshCompleted,
           FinishPipeline, PipelineCrashes, batchVars
      <3> QED
        BY <1>4, <3>1
    <2> QED
      BY <2>1, <2>2, <2>3, <2>4, <2>5
  <1>8. CASE Reconcile
    <2>1. ASSUME NEW b \in Batches, ReconcileWrites(b) PROVE Goal
      <3>1. rVerdict \notin {"ABSENT", "PROCESSING"}
        BY <2>1 DEF ReconcileWrites, ReconcileTypeOK
      <3> QED
        BY <2>1, <3>1 DEF ReconcileWrites, Goal
    <2>2. CASE ~ \E b \in Batches : ReconcileWrites(b)
      <3>1. UNCHANGED status
        BY <1>8, <2>2 DEF Reconcile, ReconcileStep, ReconcileLooks, StartReconcile,
           ReconcileReads, ReconcileRefreshes, ReconcileCrashes, batchVars
      <3> QED
        BY <1>4, <3>1
    <2> QED
      BY <2>1, <2>2, Zenon
  <1>11. CASE Reminder
    <2>1. CASE ReminderMarks
      <3>1. WriteMark(mSeen)
        BY <2>1 DEF ReminderMarks
      <3> QED
        BY <1>3, <3>1, Zenon
    <2>2. CASE ~ReminderMarks
      BY <1>4, <1>11, <2>2 DEF Reminder, ReminderStarts, ReminderLooks, batchVars
    <2> QED
      BY <2>1, <2>2
  <1>9. CASE Portal
    <2>1. ASSUME NEW b \in Batches, PortalWrites(b) PROVE Goal
      <3>1. UNCHANGED status \/ WriteMark(uSeen)
        BY <2>1 DEF PortalWrites
      <3> QED
        BY <1>3, <1>4, <3>1, Zenon
    <2>2. CASE ~ \E b \in Batches : PortalWrites(b)
      <3>1. UNCHANGED status
        BY <1>9, <2>2 DEF Portal, Review, OverrideDecision, PageMarks, AttachBacklog,
           FinalDecision, ReapplyMetadata, ReapplyPostAi, PortalLooks, PortalStops, batchVars
      <3> QED
        BY <1>4, <3>1
    <2> QED
      BY <2>1, <2>2
  <1>10. CASE UNCHANGED vars
    BY <1>4, <1>10 DEF vars, batchVars
  <1> QED
    BY <1>5, <1>6, <1>7, <1>8, <1>9, <1>10, <1>11 DEF Next

LEMMA NextKeepsRecordedWork == Inv /\ [Next]_vars => KeepsRecordedWork
  <1> SUFFICES ASSUME Inv, [Next]_vars PROVE KeepsRecordedWork
    OBVIOUS
  <1> USE DEF Inv
  <1>1. \A j \in Jobs : RowKept(j)
    BY NextRows, RowStepKeeps
  <1>2. \A b \in Batches, j \in Jobs : MemberKept(b, j)
    BY MembersStep
  <1>3. \A b \in Batches : Exists(b) => status'[b] # "ABSENT"
    BY StatusStep DEF Exists
  <1>4. \A b \in Batches : started[b] => started'[b]
    <2>1. BeginProcessing \/ UNCHANGED started
      BY ActorFrames DEF Next, vars, batchVars, Pipeline, PipelineOpens, PipelineLooks,
         FinishClosing, PipelineHangs, HungIsKilled, FinalizeExhausted, Continue,
         AlreadyComplete, Reopen, ReviewGate, GateLooks, GateDecides, EnterStages,
         StageStep, StartFetch, FetchDetails, MetadataGate, LoadForAi, Extract, PostAi,
         StageFails, StageFrame, SweepPostAi, Judge, FinishIncomplete, FinishComplete,
         RefreshCompleted, FinishPipeline, PipelineFails, PipelineCrashes
    <2> QED
      BY <2>1 DEF BeginProcessing, TypeOK, BatchesTypeOK
  <1> QED
    BY <1>1, <1>2, <1>3, <1>4 DEF KeepsRecordedWork, RowKept, AttemptsKept, MemberKept

(* Whoever runs, in whatever order and with whatever crashes, no step undoes *)
(* recorded work: the promise of rediscovery, retries and the review pages.  *)
THEOREM RecordedWorkSafe == Spec => RecordedWorkKept
  BY InvariantHolds, NextKeepsRecordedWork, PTL DEF Spec, RecordedWorkKept

LEMMA NextCompletesAsJudged == Inv /\ [Next]_vars => CompletesAsJudged
  <1> SUFFICES ASSUME Inv, [Next]_vars, NEW b \in Batches, Completes(b)
               PROVE  started[b] /\ UnfinishedJobs(b) \subseteq touched
    BY DEF CompletesAsJudged
  <1> USE DEF Inv
  <1>1. \/ FinishComplete /\ b = pBatch
        \/ ReconcileWrites(b) /\ rVerdict = "COMPLETE"
    BY StatusStep DEF Completes
  <1>2. CASE FinishComplete /\ b = pBatch
    BY <1>2 DEF FinishComplete, StagesStarted, LeftIsKnown
  <1>3. CASE ReconcileWrites(b) /\ rVerdict = "COMPLETE"
    <2>1. rPc = "write" /\ Turn(b)
      BY <1>3 DEF ReconcileWrites
    <2> QED
      BY <1>3, <2>1 DEF StagesStarted, LeftIsKnown
  <1> QED
    BY <1>1, <1>2, <1>3

(* COMPLETE is written only for a batch whose stages were started, and what   *)
(* is unfinished at that moment other actors changed since the last look, by  *)
(* the pipeline worker and by the reconcile command alike.                    *)
THEOREM CompletionJudged == Spec => CompletionIsJudged
  BY InvariantHolds, NextCompletesAsJudged, PTL DEF Spec, CompletionIsJudged

-----------------------------------------------------------------------------
(* The review inbox.                                                        *)

LEMMA InboxStep ==
  ASSUME Inv, ReviewJobsTracked, [Next]_vars
  PROVE  ReviewJobsTracked'
  <1> SUFFICES ASSUME NEW j \in Jobs, AwaitsReview(job[j])'
               PROVE  \/ \E b \in Batches : member'[b][j] = "new"
                      \/ dPc' = "collected" /\ j \in dHits' /\ firstRun'[j] = runCount'
                      \/ j \in orphaned'
    BY DEF ReviewJobsTracked
  <1> USE DEF Inv
  <1>1. \A b \in Batches : member[b][j] = "new" => member'[b][j] = "new"
    BY MembersStep DEF MemberKept
  <1>2. orphaned \subseteq orphaned'
    <2>1. Discovery => orphaned \subseteq orphaned'
      BY DEF Discovery, GuardedSearch, DirectSearch, StartDiscovery, MarkSearching, Collect,
         AttachSearchRun, FinishDiscovery, DiscoveryFails, DiscoveryCrashes, Orphan, ghosts,
         notes
    <2>2. Nightly => UNCHANGED orphaned
      BY DEF Nightly, NightlyReads, NightlyProbes, NightlySearches, NightlyBusy,
         StartDiscovery, ghosts, notes
    <2>3. Pipeline => UNCHANGED orphaned
      BY DEF Pipeline, PipelineOpens, PipelineLooks, FinishClosing, PipelineHangs,
         HungIsKilled, FinalizeExhausted, Continue, AlreadyComplete, Reopen, ReviewGate,
         GateLooks, GateDecides, BeginProcessing, EnterStages, StageStep, StartFetch,
         FetchDetails, MetadataGate, LoadForAi, Extract, PostAi, StageFails, StageFrame,
         SweepPostAi, Judge, FinishIncomplete, FinishComplete, RefreshCompleted,
         FinishPipeline, PipelineFails, PipelineCrashes, ghosts, notes
    <2>4. Reconcile => UNCHANGED orphaned
      BY DEF Reconcile, ReconcileStep, ReconcileLooks, StartReconcile, ReconcileReads,
         ReconcileWrites, ReconcileRefreshes, ReconcileCrashes, ghosts, notes
    <2>5. Portal => UNCHANGED orphaned
      BY DEF Portal, Review, OverrideDecision, PageMarks, AttachBacklog, FinalDecision,
         ReapplyMetadata, ReapplyPostAi, PortalLooks, PortalWrites, PortalStops, ghosts,
         notes
    <2> QED
      BY <2>1, <2>2, <2>3, <2>4, <2>5, ActorFrames DEF Next, vars, ghosts, notes
  <1>3. RowStep(j)
    BY NextRows
  <1>4. job[j] \in JobRow /\ RowOrdered(j)
    BY DEF TypeOK, JobsTypeOK, WorkOrder, RowOrdered
  <1>5. CASE Known(job[j])
    <2>1. AwaitsReview(job[j]) /\ firstRun'[j] = firstRun[j]
      <3>1. ~RowFound(j)
        BY <1>5 DEF RowFound
      <3>2. RowKept(j)
        BY <1>3, RowStepKeeps
      <3>3. firstRun'[j] = firstRun[j]
        BY <1>3, <3>1 DEF RowStep, RowSame, RowEdited, RowStaged
      <3> QED
        BY <1>5, <3>2, <3>3 DEF RowKept, AwaitsReview
    <2>2. CASE \E b \in Batches : member[b][j] = "new"
      BY <1>1, <2>2
    <2>3. CASE dPc = "collected" /\ j \in dHits /\ firstRun[j] = runCount
      <3>1. CASE AttachSearchRun
        <4>1. dBatch \in Batches
          BY <3>1 DEF AttachSearchRun, TypeOK, SearchTypeOK
        <4>2. member'[dBatch][j] = "new"
          BY <2>3, <3>1, <4>1 DEF AttachSearchRun, Attached, TypeOK, BatchesTypeOK
        <4> QED
          BY <4>1, <4>2
      <3>3. CASE DiscoveryFails \/ DiscoveryCrashes
        BY <2>3, <3>3 DEF DiscoveryFails, DiscoveryCrashes, Orphan
      <3>2. CASE ~(AttachSearchRun \/ DiscoveryFails \/ DiscoveryCrashes)
        <4>1. Discovery => UNCHANGED <<dPc, dHits, runCount>>
          BY <2>3, <3>2 DEF Discovery, GuardedSearch, DirectSearch, StartDiscovery,
             DiscoveryLockFree, MarkSearching, Collect, FinishDiscovery, runVars
        <4>2. Nightly => UNCHANGED <<dPc, dHits, runCount>>
          BY <2>3 DEF Nightly, NightlyReads, NightlyProbes, NightlySearches, NightlyBusy,
             StartDiscovery, DiscoveryLockFree, dVars, runVars
        <4>3. UNCHANGED <<dPc, dHits, runCount>>
          BY <4>1, <4>2, ActorFrames DEF Next, vars, dVars, runVars
        <4> QED
          BY <2>1, <2>3, <4>3
      <3> QED
        BY <3>1, <3>2, <3>3
    <2> QED
      BY <1>2, <2>1, <2>2, <2>3 DEF ReviewJobsTracked
  <1>6. CASE ~Known(job[j])
    <2>1. RowFound(j)
      <3>1. Known(job'[j])
        BY DEF AwaitsReview, Known
      <3>2. ~RowSame(j)
        BY <1>6, <3>1 DEF RowSame
      <3>3. ~RowStaged(j)
        <4>1. RowStaged(j) => job'[j].class = job[j].class
          BY <1>4 DEF RowStaged, JobRow
        <4> QED
          BY <1>6, <3>1, <4>1 DEF Known
      <3>4. ~RowEdited(j)
        <4>1. RowEdited(j) => job'[j].class = job[j].class
          BY <1>4 DEF RowEdited, JobRow
        <4> QED
          BY <1>6, <3>1, <4>1 DEF Known
      <3> QED
        BY <1>3, <3>2, <3>3, <3>4 DEF RowStep
    <2>a. firstRun[j] = NoRun
      BY <1>4, <1>6, Zenon DEF RowOrdered
    <2>b. firstRun'[j] \in Runs
      BY <2>1, Zenon DEF RowFound
    <2>c. firstRun'[j] # firstRun[j]
      BY <2>a, <2>b
    <2>2. PICK hits \in SUBSET Jobs : Collect(hits)
      <3>2. ~UNCHANGED firstRun
        BY <2>c
      <3> QED
        BY <3>2, ActorFrames DEF Next, vars, jobVars, Discovery, GuardedSearch, DirectSearch,
           StartDiscovery, MarkSearching, AttachSearchRun, FinishDiscovery, DiscoveryFails,
           DiscoveryCrashes
    <2>3. j \in NewHits(hits)
      BY <2>2, <2>c DEF Collect
    <2> QED
      BY <2>2, <2>3 DEF Collect, NewHits
  <1> QED
    BY <1>5, <1>6

(* The only titles that need a human and are missing from every batch's       *)
(* pending count are those first seen by a run whose worker failed or died    *)
(* between storing and attaching it.                                          *)
THEOREM InboxComplete == Spec => []ReviewJobsTracked
  <1>1. Init => ReviewJobsTracked
    <2>1. Init => \A j \in Jobs : job[j].class = ""
      <3>1. UnknownJob.class = ""
        BY DEF UnknownJob
      <3>2. Init => job = [j \in Jobs |-> UnknownJob]
        BY Zenon DEF Init
      <3> QED
        BY <3>1, <3>2
    <2>2. ASSUME Init, NEW j \in Jobs PROVE ~AwaitsReview(job[j])
      BY <2>1, <2>2 DEF AwaitsReview
    <2> QED
      BY <2>2 DEF ReviewJobsTracked
  <1> QED
    BY <1>1, InvariantHolds, InboxStep, PTL DEF Spec

-----------------------------------------------------------------------------
(* Processing starts reviewed.                                              *)

(* Whoever searches, reviews and marks meanwhile, a batch enters its stages   *)
(* with an undecided new title only when a search that takes no pipeline lock *)
(* attached it after the gate had counted.                                    *)
THEOREM StartsAreReviewed == Spec => ProcessingStartsReviewed
  <1>1. Inv /\ [Next]_vars => StartsReviewed
    <2> SUFFICES ASSUME Inv, [Next]_vars, NEW b \in Batches,
                        status[b] # "PROCESSING", status'[b] = "PROCESSING"
                 PROVE  PendingReview(b) \subseteq slipped
      BY DEF StartsReviewed
    <2>1. BeginProcessing /\ b = pBatch
      BY StatusStep DEF Inv
    <2> QED
      BY <2>1 DEF BeginProcessing, Inv, GateIsCounted
  <1> QED
    BY <1>1, InvariantHolds, PTL DEF Spec, ProcessingStartsReviewed

-----------------------------------------------------------------------------
(* An excluded title goes no further.                                        *)
HIDE DEF Batches, Runs, NoBatch, NoRun

\* A title's decision is settled before its details are fetched, and the gate and
\* the AI queue look at the row itself, so neither lets an excluded title pass.
Halted(j) ==
  /\ job[j].details # "" \/ work[j] \in {"fetch", "fetching"} => ~AwaitsReview(job[j])
  /\ job[j].gate = "PASS" => job[j].human # "EXCLUDE"
  /\ job[j].ai = "EXTRACTED" \/ work[j] \in {"extracting", "post"} => job[j].human # "EXCLUDE"

HaltedInv == \A j \in Jobs : Halted(j)

\* What the portal may do to a row, with the decision it takes into account.
RowJudged(j) ==
  \/ job'[j] = job[j]
  \/ Unfetched(job[j]) /\ \E d \in HumanDecision : job'[j] = [job[j] EXCEPT !.human = d]
  \/ /\ job[j].details = "FETCHED"
     /\ \E v \in GateVerdicts(job[j]) : job'[j] = [job[j] EXCEPT !.gate = v]
  \/ job'[j] = [job[j] EXCEPT !.post = "TERMINAL"]
  \/ job'[j] = [job[j] EXCEPT !.final = "DECIDED"]

LEMMA PortalJudges ==
  ASSUME TypeOK, HaltedInv, Portal
  PROVE  \A j \in Jobs : RowJudged(j)
  <1> USE DEF TypeOK, JobsTypeOK, RowJudged
  <1>1. ASSUME NEW i \in Jobs, NEW d \in HumanDecision, NEW j \in Jobs,
               Review(i, d) \/ OverrideDecision(i, d)
        PROVE  RowJudged(j)
    <2>1. job' = [job EXCEPT ![i].human = d]
      BY <1>1 DEF Review, OverrideDecision
    <2>2. Unfetched(job[i])
      BY <1>1 DEF Review, OverrideDecision, HaltedInv, Halted, Unfetched
    <2> QED
      BY <2>1, <2>2
  <1>2. ASSUME NEW b \in Batches, NEW i \in Jobs, FinalDecision(b, i), NEW j \in Jobs
        PROVE  RowJudged(j)
    BY <1>2 DEF FinalDecision
  <1>3. ASSUME NEW i \in Jobs, ReapplyMetadata(i), NEW j \in Jobs PROVE RowJudged(j)
    <2>1. PICK v \in GateVerdicts(job[i]) : job' = [job EXCEPT ![i].gate = v]
      BY <1>3 DEF ReapplyMetadata
    <2>2. job[i].details = "FETCHED"
      BY <1>3 DEF ReapplyMetadata
    <2>3. CASE j = i
      <3>1. job'[j] = [job[j] EXCEPT !.gate = v] /\ v \in GateVerdicts(job[j])
        BY <2>1, <2>3
      <3> QED
        BY <2>2, <2>3, <3>1
    <2>4. CASE j # i
      BY <2>1, <2>4
    <2> QED
      BY <2>3, <2>4
  <1>4. ASSUME ReapplyPostAi, NEW j \in Jobs PROVE RowJudged(j)
    BY <1>4 DEF ReapplyPostAi
  <1>5. \/ \E i \in Jobs, d \in HumanDecision : Review(i, d) \/ OverrideDecision(i, d)
        \/ \E b \in Batches, i \in Jobs : FinalDecision(b, i)
        \/ \E i \in Jobs : ReapplyMetadata(i)
        \/ ReapplyPostAi
        \/ UNCHANGED job
    BY DEF Portal, PageMarks, AttachBacklog, PortalLooks, PortalWrites, PortalStops, jobVars
  <1> QED
    BY <1>1, <1>2, <1>3, <1>4, <1>5

\* A row that changes in one of these ways, in no stage or left in its stage, halts.
LEMMA JudgedHalts ==
  ASSUME Inv, NEW j \in Jobs, Halted(j), UNCHANGED work, RowJudged(j) \/ RowFound(j)
  PROVE  Halted(j)'
  <1> USE DEF Halted
  <1>0. /\ job[j] \in JobRow
        /\ job[j].gate # "" => job[j].details = "FETCHED"
        /\ job[j].ai # "" => job[j].gate # ""
        /\ job[j].details # "" => Known(job[j])
        /\ work[j] \in {"fetch", "fetching"} => Known(job[j])
        /\ work[j] = "extracting" => job[j].gate # ""
        /\ work[j] = "post" => job[j].ai = "EXTRACTED"
    BY DEF Inv, TypeOK, JobsTypeOK, WorkOrder, StageOrder
  <1>1. CASE job'[j] = job[j]
    BY <1>1 DEF AwaitsReview
  <1>2. ASSUME Unfetched(job[j]), NEW d \in HumanDecision, job'[j] = [job[j] EXCEPT !.human = d]
        PROVE  Halted(j)'
    <2>1. job[j].gate = "" /\ job[j].ai = "" /\ work[j] \notin {"extracting", "post"}
      BY <1>0, <1>2 DEF Unfetched
    <2>2. /\ job'[j].human # "" /\ job'[j].gate = "" /\ job'[j].ai = ""
      BY <1>0, <1>2, <2>1 DEF JobRow, HumanDecision
    <2> QED
      BY <2>1, <2>2 DEF AwaitsReview
  <1>3. ASSUME NEW v \in GateVerdicts(job[j]), job'[j] = [job[j] EXCEPT !.gate = v]
        PROVE  Halted(j)'
    <2>1. /\ job'[j].human = job[j].human /\ job'[j].class = job[j].class
          /\ job'[j].details = job[j].details /\ job'[j].ai = job[j].ai
          /\ job'[j].gate = v
      BY <1>0, <1>3 DEF JobRow
    <2>2. v = "PASS" => job[j].human # "EXCLUDE"
      BY DEF GateVerdicts
    <2> QED
      BY <2>1, <2>2 DEF AwaitsReview
  <1>4. CASE job'[j] = [job[j] EXCEPT !.post = "TERMINAL"] \/ job'[j] = [job[j] EXCEPT !.final = "DECIDED"]
    <2>1. /\ job'[j].human = job[j].human /\ job'[j].class = job[j].class
          /\ job'[j].details = job[j].details /\ job'[j].ai = job[j].ai
          /\ job'[j].gate = job[j].gate
      BY <1>0, <1>4 DEF JobRow
    <2> QED
      BY <2>1 DEF AwaitsReview
  <1>5. CASE RowFound(j)
    <2>1. PICK c \in ClassifierStatus : job'[j] = [job[j] EXCEPT !.class = c]
      BY <1>5 DEF RowFound
    <2>2. /\ job'[j].human = job[j].human /\ job'[j].details = job[j].details
          /\ job'[j].ai = job[j].ai /\ job'[j].gate = job[j].gate
      BY <1>0, <2>1 DEF JobRow
    <2>3. ~Known(job[j])
      BY <1>5 DEF RowFound
    <2>4. job[j].details = "" /\ work[j] \notin {"fetch", "fetching"}
      BY <1>0, <2>3
    <2> QED
      BY <2>2, <2>4
  <1> QED
    BY <1>1, <1>2, <1>3, <1>4, <1>5 DEF RowJudged

LEMMA StageHalts ==
  ASSUME Inv, HaltedInv, NEW i \in Jobs, StageStep(i)
  PROVE  HaltedInv'
  <1>0. work \in [Jobs -> Stages] /\ job \in [Jobs -> JobRow]
    BY DEF Inv, TypeOK, PipelineTypeOK, JobsTypeOK
  <1>1. \A j \in Jobs \ {i} : job'[j] = job[j] /\ work'[j] = work[j]
    BY <1>0 DEF StageStep, StartFetch, FetchDetails, MetadataGate, LoadForAi, Extract,
       PostAi, StageFails, StageFrame, MoveTo
  <1>2. Halted(i)'
    <2> USE DEF Halted
    <2>0. Halted(i) /\ job[i] \in JobRow
      BY <1>0 DEF HaltedInv
    <2>1. CASE FetchDetails(i)
      <3>1. /\ work[i] = "fetching" /\ work'[i] \in {"ready", "none"}
            /\ \E s \in {"FETCHED", "UNAVAILABLE", "FAILED_OR_EMPTY"} :
                 job'[i] = [job[i] EXCEPT !.details = s]
        BY <1>0, <2>1 DEF FetchDetails, InStage, MoveTo
      <3>2. /\ job'[i].human = job[i].human /\ job'[i].class = job[i].class
            /\ job'[i].gate = job[i].gate /\ job'[i].ai = job[i].ai
        BY <2>0, <3>1 DEF JobRow
      <3> QED
        BY <2>0, <3>1, <3>2 DEF AwaitsReview
    <2>6. CASE StartFetch(i)
      <3>1. work[i] = "fetch" /\ work'[i] = "fetching" /\ job'[i] = [job[i] EXCEPT !.attempts = @ + 1]
        BY <1>0, <2>6 DEF StartFetch, InStage, MoveTo
      <3>2. /\ job'[i].human = job[i].human /\ job'[i].class = job[i].class
            /\ job'[i].details = job[i].details /\ job'[i].gate = job[i].gate
            /\ job'[i].ai = job[i].ai
        BY <2>0, <3>1 DEF JobRow
      <3> QED
        BY <2>0, <3>1, <3>2 DEF AwaitsReview
    <2>2. CASE MetadataGate(i)
      <3>1. work[i] = "ready" /\ work'[i] \in {"ai", "none"} /\ job[i].details = "FETCHED"
        BY <1>0, <2>2 DEF MetadataGate, InStage, MoveTo, Inv, StageOrder
      <3>2. \/ job'[i] = job[i]
            \/ \E v \in GateVerdicts(job[i]) : job'[i] = [job[i] EXCEPT !.gate = v]
        BY <1>0, <2>2 DEF MetadataGate
      <3>3. CASE job'[i] = job[i]
        BY <2>0, <3>1, <3>3 DEF AwaitsReview
      <3>4. ASSUME NEW v \in GateVerdicts(job[i]), job'[i] = [job[i] EXCEPT !.gate = v]
            PROVE  Halted(i)'
        <4>1. /\ job'[i].human = job[i].human /\ job'[i].class = job[i].class
              /\ job'[i].ai = job[i].ai /\ job'[i].gate = v
          BY <2>0, <3>4 DEF JobRow
        <4>2. v = "PASS" => job[i].human # "EXCLUDE"
          BY DEF GateVerdicts
        <4> QED
          BY <2>0, <3>1, <4>1, <4>2 DEF AwaitsReview
      <3> QED
        BY <3>2, <3>3, <3>4
    <2>3. CASE LoadForAi(i)
      <3>1. job'[i] = job[i] /\ work'[i] = IF ReadyForAi(job[i]) THEN "extracting" ELSE "none"
        BY <1>0, <2>3 DEF LoadForAi, MoveTo
      <3>2. ReadyForAi(job[i]) => job[i].human # "EXCLUDE"
        BY DEF ReadyForAi, Approved
      <3> QED
        BY <2>0, <3>1, <3>2 DEF AwaitsReview
    <2>4. CASE Extract(i)
      <3>1. work[i] = "extracting" /\ work'[i] = "post" /\ job'[i] = [job[i] EXCEPT !.ai = "EXTRACTED"]
        BY <1>0, <2>4 DEF Extract, InStage, MoveTo
      <3>2. /\ job'[i].human = job[i].human /\ job'[i].class = job[i].class
            /\ job'[i].details = job[i].details /\ job'[i].gate = job[i].gate
        BY <2>0, <3>1 DEF JobRow
      <3> QED
        BY <2>0, <3>1, <3>2 DEF AwaitsReview
    <2>5. CASE PostAi(i) \/ StageFails(i)
      <3>1. work'[i] = "none" /\ (job'[i] = job[i] \/ job'[i] = [job[i] EXCEPT !.post = "TERMINAL"])
        BY <1>0, <2>5 DEF PostAi, StageFails, MoveTo
      <3>2. /\ job'[i].human = job[i].human /\ job'[i].class = job[i].class
            /\ job'[i].details = job[i].details /\ job'[i].gate = job[i].gate
            /\ job'[i].ai = job[i].ai
        BY <2>0, <3>1 DEF JobRow
      <3> QED
        BY <2>0, <3>1, <3>2 DEF AwaitsReview
    <2> QED
      BY <2>1, <2>2, <2>3, <2>4, <2>5, <2>6 DEF StageStep
  <1> QED
    BY <1>1, <1>2 DEF HaltedInv, Halted, AwaitsReview

LEMMA PipelineHalts ==
  ASSUME Inv, HaltedInv, Pipeline
  PROVE  HaltedInv'
  <1> USE DEF HaltedInv, Halted, AwaitsReview
  <1>0. job \in [Jobs -> JobRow]
    BY DEF Inv, TypeOK, JobsTypeOK
  <1>1. CASE EnterStages
    <2>1. UNCHANGED job /\ \A j \in Jobs : /\ work'[j] \in {"none", "ready", "fetch"}
                                           /\ work'[j] = "fetch" => Approved(job[j])
      BY <1>1 DEF EnterStages, jobVars
    <2> QED
      BY <2>1 DEF Approved
  <1>2. CASE SweepPostAi
    <2>1. ASSUME NEW j \in Jobs PROVE Halted(j)'
      <3>1. /\ work'[j] = "none"
            /\ job'[j] = job[j] \/ job'[j] = [job[j] EXCEPT !.post = "TERMINAL"]
        BY <1>2 DEF SweepPostAi, NoWork
      <3>2. /\ job'[j].human = job[j].human /\ job'[j].class = job[j].class
            /\ job'[j].details = job[j].details /\ job'[j].gate = job[j].gate
            /\ job'[j].ai = job[j].ai
        BY <1>0, <3>1 DEF JobRow
      <3> QED
        BY <3>1, <3>2
    <2> QED
      BY <2>1
  <1>6. CASE FinalizeExhausted
    <2>1. ASSUME NEW j \in Jobs PROVE Halted(j)'
      <3>1. /\ work'[j] = work[j]
            /\ \/ job'[j] = job[j]
               \/ /\ job[j].details = "FAILED_OR_EMPTY"
                  /\ job'[j] = [job[j] EXCEPT !.details = "UNAVAILABLE"]
        BY <1>6 DEF FinalizeExhausted
      <3>2. /\ job'[j].human = job[j].human /\ job'[j].class = job[j].class
            /\ job[j].details = "" <=> job'[j].details = ""
            /\ job'[j].gate = job[j].gate /\ job'[j].ai = job[j].ai
        BY <1>0, <3>1 DEF JobRow
      <3> QED
        BY <3>1, <3>2
    <2> QED
      BY <2>1
  <1>3. CASE PipelineIdle /\ UNCHANGED job
    BY <1>3 DEF PipelineIdle, NoWork
  <1>4. CASE UNCHANGED <<job, work>>
    BY <1>4
  <1>5. \/ \E i \in Jobs : StageStep(i)
        \/ EnterStages \/ SweepPostAi \/ FinalizeExhausted
        \/ PipelineIdle /\ UNCHANGED job
        \/ UNCHANGED <<job, work>>
    BY DEF Pipeline, PipelineOpens, PipelineLooks, FinishClosing, PipelineHangs,
       HungIsKilled, Continue, AlreadyComplete, Reopen, ReviewGate,
       GateLooks, GateDecides, BeginProcessing, Judge, FinishIncomplete, FinishComplete,
       RefreshCompleted, FinishPipeline, PipelineFails, PipelineCrashes, jobVars
  <1> QED
    BY <1>1, <1>2, <1>3, <1>4, <1>5, <1>6, StageHalts

LEMMA InitHalts == Init => HaltedInv
  <1> SUFFICES ASSUME Init, NEW j \in Jobs PROVE Halted(j)
    BY DEF HaltedInv
  <1>1. job[j] = UnknownJob /\ work[j] = "none"
    BY DEF Init, NoWork
  <1>2. UnknownJob.details = "" /\ UnknownJob.gate = "" /\ UnknownJob.ai = ""
    BY DEF UnknownJob
  <1> QED
    BY <1>1, <1>2 DEF Halted

LEMMA NextHalts == Inv /\ HaltedInv /\ [Next]_vars => HaltedInv'
  <1> SUFFICES ASSUME Inv, HaltedInv, [Next]_vars PROVE HaltedInv'
    OBVIOUS
  <1>1. CASE Pipeline
    BY <1>1, PipelineHalts
  <1>2. CASE Discovery \/ Nightly \/ Reminder \/ Reconcile \/ Portal \/ UNCHANGED vars
    <2>1. UNCHANGED work
      BY <1>2, ActorFrames DEF pVars, vars
    <2>2. Nightly \/ Reminder \/ Reconcile \/ UNCHANGED vars => UNCHANGED job
      BY ActorFrames DEF jobVars, vars
    <2>3. \A j \in Jobs : RowJudged(j) \/ RowFound(j)
      BY <1>2, <2>2, DiscoveryRows, PortalJudges DEF Inv, RowJudged, RowSame
    <2> QED
      BY <2>1, <2>3, JudgedHalts DEF HaltedInv
  <1> QED
    BY <1>1, <1>2 DEF Next

\* Whenever the exclusion comes, and whatever the worker, the rules page and the
\* searches do at that moment, an excluded title never passes the gate and is never
\* extracted or proposed.
THEOREM ExclusionHalts == Spec => []ExclusionStops
  <1>1. Inv /\ HaltedInv => ExclusionStops
    <2> SUFFICES ASSUME Inv, HaltedInv, NEW j \in Jobs, job[j].human = "EXCLUDE"
                 PROVE  job[j].gate # "PASS" /\ job[j].ai = "" /\ job[j].post = ""
      BY DEF ExclusionStops
    <2>1. job[j] \in JobRow /\ (job[j].post # "" => job[j].ai = "EXTRACTED")
      BY DEF Inv, TypeOK, JobsTypeOK, WorkOrder
    <2>2. job[j].ai \in {"EXTRACTED", ""}
      BY <2>1 DEF JobRow, Blank
    <2> QED
      BY <2>1, <2>2 DEF HaltedInv, Halted
  <1>2. Spec => [](Inv /\ HaltedInv)
    BY InitInv, NextInv, InitHalts, NextHalts, PTL DEF Spec
  <1> QED
    BY <1>1, <1>2, PTL

\* The columns of a job are filled in pipeline order, whoever runs when.
THEOREM PipelineOrder == Spec => []WorkOrder
  <1>1. Inv => WorkOrder
    BY DEF Inv
  <1> QED
    BY InvariantHolds, <1>1, PTL

=============================================================================
