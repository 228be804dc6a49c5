------------------------------ MODULE Details -------------------------------
(***************************************************************************)
(* The detail stage of a continuation and the queue that feeds the         *)
(* metadata stage.  A worker thread runs fetch_approved_details over the   *)
(* batch's jobs: every remote call spends one attempt of the job's budget, *)
(* a run of failures opens a circuit breaker, and each fetched job is put  *)
(* on ready_queue, which ends with a None.  The event loop takes the jobs  *)
(* off that queue.  The portal may change a title decision at any time.    *)
(* One action is one committed transaction or one queue operation.         *)
(***************************************************************************)
EXTENDS Integers, FiniteSets, Sequences

CONSTANTS NumJobs,      \* the batch's postings, in first_seen_at order
          MaxAttempts,  \* DETAILS_MAX_ATTEMPTS_PER_JOB
          MaxPerRun,    \* DETAILS_MAX_JOBS_PER_RUN, 0 = no limit
          StopAfter,    \* DETAILS_STOP_AFTER_EMPTY, 0 = no circuit breaker
          Overrides,    \* jobs whose title decision the user may still change
          MaxFaults     \* bound: crashes and failed reads and transactions

ASSUME NumJobsAssumption     == NumJobs \in Nat
ASSUME MaxAttemptsAssumption == MaxAttempts \in Nat
ASSUME MaxPerRunAssumption   == MaxPerRun \in Nat
ASSUME StopAfterAssumption   == StopAfter \in Nat
ASSUME OverridesAssumption   == Overrides \subseteq 1..NumJobs
ASSUME MaxFaultsAssumption   == MaxFaults \in Nat

Jobs == 1..NumJobs
End  == 0                                  \* the None that ends ready_queue
None == 0                                  \* no job

Approval == {"KEEP", "AUTO", "NO"}         \* human KEEP, AUTO_KEEP, neither
DetailsStatus == {"NOT_FETCHED", "FAILED_OR_EMPTY", "FETCHED", "UNAVAILABLE"}
Settled == {"FETCHED", "UNAVAILABLE"}

VARIABLES
  approval, details, attempts,             \* jobs
  pc,                                      \* the detail thread
  todo, keepers, current,                  \* its queue; the job being fetched
  inRow,                                   \* consecutive_empty
  ready,                                   \* ready_queue
  seen, drained,                           \* metadata_pass_jobs
  faults,
  promised                                 \* history: jobs this run owes the
                                           \* metadata stage

jobVars    == <<approval, details, attempts>>
threadVars == <<todo, keepers, current, inRow>>
loopVars   == <<seen, drained>>
vars == <<jobVars, pc, threadVars, ready, loopVars, faults, promised>>

TypeOK ==
  /\ approval \in [Jobs -> Approval]
  /\ details \in [Jobs -> DetailsStatus]
  /\ attempts \in [Jobs -> 0..MaxAttempts]
  /\ pc \in {"idle", "hung", "begun", "finalized", "next", "fetching", "announce", "saved",
            "done"}
  /\ todo \subseteq Jobs
  /\ keepers \subseteq Jobs
  /\ current \in Jobs \cup {None}
  /\ current # None <=> pc \in {"fetching", "announce"}
  /\ inRow \in Nat
  /\ ready \in Seq(Jobs \cup {End})
  /\ seen \subseteq Jobs
  /\ drained \in BOOLEAN
  /\ faults \in 0..MaxFaults
  /\ promised \subseteq Jobs

Approved(j) == approval[j] # "NO"
ExhaustedLate(j) == attempts[j] > MaxAttempts              \* mutant
Exhausted(j) == attempts[j] >= MaxAttempts

\* Rows load_detail_queue may return (approved_for_details leaves the settled
\* ones out), and their order: KEEP before AUTO_KEEP, then first_seen_at.
EligibleRefetch == {j \in Jobs : Approved(j) /\ ~Exhausted(j)}  \* mutant
Eligible == {j \in Jobs : Approved(j) /\ details[j] \notin Settled /\ ~Exhausted(j)}

Before(keep, j, k) ==
  \/ j \in keep /\ k \notin keep
  \/ (j \in keep <=> k \in keep) /\ j < k

InLimit(keep, j) ==
  MaxPerRun = 0 \/ Cardinality({k \in Eligible : Before(keep, k, j)}) < MaxPerRun

Init ==
  /\ approval \in [Jobs -> Approval]
  /\ details = [j \in Jobs |-> "NOT_FETCHED"]
  /\ attempts = [j \in Jobs |-> 0]
  /\ pc = "idle"
  /\ todo = {} /\ keepers = {} /\ current = None /\ inRow = 0
  /\ ready = <<>>
  /\ seen = {} /\ drained = FALSE
  /\ faults = 0
  /\ promised = {}

Fault == faults < MaxFaults /\ faults' = faults + 1

\* produce: the approved jobs an earlier run fetched go on the queue first, in
\* whatever order the query returns them.
Enumerations(S) ==
  {f \in [1..Cardinality(S) -> S] : \A j \in S : \E n \in 1..Cardinality(S) : f[n] = j}

InitialFetched == {j \in Jobs : details[j] = "FETCHED" /\ Approved(j)}

Start ==
  /\ pc = "idle"
  /\ pc' = "begun"
  /\ ready' \in Enumerations(InitialFetched)
  /\ promised' = InitialFetched
  /\ inRow' = 0 /\ seen' = {} /\ drained' = FALSE
  /\ UNCHANGED <<jobVars, todo, keepers, current, faults>>

\* The read of the jobs already fetched raises before the try whose finally puts
\* None: nothing will ever end the queue, and its consumer waits.
ProducerDies ==
  /\ pc = "idle"
  /\ Fault
  /\ pc' = "hung"
  /\ UNCHANGED <<jobVars, threadVars, ready, loopVars, promised>>

\* finalize_exhausted_failures: one transaction over the batch.
FinalizeNothing ==                                          \* mutant
  /\ pc = "begun" /\ pc' = "finalized"
  /\ UNCHANGED <<jobVars, threadVars, ready, loopVars, faults, promised>>

FinalizeExhausted ==
  /\ pc = "begun"
  /\ details' = [j \in Jobs |->
                   IF details[j] = "FAILED_OR_EMPTY" /\ Exhausted(j)
                   THEN "UNAVAILABLE" ELSE details[j]]
  /\ pc' = "finalized"
  /\ UNCHANGED <<approval, attempts, threadVars, ready, loopVars, faults, promised>>

LoadQueue ==
  LET keep == {j \in Eligible : approval[j] = "KEEP"}
  IN /\ pc = "finalized"
     /\ keepers' = keep
     /\ todo' = {j \in Eligible : InLimit(keep, j)}
     /\ pc' = "next"
     /\ UNCHANGED <<jobVars, current, inRow, ready, loopVars, faults, promised>>

\* The attempt is spent, and committed, before the remote call.
MarkAttempt ==
  /\ pc = "next"
  /\ \E j \in todo :
       /\ \A k \in todo \ {j} : Before(keepers, j, k)
       /\ current' = j
       /\ todo' = todo \ {j}
       /\ attempts' = [attempts EXCEPT ![j] = @ + 1]
  /\ pc' = "fetching"
  /\ UNCHANGED <<approval, details, keepers, inRow, ready, loopVars, faults, promised>>

Save(s) == details' = [details EXCEPT ![current] = s]

FetchRaises ==
  /\ pc = "fetching"
  /\ Save("FAILED_OR_EMPTY")
  /\ inRow' = inRow + 1
  /\ pc' = "saved" /\ current' = None
  /\ UNCHANGED <<approval, attempts, todo, keepers, ready, loopVars, faults, promised>>

FetchFindsNothing ==
  /\ pc = "fetching"
  /\ Save("UNAVAILABLE")
  /\ inRow' = 0
  /\ pc' = "saved" /\ current' = None
  /\ UNCHANGED <<approval, attempts, todo, keepers, ready, loopVars, faults, promised>>

FetchSucceeds ==
  /\ pc = "fetching"
  /\ Save("FETCHED")
  /\ inRow' = 0
  /\ pc' = "announce"
  /\ promised' = promised \cup {current}
  /\ UNCHANGED <<approval, attempts, todo, keepers, current, ready, loopVars, faults>>

\* on_fetched blocks the thread until the event loop has queued the job.
Announce ==
  /\ pc = "announce"
  /\ ready' = Append(ready, current)
  /\ pc' = "saved" /\ current' = None
  /\ UNCHANGED <<jobVars, todo, keepers, inRow, loopVars, faults, promised>>

Tripped == StopAfter > 0 /\ inRow >= StopAfter

NextJob ==
  /\ pc = "saved"
  /\ ~Tripped
  /\ pc' = "next"
  /\ UNCHANGED <<jobVars, threadVars, ready, loopVars, faults, promised>>

\* The queue is used up, or the breaker opened: the thread returns and the
\* producer puts None.
EndFirst ==                                                 \* mutant
  /\ \/ pc = "next" /\ todo = {}
     \/ pc = "saved" /\ Tripped
  /\ pc' = "done"
  /\ todo' = {} /\ keepers' = {}
  /\ ready' = <<End>> \o ready
  /\ UNCHANGED <<jobVars, current, inRow, loopVars, faults, promised>>

FinishDetails ==
  /\ \/ pc = "next" /\ todo = {}
     \/ pc = "saved" /\ Tripped
  /\ pc' = "done"
  /\ todo' = {} /\ keepers' = {}
  /\ ready' = Append(ready, End)
  /\ UNCHANGED <<jobVars, current, inRow, loopVars, faults, promised>>

\* A transaction of the thread raises, inside the try: its exception reaches the
\* run, and None is put all the same.
DetailsFail ==
  /\ Fault
  /\ pc \in {"begun", "finalized", "next", "fetching"}
  /\ pc' = "done"
  /\ todo' = {} /\ keepers' = {} /\ current' = None
  /\ ready' = Append(ready, End)
  /\ UNCHANGED <<jobVars, inRow, loopVars, promised>>

\* metadata_pass_jobs: a job handed to the metadata stage twice is skipped.
TakeReady ==
  /\ pc \notin {"idle", "hung"} /\ ~drained
  /\ ready # <<>>
  /\ IF Head(ready) = End
     THEN drained' = TRUE /\ seen' = seen
     ELSE seen' = seen \cup {Head(ready)} /\ drained' = FALSE
  /\ ready' = Tail(ready)
  /\ UNCHANGED <<jobVars, pc, threadVars, faults, promised>>

Return ==
  /\ pc = "done" /\ drained
  /\ pc' = "idle"
  /\ seen' = {} /\ drained' = FALSE /\ promised' = {}
  /\ inRow' = 0
  /\ ready' = <<>>
  /\ UNCHANGED <<jobVars, todo, keepers, current, faults>>

Crash ==
  /\ Fault
  /\ pc \notin {"idle", "hung"}
  /\ pc' = "idle"
  /\ todo' = {} /\ keepers' = {} /\ current' = None /\ inRow' = 0
  /\ ready' = <<>> /\ seen' = {} /\ drained' = FALSE /\ promised' = {}
  /\ UNCHANGED jobVars

\* Whoever notices a run that hangs may kill it; nobody is obliged to.
HungIsKilled ==
  /\ pc = "hung"
  /\ pc' = "idle"
  /\ UNCHANGED <<jobVars, threadVars, ready, loopVars, faults, promised>>

OverrideLate(j) ==                                          \* mutant
  /\ \E a \in {"KEEP", "NO"} \ {approval[j]} :
       approval' = [approval EXCEPT ![j] = a]
  /\ UNCHANGED <<details, attempts, pc, threadVars, ready, loopVars, faults, promised>>

\* save_prefetch_decisions in the portal takes no lock; a settled job keeps
\* its decision.
Override(j) ==
  /\ details[j] \notin Settled
  /\ \E a \in {"KEEP", "NO"} \ {approval[j]} :
       approval' = [approval EXCEPT ![j] = a]
  /\ UNCHANGED <<details, attempts, pc, threadVars, ready, loopVars, faults, promised>>

Next ==
  \/ Start \/ FinalizeExhausted \/ LoadQueue \/ MarkAttempt
  \/ FetchRaises \/ FetchFindsNothing \/ FetchSucceeds \/ Announce
  \/ NextJob \/ FinishDetails \/ DetailsFail \/ TakeReady \/ Return \/ Crash
  \/ ProducerDies \/ HungIsKilled
  \/ \E j \in Overrides : Override(j)

Spec == Init /\ [][Next]_vars

Thread ==
  \/ FinalizeExhausted \/ LoadQueue \/ MarkAttempt
  \/ FetchRaises \/ FetchFindsNothing \/ FetchSucceeds \/ Announce
  \/ NextJob \/ FinishDetails

\* The user keeps continuing the batch; a started run goes on.
FairSpec ==
  /\ Spec
  /\ WF_vars(Start) /\ WF_vars(Thread) /\ WF_vars(TakeReady) /\ WF_vars(Return)

-----------------------------------------------------------------------------
\* When the queue has ended, every job the run fetched, or found fetched when
\* it started, has been handed to the metadata stage (streaming.py: the None
\* of produce() comes after every on_fetched).
StreamDelivers == drained => promised \subseteq seen

\* A job with an outcome keeps it, and costs no further attempt, whatever the
\* portal changes while the thread works on a queue it loaded earlier.
OutcomesKept ==
  [][\A j \in Jobs : details[j] \in Settled =>
       details'[j] = details[j] /\ attempts'[j] = attempts[j]]_vars

\* An approved job is settled in the end if the user keeps continuing the
\* batch, in spite of the attempt budget, the circuit breaker and the limit of
\* jobs per run (fetch_approved_details).  Only two things keep it from that:
\* crashes that lost the outcome of each of its attempts, or a run whose
\* producer died before its try clause and that nobody kills.
Spent(j) ==
  details[j] = "NOT_FETCHED" /\ Exhausted(j) /\ ~(pc = "fetching" /\ j = current)

ApprovedSettles ==
  \A j \in Jobs :
    <>[]Approved(j) => <>(details[j] \in Settled \/ Spent(j)) \/ <>[](pc = "hung")

\* details_fetcher.py:669 says of finalize_exhausted_failures that it makes
\* exhausted failures terminal so they cannot block a batch.
ExhaustedAreTerminal ==
  pc = "finalized" => \A j \in Jobs : Exhausted(j) => details[j] \in Settled

\* What the stage looks like from outside: the calls of its one thread, the
\* outcomes, and which titles the user wants.
Stage == INSTANCE StageContract
  WITH Items   <- Jobs,
       Width   <- 1,
       settled <- {j \in Jobs : details[j] \in Settled},
       tried   <- {j \in Jobs : attempts[j] > 0},
       calling <- {j \in Jobs : pc = "fetching" /\ j = current},
       spent   <- {j \in Jobs : Spent(j)},
       wanted  <- {j \in Jobs : Approved(j)},
       run     <- IF pc = "idle" THEN "closed" ELSE IF pc = "hung" THEN "hung" ELSE "open"

\* fetch_approved_details keeps the contract of a stage: one call at a time, none
\* for a job with an outcome or without attempts left, no outcome given up without
\* an attempt, and an outcome in the end for every job that stays approved, but
\* for lost last calls and runs that hang.
KeepsContract == Stage!Spec
=============================================================================
