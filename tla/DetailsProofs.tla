---------------------------- MODULE DetailsProofs ---------------------------
(* Proofs about Details, for any number of jobs and any limits.             *)
EXTENDS Details, FiniteSetTheorems, TLAPS

\* The jobs still to fetch, and the one being fetched, have no outcome yet and
\* an attempt left: the queue was loaded once and holds each job once.
QueueOK ==
  /\ \A j \in todo : details[j] \notin Settled /\ attempts[j] < MaxAttempts
  /\ pc \in {"idle", "hung", "begun", "finalized", "done"} => todo = {}
  /\ pc = "fetching" => details[current] \notin Settled
  /\ current \notin todo

\* What is promised and not yet handed over is on ready_queue, or about to be;
\* the end mark is last.
StreamOK ==
  /\ \A j \in promised :
       \/ j \in seen
       \/ \E n \in 1..Len(ready) : ready[n] = j
       \/ pc = "announce" /\ j = current
  /\ \A n \in 1..Len(ready) : ready[n] = End => n = Len(ready) /\ pc = "done"
  /\ drained => ready = <<>> /\ pc = "done"

IInv == TypeOK /\ QueueOK /\ StreamOK

LEMMA JobsFinite == IsFiniteSet(Jobs) /\ End \notin Jobs
BY NumJobsAssumption, FS_Interval DEF Jobs, End

LEMMA EnumerationSeq ==
  ASSUME NEW S \in SUBSET Jobs, NEW f \in Enumerations(S)
  PROVE  /\ f \in Seq(Jobs)
         /\ \A j \in S : \E n \in 1..Len(f) : f[n] = j
<1>1. Cardinality(S) \in Nat
  BY JobsFinite, FS_Subset, FS_CardinalityType
<1>2. f \in [1..Cardinality(S) -> Jobs]
  BY DEF Enumerations
<1>3. f \in Seq(Jobs) /\ Len(f) = Cardinality(S)
  BY <1>1, <1>2
<1> QED BY <1>3 DEF Enumerations

LEMMA EmptyQueue == <<>> \in Seq(Jobs \cup {End}) /\ Len(<<>>) = 0
OBVIOUS

LEMMA InitOK == Init => IInv
<1> SUFFICES ASSUME Init PROVE IInv
  OBVIOUS
<1>1. TypeOK
  <2>1. attempts \in [Jobs -> 0..MaxAttempts] /\ faults \in 0..MaxFaults
    BY MaxAttemptsAssumption, MaxFaultsAssumption DEF Init
  <2>2. details \in [Jobs -> DetailsStatus] /\ inRow \in Nat
    BY DEF Init, DetailsStatus
  <2> QED BY EmptyQueue, <2>1, <2>2 DEF Init, TypeOK
<1>2. QueueOK
  BY DEF Init, QueueOK
<1>3. StreamOK
  BY EmptyQueue DEF Init, StreamOK
<1> QED BY <1>1, <1>2, <1>3 DEF IInv

LEMMA StepOK == IInv /\ [Next]_vars => IInv'
<1> SUFFICES ASSUME IInv, [Next]_vars PROVE IInv'
  OBVIOUS
<1>1. CASE Start
  <2>1. InitialFetched \in SUBSET Jobs
    BY DEF InitialFetched
  <2>2. /\ ready' \in Seq(Jobs)
        /\ \A j \in InitialFetched : \E n \in 1..Len(ready') : ready'[n] = j
    BY <1>1, <2>1, EnumerationSeq DEF Start
  <2>3. TypeOK'
    <3>1. ready' \in Seq(Jobs \cup {End})
      BY <2>2
    <3> QED BY <1>1, <2>1, <3>1 DEF Start, IInv, TypeOK, jobVars
  <2>4. QueueOK'
    BY <1>1 DEF Start, IInv, TypeOK, QueueOK, jobVars
  <2>5. StreamOK'
    <3>1. \A n \in 1..Len(ready') : ready'[n] # End
      BY <2>2, JobsFinite
    <3> QED BY <1>1, <2>2, <3>1 DEF Start, StreamOK
  <2> QED BY <2>3, <2>4, <2>5 DEF IInv
<1>2. CASE FinalizeExhausted
  <2>1. TypeOK'
    BY <1>2 DEF FinalizeExhausted, IInv, TypeOK, DetailsStatus, threadVars, loopVars
  <2>2. QueueOK'
    BY <1>2 DEF FinalizeExhausted, IInv, TypeOK, QueueOK, threadVars, loopVars
  <2>3. StreamOK'
    BY <1>2 DEF FinalizeExhausted, IInv, TypeOK, StreamOK, threadVars, loopVars
  <2> QED BY <2>1, <2>2, <2>3 DEF IInv
<1>3. CASE LoadQueue
  <2>1. Eligible \subseteq Jobs /\ \A j \in Eligible : details[j] \notin Settled /\ attempts[j] < MaxAttempts
    BY MaxAttemptsAssumption DEF Eligible, IInv, TypeOK, Exhausted
  <2>2. todo' \subseteq Eligible /\ keepers' \subseteq Eligible
    BY <1>3 DEF LoadQueue
  <2>3. TypeOK'
    BY <1>3, <2>1, <2>2 DEF LoadQueue, IInv, TypeOK, loopVars, jobVars
  <2>4. QueueOK'
    BY <1>3, <2>1, <2>2, JobsFinite DEF LoadQueue, IInv, TypeOK, QueueOK, loopVars, jobVars, None, End
  <2>5. StreamOK'
    BY <1>3 DEF LoadQueue, IInv, StreamOK, loopVars
  <2> QED BY <2>3, <2>4, <2>5 DEF IInv
<1>4. CASE MarkAttempt
  <2>1. TypeOK'
    BY <1>4, MaxAttemptsAssumption DEF MarkAttempt, IInv, TypeOK, QueueOK, loopVars
  <2>2. QueueOK'
    BY <1>4, JobsFinite DEF MarkAttempt, IInv, TypeOK, QueueOK, loopVars
  <2>3. StreamOK'
    BY <1>4 DEF MarkAttempt, IInv, StreamOK, loopVars
  <2> QED BY <2>1, <2>2, <2>3 DEF IInv
<1>5. CASE FetchRaises
  <2>1. TypeOK'
    BY <1>5 DEF FetchRaises, Save, IInv, TypeOK, DetailsStatus, loopVars
  <2>2. QueueOK'
    BY <1>5, JobsFinite DEF FetchRaises, Save, IInv, TypeOK, QueueOK, None, End
  <2>3. StreamOK'
    BY <1>5 DEF FetchRaises, IInv, TypeOK, StreamOK, loopVars
  <2> QED BY <2>1, <2>2, <2>3 DEF IInv
<1>14. CASE FetchFindsNothing
  <2>1. TypeOK'
    BY <1>14 DEF FetchFindsNothing, Save, IInv, TypeOK, DetailsStatus, loopVars
  <2>2. QueueOK'
    BY <1>14, JobsFinite DEF FetchFindsNothing, Save, IInv, TypeOK, QueueOK, None, End
  <2>3. StreamOK'
    BY <1>14 DEF FetchFindsNothing, IInv, TypeOK, StreamOK, loopVars
  <2> QED BY <2>1, <2>2, <2>3 DEF IInv
<1>6. CASE FetchSucceeds
  <2>1. TypeOK'
    BY <1>6 DEF FetchSucceeds, Save, IInv, TypeOK, DetailsStatus, loopVars
  <2>2. QueueOK'
    BY <1>6 DEF FetchSucceeds, Save, IInv, TypeOK, QueueOK
  <2>3. StreamOK'
    BY <1>6 DEF FetchSucceeds, IInv, TypeOK, StreamOK, loopVars
  <2> QED BY <2>1, <2>2, <2>3 DEF IInv
<1>7. CASE Announce
  <2>1. TypeOK'
    BY <1>7 DEF Announce, IInv, TypeOK, jobVars, loopVars
  <2>2. QueueOK'
    BY <1>7, JobsFinite DEF Announce, IInv, TypeOK, QueueOK, jobVars, None, End
  <2>3. StreamOK'
    <3>1. /\ Len(ready') = Len(ready) + 1
          /\ ready'[Len(ready')] = current
          /\ \A n \in 1..Len(ready) : ready'[n] = ready[n]
          /\ Len(ready) \in Nat
      BY <1>7 DEF Announce, IInv, TypeOK
    <3>2. current # End /\ ~drained /\ \A n \in 1..Len(ready) : ready[n] # End
      BY <1>7, JobsFinite DEF Announce, IInv, TypeOK, StreamOK, None, End
    <3>3. \A n \in 1..Len(ready') : n \in 1..Len(ready) \/ n = Len(ready')
      BY <3>1
    <3>4. \A j \in promised' : j \in seen' \/ \E n \in 1..Len(ready') : ready'[n] = j
      <4>1. Len(ready') \in 1..Len(ready') /\ \A n \in 1..Len(ready) : n \in 1..Len(ready')
        BY <3>1
      <4> QED BY <1>7, <3>1, <4>1 DEF Announce, IInv, StreamOK, loopVars
    <3>5. \A n \in 1..Len(ready') : ready'[n] # End
      BY <3>1, <3>2, <3>3
    <3> QED BY <1>7, <3>2, <3>4, <3>5 DEF Announce, StreamOK, loopVars
  <2> QED BY <2>1, <2>2, <2>3 DEF IInv
<1>8. CASE NextJob
  BY <1>8 DEF NextJob, IInv, TypeOK, QueueOK, StreamOK, jobVars, threadVars, loopVars
<1>9. CASE FinishDetails
  <2>1. TypeOK'
    BY <1>9 DEF FinishDetails, IInv, TypeOK, jobVars, loopVars, None, End
  <2>2. QueueOK'
    BY <1>9, JobsFinite DEF FinishDetails, IInv, TypeOK, QueueOK, jobVars, None, End
  <2>3. StreamOK'
    <3>1. /\ Len(ready') = Len(ready) + 1
          /\ \A n \in 1..Len(ready) : ready'[n] = ready[n]
          /\ Len(ready) \in Nat
      BY <1>9 DEF FinishDetails, IInv, TypeOK
    <3>2. \A n \in 1..Len(ready) : ready[n] # End
      BY <1>9 DEF FinishDetails, IInv, StreamOK
    <3>3. pc # "announce" /\ pc' = "done" /\ ~drained'
      BY <1>9 DEF FinishDetails, IInv, StreamOK, loopVars
    <3>4. promised' = promised /\ seen' = seen
      BY <1>9 DEF FinishDetails, loopVars
    <3> QED BY <3>1, <3>2, <3>3, <3>4 DEF IInv, StreamOK
  <2> QED BY <2>1, <2>2, <2>3 DEF IInv
<1>15. CASE DetailsFail
  <2>1. TypeOK'
    BY <1>15, MaxFaultsAssumption DEF DetailsFail, Fault, IInv, TypeOK, jobVars, loopVars, None, End
  <2>2. QueueOK'
    BY <1>15, JobsFinite DEF DetailsFail, IInv, TypeOK, QueueOK, jobVars, None, End
  <2>3. StreamOK'
    <3>1. /\ Len(ready') = Len(ready) + 1
          /\ \A n \in 1..Len(ready) : ready'[n] = ready[n]
          /\ Len(ready) \in Nat
      BY <1>15 DEF DetailsFail, IInv, TypeOK
    <3>2. \A n \in 1..Len(ready) : ready[n] # End
      BY <1>15 DEF DetailsFail, IInv, StreamOK
    <3>3. pc # "announce" /\ pc' = "done" /\ ~drained'
      BY <1>15 DEF DetailsFail, IInv, StreamOK, loopVars
    <3>4. promised' = promised /\ seen' = seen
      BY <1>15 DEF DetailsFail, loopVars
    <3> QED BY <3>1, <3>2, <3>3, <3>4 DEF IInv, StreamOK
  <2> QED BY <2>1, <2>2, <2>3 DEF IInv
<1>10. CASE TakeReady
  <2>1. /\ ready \in Seq(Jobs \cup {End}) /\ ready # <<>>
        /\ ready' = Tail(ready)
        /\ Len(ready) \in Nat /\ Len(ready) >= 1 /\ Len(ready') = Len(ready) - 1
        /\ \A n \in 1..Len(ready') : ready'[n] = ready[n + 1]
        /\ Head(ready) = ready[1] /\ ready[1] \in Jobs \cup {End}
    BY <1>10 DEF TakeReady, IInv, TypeOK
  <2>2. TypeOK'
    <3>1. ready' \in Seq(Jobs \cup {End})
      BY <2>1
    <3>2. seen' \subseteq Jobs /\ drained' \in BOOLEAN
      <4>1. CASE Head(ready) = End
        BY <1>10, <4>1 DEF TakeReady, IInv, TypeOK
      <4>2. CASE Head(ready) # End
        <5>1. Head(ready) \in Jobs
          BY <2>1, <4>2
        <5> QED BY <1>10, <4>2, <5>1 DEF TakeReady, IInv, TypeOK
      <4> QED BY <4>1, <4>2
    <3> QED BY <1>10, <3>1, <3>2 DEF TakeReady, IInv, TypeOK, jobVars, threadVars
  <2>3. QueueOK'
    BY <1>10 DEF TakeReady, IInv, TypeOK, QueueOK, jobVars, threadVars
  <2>4. StreamOK'
    <3>1. \A j \in promised : \A n \in 1..Len(ready) :
            ready[n] = j => n = 1 \/ n - 1 \in 1..Len(ready')
      BY <2>1
    <3>2. \A j \in promised' : \/ j \in seen'
                               \/ \E n \in 1..Len(ready') : ready'[n] = j
                               \/ pc' = "announce" /\ j = current'
      <4> SUFFICES ASSUME NEW j \in promised
                   PROVE  \/ j \in seen'
                          \/ \E n \in 1..Len(ready') : ready'[n] = j
                          \/ pc' = "announce" /\ j = current'
        BY <1>10 DEF TakeReady
      <4>1. CASE j \in seen
        BY <1>10, <4>1 DEF TakeReady
      <4>2. ASSUME NEW n \in 1..Len(ready), ready[n] = j
            PROVE j \in seen' \/ \E i \in 1..Len(ready') : ready'[i] = j
        <5>1. CASE n = 1
          <6>1. Head(ready) = j /\ j # End
            BY <2>1, <4>2, <5>1, JobsFinite DEF IInv, TypeOK
          <6> QED BY <1>10, <6>1 DEF TakeReady
        <5>2. CASE n # 1
          BY <2>1, <4>2, <5>2
        <5> QED BY <5>1, <5>2
      <4>3. CASE pc = "announce" /\ j = current
        BY <1>10, <4>3 DEF TakeReady, threadVars
      <4> QED BY <4>1, <4>2, <4>3 DEF IInv, StreamOK
    <3>3. \A n \in 1..Len(ready') : ready'[n] = End => n = Len(ready') /\ pc' = "done"
      <4> SUFFICES ASSUME NEW n \in 1..Len(ready'), ready'[n] = End
                   PROVE  n = Len(ready') /\ pc' = "done"
        OBVIOUS
      <4>1. n + 1 \in 1..Len(ready) /\ ready[n + 1] = End
        BY <2>1
      <4>2. n + 1 = Len(ready) /\ pc = "done"
        BY <4>1 DEF IInv, StreamOK
      <4>3. n \in Int /\ Len(ready) \in Int /\ Len(ready') = Len(ready) - 1
        BY <2>1
      <4>4. n = Len(ready')
        BY <4>2, <4>3
      <4> QED BY <1>10, <4>2, <4>4 DEF TakeReady
    <3>4. drained' => ready' = <<>> /\ pc' = "done"
      <4> SUFFICES ASSUME drained' PROVE ready' = <<>> /\ pc' = "done"
        OBVIOUS
      <4>1. ready[1] = End
        BY <1>10, <2>1 DEF TakeReady
      <4>2. 1 \in 1..Len(ready)
        BY <2>1
      <4>3. Len(ready) = 1 /\ pc = "done"
        BY <4>1, <4>2 DEF IInv, StreamOK
      <4> QED BY <1>10, <2>1, <4>3 DEF TakeReady
    <3> QED BY <3>2, <3>3, <3>4 DEF StreamOK
  <2> QED BY <2>2, <2>3, <2>4 DEF IInv
<1>11. CASE Return
  <2>1. TypeOK'
    BY <1>11, EmptyQueue DEF Return, IInv, TypeOK, jobVars, None
  <2>2. QueueOK'
    BY <1>11, JobsFinite DEF Return, IInv, TypeOK, QueueOK, jobVars, None, End
  <2>3. StreamOK'
    BY <1>11 DEF Return, StreamOK
  <2> QED BY <2>1, <2>2, <2>3 DEF IInv
<1>16. CASE Crash
  <2>1. TypeOK'
    <3>1. faults' \in 0..MaxFaults
      BY <1>16, MaxFaultsAssumption DEF Crash, Fault, IInv, TypeOK
    <3> QED BY <1>16, EmptyQueue, <3>1 DEF Crash, IInv, TypeOK, jobVars
  <2>2. QueueOK'
    BY <1>16, JobsFinite DEF Crash, IInv, TypeOK, QueueOK, jobVars, None, End
  <2>3. StreamOK'
    BY <1>16 DEF Crash, StreamOK
  <2> QED BY <2>1, <2>2, <2>3 DEF IInv
<1>17. CASE ProducerDies
  <2>1. TypeOK'
    BY <1>17, MaxFaultsAssumption DEF ProducerDies, Fault, IInv, TypeOK, jobVars, threadVars,
       loopVars
  <2>2. QueueOK'
    BY <1>17 DEF ProducerDies, IInv, TypeOK, QueueOK, jobVars, threadVars
  <2>3. StreamOK'
    BY <1>17 DEF ProducerDies, IInv, StreamOK, threadVars, loopVars
  <2> QED BY <2>1, <2>2, <2>3 DEF IInv
<1>18. CASE HungIsKilled
  BY <1>18 DEF HungIsKilled, IInv, TypeOK, QueueOK, StreamOK, jobVars, threadVars, loopVars
<1>12. ASSUME NEW j \in Overrides, Override(j) PROVE IInv'
  BY <1>12 DEF Override, IInv, TypeOK, QueueOK, StreamOK, Approval, threadVars, loopVars
<1>13. CASE UNCHANGED vars
  BY <1>13 DEF vars, IInv, TypeOK, QueueOK, StreamOK, jobVars, threadVars, loopVars
<1> QED
  BY <1>1, <1>2, <1>3, <1>4, <1>5, <1>6, <1>7, <1>8, <1>9, <1>10, <1>11, <1>12, <1>13,
     <1>14, <1>15, <1>16, <1>17, <1>18 DEF Next

-----------------------------------------------------------------------------
\* The tables and the local state of both threads keep their types; in
\* particular no job is ever charged more attempts than its budget.
THEOREM TypeCorrect == Spec => []TypeOK
<1>1. IInv => TypeOK
  BY DEF IInv
<1> QED BY InitOK, StepOK, <1>1, PTL DEF Spec

\* When ready_queue has ended, every job the run owes the metadata stage has
\* been handed to it, however the two threads interleave.
THEOREM Delivered == Spec => []StreamDelivers
<1>1. IInv => StreamDelivers
  <2> SUFFICES ASSUME IInv, drained, NEW j \in promised PROVE j \in seen
    BY DEF StreamDelivers
  <2>1. ready = <<>> /\ pc = "done"
    BY DEF IInv, StreamOK
  <2>2. 1..Len(ready) = {}
    BY <2>1
  <2> QED BY <2>1, <2>2 DEF IInv, StreamOK
<1> QED BY InitOK, StepOK, <1>1, PTL DEF Spec

\* A job with an outcome keeps it and is not charged again.
THEOREM OutcomesSafe == Spec => OutcomesKept
<1> DEFINE Keeps == \A j \in Jobs : details[j] \in Settled =>
                      details'[j] = details[j] /\ attempts'[j] = attempts[j]
<1>1. IInv /\ [Next]_vars => [Keeps]_vars
  <2> SUFFICES ASSUME IInv, Next, NEW j \in Jobs, details[j] \in Settled
               PROVE  details'[j] = details[j] /\ attempts'[j] = attempts[j]
    OBVIOUS
  <2> USE DEF IInv, TypeOK
  <2>1. CASE FinalizeExhausted
    BY <2>1 DEF FinalizeExhausted, Settled
  <2>2. CASE MarkAttempt
    BY <2>2 DEF MarkAttempt, QueueOK
  <2>3. CASE FetchRaises \/ FetchFindsNothing \/ FetchSucceeds
    BY <2>3 DEF FetchRaises, FetchFindsNothing, FetchSucceeds, Save, QueueOK
  <2>4. CASE ~(FinalizeExhausted \/ MarkAttempt \/ FetchRaises
               \/ FetchFindsNothing \/ FetchSucceeds)
    BY <2>4 DEF Next, Start, LoadQueue, Announce, NextJob, FinishDetails,
       DetailsFail, TakeReady, Return, Crash, ProducerDies, HungIsKilled, Override, jobVars
  <2> QED BY <2>1, <2>2, <2>3, <2>4
<1>2. OutcomesKept <=> [][Keeps]_vars
  BY DEF OutcomesKept
<1> QED BY InitOK, StepOK, <1>1, <1>2, PTL DEF Spec
-----------------------------------------------------------------------------
(* Details implements StageContract.                                        *)

\* No call without an attempt, and no outcome without a call.
TriedOK ==
  /\ \A j \in Jobs : details[j] # "NOT_FETCHED" => attempts[j] > 0
  /\ pc = "fetching" => attempts[current] > 0

LEMMA TriedInit == Init => TriedOK
BY DEF Init, TriedOK

LEMMA TriedStep == IInv /\ TriedOK /\ [Next]_vars => TriedOK'
<1> SUFFICES ASSUME IInv, TriedOK, [Next]_vars PROVE TriedOK'
  OBVIOUS
<1> USE DEF IInv, TypeOK, TriedOK
<1>1. CASE FinalizeExhausted
  BY <1>1 DEF FinalizeExhausted, threadVars
<1>2. CASE MarkAttempt
  BY <1>2 DEF MarkAttempt
<1>3. CASE FetchRaises \/ FetchFindsNothing \/ FetchSucceeds
  BY <1>3 DEF FetchRaises, FetchFindsNothing, FetchSucceeds, Save
<1>4. CASE ~(FinalizeExhausted \/ MarkAttempt \/ FetchRaises
             \/ FetchFindsNothing \/ FetchSucceeds)
  BY <1>4 DEF Next, Start, LoadQueue, Announce, NextJob, FinishDetails, DetailsFail,
     TakeReady, Return, Crash, ProducerDies, HungIsKilled, Override, jobVars, threadVars, vars
<1> QED BY <1>1, <1>2, <1>3, <1>4

\* The refinement mapping, under names of its own.
SettledJobs == {j \in Jobs : details[j] \in Settled}
TriedJobs   == {j \in Jobs : attempts[j] > 0}
CalledJobs  == {j \in Jobs : pc = "fetching" /\ j = current}
WantedJobs  == {j \in Jobs : Approved(j)}

SpentJobs   == {j \in Jobs : Spent(j)}

LEMMA ContractInit == Init => Stage!Init
BY DEF Init, Stage!Init, Settled

\* A call that is lost spends its job, if it was the job's last; nothing else does.
LEMMA SpentFrame ==
  ASSUME UNCHANGED <<details, attempts>>, pc # "fetching", pc' # "fetching"
  PROVE  SpentJobs' = SpentJobs
BY DEF SpentJobs, Spent, Exhausted

LEMMA CallsLost ==
  ASSUME IInv, UNCHANGED jobVars, pc' # "fetching"
  PROVE  Stage!LosesCalls
<1> USE DEF IInv, TypeOK
<1> DEFINE lost == {j \in CalledJobs : Spent(j)'}
<1>1. lost \in SUBSET (CalledJobs \ SettledJobs)
  BY DEF CalledJobs, SettledJobs, Settled, Spent, jobVars
<1>2. SpentJobs' = SpentJobs \cup lost
  BY DEF SpentJobs, CalledJobs, Spent, Exhausted, jobVars
<1>3. CalledJobs' = {} /\ UNCHANGED <<SettledJobs, TriedJobs, WantedJobs>>
  BY DEF CalledJobs, SettledJobs, TriedJobs, WantedJobs, Approved, jobVars
<1> HIDE DEF lost
<1> QED BY <1>1, <1>2, <1>3
     DEF Stage!LosesCalls, CalledJobs, SettledJobs, TriedJobs, WantedJobs, SpentJobs

LEMMA ContractStep == IInv /\ TriedOK /\ [Next]_vars => [Stage!Next]_(Stage!vars)
<1> SUFFICES ASSUME IInv, TriedOK, [Next]_vars PROVE [Stage!Next]_(Stage!vars)
  OBVIOUS
<1> USE DEF IInv, TypeOK
<1>1. CASE Start \/ ProducerDies
  <2>1. SpentJobs' = SpentJobs /\ CalledJobs' = CalledJobs
    BY <1>1, SpentFrame DEF Start, ProducerDies, jobVars, CalledJobs
  <2>2. Stage!Begin
    BY <1>1, <2>1 DEF Start, ProducerDies, jobVars, Stage!Begin, Approved, SpentJobs, CalledJobs
  <2> QED BY <2>2 DEF Stage!Next
<1>2. CASE FinalizeExhausted
  <2> DEFINE lost == {j \in Jobs : details[j] = "FAILED_OR_EMPTY" /\ Exhausted(j)}
  <2>1. lost \in SUBSET (TriedJobs \ (CalledJobs \cup SpentJobs))
    BY <1>2 DEF FinalizeExhausted, TriedOK, TriedJobs, CalledJobs, SpentJobs, Spent
  <2>2. SettledJobs' = SettledJobs \cup lost
    BY <1>2 DEF FinalizeExhausted, SettledJobs, Settled
  <2>3. SpentJobs' = SpentJobs
    BY <1>2 DEF FinalizeExhausted, SpentJobs, Spent, Exhausted, threadVars
  <2>4. Stage!GiveUp
    BY <1>2, <2>1, <2>2, <2>3 DEF FinalizeExhausted, threadVars, Approved,
       Stage!GiveUp, SettledJobs, TriedJobs, CalledJobs, SpentJobs
  <2> QED BY <2>4 DEF Stage!Next
<1>3. CASE MarkAttempt
  <2>1. PICK j \in todo : /\ current' = j
                         /\ attempts' = [attempts EXCEPT ![j] = @ + 1]
    BY <1>3 DEF MarkAttempt
  <2>8. j \in Jobs /\ j \notin SettledJobs
    BY DEF QueueOK, SettledJobs
  <2>9. ~Exhausted(j)
    <3>1. attempts[j] < MaxAttempts /\ attempts[j] \in Int /\ MaxAttempts \in Int
      BY <2>8, MaxAttemptsAssumption DEF QueueOK
    <3> QED BY <3>1 DEF Exhausted
  <2>2. CalledJobs = {} /\ CalledJobs' = {j}
    BY <1>3, <2>1, <2>8 DEF MarkAttempt, CalledJobs
  <2>3. TriedJobs' = TriedJobs \cup {j}
    BY <2>1, <2>8 DEF TriedJobs
  <2>4. Cardinality(CalledJobs) < 1
    BY <2>2, FS_EmptySet
  <2>5. Stage!Cardinality(CalledJobs) < 1
    BY <2>4 DEF Stage!Cardinality, Cardinality
  <2>6. SpentJobs' = SpentJobs /\ j \notin SpentJobs
    BY <1>3, <2>1, <2>8, <2>9 DEF MarkAttempt, SpentJobs, Spent, Exhausted
  <2>7. Stage!Call(j)
    BY <1>3, <2>1, <2>2, <2>3, <2>5, <2>6, <2>8 DEF MarkAttempt, Approved, Stage!Call,
       SettledJobs, TriedJobs, CalledJobs, SpentJobs
  <2> QED BY <2>7, <2>8 DEF Stage!Next
<1>4. CASE FetchRaises \/ FetchFindsNothing \/ FetchSucceeds
  <2>1. PICK j \in Jobs : j = current
    BY <1>4 DEF FetchRaises, FetchFindsNothing, FetchSucceeds, None
  <2>2. CalledJobs = {j} /\ CalledJobs' = {}
    BY <1>4, <2>1 DEF FetchRaises, FetchFindsNothing, FetchSucceeds, CalledJobs
  <2>3. SettledJobs' = SettledJobs \/ SettledJobs' = SettledJobs \cup {j}
    BY <1>4, <2>1 DEF FetchRaises, FetchFindsNothing, FetchSucceeds, Save,
       SettledJobs, Settled, QueueOK
  <2>4. SpentJobs' = SpentJobs
    BY <1>4, <2>1 DEF FetchRaises, FetchFindsNothing, FetchSucceeds, Save, SpentJobs, Spent,
       Exhausted
  <2>5. Stage!Answer(j)
    BY <1>4, <2>1, <2>2, <2>3, <2>4 DEF FetchRaises, FetchFindsNothing, FetchSucceeds,
       Approved, Stage!Answer, SettledJobs, CalledJobs, SpentJobs
  <2> QED BY <2>5 DEF Stage!Next
<1>5. CASE DetailsFail
  <2>1. Stage!LosesCalls
    BY <1>5, CallsLost DEF DetailsFail
  <2>2. Stage!Lose
    BY <1>5, <2>1 DEF DetailsFail, Stage!Lose
  <2> QED BY <2>2 DEF Stage!Next
<1>6. CASE Return \/ Crash \/ HungIsKilled
  <2>1. Stage!LosesCalls
    BY <1>6, CallsLost DEF Return, Crash, HungIsKilled
  <2>2. Stage!End
    BY <1>6, <2>1 DEF Return, Crash, HungIsKilled, Stage!End
  <2> QED BY <2>2 DEF Stage!Next
<1>7. ASSUME NEW j \in Overrides, Override(j) PROVE Stage!Reconsider
  <2>1. SpentJobs' = SpentJobs
    BY <1>7 DEF Override, SpentJobs, Spent, Exhausted, threadVars
  <2> QED BY <1>7, <2>1 DEF Override, threadVars, Stage!Reconsider, Approved, SpentJobs
<1>8. CASE LoadQueue \/ Announce \/ NextJob \/ FinishDetails \/ TakeReady \/ UNCHANGED vars
  <2>1. SpentJobs' = SpentJobs
    BY <1>8 DEF LoadQueue, Announce, NextJob, FinishDetails, TakeReady, vars, jobVars,
       threadVars, SpentJobs, Spent, Exhausted
  <2> QED BY <1>8, <2>1 DEF LoadQueue, Announce, NextJob, FinishDetails, TakeReady, vars,
       jobVars, threadVars, Approved, Stage!vars, SpentJobs
<1> QED
  BY <1>1, <1>2, <1>3, <1>4, <1>5, <1>6, <1>7, <1>8 DEF Next, Stage!Next

\* The detail stage keeps the safety part of the contract, for any number of
\* jobs and any limits: one call at a time, none for a job that has an outcome,
\* no outcome without an attempt, none ever lost.
THEOREM ContractKept == Spec => Stage!Safety
BY InitOK, StepOK, TriedInit, TriedStep, ContractInit, ContractStep, PTL
   DEF Spec, Stage!Safety
=============================================================================
