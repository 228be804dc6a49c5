----------------------------- MODULE AiRunsProofs ----------------------------
(* Proofs about AiRuns, for any jobs, window, budgets, limits and delays.   *)
EXTENDS AiRuns, FiniteSetTheorems, TLAPS

\* What the proofs need of the variables' types; the rolling window itself, and
\* the tokens in it, are left to AiLimits.
TypesOK ==
  /\ ai \in [Tasks -> {"NEW", "PROCESSING", "FAILED", "EXTRACTED"}]
  /\ pc \in [Tasks -> Working \cup {"none", "done", "raised"}]
  /\ model \in [Tasks -> Models]
  /\ remaining \in [Tasks -> Nat]
  /\ used \in [Tasks -> [Models -> Nat]]
  /\ owed \in [Tasks -> Nat]
  /\ cooldown \in Nat /\ faults \in Nat
  /\ holders \subseteq Tasks
  /\ todo \subseteq Tasks /\ started \subseteq Tasks /\ pending \subseteq Tasks

\* A job is started once in a run, its task is in the window as long as it is at
\* work, and the stream only pulls when the window has room.
WindowOK ==
  /\ \A t \in Tasks : pc[t] = "none" <=> t \notin started
  /\ \A t \in Tasks : pc[t] \in Working => t \in pending
  /\ todo \cap started = {}
  /\ phase \in {"off", "hung"} => started = {} /\ pending = {}
  /\ IsFiniteSet(pending)
  /\ Cardinality(pending) <= MaxConcurrency
  /\ phase = "pull" => Cardinality(pending) < MaxConcurrency

\* A request is only under way with a slot of the limiter.
SlotsOK ==
  /\ \A t \in Tasks : pc[t] \in {"polling", "sent"} => t \in holders
  /\ IsFiniteSet(holders)
  /\ Cardinality(holders) <= MaxConcurrency

\* What is spent of a model's budget and what is left of it add up, whatever a
\* job goes through; the fallback's budget is opened when the other is used up.
BudgetOK ==
  \A t \in Tasks :
    /\ pc[t] = "none" => model[t] = "primary" /\ \A m \in Models : used[t][m] = 0
    /\ pc[t] # "none" /\ model[t] = "primary" =>
         used[t]["primary"] + remaining[t] = MaxAttempts /\ used[t]["fallback"] = 0
    /\ model[t] = "fallback" =>
         /\ HasFallback
         /\ used[t]["primary"] = MaxAttempts
         /\ used[t]["fallback"] + remaining[t] = FallbackAttempts

\* The row of a job at work is not that of an extracted one, and says PROCESSING
\* while its request is under way.
RowsOK ==
  \A t \in Tasks :
    /\ pc[t] \in Working => ai[t] # "EXTRACTED"
    /\ pc[t] = "sent" => ai[t] = "PROCESSING"

\* Without a fault no task raises.
CalmOK ==
  faults = 0 => /\ phase # "unwind"
                /\ \A t \in Tasks : pc[t] # "raised"
                /\ \A t \in Tasks : ai[t] = "PROCESSING" => pc[t] \in {"polling", "sent"}

\* Each job's pause is part of the limiter's.
PauseOK == \A t \in Tasks : owed[t] <= cooldown

IInv == TypesOK /\ WindowOK /\ SlotsOK /\ BudgetOK /\ RowsOK /\ CalmOK /\ PauseOK

-----------------------------------------------------------------------------
LEMMA ConstantsOK ==
  /\ MaxAttempts \in Nat \ {0} /\ FallbackAttempts \in Nat \ {0}
  /\ MaxConcurrency \in Nat \ {0} /\ Delays \subseteq Nat /\ HasFallback \in BOOLEAN
BY AiAssumption, LimiterAssumption

LEMMA InitOK == Init => IInv
<1> SUFFICES ASSUME Init PROVE IInv
  OBVIOUS
<1> USE ConstantsOK, FS_EmptySet DEF Init, FreshLimiter, NoTask, Primary, ZeroOf, NoUse
<1>1. TypesOK
  BY DEF TypesOK, Models
<1>2. WindowOK
  BY DEF WindowOK, Working
<1>3. SlotsOK
  BY DEF SlotsOK
<1>4. BudgetOK
  BY DEF BudgetOK, Models
<1>5. RowsOK /\ CalmOK
  BY DEF RowsOK, CalmOK, Working
<1>6. PauseOK
  BY DEF PauseOK
<1> QED BY <1>1, <1>2, <1>3, <1>4, <1>5, <1>6 DEF IInv

-----------------------------------------------------------------------------
LEMMA TypesStep == IInv /\ [Next]_vars => TypesOK'
<1> SUFFICES ASSUME IInv, [Next]_vars PROVE TypesOK'
  OBVIOUS
<1> USE ConstantsOK DEF IInv, TypesOK
<1>1. CASE StartRun
  BY <1>1 DEF StartRun, Fault, limiter, budget
<1>2. ASSUME NEW t \in Tasks, Skip(t) PROVE TypesOK'
  BY <1>2 DEF Skip, limiter, budget
<1>3. ASSUME NEW t \in Tasks, Start(t) PROVE TypesOK'
  BY <1>3 DEF Start, Goes, Working, limiter
<1>4. CASE DrainOne \/ GatherRaises
  BY <1>4 DEF DrainOne, GatherRaises, Finished, limiter, budget
<1>5. CASE EndOfSource
  BY <1>5 DEF EndOfSource, Fault, limiter, budget
<1>6. CASE GatherAll \/ Unwind \/ Crash \/ HungIsKilled
  BY <1>6 DEF GatherAll, Unwind, Crash, HungIsKilled, Fault, Closes, NewLimiter, NoTask,
     Primary, ZeroOf, NoUse, Models
<1>7. CASE TimePasses
  <2>1. cooldown' \in Nat /\ owed' \in [Tasks -> Nat]
    BY <1>7 DEF TimePasses, Tick
  <2> QED BY <1>7, <2>1 DEF TimePasses, Tick, stream, budget
<1>8. ASSUME NEW t \in Tasks, Acquire(t) \/ RefuseRepair(t) \/ MarkFails(t) \/ SaveFails(t)
      PROVE TypesOK'
  <2>1. CASE Acquire(t)
    BY <2>1 DEF Acquire, TakesSlot, Goes, Working, stream, budget
  <2>2. CASE RefuseRepair(t)
    BY <2>2 DEF RefuseRepair, Releases, Goes, SetAi, Working, stream, budget
  <2>3. CASE MarkFails(t)
    BY <2>3 DEF MarkFails, Fault, Releases, Goes, SetAi, Working, stream, budget
  <2>4. CASE SaveFails(t)
    BY <2>4 DEF SaveFails, Fault, Releases, Goes, Working, stream, budget
  <2> QED BY <1>8, <2>1, <2>2, <2>3, <2>4
<1>9. ASSUME NEW t \in Tasks, Send(t) PROVE TypesOK'
  <2>1. remaining' \in [Tasks -> Nat]
    BY <1>9 DEF Send, Spend
  <2>2. used' \in [Tasks -> [Models -> Nat]]
    BY <1>9 DEF Send
  <2> QED BY <1>9, <2>1, <2>2 DEF Send, Goes, SetAi, Working, stream
<1>10. ASSUME NEW t \in Tasks, Extracted(t) \/ Repair(t) PROVE TypesOK'
  BY <1>10 DEF Extracted, Repair, Releases, Goes, SetAi, Working, stream, budget
<1>11. ASSUME NEW t \in Tasks, FailsForGood(t) PROVE TypesOK'
  BY <1>11 DEF FailsForGood, Raises, Releases, Goes, SetAi, Working, stream
<1>12. ASSUME NEW t \in Tasks, FailsForNow(t)
       PROVE  /\ cooldown' \in Nat /\ owed' \in [Tasks -> Nat]
              /\ holders' \subseteq Tasks /\ UNCHANGED <<stream, used, faults>>
              /\ ai' \in [Tasks -> {"NEW", "PROCESSING", "FAILED", "EXTRACTED"}]
  BY <1>12 DEF FailsForNow, Raises, Pauses, Releases, SetAi
<1>13. ASSUME NEW t \in Tasks, Retry(t) \/ Fallback(t) \/ Exhausted(t) PROVE TypesOK'
  <2>1. FailsForNow(t)
    BY <1>13 DEF Retry, Fallback, Exhausted
  <2> QED BY <1>12, <1>13, <2>1 DEF Retry, Fallback, Exhausted, Goes, Working, Models, stream
<1>14. CASE UNCHANGED vars
  BY <1>14 DEF vars, limiter, stream, budget
<1> QED
  BY <1>1, <1>2, <1>3, <1>4, <1>5, <1>6, <1>7, <1>8, <1>9, <1>10, <1>11, <1>13, <1>14
     DEF Next, Stream, Job

\* A task's own step leaves the stream and the other tasks alone; only RefuseRepair,
\* MarkFails and the answers end its work.
LEMMA JobFrame ==
  ASSUME IInv, NEW t \in Tasks, Job(t)
  PROVE  /\ UNCHANGED stream
         /\ pc[t] \in Working
         /\ pc' = [pc EXCEPT ![t] = pc'[t]]
         /\ pc'[t] \in Working \cup {"done", "raised"}
<1> USE DEF IInv, TypesOK, Working, Goes
<1>1. CASE Acquire(t) \/ Send(t) \/ RefuseRepair(t) \/ MarkFails(t)
  BY <1>1 DEF Acquire, Send, RefuseRepair, MarkFails, Admitted
<1>2. CASE Extracted(t) \/ SaveFails(t) \/ Repair(t)
  BY <1>2 DEF Extracted, SaveFails, Repair, Answered
<1>3. CASE FailsForGood(t) \/ Retry(t) \/ Fallback(t) \/ Exhausted(t)
  BY <1>3 DEF FailsForGood, Retry, Fallback, Exhausted, FailsForNow, Raises, Answered
<1> QED BY <1>1, <1>2, <1>3 DEF Job

LEMMA WindowStep == IInv /\ [Next]_vars => WindowOK'
<1> SUFFICES ASSUME IInv, [Next]_vars PROVE WindowOK'
  OBVIOUS
<1> USE ConstantsOK DEF IInv, TypesOK, WindowOK
<1>1. CASE StartRun
  BY <1>1, FS_EmptySet DEF StartRun
<1>2. ASSUME NEW t \in Tasks, Skip(t) PROVE WindowOK'
  BY <1>2 DEF Skip
<1>3. ASSUME NEW t \in Tasks, Start(t) PROVE WindowOK'
  <2> HIDE DEF IInv, TypesOK, WindowOK
  <2>1. /\ IsFiniteSet(pending \cup {t})
        /\ Cardinality(pending \cup {t}) <= Cardinality(pending) + 1
        /\ Cardinality(pending) \in Nat
    <3>1. IsFiniteSet(pending)
      BY DEF IInv, WindowOK
    <3>2. Cardinality(pending) \in Nat
      BY <3>1, FS_CardinalityType
    <3>3. /\ IsFiniteSet(pending \cup {t})
          /\ Cardinality(pending \cup {t}) =
               IF t \in pending THEN Cardinality(pending) ELSE Cardinality(pending) + 1
      BY <3>1, FS_AddElement
    <3> QED BY <3>2, <3>3
  <2> USE DEF IInv, TypesOK, WindowOK
  <2>2. Cardinality(pending) + 1 <= MaxConcurrency
    BY <1>3, <2>1 DEF Start
  <2>3. phase' = "pull" => Cardinality(pending) + 1 < MaxConcurrency
    BY <1>3, <2>1, <2>2 DEF Start, WindowFull
  <2>4. Cardinality(pending \cup {t}) \in Nat
    BY <2>1, FS_CardinalityType
  <2> QED BY <1>3, <2>1, <2>2, <2>3, <2>4 DEF Start, Goes, Working
<1>4. CASE DrainOne
  <2>1. Finished \subseteq pending /\ Finished # {} /\ pending' = pending \ Finished
    BY <1>4 DEF DrainOne, Finished
  <2>2. IsFiniteSet(pending) /\ Cardinality(pending) <= MaxConcurrency /\ MaxConcurrency \in Nat
    OBVIOUS
  <2>3. IsFiniteSet(pending') /\ Cardinality(pending') < MaxConcurrency
    <3> HIDE DEF IInv, TypesOK, WindowOK
    <3>1. pending' \in SUBSET pending /\ pending' # pending
      BY <2>1
    <3>2. /\ IsFiniteSet(pending')
          /\ Cardinality(pending') <= Cardinality(pending)
          /\ Cardinality(pending') # Cardinality(pending)
      BY <2>2, <3>1, FS_Subset
    <3>3. Cardinality(pending') \in Nat /\ Cardinality(pending) \in Nat
      BY <2>2, <3>2, FS_CardinalityType
    <3> QED BY <2>2, <3>2, <3>3
  <2>4. UNCHANGED <<pc, todo, started>> /\ phase' \notin {"off", "hung"}
    BY <1>4 DEF DrainOne
  <2>5. \A t \in Tasks : pc[t] \in Working => t \in pending'
    BY <2>1 DEF Finished, Working
  <2>6. Cardinality(pending') <= MaxConcurrency
    BY <2>2, <2>3, FS_CardinalityType
  <2> QED BY <2>3, <2>4, <2>5, <2>6
<1>5. CASE EndOfSource \/ GatherRaises
  BY <1>5 DEF EndOfSource, GatherRaises
<1>6. CASE GatherAll \/ Unwind \/ Crash \/ HungIsKilled
  <2>1. /\ todo' = {} /\ started' = {} /\ pending' = {} /\ phase' = "off"
        /\ pc' = [t \in Tasks |-> "none"]
    BY <1>6 DEF GatherAll, Unwind, Crash, HungIsKilled, Closes, NoTask
  <2> QED BY <2>1, FS_EmptySet DEF Working
<1>7. CASE TimePasses \/ UNCHANGED vars
  BY <1>7 DEF TimePasses, vars, stream
<1>8. ASSUME NEW t \in Tasks, Job(t) PROVE WindowOK'
  <2>1. /\ UNCHANGED stream
        /\ pc[t] \in Working
        /\ pc' = [pc EXCEPT ![t] = pc'[t]]
        /\ pc'[t] \in Working \cup {"done", "raised"}
    BY <1>8, JobFrame
  <2> QED BY <2>1 DEF stream, Working
<1> QED
  BY <1>1, <1>2, <1>3, <1>4, <1>5, <1>6, <1>7, <1>8 DEF Next, Stream

LEMMA SlotsStep == IInv /\ [Next]_vars => SlotsOK'
<1> SUFFICES ASSUME IInv, [Next]_vars PROVE SlotsOK'
  OBVIOUS
<1> USE ConstantsOK DEF IInv, TypesOK, SlotsOK
<1>1. CASE \/ StartRun \/ DrainOne \/ EndOfSource \/ GatherRaises \/ TimePasses
           \/ UNCHANGED vars
  BY <1>1 DEF StartRun, DrainOne, EndOfSource, GatherRaises, TimePasses, Tick, vars, limiter
<1>2. CASE GatherAll \/ Unwind \/ Crash \/ HungIsKilled
  <2>1. holders' = {} /\ pc' = [t \in Tasks |-> "none"]
    BY <1>2 DEF GatherAll, Unwind, Crash, HungIsKilled, Closes, NewLimiter, NoTask
  <2> QED BY <2>1, FS_EmptySet
<1>3. ASSUME NEW t \in Tasks, Skip(t) PROVE SlotsOK'
  BY <1>3 DEF Skip, limiter
<1>4. ASSUME NEW t \in Tasks, Start(t) PROVE SlotsOK'
  BY <1>4 DEF Start, Goes, limiter
<1>5. ASSUME NEW t \in Tasks, Acquire(t) PROVE SlotsOK'
  <2>1. IsFiniteSet(holders) /\ Cardinality(holders) < MaxConcurrency
    BY <1>5 DEF Acquire, SlotFree
  <2>2. IsFiniteSet(holders \cup {t}) /\ Cardinality(holders \cup {t}) <= MaxConcurrency
    <3> HIDE DEF IInv, TypesOK, SlotsOK
    <3>1. Cardinality(holders) \in Nat
      BY <2>1, FS_CardinalityType
    <3>2. /\ IsFiniteSet(holders \cup {t})
          /\ Cardinality(holders \cup {t}) =
               IF t \in holders THEN Cardinality(holders) ELSE Cardinality(holders) + 1
      BY <2>1, FS_AddElement
    <3> QED BY <2>1, <3>1, <3>2
  <2> QED BY <1>5, <2>2 DEF Acquire, TakesSlot, Goes
<1>6. ASSUME NEW t \in Tasks, Releases(t) PROVE IsFiniteSet(holders') /\ Cardinality(holders') <= MaxConcurrency
  <2>1. IsFiniteSet(holders) /\ Cardinality(holders) <= MaxConcurrency
    OBVIOUS
  <2> HIDE DEF IInv, TypesOK, SlotsOK
  <2>2. holders' \in SUBSET holders
    BY <1>6 DEF Releases
  <2>3. IsFiniteSet(holders') /\ Cardinality(holders') <= Cardinality(holders)
    BY <2>1, <2>2, FS_Subset
  <2>4. Cardinality(holders') \in Nat /\ Cardinality(holders) \in Nat
    BY <2>1, <2>3, FS_CardinalityType
  <2> QED BY <2>1, <2>3, <2>4
<1>7. ASSUME NEW t \in Tasks, Send(t) \/ Repair(t) PROVE SlotsOK'
  BY <1>7 DEF Send, Repair, Admitted, Answered, Goes
<1>8. ASSUME NEW t \in Tasks, RefuseRepair(t) \/ MarkFails(t) \/ Extracted(t) \/ SaveFails(t)
      PROVE SlotsOK'
  <2>1. Releases(t)
    BY <1>8 DEF RefuseRepair, MarkFails, Extracted, SaveFails
  <2>2. pc' = [pc EXCEPT ![t] = "done"] \/ pc' = [pc EXCEPT ![t] = "raised"]
    BY <1>8 DEF RefuseRepair, MarkFails, Extracted, SaveFails, Goes
  <2> QED BY <1>6, <2>1, <2>2 DEF Releases
<1>9. ASSUME NEW t \in Tasks, FailsForGood(t) \/ Retry(t) \/ Fallback(t) \/ Exhausted(t)
      PROVE SlotsOK'
  <2>1. Releases(t)
    BY <1>9 DEF FailsForGood, Retry, Fallback, Exhausted, FailsForNow, Raises
  <2>2. pc' = [pc EXCEPT ![t] = "done"] \/ pc' = [pc EXCEPT ![t] = "queued"]
    BY <1>9 DEF FailsForGood, Retry, Fallback, Exhausted, Goes
  <2> QED BY <1>6, <2>1, <2>2 DEF Releases
<1> QED
  BY <1>1, <1>2, <1>3, <1>4, <1>5, <1>7, <1>8, <1>9 DEF Next, Stream, Job

LEMMA BudgetStep == IInv /\ [Next]_vars => BudgetOK'
<1> SUFFICES ASSUME IInv, [Next]_vars PROVE BudgetOK'
  OBVIOUS
<1> USE ConstantsOK DEF IInv, TypesOK, BudgetOK, Models
<1>1. CASE \/ StartRun \/ DrainOne \/ EndOfSource \/ GatherRaises \/ TimePasses
           \/ UNCHANGED vars
  BY <1>1 DEF StartRun, DrainOne, EndOfSource, GatherRaises, TimePasses, vars, budget
<1>2. CASE GatherAll \/ Unwind \/ Crash \/ HungIsKilled
  BY <1>2 DEF GatherAll, Unwind, Crash, HungIsKilled, Closes, NoTask, NoUse, Primary
<1>3. ASSUME NEW t \in Tasks, Skip(t) PROVE BudgetOK'
  BY <1>3 DEF Skip, budget
<1>4. ASSUME NEW t \in Tasks, Start(t) PROVE BudgetOK'
  <2>1. pc[t] = "none"
    BY <1>4 DEF Start, WindowOK
  <2>2. used[t]["primary"] = 0 /\ used[t]["fallback"] = 0 /\ model[t] = "primary"
    BY <2>1
  <2> QED BY <1>4, <2>1, <2>2 DEF Start, Goes
<1>5. ASSUME NEW t \in Tasks, Send(t) PROVE BudgetOK'
  <2>1. /\ remaining' = [remaining EXCEPT ![t] = @ - 1]
        /\ used' = [used EXCEPT ![t][model[t]] = @ + 1]
        /\ pc' = [pc EXCEPT ![t] = "sent"] /\ pc[t] # "none"
        /\ model' = model
    BY <1>5 DEF Send, Spend, Goes, Admitted
  <2>2. \A u \in Tasks : u # t => used'[u] = used[u] /\ remaining'[u] = remaining[u]
                                  /\ pc'[u] = pc[u]
    BY <2>1
  <2>3. /\ remaining'[t] = remaining[t] - 1
        /\ used'[t][model[t]] = used[t][model[t]] + 1
        /\ \A m \in Models : m # model[t] => used'[t][m] = used[t][m]
        /\ pc'[t] = "sent"
    BY <2>1
  <2>4. CASE model[t] = "primary"
    BY <2>1, <2>2, <2>3, <2>4
  <2>5. CASE model[t] = "fallback"
    BY <2>1, <2>2, <2>3, <2>5
  <2> QED BY <2>4, <2>5
<1>6. ASSUME NEW t \in Tasks,
             \/ Acquire(t) \/ RefuseRepair(t) \/ MarkFails(t) \/ Extracted(t) \/ SaveFails(t)
             \/ Repair(t) \/ FailsForGood(t) \/ Retry(t) \/ Exhausted(t)
      PROVE BudgetOK'
  <2>1. /\ UNCHANGED <<used, remaining, model>>
        /\ pc[t] # "none" /\ pc'[t] # "none"
        /\ \A u \in Tasks : u # t => pc'[u] = pc[u]
    BY <1>6 DEF Acquire, RefuseRepair, MarkFails, Extracted, SaveFails, Repair, FailsForGood,
       Retry, Exhausted, FailsForNow, Raises, Admitted, Answered, Goes, budget
  <2> QED BY <2>1
<1>7. ASSUME NEW t \in Tasks, Fallback(t) PROVE BudgetOK'
  <2>1. /\ used' = used /\ model' = [model EXCEPT ![t] = "fallback"]
        /\ remaining' = [remaining EXCEPT ![t] = FallbackAttempts]
        /\ pc[t] = "sent" /\ pc' = [pc EXCEPT ![t] = "queued"]
        /\ remaining[t] = 0 /\ HasFallback /\ model[t] = "primary"
    BY <1>7 DEF Fallback, FailsForNow, Raises, Answered, Goes
  <2>2. used[t]["primary"] = MaxAttempts /\ used[t]["fallback"] = 0
    BY <2>1
  <2> QED BY <2>1, <2>2
<1> QED
  BY <1>1, <1>2, <1>3, <1>4, <1>5, <1>6, <1>7 DEF Next, Stream, Job

LEMMA RowsStep == IInv /\ [Next]_vars => RowsOK'
<1> SUFFICES ASSUME IInv, [Next]_vars PROVE RowsOK'
  OBVIOUS
<1> USE DEF IInv, TypesOK, RowsOK, Working
<1>1. CASE StartRun
  <2>1. \A t \in Tasks : pc[t] = "none"
    BY <1>1 DEF StartRun, WindowOK
  <2> QED BY <1>1, <2>1 DEF StartRun
<1>2. CASE DrainOne \/ EndOfSource \/ GatherRaises \/ TimePasses \/ UNCHANGED vars
  BY <1>2 DEF DrainOne, EndOfSource, GatherRaises, TimePasses, vars
<1>3. CASE GatherAll \/ Unwind \/ Crash \/ HungIsKilled
  BY <1>3 DEF GatherAll, Unwind, Crash, HungIsKilled, Closes, NoTask
<1>4. ASSUME NEW t \in Tasks, Skip(t) \/ Start(t) PROVE RowsOK'
  BY <1>4 DEF Skip, Start, Ready, Goes
<1>5. ASSUME NEW t \in Tasks, Acquire(t) \/ Send(t) \/ Repair(t) PROVE RowsOK'
  BY <1>5 DEF Acquire, Send, Repair, Admitted, Answered, Goes, SetAi
<1>6. ASSUME NEW t \in Tasks, RefuseRepair(t) \/ MarkFails(t) \/ Extracted(t) \/ SaveFails(t)
      PROVE RowsOK'
  BY <1>6 DEF RefuseRepair, MarkFails, Extracted, SaveFails, Goes, SetAi
<1>7. ASSUME NEW t \in Tasks, FailsForGood(t) \/ Retry(t) \/ Fallback(t) \/ Exhausted(t)
      PROVE RowsOK'
  <2>1. ai' = [ai EXCEPT ![t] = "FAILED"]
    BY <1>7 DEF FailsForGood, Retry, Fallback, Exhausted, FailsForNow, Raises, SetAi
  <2>2. pc' = [pc EXCEPT ![t] = "done"] \/ pc' = [pc EXCEPT ![t] = "queued"]
    BY <1>7 DEF FailsForGood, Retry, Fallback, Exhausted, Goes
  <2> QED BY <2>1, <2>2
<1> QED
  BY <1>1, <1>2, <1>3, <1>4, <1>5, <1>6, <1>7 DEF Next, Stream, Job

LEMMA CalmStep == IInv /\ [Next]_vars => CalmOK'
<1> SUFFICES ASSUME IInv, [Next]_vars, faults' = 0
             PROVE  /\ phase' # "unwind"
                    /\ \A t \in Tasks : pc'[t] # "raised"
                    /\ \A t \in Tasks : ai'[t] = "PROCESSING" => pc'[t] \in {"polling", "sent"}
  BY DEF CalmOK
<1> DEFINE Calm == /\ phase # "unwind"
                   /\ \A t \in Tasks : pc[t] # "raised"
                   /\ \A t \in Tasks : ai[t] = "PROCESSING" => pc[t] \in {"polling", "sent"}
<1> USE DEF IInv, TypesOK
<1>1. faults = 0 /\ ~Fault
  <2>1. ~Fault
    BY DEF Fault
  <2>2. ~Crash /\ \A t \in Tasks : ~MarkFails(t) /\ ~SaveFails(t)
    BY <2>1 DEF Crash, MarkFails, SaveFails
  <2>3. CASE EndOfSource
    BY <2>1, <2>3 DEF EndOfSource
  <2>4. CASE \/ UNCHANGED vars \/ StartRun \/ DrainOne \/ GatherAll \/ GatherRaises \/ Unwind
             \/ HungIsKilled \/ TimePasses
    BY <2>1, <2>4 DEF vars, StartRun, DrainOne, GatherAll, GatherRaises, Unwind, HungIsKilled,
       TimePasses
  <2>5. ASSUME NEW t \in Tasks, Skip(t) \/ Start(t) \/ Acquire(t) \/ Send(t) \/ RefuseRepair(t)
                                \/ Extracted(t) \/ Repair(t)
        PROVE faults = 0
    BY <2>5 DEF Skip, Start, Acquire, Send, RefuseRepair, Extracted, Repair
  <2>6. ASSUME NEW t \in Tasks, FailsForGood(t) \/ Retry(t) \/ Fallback(t) \/ Exhausted(t)
        PROVE faults = 0
    BY <2>6 DEF FailsForGood, Retry, Fallback, Exhausted, FailsForNow, Raises
  <2> QED BY <2>1, <2>2, <2>3, <2>4, <2>5, <2>6 DEF Next, Stream, Job
<1>2. Calm
  BY <1>1 DEF CalmOK
<1>3. CASE StartRun
  BY <1>1, <1>2, <1>3 DEF StartRun
<1>4. CASE DrainOne \/ GatherRaises
  <2>1. Raised = {}
    BY <1>2 DEF Raised
  <2> QED BY <1>2, <1>4, <2>1 DEF DrainOne, GatherRaises
<1>5. CASE GatherAll
  <2>1. \A t \in Tasks : pc[t] \notin Working
    BY <1>5 DEF GatherAll, Finished, WindowOK, Working
  <2> QED BY <1>2, <1>5, <2>1 DEF GatherAll, Closes, NoTask, Working
<1>6. CASE Unwind \/ Crash
  BY <1>1, <1>2, <1>6 DEF Unwind, Crash
<1>10. CASE HungIsKilled
  <2>1. \A t \in Tasks : pc[t] = "none"
    BY <1>10 DEF HungIsKilled, WindowOK
  <2> QED BY <1>2, <1>10, <2>1 DEF HungIsKilled, Closes, NoTask
<1>7. CASE EndOfSource \/ TimePasses \/ UNCHANGED vars
  BY <1>2, <1>7 DEF EndOfSource, TimePasses, vars, stream
<1>8. ASSUME NEW t \in Tasks, Skip(t) \/ Start(t) PROVE Calm'
  BY <1>2, <1>8 DEF Skip, Start, Ready, Goes
<1>9. ASSUME NEW t \in Tasks, Job(t) PROVE Calm'
  <2>1. UNCHANGED phase
    BY <1>9, JobFrame DEF stream
  <2>2. CASE Acquire(t) \/ Send(t) \/ Repair(t)
    <3>1. pc' = [pc EXCEPT ![t] = "polling"] \/ pc' = [pc EXCEPT ![t] = "sent"]
      BY <2>2 DEF Acquire, Send, Repair, Goes
    <3>2. ai' = ai \/ ai' = [ai EXCEPT ![t] = "PROCESSING"]
      BY <2>2 DEF Acquire, Send, Repair, SetAi
    <3> QED BY <1>2, <2>1, <3>1, <3>2
  <2>3. CASE RefuseRepair(t) \/ Extracted(t)
    BY <1>2, <2>1, <2>3 DEF RefuseRepair, Extracted, Goes, SetAi
  <2>4. CASE FailsForGood(t) \/ Retry(t) \/ Fallback(t) \/ Exhausted(t)
    <3>1. ai' = [ai EXCEPT ![t] = "FAILED"]
      BY <2>4 DEF FailsForGood, Retry, Fallback, Exhausted, FailsForNow, Raises, SetAi
    <3>2. pc' = [pc EXCEPT ![t] = "done"] \/ pc' = [pc EXCEPT ![t] = "queued"]
      BY <2>4 DEF FailsForGood, Retry, Fallback, Exhausted, Goes
    <3> QED BY <1>2, <2>1, <3>1, <3>2
  <2>5. CASE MarkFails(t) \/ SaveFails(t)
    BY <1>1, <2>5 DEF MarkFails, SaveFails
  <2> QED BY <1>9, <2>2, <2>3, <2>4, <2>5 DEF Job
<1> QED
  BY <1>3, <1>4, <1>5, <1>6, <1>7, <1>8, <1>9, <1>10 DEF Next, Stream

LEMMA PauseStep == IInv /\ [Next]_vars => PauseOK'
<1> SUFFICES ASSUME IInv, [Next]_vars PROVE PauseOK'
  OBVIOUS
<1> USE ConstantsOK DEF IInv, TypesOK, PauseOK
<1>1. CASE StartRun \/ DrainOne \/ EndOfSource \/ GatherRaises \/ UNCHANGED vars
  BY <1>1 DEF StartRun, DrainOne, EndOfSource, GatherRaises, vars, limiter
<1>2. CASE GatherAll \/ Unwind \/ Crash \/ HungIsKilled
  BY <1>2 DEF GatherAll, Unwind, Crash, HungIsKilled, Closes, NewLimiter, ZeroOf
<1>3. CASE TimePasses
  BY <1>3 DEF TimePasses, Tick
<1>4. ASSUME NEW t \in Tasks, Skip(t) \/ Start(t) PROVE PauseOK'
  BY <1>4 DEF Skip, Start, limiter
<1>5. ASSUME NEW t \in Tasks,
             \/ Acquire(t) \/ Send(t) \/ RefuseRepair(t) \/ MarkFails(t) \/ Extracted(t)
             \/ SaveFails(t) \/ Repair(t) \/ FailsForGood(t)
      PROVE PauseOK'
  BY <1>5 DEF Acquire, Send, RefuseRepair, MarkFails, Extracted, SaveFails, Repair, FailsForGood
<1>6. ASSUME NEW t \in Tasks, FailsForNow(t) PROVE PauseOK'
  <2>1. PICK delay \in Nat : Pauses(delay) /\ owed' = [owed EXCEPT ![t] = delay]
    BY <1>6 DEF FailsForNow
  <2>2. cooldown' >= cooldown /\ cooldown' >= delay /\ cooldown' \in Nat
    BY <2>1 DEF Pauses
  <2> QED BY <2>1, <2>2
<1>7. ASSUME NEW t \in Tasks, Retry(t) \/ Fallback(t) \/ Exhausted(t) PROVE PauseOK'
  BY <1>6, <1>7 DEF Retry, Fallback, Exhausted
<1> QED
  BY <1>1, <1>2, <1>3, <1>4, <1>5, <1>7 DEF Next, Stream, Job

LEMMA StepOK == IInv /\ [Next]_vars => IInv'
BY TypesStep, WindowStep, SlotsStep, BudgetStep, RowsStep, CalmStep, PauseStep DEF IInv

LEMMA Inductive == Spec => []IInv
BY InitOK, StepOK, PTL DEF Spec

-----------------------------------------------------------------------------
\* In no continuation is a job charged more than its budgets, repairs included,
\* and the fallback model only works when the primary's budget is used up.
THEOREM BudgetSafe == Spec => []BudgetKept
<1>1. IInv => BudgetKept
  <2> SUFFICES ASSUME IInv, NEW t \in Tasks
               PROVE  /\ \A m \in Models : used[t][m] <= Limit(m)
                      /\ used[t]["fallback"] > 0 =>
                           HasFallback /\ used[t]["primary"] = MaxAttempts
    BY DEF BudgetKept
  <2> USE ConstantsOK DEF IInv, TypesOK, BudgetOK, Models, Limit
  <2>1. CASE pc[t] = "none"
    <3>1. used[t]["primary"] = 0 /\ used[t]["fallback"] = 0
      BY <2>1
    <3> QED BY <3>1
  <2>2. CASE pc[t] # "none" /\ model[t] = "primary"
    BY <2>2
  <2>3. CASE pc[t] # "none" /\ model[t] = "fallback"
    BY <2>3
  <2> QED BY <2>1, <2>2, <2>3
<1> QED BY Inductive, <1>1, PTL

\* A job says PROCESSING only while it is being worked on, if nothing failed.
THEOREM NothingLeftBehind == Spec => []NothingAbandoned
<1>1. IInv => NothingAbandoned
  BY DEF IInv, CalmOK, NothingAbandoned
<1> QED BY Inductive, <1>1, PTL

\* However many jobs the stream offers, the window bounds the retry cycles.
THEOREM WindowBounds == Spec => []CyclesBounded
<1>1. IInv => CyclesBounded
  <2> SUFFICES ASSUME IInv PROVE CyclesBounded
    OBVIOUS
  <2> DEFINE W == {t \in Tasks : pc[t] \in Working}
  <2>1. W \in SUBSET pending
    BY DEF IInv, WindowOK
  <2>2. IsFiniteSet(pending) /\ Cardinality(pending) <= MaxConcurrency /\ MaxConcurrency \in Nat
    BY ConstantsOK DEF IInv, WindowOK
  <2> HIDE DEF W
  <2>3. Cardinality(W) <= Cardinality(pending) /\ IsFiniteSet(W)
    BY <2>1, <2>2, FS_Subset
  <2>4. Cardinality(W) \in Nat /\ Cardinality(pending) \in Nat
    BY <2>2, <2>3, FS_CardinalityType
  <2>5. Cardinality(W) <= MaxConcurrency
    BY <2>2, <2>3, <2>4
  <2> QED BY <2>5 DEF CyclesBounded, W
<1> QED BY Inductive, <1>1, PTL

\* No request is launched inside a pause some job's failure asked for, whichever
\* task launches it.
THEOREM PausesSafe == Spec => PausesHonoured
<1> DEFINE Honours == \A t \in Tasks : pc[t] = "polling" /\ pc'[t] = "sent" =>
                        \A u \in Tasks : owed[u] = 0
<1>1. IInv /\ [Next]_vars => [Honours]_vars
  <2> SUFFICES ASSUME IInv, Next, NEW t \in Tasks, pc[t] = "polling", pc'[t] = "sent",
                      NEW u \in Tasks
               PROVE  owed[u] = 0
    OBVIOUS
  <2>1. \E s \in Tasks : Send(s)
    <3> USE DEF IInv, TypesOK
    <3>1. CASE StartRun \/ DrainOne \/ EndOfSource \/ GatherRaises \/ TimePasses
      BY <3>1 DEF StartRun, DrainOne, EndOfSource, GatherRaises, TimePasses
    <3>2. CASE GatherAll \/ Unwind \/ Crash \/ HungIsKilled
      BY <3>2 DEF GatherAll, Unwind, Crash, HungIsKilled, Closes, NoTask
    <3>3. ASSUME NEW s \in Tasks, Skip(s) \/ Start(s) PROVE FALSE
      BY <3>3 DEF Skip, Start, Goes
    <3>4. ASSUME NEW s \in Tasks, Job(s), ~Send(s) PROVE FALSE
      <4>1. CASE Acquire(s) \/ RefuseRepair(s) \/ MarkFails(s) \/ Extracted(s) \/ SaveFails(s)
                 \/ Repair(s)
        BY <4>1 DEF Acquire, RefuseRepair, MarkFails, Extracted, SaveFails, Repair, Goes
      <4>2. CASE FailsForGood(s) \/ Retry(s) \/ Fallback(s) \/ Exhausted(s)
        BY <4>2 DEF FailsForGood, Retry, Fallback, Exhausted, Goes
      <4> QED BY <3>4, <4>1, <4>2 DEF Job
    <3> QED BY <3>1, <3>2, <3>3, <3>4 DEF Next, Stream
  <2>2. cooldown = 0
    BY <2>1 DEF Send, Admitted, Admits
  <2> QED BY <2>2 DEF IInv, TypesOK, PauseOK
<1>2. PausesHonoured <=> [][Honours]_vars
  BY DEF PausesHonoured
<1> QED BY Inductive, <1>1, <1>2, PTL DEF Spec

\* What is extracted stays extracted and is not paid for again.
THEOREM ExtractedSafe == Spec => ExtractedKept
<1> DEFINE Keeps == \A t \in Tasks : ai[t] = "EXTRACTED" => ai'[t] = "EXTRACTED" /\ pc'[t] # "sent"
<1>1. IInv /\ [Next]_vars => [Keeps]_vars
  <2> SUFFICES ASSUME IInv, Next, NEW t \in Tasks, ai[t] = "EXTRACTED"
               PROVE  ai'[t] = "EXTRACTED" /\ pc'[t] # "sent"
    OBVIOUS
  <2> USE DEF IInv, TypesOK
  <2>1. pc[t] \notin Working
    BY DEF RowsOK
  <2>2. CASE \/ StartRun \/ DrainOne \/ EndOfSource \/ GatherRaises \/ TimePasses
    BY <2>1, <2>2 DEF StartRun, DrainOne, EndOfSource, GatherRaises, TimePasses, Working
  <2>3. CASE GatherAll \/ Unwind \/ Crash \/ HungIsKilled
    BY <2>3 DEF GatherAll, Unwind, Crash, HungIsKilled, Closes, NoTask
  <2>4. ASSUME NEW s \in Tasks, Skip(s) \/ Start(s)
        PROVE ai'[t] = "EXTRACTED" /\ pc'[t] # "sent"
    BY <2>1, <2>4 DEF Skip, Start, Goes, Working
  <2>5. ASSUME NEW s \in Tasks, Job(s)
        PROVE ai'[t] = "EXTRACTED" /\ pc'[t] # "sent"
    <3>1. s # t /\ pc'[t] = pc[t]
      BY <2>1, <2>5, JobFrame
    <3>2. ai' = ai \/ ai' = [ai EXCEPT ![s] = ai'[s]]
      BY <2>5 DEF Job, Acquire, Send, RefuseRepair, MarkFails, Extracted, SaveFails, Repair,
         FailsForGood, Retry, Fallback, Exhausted, FailsForNow, Raises, SetAi
    <3> QED BY <2>1, <3>1, <3>2 DEF Working
  <2> QED BY <2>2, <2>3, <2>4, <2>5 DEF Next, Stream
<1>2. ExtractedKept <=> [][Keeps]_vars
  BY DEF ExtractedKept
<1> QED BY Inductive, <1>1, <1>2, PTL DEF Spec

-----------------------------------------------------------------------------
(* AiRuns implements StageContract.                                         *)

\* The refinement mapping, under names of its own.
SettledJobs == {t \in Tasks : ai[t] = "EXTRACTED"}
TriedJobs   == {t \in Tasks : ai[t] # "NEW"}
CalledJobs  == {t \in Tasks : pc[t] = "sent"}

LEMMA ContractInit == Init => Stage!Init
BY DEF Init, NoTask, Stage!Init

LEMMA CallsBounded ==
  ASSUME IInv, NEW t \in Tasks, pc[t] = "polling"
  PROVE  Stage!Cardinality(CalledJobs) < MaxConcurrency
<1>1. IsFiniteSet(holders) /\ Cardinality(holders) <= MaxConcurrency /\ MaxConcurrency \in Nat
  BY ConstantsOK DEF IInv, SlotsOK
<1>2. CalledJobs \in SUBSET holders /\ CalledJobs # holders
  BY DEF IInv, TypesOK, SlotsOK, CalledJobs
<1> HIDE DEF CalledJobs
<1>3. /\ IsFiniteSet(CalledJobs)
      /\ Cardinality(CalledJobs) <= Cardinality(holders)
      /\ Cardinality(CalledJobs) # Cardinality(holders)
  BY <1>1, <1>2, FS_Subset
<1>4. Cardinality(CalledJobs) \in Nat /\ Cardinality(holders) \in Nat
  BY <1>1, <1>3, FS_CardinalityType
<1>5. Cardinality(CalledJobs) < MaxConcurrency
  BY <1>1, <1>3, <1>4
<1> QED BY <1>5 DEF Stage!Cardinality, Cardinality

LEMMA OpenStage ==
  ASSUME IInv, NEW t \in Tasks, pc[t] # "none" PROVE phase \notin {"off", "hung"}
BY DEF IInv, WindowOK

LEMMA ContractStep == IInv /\ [Next]_vars => [Stage!Next]_(Stage!vars)
<1> SUFFICES ASSUME IInv, [Next]_vars PROVE [Stage!Next]_(Stage!vars)
  OBVIOUS
<1> USE DEF IInv, TypesOK, Goes, SetAi
<1>1. CASE StartRun
  <2>1. Stage!Begin
    BY <1>1 DEF StartRun, Stage!Begin
  <2> QED BY <2>1 DEF Stage!Next
<1>2. CASE DrainOne \/ EndOfSource \/ GatherRaises \/ TimePasses \/ UNCHANGED vars
  BY <1>2 DEF DrainOne, EndOfSource, GatherRaises, TimePasses, vars, stream, Stage!vars
<1>3. CASE GatherAll \/ Unwind \/ Crash \/ HungIsKilled
  <2>1. Stage!End
    BY <1>3 DEF GatherAll, Unwind, Crash, HungIsKilled, Closes, NoTask, Stage!End,
       Stage!LosesCalls
  <2> QED BY <2>1 DEF Stage!Next
<1>4. ASSUME NEW t \in Tasks, Skip(t) \/ Start(t) PROVE UNCHANGED Stage!vars
  BY <1>4 DEF Skip, Start, WindowOK, Stage!vars
<1>5. ASSUME NEW t \in Tasks, Job(t)
      PROVE phase \notin {"off", "hung"} /\ phase' = phase
  BY <1>5, JobFrame, OpenStage DEF Working, stream
<1>6. ASSUME NEW t \in Tasks, Acquire(t) \/ SaveFails(t) \/ Repair(t)
      PROVE UNCHANGED Stage!vars \/ Stage!Answer(t)
  <2>1. CASE Acquire(t)
    BY <2>1, <1>5 DEF Job, Acquire, Stage!vars
  <2>2. CASE SaveFails(t) \/ Repair(t)
    BY <2>2, <1>5 DEF Job, SaveFails, Repair, Answered, Stage!Answer
  <2> QED BY <1>6, <2>1, <2>2
<1>7. ASSUME NEW t \in Tasks, Send(t) PROVE Stage!Call(t)
  <2>1. pc[t] = "polling"
    BY <1>7 DEF Send, Admitted
  <2>2. Stage!Cardinality(CalledJobs) < MaxConcurrency
    BY <2>1, CallsBounded
  <2>3. ai[t] # "EXTRACTED"
    BY <2>1 DEF RowsOK, Working
  <2>4. CalledJobs' = CalledJobs \cup {t} /\ TriedJobs' = TriedJobs \cup {t}
        /\ SettledJobs' = SettledJobs
    BY <1>7, <2>3 DEF Send, CalledJobs, TriedJobs, SettledJobs
  <2> QED BY <1>5, <1>7, <2>1, <2>2, <2>3, <2>4
       DEF Job, CalledJobs, TriedJobs, SettledJobs, Stage!Call
<1>8. ASSUME NEW t \in Tasks, RefuseRepair(t) \/ MarkFails(t) PROVE Stage!Miss(t)
  <2>1. pc[t] = "polling" /\ ai[t] # "EXTRACTED"
    BY <1>8 DEF RefuseRepair, MarkFails, Admitted, RowsOK, Working
  <2>2. pc' = [pc EXCEPT ![t] = "done"] /\ ai' = [ai EXCEPT ![t] = "FAILED"]
    BY <1>8 DEF RefuseRepair, MarkFails
  <2>3. phase \notin {"off", "hung"} /\ phase' = phase
    BY <1>5, <1>8 DEF Job
  <2> QED BY <2>1, <2>2, <2>3 DEF Stage!Miss
<1>9. ASSUME NEW t \in Tasks, Extracted(t) PROVE Stage!Answer(t)
  <2>1. pc[t] = "sent" /\ ai[t] = "PROCESSING"
    BY <1>9 DEF Extracted, Answered, RowsOK
  <2>2. pc' = [pc EXCEPT ![t] = "done"] /\ ai' = [ai EXCEPT ![t] = "EXTRACTED"]
    BY <1>9 DEF Extracted
  <2>3. phase' = phase
    BY <1>5, <1>9 DEF Job
  <2> QED BY <2>1, <2>2, <2>3 DEF Stage!Answer
<1>10. ASSUME NEW t \in Tasks, FailsForGood(t) \/ Retry(t) \/ Fallback(t) \/ Exhausted(t)
       PROVE Stage!Answer(t)
  <2>1. pc[t] = "sent" /\ ai[t] = "PROCESSING" /\ ai' = [ai EXCEPT ![t] = "FAILED"]
    BY <1>10 DEF FailsForGood, Retry, Fallback, Exhausted, FailsForNow, Raises, Answered, RowsOK
  <2>2. pc' = [pc EXCEPT ![t] = "done"] \/ pc' = [pc EXCEPT ![t] = "queued"]
    BY <1>10 DEF FailsForGood, Retry, Fallback, Exhausted
  <2>3. phase' = phase
    BY <1>5, <1>10 DEF Job
  <2> QED BY <2>1, <2>2, <2>3 DEF Stage!Answer
<1> QED
  BY <1>1, <1>2, <1>3, <1>4, <1>6, <1>7, <1>8, <1>9, <1>10 DEF Next, Stream, Job, Stage!Next

\* The AI stage keeps the safety part of the contract, for any jobs, window, budgets
\* and limits: never more calls at once than the window has room for, none for a
\* job that is extracted, and no extraction without an attempt.
THEOREM ContractKept == Spec => Stage!Safety
BY Inductive, ContractInit, ContractStep, PTL DEF Spec, Stage!Safety
=============================================================================
