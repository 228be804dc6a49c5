--------------------------- MODULE TaskRunsProofs ---------------------------
(* Proofs about TaskRuns, for any processes and any bounds.                 *)
EXTENDS TaskRuns, TLAPS

\* The lock file belongs to the worker that is past taking it, or to the portal
\* that is probing.
LockOK ==
  /\ \A w \in Workers : wPc[w] \in Holding <=> lock = w
  /\ \A p \in Portals : pPc[p] = "probing" <=> lock = p

\* What a worker knows of its own two rows.
OwnRows(w) ==
  /\ inv[w] \in 1..count
  /\ wPc[w] \in {"locked", "swept", "cleared"} => run[inv[w]] = "NONE"
  /\ wPc[w] \in {"working", "sending", "sent"} => run[inv[w]] \in {"NONE", "RUNNING"}
  /\ wPc[w] \in {"locked", "swept", "cleared", "working"} => event[inv[w]] = "NONE"
  /\ wPc[w] = "sending" => event[inv[w]] \in {"NONE", "SENDING"}
  /\ run[inv[w]] # "INTERRUPTED" /\ event[inv[w]] # "UNKNOWN"

HolderOK == \A w \in Workers : wPc[w] \in Holding => OwnRows(w)

FreshOK == \A i \in Invocations : i > count => run[i] = "NONE" /\ event[i] = "NONE"

\* With every write committed, a delivery in progress belongs to a run that is
\* open or was interrupted, and the sweeps of a starting worker leave nothing of
\* the others open.
SendingOK ==
  \A i \in Invocations : event[i] = "SENDING" => run[i] \in {"RUNNING", "INTERRUPTED"}

SweptBy(w) ==
  /\ wPc[w] \in {"working", "sending", "sent"} => run[inv[w]] = "RUNNING"
  /\ wPc[w] \in {"sent", "recorded"} => event[inv[w]] # "SENDING"
  /\ wPc[w] \in Holding \ {"locked"} =>
       \A i \in Invocations : i # inv[w] => run[i] # "RUNNING"
  /\ wPc[w] \in Running \cup {"cleared"} =>
       \A i \in Invocations : i # inv[w] => event[i] # "SENDING"

ClosedOK == lost = 0 => SendingOK /\ \A w \in Workers : SweptBy(w)

IInv == TypeOK /\ LockOK /\ HolderOK /\ FreshOK /\ ClosedOK

LEMMA InitOK == Init => IInv
<1> SUFFICES ASSUME Init PROVE IInv
  OBVIOUS
<1>1. TypeOK
  BY BoundsAssumption DEF Init, TypeOK, TaskStatus, EventStatus, Holding, NoInvocation
<1>2. LockOK
  BY ProcessesAssumption DEF Init, LockOK, Holding, Processes
<1>3. HolderOK /\ FreshOK /\ ClosedOK
  BY DEF Init, HolderOK, OwnRows, FreshOK, ClosedOK, SendingOK, SweptBy, Holding, Running
<1> QED BY <1>1, <1>2, <1>3 DEF IInv

\* At most one worker holds the lock.
LEMMA OneHolder ==
  ASSUME LockOK, NEW v \in Workers, NEW w \in Workers,
         wPc[v] \in Holding, wPc[w] \in Holding
  PROVE  v = w
BY DEF LockOK

-----------------------------------------------------------------------------
LEMMA TypeStep == IInv /\ [Next]_vars => TypeOK'
<1> SUFFICES ASSUME IInv, [Next]_vars PROVE TypeOK'
  OBVIOUS
<1> USE DEF IInv
<1>1. ASSUME NEW w \in Workers, StartBusy(w) \/ ReturnBusy(w) PROVE TypeOK'
  BY <1>1 DEF StartBusy, ReturnBusy, At, TypeOK, Holding, rows, faults
<1>2. ASSUME NEW w \in Workers, StartLocked(w) PROVE TypeOK'
  BY <1>2, BoundsAssumption DEF StartLocked, At, TypeOK, Holding, rows, faults, Processes, NoInvocation
<1>3. ASSUME NEW w \in Workers, SweepRuns(w) PROVE TypeOK'
  <2>1. run' \in [Invocations -> TaskStatus]
    BY <1>3 DEF SweepRuns, Write, Interrupted, TypeOK, TaskStatus
  <2>2. lost' \in 0..MaxLost
    BY <1>3, BoundsAssumption DEF SweepRuns, Write, TypeOK
  <2> QED BY <1>3, <2>1, <2>2 DEF SweepRuns, At, TypeOK, Holding
<1>4. ASSUME NEW w \in Workers, SweepEvents(w) PROVE TypeOK'
  <2>1. event' \in [Invocations -> EventStatus]
    BY <1>4 DEF SweepEvents, Write, Unconfirmed, TypeOK, EventStatus
  <2>2. lost' \in 0..MaxLost
    BY <1>4, BoundsAssumption DEF SweepEvents, Write, TypeOK
  <2> QED BY <1>4, <2>1, <2>2 DEF SweepEvents, At, TypeOK, Holding
<1>5. ASSUME NEW w \in Workers, RecordStart(w) PROVE TypeOK'
  <2>1. run' \in [Invocations -> TaskStatus]
    BY <1>5 DEF RecordStart, Write, TypeOK, TaskStatus
  <2>2. lost' \in 0..MaxLost
    BY <1>5, BoundsAssumption DEF RecordStart, Write, TypeOK
  <2> QED BY <1>5, <2>1, <2>2 DEF RecordStart, At, TypeOK, Holding
<1>6. ASSUME NEW w \in Workers, NotificationStarted(w) PROVE TypeOK'
  <2>1. event' \in [Invocations -> EventStatus]
    BY <1>6 DEF NotificationStarted, Write, TypeOK, EventStatus
  <2>2. lost' \in 0..MaxLost
    BY <1>6, BoundsAssumption DEF NotificationStarted, Write, TypeOK
  <2> QED BY <1>6, <2>1, <2>2 DEF NotificationStarted, At, TypeOK, Holding
<1>7. ASSUME NEW w \in Workers, NotificationFinished(w) PROVE TypeOK'
  <2>1. event' \in [Invocations -> EventStatus]
    BY <1>7 DEF NotificationFinished, Write, TypeOK, EventStatus
  <2>2. lost' \in 0..MaxLost
    BY <1>7, BoundsAssumption DEF NotificationFinished, Write, TypeOK
  <2> QED BY <1>7, <2>1, <2>2 DEF NotificationFinished, At, TypeOK, Holding
<1>8. ASSUME NEW w \in Workers, RecordOutcome(w) PROVE TypeOK'
  <2>1. run' \in [Invocations -> TaskStatus]
    BY <1>8 DEF RecordOutcome, Write, Outcomes, TypeOK, TaskStatus
  <2>2. lost' \in 0..MaxLost
    BY <1>8, BoundsAssumption DEF RecordOutcome, Write, TypeOK
  <2> QED BY <1>8, <2>1, <2>2 DEF RecordOutcome, At, TypeOK, Holding
<1>9. ASSUME NEW w \in Workers, Release(w) PROVE TypeOK'
  BY <1>9, BoundsAssumption DEF Release, At, TypeOK, Holding, rows, faults, NoInvocation
<1>10. ASSUME NEW p \in Portals, ReadCandidates(p) \/ ProbeBusy(p) \/ ReturnActive(p)
       PROVE  TypeOK'
  BY <1>10 DEF ReadCandidates, ProbeBusy, ReturnActive, TypeOK, rows, wVars, faults
<1>11. ASSUME NEW p \in Portals, ProbeAvailable(p) PROVE TypeOK'
  BY <1>11 DEF ProbeAvailable, TypeOK, rows, wVars, faults, Processes
<1>12. ASSUME NEW p \in Portals, CloseAbandoned(p) PROVE TypeOK'
  <2>1. run' \in [Invocations -> TaskStatus]
    BY <1>12 DEF CloseAbandoned, Interrupted, TypeOK, TaskStatus
  <2>2. event' \in [Invocations -> EventStatus]
    BY <1>12 DEF CloseAbandoned, Unconfirmed, TypeOK, EventStatus
  <2> QED BY <1>12, <2>1, <2>2 DEF CloseAbandoned, TypeOK, wVars, faults
<1>13. ASSUME NEW b \in Borrowers, Borrow(b) \/ GiveBack(b) PROVE TypeOK'
  <2>1. lock' \in Processes \cup {Free} /\ count' \in 0..MaxInvocations
    BY <1>13, BoundsAssumption DEF Borrow, GiveBack, TypeOK, wVars, Processes
  <2> QED BY <1>13, <2>1 DEF Borrow, GiveBack, TypeOK, rows, wVars, faults
<1>14. ASSUME NEW q \in Processes, Crash(q) PROVE TypeOK'
  <2>1. crashes' \in 0..MaxCrashes
    BY <1>14, BoundsAssumption DEF Crash, TypeOK
  <2>2. /\ wPc' \in [Workers -> Holding \cup {"idle", "busy"}]
        /\ inv' \in [Workers -> 0..MaxInvocations]
        /\ \A w \in Workers : inv'[w] # NoInvocation <=> wPc'[w] \in Holding
    BY <1>14, BoundsAssumption DEF Crash, TypeOK, Holding, NoInvocation
  <2>3. pPc' \in [Portals -> {"idle", "probe", "probing", "active"}]
    BY <1>14 DEF Crash, TypeOK
  <2> QED BY <1>14, <2>1, <2>2, <2>3 DEF Crash, TypeOK, rows
<1>15. CASE UNCHANGED vars
  BY <1>15 DEF vars, TypeOK, rows, wVars, faults
<1> QED
  BY <1>1, <1>2, <1>3, <1>4, <1>5, <1>6, <1>7, <1>8, <1>9, <1>10, <1>11, <1>12,
     <1>13, <1>14, <1>15 DEF Next, WorkerStep, PortalStep

LEMMA LockStep == IInv /\ [Next]_vars => LockOK'
<1> SUFFICES ASSUME IInv, [Next]_vars PROVE LockOK'
  OBVIOUS
<1> USE DEF IInv, LockOK, TypeOK
<1>1. ASSUME NEW w \in Workers, StartBusy(w) \/ StartLocked(w) \/ ReturnBusy(w)
      PROVE  LockOK'
  BY <1>1, ProcessesAssumption DEF StartBusy, StartLocked, ReturnBusy, At, Holding, Processes
<1>2. ASSUME NEW w \in Workers, WorkerStep(w), ~Release(w), ~ReturnBusy(w) PROVE LockOK'
  <2>1. /\ lock' = lock /\ pPc' = pPc
        /\ wPc[w] \in Holding /\ wPc'[w] \in Holding
        /\ \A v \in Workers \ {w} : wPc'[v] = wPc[v]
    BY <1>2 DEF WorkerStep, SweepRuns, SweepEvents, RecordStart, NotificationStarted,
       NotificationFinished, RecordOutcome, At, Holding
  <2> QED BY <2>1
<1>3. ASSUME NEW w \in Workers, Release(w) PROVE LockOK'
  BY <1>3, ProcessesAssumption DEF Release, At, Holding, Processes
<1>4. ASSUME NEW p \in Portals, PortalStep(p) PROVE LockOK'
  BY <1>4, ProcessesAssumption DEF PortalStep, ReadCandidates, ProbeBusy, ReturnActive,
     ProbeAvailable, CloseAbandoned, Processes, wVars
<1>5. ASSUME NEW b \in Borrowers, Borrow(b) \/ GiveBack(b) PROVE LockOK'
  BY <1>5, ProcessesAssumption DEF Borrow, GiveBack, Processes, wVars
<1>6. ASSUME NEW q \in Processes, Crash(q) PROVE LockOK'
  BY <1>6, ProcessesAssumption DEF Crash, Processes, Holding
<1>7. CASE UNCHANGED vars
  BY <1>7 DEF vars, wVars
<1> QED BY <1>1, <1>2, <1>3, <1>4, <1>5, <1>6, <1>7 DEF Next, WorkerStep

-----------------------------------------------------------------------------
\* Between two changes of the lock, one worker's step decides everything: the
\* others do not hold it.
LEMMA OthersIdle ==
  ASSUME IInv, NEW w \in Workers, wPc[w] \in Holding
  PROVE  /\ \A v \in Workers \ {w} : wPc[v] \notin Holding
         /\ inv[w] \in 1..count /\ inv[w] \in Invocations /\ count \in Nat
BY OneHolder, BoundsAssumption DEF IInv, HolderOK, OwnRows, TypeOK, Invocations

LEMMA HolderStep == IInv /\ [Next]_vars => HolderOK' /\ FreshOK'
<1> SUFFICES ASSUME IInv, [Next]_vars PROVE HolderOK' /\ FreshOK'
  OBVIOUS
<1>1. ASSUME NEW w \in Workers, StartBusy(w) \/ ReturnBusy(w) PROVE HolderOK' /\ FreshOK'
  BY <1>1 DEF StartBusy, ReturnBusy, At, IInv, TypeOK, HolderOK, OwnRows, FreshOK, Holding, rows
<1>2. ASSUME NEW w \in Workers, StartLocked(w) PROVE HolderOK' /\ FreshOK'
  <2>1. count \in Nat /\ count + 1 \in Invocations /\ count' = count + 1
    BY <1>2, BoundsAssumption DEF StartLocked, IInv, TypeOK, Invocations
  <2>2. \A v \in Workers : wPc[v] \notin Holding
    BY <1>2, ProcessesAssumption DEF StartLocked, IInv, LockOK, Processes
  <2>3. run[count + 1] = "NONE" /\ event[count + 1] = "NONE"
    BY <2>1 DEF IInv, FreshOK
  <2>4. inv'[w] = count + 1 /\ wPc'[w] = "locked"
    BY <1>2 DEF StartLocked, At, IInv, TypeOK
  <2>5. \A v \in Workers \ {w} : wPc'[v] \notin Holding
    BY <1>2, <2>2 DEF StartLocked, At, IInv, TypeOK
  <2>6. run' = run /\ event' = event
    BY <1>2 DEF StartLocked, rows
  <2>7. HolderOK'
    BY <2>1, <2>3, <2>4, <2>5, <2>6 DEF HolderOK, OwnRows
  <2>8. FreshOK'
    BY <2>1, <2>6 DEF IInv, FreshOK, Invocations
  <2> QED BY <2>7, <2>8
<1>3. ASSUME NEW w \in Workers, WorkerStep(w), ~ReturnBusy(w), ~Release(w)
      PROVE  HolderOK' /\ FreshOK'
  <2>1. /\ wPc[w] \in Holding /\ count' = count /\ inv' = inv
        /\ \A v \in Workers \ {w} : wPc'[v] = wPc[v]
    BY <1>3 DEF WorkerStep, SweepRuns, SweepEvents, RecordStart, NotificationStarted,
       NotificationFinished, RecordOutcome, At, Holding, IInv, TypeOK
  <2>2. /\ \A v \in Workers \ {w} : wPc'[v] \notin Holding
        /\ inv[w] \in 1..count /\ inv[w] \in Invocations /\ count \in Nat
    BY <2>1, OthersIdle
  <2>3. \A i \in Invocations : i > count => run'[i] = run[i] /\ event'[i] = event[i]
    <3> SUFFICES ASSUME NEW i \in Invocations, i > count
                 PROVE  run'[i] = run[i] /\ event'[i] = event[i]
      OBVIOUS
    <3>1. run[i] = "NONE" /\ event[i] = "NONE" /\ i # inv[w]
      BY <2>2 DEF IInv, FreshOK
    <3> QED BY <1>3, <3>1 DEF WorkerStep, SweepRuns, SweepEvents, RecordStart,
           NotificationStarted, NotificationFinished, RecordOutcome, Write,
           Interrupted, Unconfirmed, IInv, TypeOK
  <2>4. FreshOK'
    BY <2>1, <2>3 DEF IInv, FreshOK
  <2>6. OwnRows(w) /\ inv[w] \in 1..count /\ inv[w] \in Invocations
    BY <2>1, <2>2 DEF IInv, HolderOK
  <2>7. OwnRows(w)'
    <3>1. CASE SweepRuns(w)
      BY <2>6, <3>1 DEF SweepRuns, At, Write, Interrupted, OwnRows, IInv, TypeOK
    <3>2. CASE SweepEvents(w)
      BY <2>6, <3>2 DEF SweepEvents, At, Write, Unconfirmed, OwnRows, IInv, TypeOK
    <3>3. CASE RecordStart(w)
      BY <2>6, <3>3 DEF RecordStart, At, Write, OwnRows, IInv, TypeOK
    <3>4. CASE NotificationStarted(w)
      BY <2>6, <3>4 DEF NotificationStarted, At, Write, OwnRows, IInv, TypeOK
    <3>5. CASE NotificationFinished(w)
      BY <2>6, <3>5 DEF NotificationFinished, At, Write, OwnRows, IInv, TypeOK
    <3>6. CASE RecordOutcome(w)
      BY <2>6, <3>6 DEF RecordOutcome, At, Write, Outcomes, OwnRows, IInv, TypeOK
    <3> QED BY <1>3, <3>1, <3>2, <3>3, <3>4, <3>5, <3>6 DEF WorkerStep
  <2> QED BY <2>2, <2>4, <2>7 DEF HolderOK
<1>4. ASSUME NEW w \in Workers, Release(w) PROVE HolderOK' /\ FreshOK'
  <2>1. \A v \in Workers : wPc'[v] \notin Holding
    BY <1>4, OthersIdle DEF Release, At, Holding, IInv, TypeOK
  <2> QED BY <1>4, <2>1 DEF Release, IInv, HolderOK, FreshOK, rows
<1>5. ASSUME NEW p \in Portals, PortalStep(p), ~CloseAbandoned(p) PROVE HolderOK' /\ FreshOK'
  BY <1>5 DEF PortalStep, ReadCandidates, ProbeBusy, ReturnActive, ProbeAvailable,
     IInv, HolderOK, OwnRows, FreshOK, rows, wVars
<1>6. ASSUME NEW p \in Portals, CloseAbandoned(p) PROVE HolderOK' /\ FreshOK'
  <2>1. \A v \in Workers : wPc'[v] \notin Holding
    BY <1>6, ProcessesAssumption DEF CloseAbandoned, IInv, LockOK, wVars
  <2>2. \A i \in Invocations : /\ run[i] = "NONE" => run'[i] = "NONE"
                               /\ event[i] = "NONE" => event'[i] = "NONE"
    BY <1>6 DEF CloseAbandoned, Interrupted, Unconfirmed
  <2> QED BY <1>6, <2>1, <2>2 DEF CloseAbandoned, IInv, HolderOK, FreshOK, wVars
<1>7. ASSUME NEW b \in Borrowers, Borrow(b) \/ GiveBack(b) PROVE HolderOK' /\ FreshOK'
  <2>1. count \in Nat /\ count' \in Nat /\ count <= count'
    BY <1>7, BoundsAssumption DEF Borrow, GiveBack, IInv, TypeOK, wVars
  <2>2. \A i \in Invocations : i > count' => i > count
    BY <2>1, BoundsAssumption DEF Invocations
  <2>3. FreshOK'
    BY <1>7, <2>2 DEF Borrow, GiveBack, IInv, FreshOK, rows
  <2>4. CASE Borrow(b)
    <3>1. \A v \in Workers : wPc'[v] \notin Holding
      BY <2>4, ProcessesAssumption DEF Borrow, IInv, LockOK, Processes
    <3> QED BY <2>3, <3>1 DEF HolderOK
  <2>5. CASE GiveBack(b)
    BY <2>3, <2>5 DEF GiveBack, IInv, HolderOK, OwnRows, rows, wVars
  <2> QED BY <1>7, <2>4, <2>5
<1>8. ASSUME NEW q \in Processes, Crash(q) PROVE HolderOK' /\ FreshOK'
  BY <1>8 DEF Crash, IInv, TypeOK, HolderOK, OwnRows, FreshOK, rows, Holding
<1>9. CASE UNCHANGED vars
  BY <1>9 DEF vars, IInv, HolderOK, OwnRows, FreshOK, rows, wVars
<1> QED
  BY <1>1, <1>2, <1>3, <1>4, <1>5, <1>6, <1>7, <1>8, <1>9 DEF Next, WorkerStep

-----------------------------------------------------------------------------
LEMMA ClosedStep == IInv /\ [Next]_vars => ClosedOK'
<1> SUFFICES ASSUME IInv, [Next]_vars, lost' = 0
             PROVE  SendingOK' /\ \A v \in Workers : SweptBy(v)'
  BY DEF ClosedOK
<1> DEFINE Goal == SendingOK' /\ \A v \in Workers : SweptBy(v)'
<1>1. ASSUME NEW w \in Workers, WorkerStep(w), ~ReturnBusy(w), ~Release(w) PROVE Goal
  <2>1. /\ wPc[w] \in Holding /\ inv' = inv /\ lost = 0
        /\ \A v \in Workers \ {w} : wPc'[v] = wPc[v]
    BY <1>1 DEF WorkerStep, SweepRuns, SweepEvents, RecordStart, NotificationStarted,
       NotificationFinished, RecordOutcome, Write, At, Holding, IInv, TypeOK
  <2>2. /\ \A v \in Workers \ {w} : wPc'[v] \notin Holding
        /\ inv[w] \in Invocations /\ OwnRows(w)
    BY <2>1, OthersIdle DEF IInv, HolderOK
  <2>3. SendingOK /\ SweptBy(w)
    BY <2>1 DEF IInv, ClosedOK
  <2>4. \A v \in Workers \ {w} : SweptBy(v)'
    BY <2>2 DEF SweptBy, Holding, Running
  <2>5. run \in [Invocations -> TaskStatus] /\ event \in [Invocations -> EventStatus]
        /\ wPc \in [Workers -> Holding \cup {"idle", "busy"}]
    BY DEF IInv, TypeOK
  <2>6. CASE SweepRuns(w)
    <3>1. SendingOK'
      BY <2>1, <2>2, <2>3, <2>5, <2>6 DEF SweepRuns, At, Write, Interrupted, SendingOK, SweptBy, OwnRows
    <3>2. SweptBy(w)'
      BY <2>1, <2>2, <2>3, <2>5, <2>6 DEF SweepRuns, At, Write, Interrupted, SendingOK, SweptBy, OwnRows, Holding, Running
    <3> QED BY <2>4, <3>1, <3>2
  <2>7. CASE SweepEvents(w)
    <3>1. SendingOK'
      BY <2>1, <2>2, <2>3, <2>5, <2>7 DEF SweepEvents, At, Write, Unconfirmed, SendingOK, SweptBy, OwnRows
    <3>2. SweptBy(w)'
      BY <2>1, <2>2, <2>3, <2>5, <2>7 DEF SweepEvents, At, Write, Unconfirmed, SendingOK, SweptBy, OwnRows, Holding, Running
    <3> QED BY <2>4, <3>1, <3>2
  <2>8. CASE RecordStart(w)
    <3>1. SendingOK'
      BY <2>1, <2>2, <2>3, <2>5, <2>8 DEF RecordStart, At, Write, SendingOK, SweptBy, OwnRows
    <3>2. SweptBy(w)'
      BY <2>1, <2>2, <2>3, <2>5, <2>8 DEF RecordStart, At, Write, SendingOK, SweptBy, OwnRows, Holding, Running
    <3> QED BY <2>4, <3>1, <3>2
  <2>9. CASE NotificationStarted(w)
    <3>1. SendingOK'
      BY <2>1, <2>2, <2>3, <2>5, <2>9 DEF NotificationStarted, At, Write, SendingOK, SweptBy, OwnRows
    <3>2. SweptBy(w)'
      BY <2>1, <2>2, <2>3, <2>5, <2>9 DEF NotificationStarted, At, Write, SendingOK, SweptBy, OwnRows, Holding, Running
    <3> QED BY <2>4, <3>1, <3>2
  <2>10. CASE NotificationFinished(w)
    <3>1. SendingOK'
      BY <2>1, <2>2, <2>3, <2>5, <2>10 DEF NotificationFinished, At, Write, SendingOK, SweptBy, OwnRows
    <3>2. SweptBy(w)'
      BY <2>1, <2>2, <2>3, <2>5, <2>10 DEF NotificationFinished, At, Write, SendingOK, SweptBy, OwnRows, Holding, Running
    <3> QED BY <2>4, <3>1, <3>2
  <2>11. CASE RecordOutcome(w)
    <3>1. SendingOK'
      BY <2>1, <2>2, <2>3, <2>5, <2>11 DEF RecordOutcome, At, Write, Outcomes, SendingOK, SweptBy, OwnRows
    <3>2. SweptBy(w)'
      BY <2>1, <2>2, <2>3, <2>5, <2>11 DEF RecordOutcome, At, Write, Outcomes, SendingOK, SweptBy, OwnRows, Holding, Running
    <3> QED BY <2>4, <3>1, <3>2
  <2> QED BY <1>1, <2>6, <2>7, <2>8, <2>9, <2>10, <2>11 DEF WorkerStep
<1>2. ASSUME NEW w \in Workers, StartBusy(w) \/ ReturnBusy(w) PROVE Goal
  BY <1>2 DEF StartBusy, ReturnBusy, At, IInv, TypeOK, ClosedOK, SendingOK, SweptBy,
     Holding, Running, rows, faults
<1>3. ASSUME NEW w \in Workers, StartLocked(w) PROVE Goal
  BY <1>3 DEF StartLocked, At, IInv, TypeOK, ClosedOK, SendingOK, SweptBy,
     Holding, Running, rows, faults
<1>4. ASSUME NEW w \in Workers, Release(w) PROVE Goal
  BY <1>4 DEF Release, At, IInv, TypeOK, ClosedOK, SendingOK, SweptBy,
     Holding, Running, rows, faults
<1>5. ASSUME NEW p \in Portals, PortalStep(p), ~CloseAbandoned(p) PROVE Goal
  BY <1>5 DEF PortalStep, ReadCandidates, ProbeBusy, ReturnActive, ProbeAvailable,
     IInv, ClosedOK, SendingOK, SweptBy, rows, wVars, faults
<1>6. ASSUME NEW p \in Portals, CloseAbandoned(p) PROVE Goal
  <2>1. \A w \in Workers : wPc'[w] \notin Holding
    BY <1>6, ProcessesAssumption DEF CloseAbandoned, IInv, LockOK, wVars
  <2>2. \A w \in Workers : SweptBy(w)'
    BY <2>1 DEF SweptBy, Holding, Running
  <2>3. SendingOK'
    BY <1>6 DEF CloseAbandoned, Interrupted, Unconfirmed, IInv, ClosedOK, SendingOK, faults
  <2> QED BY <2>2, <2>3
<1>7. ASSUME NEW b \in Borrowers, Borrow(b) \/ GiveBack(b) PROVE Goal
  BY <1>7 DEF Borrow, GiveBack, IInv, ClosedOK, SendingOK, SweptBy, rows, wVars, faults
<1>8. ASSUME NEW q \in Processes, Crash(q) PROVE Goal
  BY <1>8 DEF Crash, IInv, TypeOK, ClosedOK, SendingOK, SweptBy, Holding, Running, rows
<1>9. CASE UNCHANGED vars
  BY <1>9 DEF vars, IInv, ClosedOK, SendingOK, SweptBy, rows, wVars, faults
<1> QED
  BY <1>1, <1>2, <1>3, <1>4, <1>5, <1>6, <1>7, <1>8, <1>9 DEF Next, WorkerStep

-----------------------------------------------------------------------------
LEMMA Inductive == IInv /\ [Next]_vars => IInv'
BY TypeStep, LockStep, HolderStep, ClosedStep DEF IInv

\* The history keeps its type, and a worker names its invocation exactly while
\* it holds the lock.
THEOREM TypeCorrect == Spec => []TypeOK
<1>1. IInv => TypeOK
  BY DEF IInv
<1> QED BY InitOK, Inductive, <1>1, PTL DEF Spec

\* No process, however it interleaves with crashes, starts and page loads,
\* records the end of a run that is still going on.
THEOREM LiveRunsSafe == Spec => []LiveNotInterrupted
<1>1. IInv => LiveNotInterrupted
  BY DEF IInv, HolderOK, OwnRows, LiveNotInterrupted, Live, Holding, Running
<1> QED BY InitOK, Inductive, <1>1, PTL DEF Spec

\* The lock admits one worker, and the two sweeps it starts with close whatever
\* the others left open.
THEOREM RunsExclusive == Spec => []OneRunAtATime
<1>1. IInv => OneRunAtATime
  <2> SUFFICES ASSUME IInv, NEW w \in Workers, Live(w)
               PROVE  /\ \A v \in Workers \ {w} : ~Live(v)
                      /\ lost = 0 => \A i \in Invocations \ {inv[w]} :
                                       run[i] # "RUNNING" /\ event[i] # "SENDING"
    BY DEF OneRunAtATime
  <2>1. Running \subseteq Holding \ {"locked"}
    BY DEF Running, Holding
  <2>2. \A v \in Workers \ {w} : ~Live(v)
    BY <2>1, OthersIdle DEF Live
  <2>3. lost = 0 => SweptBy(w)
    BY DEF IInv, ClosedOK
  <2> QED BY <2>1, <2>2, <2>3 DEF SweptBy, Live
<1> QED BY InitOK, Inductive, <1>1, PTL DEF Spec

\* What was written about a finished run or delivery is final.
THEOREM HistorySafe == Spec => HistoryKept
<1>1. IInv /\ [Next]_vars => [KeepsHistory]_vars
  <2> SUFFICES ASSUME IInv, Next, NEW i \in Invocations
               PROVE  /\ run[i] \notin {"NONE", "RUNNING"} => run'[i] = run[i]
                      /\ event[i] \in {"RESULT", "UNKNOWN"} => event'[i] = event[i]
    BY DEF KeepsHistory
  <2> DEFINE Goal == /\ run[i] \notin {"NONE", "RUNNING"} => run'[i] = run[i]
                     /\ event[i] \in {"RESULT", "UNKNOWN"} => event'[i] = event[i]
  <2>1. ASSUME NEW w \in Workers, WorkerStep(w), ~ReturnBusy(w), ~Release(w) PROVE Goal
    <3>1. wPc[w] \in Holding
      BY <2>1 DEF WorkerStep, SweepRuns, SweepEvents, RecordStart, NotificationStarted,
         NotificationFinished, RecordOutcome, At, Holding
    <3>2. OwnRows(w) /\ run \in [Invocations -> TaskStatus]
          /\ event \in [Invocations -> EventStatus]
      BY <3>1 DEF IInv, HolderOK, TypeOK
    <3> QED BY <2>1, <3>2 DEF WorkerStep, SweepRuns, SweepEvents, RecordStart,
           NotificationStarted, NotificationFinished, RecordOutcome, Write, At,
           Interrupted, Unconfirmed, OwnRows
  <2>2. ASSUME NEW w \in Workers, StartBusy(w) \/ StartLocked(w) \/ ReturnBusy(w) \/ Release(w)
        PROVE Goal
    BY <2>2 DEF StartBusy, StartLocked, ReturnBusy, Release, rows
  <2>3. ASSUME NEW p \in Portals, PortalStep(p) PROVE Goal
    BY <2>3 DEF PortalStep, ReadCandidates, ProbeBusy, ReturnActive, ProbeAvailable,
       CloseAbandoned, Interrupted, Unconfirmed, rows, IInv, TypeOK
  <2>4. ASSUME NEW b \in Borrowers, Borrow(b) \/ GiveBack(b) PROVE Goal
    BY <2>4 DEF Borrow, GiveBack, rows
  <2>5. ASSUME NEW q \in Processes, Crash(q) PROVE Goal
    BY <2>5 DEF Crash, rows
  <2> QED BY <2>1, <2>2, <2>3, <2>4, <2>5 DEF Next, WorkerStep
<1> QED BY InitOK, Inductive, <1>1, PTL DEF Spec, HistoryKept
=============================================================================
