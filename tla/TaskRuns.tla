------------------------------ MODULE TaskRuns ------------------------------
(***************************************************************************)
(* The operational history of one recorded task: its operating-system      *)
(* lock, its rows in task_runs and notification_events, the workers that   *)
(* run it (recorded_task), the portal that asks whether it runs       *)
(* (active_recorded_tasks), and the commands that take its lock without    *)
(* recording anything (task_lock: guarded searches, reconcile, the nightly *)
(* probe).  Any process may die between two steps, which frees its lock,   *)
(* and any single history write may be lost (_write swallows the error).   *)
(***************************************************************************)
EXTENDS Naturals, FiniteSets

CONSTANTS Workers,         \* processes that run the task
          Portals,         \* portal processes refreshing a page's buttons
          Borrowers,       \* processes that take the bare lock
          MaxInvocations,  \* bound: how often the lock is taken, to run the task or bare
          MaxCrashes,      \* bound: processes that die
          MaxLost          \* bound: history writes that fail

Processes == Workers \cup Portals \cup Borrowers
Free == "free"

ASSUME ProcessesAssumption ==
  /\ Free \notin Processes
  /\ Workers \cap Portals = {} /\ Workers \cap Borrowers = {} /\ Portals \cap Borrowers = {}
ASSUME BoundsAssumption ==
  MaxInvocations \in Nat /\ MaxCrashes \in Nat /\ MaxLost \in Nat

Invocations == 1..MaxInvocations
NoInvocation == 0

\* NONE is a row that was never written.
TaskStatus  == {"NONE", "RUNNING", "INTERRUPTED", "COMPLETED", "NO_OP", "FAILED"}
Outcomes    == {"COMPLETED", "NO_OP", "FAILED"}
\* RESULT is SENT, SKIPPED, FAILED or NOT_ATTEMPTED.
EventStatus == {"NONE", "SENDING", "RESULT", "UNKNOWN"}

VARIABLES
  lock,             \* who holds the task's lock file
  run, event,       \* task_runs and notification_events, by invocation
  count,            \* invocations so far
  wPc, inv,         \* recorded_task in each worker
  pPc,              \* active_recorded_tasks in each portal
  crashes, lost

rows   == <<run, event>>
wVars  == <<count, wPc, inv>>
faults == <<crashes, lost>>
vars   == <<lock, rows, wVars, pPc, faults>>

\* Past these points the worker owns the lock; in the last four it runs the task.
Holding == {"locked", "swept", "cleared", "working", "sending", "sent", "recorded"}
Running == {"working", "sending", "sent", "recorded"}

TypeOK ==
  /\ lock \in Processes \cup {Free}
  /\ run \in [Invocations -> TaskStatus]
  /\ event \in [Invocations -> EventStatus]
  /\ count \in 0..MaxInvocations
  /\ wPc \in [Workers -> Holding \cup {"idle", "busy"}]
  /\ inv \in [Workers -> 0..MaxInvocations]
  /\ \A w \in Workers : inv[w] # NoInvocation <=> wPc[w] \in Holding
  /\ pPc \in [Portals -> {"idle", "probe", "probing", "active"}]
  /\ crashes \in 0..MaxCrashes
  /\ lost \in 0..MaxLost

Init ==
  /\ lock = Free
  /\ run = [i \in Invocations |-> "NONE"]
  /\ event = [i \in Invocations |-> "NONE"]
  /\ count = 0
  /\ wPc = [w \in Workers |-> "idle"]
  /\ inv = [w \in Workers |-> NoInvocation]
  /\ pPc = [p \in Portals |-> "idle"]
  /\ crashes = 0 /\ lost = 0

At(w, from, to) == wPc[w] = from /\ wPc' = [wPc EXCEPT ![w] = to]

\* _write: the statement commits, or the failure is logged and forgotten.
Write(statement, unchanged) ==
  \/ statement /\ UNCHANGED lost
  \/ unchanged /\ lost < MaxLost /\ lost' = lost + 1

-----------------------------------------------------------------------------
(* recorded_task.                                                          *)

StartBusy(w) ==
  /\ lock # Free
  /\ At(w, "idle", "busy")
  /\ UNCHANGED <<lock, rows, count, inv, pPc, faults>>

ReturnBusy(w) ==
  /\ At(w, "busy", "idle")
  /\ UNCHANGED <<lock, rows, count, inv, pPc, faults>>

StartLocked(w) ==
  /\ lock = Free
  /\ count < MaxInvocations
  /\ At(w, "idle", "locked")
  /\ lock' = w
  /\ count' = count + 1
  /\ inv' = [inv EXCEPT ![w] = count + 1]
  /\ UNCHANGED <<rows, pPc, faults>>

\* Owning the lock proves that no earlier worker of this task is alive.
EveryUnfinished ==                                          \* mutant
  [i \in Invocations |-> IF run[i] = "NONE" THEN "NONE" ELSE "INTERRUPTED"]
Interrupted == [i \in Invocations |-> IF run[i] = "RUNNING" THEN "INTERRUPTED" ELSE run[i]]
Unconfirmed(runs) ==
  [i \in Invocations |-> IF event[i] = "SENDING" /\ runs[i] = "INTERRUPTED"
                         THEN "UNKNOWN" ELSE event[i]]

SweepRuns(w) ==
  /\ At(w, "locked", "swept")
  /\ Write(run' = Interrupted, run' = run)
  /\ UNCHANGED <<lock, event, count, inv, pPc, crashes>>

SkipEvents(w) ==                                            \* mutant
  /\ At(w, "swept", "cleared")
  /\ UNCHANGED <<lock, rows, count, inv, pPc, faults>>

SweepEvents(w) ==
  /\ At(w, "swept", "cleared")
  /\ Write(event' = Unconfirmed(run), event' = event)
  /\ UNCHANGED <<lock, run, count, inv, pPc, crashes>>

RecordStart(w) ==
  /\ At(w, "cleared", "working")
  /\ Write(run' = [run EXCEPT ![inv[w]] = "RUNNING"], run' = run)
  /\ UNCHANGED <<lock, event, count, inv, pPc, crashes>>

\* deliver_notification and notification_not_attempted: a row before the send
\* and its result after it.  A row that was not inserted is not updated.
NotificationStarted(w) ==
  /\ At(w, "working", "sending")
  /\ Write(event' = [event EXCEPT ![inv[w]] = "SENDING"], event' = event)
  /\ UNCHANGED <<lock, run, count, inv, pPc, crashes>>

NotificationFinished(w) ==
  /\ At(w, "sending", "sent")
  /\ Write(event' = [event EXCEPT ![inv[w]] = IF @ = "NONE" THEN "NONE" ELSE "RESULT"],
           event' = event)
  /\ UNCHANGED <<lock, run, count, inv, pPc, crashes>>

\* The function returned or raised, with or without a notification.
RecordOutcome(w) ==
  /\ At(w, "working", "recorded") \/ At(w, "sent", "recorded")
  /\ \E outcome \in Outcomes :
       Write(run' = [run EXCEPT ![inv[w]] = IF @ = "NONE" THEN "NONE" ELSE outcome],
             run' = run)
  /\ UNCHANGED <<lock, event, count, inv, pPc, crashes>>

ReleaseKeeping(w) ==                                        \* mutant
  /\ At(w, "recorded", "idle")
  /\ lock' = Free
  /\ UNCHANGED <<rows, count, inv, pPc, faults>>

Release(w) ==
  /\ At(w, "recorded", "idle")
  /\ lock' = Free
  /\ inv' = [inv EXCEPT ![w] = NoInvocation]
  /\ UNCHANGED <<rows, count, pPc, faults>>

-----------------------------------------------------------------------------
(* active_recorded_tasks.                                                  *)

ReadCandidates(p) ==
  /\ pPc[p] = "idle"
  /\ \E i \in Invocations : run[i] = "RUNNING"
  /\ pPc' = [pPc EXCEPT ![p] = "probe"]
  /\ UNCHANGED <<lock, rows, wVars, faults>>

ProbeBusy(p) ==
  /\ pPc[p] = "probe"
  /\ lock # Free
  /\ pPc' = [pPc EXCEPT ![p] = "active"]
  /\ UNCHANGED <<lock, rows, wVars, faults>>

ProbeRegardless(p) ==                                       \* mutant
  /\ pPc[p] = "probe"
  /\ pPc' = [pPc EXCEPT ![p] = "probing"]
  /\ UNCHANGED <<lock, rows, wVars, faults>>

ProbeAvailable(p) ==
  /\ pPc[p] = "probe"
  /\ lock = Free
  /\ lock' = p
  /\ pPc' = [pPc EXCEPT ![p] = "probing"]
  /\ UNCHANGED <<rows, wVars, faults>>

\* Both updates are one transaction.  Its commit follows the release of the
\* lock, but no other writer of the history gets in before it.
CloseNothing(p) ==                                          \* mutant
  /\ pPc[p] = "probing"
  /\ lock' = Free
  /\ pPc' = [pPc EXCEPT ![p] = "idle"]
  /\ UNCHANGED <<rows, wVars, faults>>

CloseAbandoned(p) ==
  /\ pPc[p] = "probing"
  /\ run' = Interrupted
  /\ event' = Unconfirmed(Interrupted)
  /\ lock' = Free
  /\ pPc' = [pPc EXCEPT ![p] = "idle"]
  /\ UNCHANGED <<wVars, faults>>

ReturnActive(p) ==
  /\ pPc[p] = "active"
  /\ pPc' = [pPc EXCEPT ![p] = "idle"]
  /\ UNCHANGED <<lock, rows, wVars, faults>>

-----------------------------------------------------------------------------
(* task_lock without a record.                                             *)

Borrow(b) ==
  /\ lock = Free
  /\ count < MaxInvocations
  /\ lock' = b
  /\ count' = count + 1
  /\ UNCHANGED <<rows, wPc, inv, pPc, faults>>

GiveBack(b) ==
  /\ lock = b
  /\ lock' = Free
  /\ UNCHANGED <<rows, wVars, pPc, faults>>

\* A process dies: the operating system drops its lock, nothing is recorded.
Crash(q) ==
  /\ crashes < MaxCrashes
  /\ lock = q
  /\ lock' = Free
  /\ crashes' = crashes + 1
  /\ wPc' = [w \in Workers |-> IF w = q THEN "idle" ELSE wPc[w]]
  /\ inv' = [w \in Workers |-> IF w = q THEN NoInvocation ELSE inv[w]]
  /\ pPc' = [p \in Portals |-> IF p = q THEN "idle" ELSE pPc[p]]
  /\ UNCHANGED <<rows, count, lost>>

WorkerStep(w) ==
  \/ ReturnBusy(w) \/ SweepRuns(w) \/ SweepEvents(w) \/ RecordStart(w)
  \/ NotificationStarted(w) \/ NotificationFinished(w)
  \/ RecordOutcome(w) \/ Release(w)

PortalStep(p) ==
  \/ ReadCandidates(p) \/ ProbeBusy(p) \/ ProbeAvailable(p)
  \/ CloseAbandoned(p) \/ ReturnActive(p)

Next ==
  \/ \E w \in Workers : StartBusy(w) \/ StartLocked(w) \/ WorkerStep(w)
  \/ \E p \in Portals : PortalStep(p)
  \/ \E b \in Borrowers : Borrow(b) \/ GiveBack(b)
  \/ \E q \in Processes : Crash(q)

Spec == Init /\ [][Next]_vars

\* Started workers and borrowers go on; somebody keeps reloading the portal.
FairSpec ==
  /\ Spec
  /\ \A w \in Workers : WF_vars(WorkerStep(w))
  /\ \A p \in Portals : WF_vars(PortalStep(p))
  /\ \A b \in Borrowers : WF_vars(GiveBack(b))

-----------------------------------------------------------------------------
Live(w) == wPc[w] \in Running

\* Nobody declares a worker interrupted, or its delivery unconfirmed, while it
\* runs (recorded_task, active_recorded_tasks: the lock is authoritative).
LiveNotInterrupted ==
  \A w \in Workers : Live(w) => /\ run[inv[w]] # "INTERRUPTED"
                                /\ event[inv[w]] # "UNKNOWN"

\* One worker at a time runs the task, and unless a history write was lost,
\* everything earlier ones left open is closed before it starts.
OneRunAtATime ==
  \A w \in Workers : Live(w) =>
    /\ \A v \in Workers \ {w} : ~Live(v)
    /\ lost = 0 => \A i \in Invocations \ {inv[w]} :
                     run[i] # "RUNNING" /\ event[i] # "SENDING"

\* What the history says of a finished run or delivery is never rewritten.
KeepsHistory ==
  \A i \in Invocations :
    /\ run[i] \notin {"NONE", "RUNNING"} => run'[i] = run[i]
    /\ event[i] \in {"RESULT", "UNKNOWN"} => event'[i] = event[i]
HistoryKept == [][KeepsHistory]_vars

\* No row stays RUNNING for ever (active_recorded_tasks): its worker records an
\* outcome, or the portal finds out that nobody will.
RunsAreClosed ==
  \A i \in Invocations : run[i] = "RUNNING" ~> run[i] # "RUNNING"
=============================================================================
