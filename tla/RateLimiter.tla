----------------------------- MODULE RateLimiter -----------------------------
(***************************************************************************)
(* RollingRateHandler: the limiter that all provider requests of one       *)
(* continuation share.  A request needs a slot, no cooldown in force, and  *)
(* room for one more request and its estimated tokens in the rolling       *)
(* window.  This module has the limiter's state and what each of its       *)
(* methods does to it; AiRuns has the tasks that call them.                *)
(*                                                                         *)
(* Nothing is awaited while the limiter's lock is held, so each method is  *)
(* one step of the event loop.  Time is counted in ticks, and ages stop at *)
(* Window.  A refused request only sleeps and looks again, which changes   *)
(* nothing: how long it sleeps is left out.                                *)
(***************************************************************************)
EXTENDS Naturals, FiniteSets, Sequences, Functions

CONSTANTS Tasks,           \* the jobs being extracted
          Rpm,             \* TARGET_RPM
          InputTpm,        \* EFFECTIVE_TPM
          MaxConcurrency,  \* AI_MAX_CONCURRENCY
          Window           \* window_seconds, in ticks

ASSUME LimiterAssumption ==
  /\ Rpm \in Nat \ {0} /\ InputTpm \in Nat
  /\ MaxConcurrency \in Nat \ {0} /\ Window \in Nat \ {0}

VARIABLES
  window,       \* request_times and token_reservations, always in step
  cooldown,     \* ticks until cooldown_until
  holders,      \* tasks that hold a slot of the semaphore
  launches      \* history: requests sent, by the ticks since

limiter == <<window, cooldown, holders, launches>>

Reservation == [by : Tasks, age : 0..Window, estimate : Nat, tokens : Nat]

LimiterTypeOK ==
  /\ window \in Seq(Reservation)
  /\ cooldown \in Nat
  /\ holders \subseteq Tasks
  /\ launches \in [0..Window-1 -> Nat]

FreshLimiter ==
  /\ window = <<>> /\ cooldown = 0 /\ holders = {}
  /\ launches = [a \in 0..Window-1 |-> 0]

NewLimiter ==
  /\ window' = <<>> /\ cooldown' = 0 /\ holders' = {}
  /\ launches' = [a \in 0..Window-1 |-> 0]

\* _prune: the oldest entries go, as long as they are a whole window old.
ExpiredEarly ==                                                   \* mutant
  CHOOSE k \in 0..Len(window) :
    /\ \A n \in 1..k : window[n].age >= Window - 1
    /\ k < Len(window) => window[k+1].age < Window - 1
Expired ==
  CHOOSE k \in 0..Len(window) :
    /\ \A n \in 1..k : window[n].age = Window
    /\ k < Len(window) => window[k+1].age < Window
Pruned == SubSeq(window, Expired + 1, Len(window))

Sum(requests) == SumFunction([n \in DOMAIN requests |-> requests[n].tokens])

TpmOkWithoutOwn(estimate) == Sum(Pruned) <= InputTpm              \* mutant
TpmOk(estimate) == Sum(Pruned) + estimate <= InputTpm

\* acquire finds everything in order.
Admits(estimate) ==
  /\ cooldown = 0
  /\ Len(Pruned) < Rpm
  /\ TpmOk(estimate)

SlotFree == Cardinality(holders) < MaxConcurrency
TakesSlot(t) == holders' = holders \cup {t}
Releases(t)  == holders' = holders \ {t}

\* acquire returns: the request counts from now on.
Reserves(t, estimate) ==
  window' = Append(Pruned, [by |-> t, age |-> 0, estimate |-> estimate, tokens |-> estimate])

Launches == launches' = [launches EXCEPT ![0] = @ + 1]

\* reconcile: the reported usage replaces the estimate in the task's latest
\* reservation, 0 stands for no usable report.
Latest(t) == {n \in DOMAIN window : /\ window[n].by = t
                                    /\ \A k \in n+1..Len(window) : window[k].by # t}
Reconciles(t, usage) ==
  window' = [n \in DOMAIN window |->
               IF n \in Latest(t) /\ usage > 0
               THEN [window[n] EXCEPT !.tokens = usage] ELSE window[n]]

\* record_transient_failure never shortens a pause.
PausesAfresh(delay) == cooldown' = delay                          \* mutant
Pauses(delay) == cooldown' = IF delay > cooldown THEN delay ELSE cooldown

Older(age) == IF age < Window THEN age + 1 ELSE age

Tick ==
  /\ window' = [n \in DOMAIN window |-> [window[n] EXCEPT !.age = Older(@)]]
  /\ cooldown' = IF cooldown > 0 THEN cooldown - 1 ELSE 0
  /\ launches' = [a \in 0..Window-1 |-> IF a = 0 THEN 0 ELSE launches[a-1]]
  /\ UNCHANGED holders

-----------------------------------------------------------------------------
\* At most TARGET_RPM requests are launched in any rolling window of one
\* continuation (ai_extractor.py:71).
RpmRespected == SumFunction(launches) <= Rpm

\* The tokens in the window exceed EFFECTIVE_TPM only by what responses used
\* beyond their estimate (ai_extractor.py:72).
Excess(r) == IF r.tokens > r.estimate THEN r.tokens - r.estimate ELSE 0
TpmRespected ==
  Sum(window) <= InputTpm + SumFunction([n \in DOMAIN window |-> Excess(window[n])])
=============================================================================
