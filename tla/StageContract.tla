---------------------------- MODULE StageContract ----------------------------
(***************************************************************************)
(* What a stage of a continuation that calls a remote service promises the *)
(* rest of the system, whatever its queue, budgets, limiter and threads do *)
(* inside: the detail fetcher (Details) and the AI extraction (AiRuns)     *)
(* both implement it.  Runs come and go; a run calls for an item at most   *)
(* once at a time and for Width items at once; an item that has its result *)
(* keeps it and is never called for again; only an item that was tried     *)
(* gets one; and an item that stays wanted gets one in the end, unless     *)
(* its last call was lost to a fault or a run hangs that nobody kills.     *)
(***************************************************************************)
EXTENDS Naturals, FiniteSets

CONSTANTS Items,     \* the batch's postings
          Width      \* calls a run may have under way

VARIABLES settled,   \* items with their final result
          tried,     \* items ever attempted
          calling,   \* items whose call is under way
          spent,     \* items with no call left and no result: they get none
          wanted,    \* items that are to be settled
          run        \* "hung" : open, and never to end by itself

vars == <<settled, tried, calling, spent, wanted, run>>

Init ==
  /\ settled = {} /\ tried = {} /\ calling = {}
  /\ spent \subseteq Items
  /\ wanted \subseteq Items
  /\ run = "closed"

\* A fault may make a run hang before its first call.
Begin ==
  /\ run = "closed" /\ run' \in {"open", "hung"}
  /\ UNCHANGED <<settled, tried, calling, spent, wanted>>

Call(i) ==
  /\ run = "open"
  /\ i \notin settled \cup calling \cup spent
  /\ Cardinality(calling) < Width
  /\ calling' = calling \cup {i}
  /\ tried' = tried \cup {i}
  /\ UNCHANGED <<settled, spent, wanted, run>>

\* The service answers, with the result or without it.
Answer(i) ==
  /\ i \in calling
  /\ calling' = calling \ {i}
  /\ settled' \in {settled, settled \cup {i}}
  /\ UNCHANGED <<tried, spent, wanted, run>>

\* Items that were tried long enough are settled without a result.
GiveUp ==
  /\ run = "open"
  /\ \E lost \in SUBSET (tried \ (calling \cup spent)) : settled' = settled \cup lost
  /\ UNCHANGED <<tried, calling, spent, wanted, run>>

\* The attempt fails before its call goes out.
Miss(i) ==
  /\ run = "open"
  /\ i \notin settled \cup calling
  /\ tried' = tried \cup {i}
  /\ UNCHANGED <<settled, calling, spent, wanted, run>>

\* A fault loses the calls under way, which may have been the last of their
\* items, and may end the run; a run also ends by itself.
LosesCalls ==
  /\ calling' = {}
  /\ \E lost \in SUBSET (calling \ settled) : spent' = spent \cup lost
  /\ UNCHANGED <<settled, tried, wanted>>

Lose == run = "open" /\ UNCHANGED run /\ LosesCalls
End  == run # "closed" /\ run' = "closed" /\ LosesCalls

\* The user changes his mind, of items without a result.
Reconsider ==
  /\ wanted' \subseteq Items
  /\ wanted \cap settled = wanted' \cap settled
  /\ UNCHANGED <<settled, tried, calling, spent, run>>

Next ==
  \/ Begin \/ GiveUp \/ Lose \/ End \/ Reconsider
  \/ \E i \in Items : Call(i) \/ Answer(i) \/ Miss(i)

Safety == Init /\ [][Next]_vars

WantedSettle ==
  \A i \in Items :
    <>[](i \in wanted) => <>(i \in settled \cup spent) \/ <>[](run = "hung")

Spec == Safety /\ WantedSettle
=============================================================================
