------------------------- MODULE ReviewInboxProofs --------------------------
(***************************************************************************)
(* Theorems about ReviewInbox, for any postings, rules, windows and        *)
(* sessions.                                                               *)
(***************************************************************************)
EXTENDS ReviewInbox, TLAPS

\* The columns of a stored posting: all an assignment to one of them needs to
\* leave the others alone.
Shaped(row) ==
  row = [class |-> row.class, category |-> row.category, suggested |-> row.suggested,
         by |-> row.by, human |-> row.human, details |-> row.details, gate |-> row.gate,
         ai |-> row.ai, post |-> row.post, postCategory |-> row.postCategory]

SameWork(p, q) == p.details = q.details /\ p.gate = q.gate /\ p.ai = q.ai /\ p.post = q.post

LEMMA HumanSet ==
  ASSUME NEW row, Shaped(row), NEW d
  PROVE  LET q == [row EXCEPT !.human = d]
         IN Shaped(q) /\ q.human = d /\ q.class = row.class /\ SameWork(q, row)
BY DEF Shaped, SameWork

LEMMA DetailsSet ==
  ASSUME NEW row, Shaped(row), NEW d
  PROVE  LET q == [row EXCEPT !.details = d]
         IN /\ Shaped(q) /\ q.details = d /\ q.class = row.class /\ q.human = row.human
            /\ q.gate = row.gate /\ q.ai = row.ai /\ q.post = row.post
BY DEF Shaped

LEMMA GateSet ==
  ASSUME NEW row, Shaped(row), NEW d
  PROVE  LET q == [row EXCEPT !.gate = d]
         IN /\ Shaped(q) /\ q.gate = d /\ q.class = row.class /\ q.human = row.human
            /\ q.details = row.details /\ q.ai = row.ai /\ q.post = row.post
BY DEF Shaped

LEMMA ExtractedSet ==
  ASSUME NEW row, Shaped(row), NEW d
  PROVE  LET q == [row EXCEPT !.ai = d]
         IN /\ Shaped(q) /\ q.ai = d /\ q.class = row.class /\ q.human = row.human
            /\ q.details = row.details /\ q.gate = row.gate /\ q.post = row.post
BY DEF Shaped

LEMMA JudgedSet ==
  ASSUME NEW row, Shaped(row), NEW j, NEW now
  PROVE  LET q == Judged(j, row, now)
         IN /\ Shaped(q) /\ q.class = row.class /\ q.human = row.human
            /\ q.details = row.details /\ q.gate = row.gate /\ q.ai = row.ai
<1> DEFINE v == PostVerdict(row.human, PostRow(Facts[j]), now)
<1>1. Judged(j, row, now) = [row EXCEPT !.post = v.status, !.postCategory = v.category]
  BY Zenon DEF Judged
<1>2. PICK a, b : a = v.status /\ b = v.category
  OBVIOUS
<1>3. PICK z : z = Judged(j, row, now)
  OBVIOUS
<1>4. z = [row EXCEPT !.post = a, !.postCategory = b]
  BY <1>1, <1>2, <1>3, Zenon
<1> DEFINE p == [row EXCEPT !.post = a]
           q == [p EXCEPT !.postCategory = b]
<1>5. z = q
  BY <1>4
<1>6. /\ Shaped(p) /\ p.class = row.class /\ p.human = row.human
      /\ p.details = row.details /\ p.gate = row.gate /\ p.ai = row.ai
  BY DEF Shaped
<1> HIDE DEF p
<1>7. /\ Shaped(q) /\ q.class = p.class /\ q.human = p.human
      /\ q.details = p.details /\ q.gate = p.gate /\ q.ai = p.ai
  BY <1>6 DEF Shaped
<1> QED  BY <1>3, <1>5, <1>6, <1>7, Zenon

Fresh(row) ==
  /\ Shaped(row) /\ row.human = ""
  /\ row.details = "" /\ row.gate = "" /\ row.ai = "" /\ row.post = ""

LEMMA FreshSet ==
  ASSUME NEW row, Fresh(row), NEW d
  PROVE  /\ Fresh([row EXCEPT !.class = d]) /\ [row EXCEPT !.class = d].class = d
         /\ Fresh([row EXCEPT !.category = d]) /\ [row EXCEPT !.category = d].class = row.class
         /\ Fresh([row EXCEPT !.suggested = d]) /\ [row EXCEPT !.suggested = d].class = row.class
         /\ Fresh([row EXCEPT !.by = d]) /\ [row EXCEPT !.by = d].class = row.class
<1>0. Shaped(row)
  BY DEF Fresh
<1>1. Fresh([row EXCEPT !.class = d]) /\ [row EXCEPT !.class = d].class = d
  <2> DEFINE q == [row EXCEPT !.class = d]
  <2>1. Shaped(q)
    BY <1>0 DEF Shaped
  <2>2. q.class = d /\ q.human = row.human /\ SameWork(q, row)
    BY <1>0 DEF Shaped, SameWork
  <2> QED  BY <2>1, <2>2 DEF Fresh, SameWork
<1>2. Fresh([row EXCEPT !.category = d]) /\ [row EXCEPT !.category = d].class = row.class
  <2> DEFINE q == [row EXCEPT !.category = d]
  <2>1. Shaped(q)
    BY <1>0 DEF Shaped
  <2>2. q.class = row.class /\ q.human = row.human /\ SameWork(q, row)
    BY <1>0 DEF Shaped, SameWork
  <2> QED  BY <2>1, <2>2 DEF Fresh, SameWork
<1>3. Fresh([row EXCEPT !.suggested = d]) /\ [row EXCEPT !.suggested = d].class = row.class
  <2> DEFINE q == [row EXCEPT !.suggested = d]
  <2>1. Shaped(q)
    BY <1>0 DEF Shaped
  <2>2. q.class = row.class /\ q.human = row.human /\ SameWork(q, row)
    BY <1>0 DEF Shaped, SameWork
  <2> QED  BY <2>1, <2>2 DEF Fresh, SameWork
<1>4. Fresh([row EXCEPT !.by = d]) /\ [row EXCEPT !.by = d].class = row.class
  <2> DEFINE q == [row EXCEPT !.by = d]
  <2>1. Shaped(q)
    BY <1>0 DEF Shaped
  <2>2. q.class = row.class /\ q.human = row.human /\ SameWork(q, row)
    BY <1>0 DEF Shaped, SameWork
  <2> QED  BY <2>1, <2>2 DEF Fresh, SameWork
<1> QED  BY <1>1, <1>2, <1>3, <1>4

LEMMA NotStoredFresh == Fresh(NotStored) /\ NotStored.class = ""
BY DEF Fresh, Shaped, NotStored

LEMMA NewRowFresh ==
  ASSUME NEW r, NEW j
  PROVE  /\ Fresh(NewRow(r, j))
         /\ NewRow(r, j).class = ClassifyPre(Raw[j], snap[r].rules, snap[r].cats).class
<1> DEFINE c == ClassifyPre(Raw[j], snap[r].rules, snap[r].cats)
<1>1. NewRow(r, j) = [NotStored EXCEPT !.class = c.class, !.category = c.category,
                                       !.suggested = c.suggested, !.by = c.by]
  BY Zenon DEF NewRow
<1>2. PICK v, w, x, y : v = c.class /\ w = c.category /\ x = c.suggested /\ y = c.by
  OBVIOUS
<1>3. PICK z : z = NewRow(r, j)
  OBVIOUS
<1>4. z = [NotStored EXCEPT !.class = v, !.category = w, !.suggested = x, !.by = y]
  BY <1>1, <1>2, <1>3, Zenon
<1> DEFINE n == [NotStored EXCEPT !.class = v]
           o == [n EXCEPT !.category = w]
           p == [o EXCEPT !.suggested = x]
           q == [p EXCEPT !.by = y]
<1>5. z = q
  BY <1>4
<1>6. Fresh(n) /\ n.class = v
  BY FreshSet, NotStoredFresh
<1> HIDE DEF n
<1>7. Fresh(o) /\ o.class = v
  BY <1>6, FreshSet
<1> HIDE DEF o
<1>8. Fresh(p) /\ p.class = v
  BY <1>7, FreshSet
<1> HIDE DEF p
<1>9. Fresh(q) /\ q.class = v
  BY <1>8, FreshSet
<1> QED  BY <1>2, <1>3, <1>5, <1>9, Zenon


-----------------------------------------------------------------------------
(* The invariant.  An exclusion may come while a posting is on the list of  *)
(* the details worker, but only before the fetch is stored, and the gate    *)
(* holds a verdict only for a posting whose decision is settled.  What a    *)
(* window selected in the pending view may be fetched or decided by then,   *)
(* but it stays a posting that needed review.                               *)

Settled(row) == row.human # "" \/ row.class = "AUTO_KEEP"

RowOK(row) ==
  /\ Shaped(row)
  /\ row.human # "" => row.class # ""
  /\ row.details # "" => Settled(row)
  /\ row.gate # "" \/ row.ai # "" \/ row.post # "" => row.details = "FETCHED"
  /\ row.human = "EXCLUDE" => row.gate # "PASS" /\ row.ai = "" /\ row.post = ""

RowsOK == job = [j \in Postings |-> job[j]] /\ \A j \in Postings : RowOK(job[j])

FetchingOK ==
  /\ fetching \subseteq Postings
  /\ \A j \in fetching : job[j].details = "" /\ Settled(job[j]) /\ Exists(j)

GateOK ==
  gate # NoGate =>
    /\ gate.posting \in Postings
    /\ job[gate.posting].details = "FETCHED"
    /\ job[gate.posting].human = "EXCLUDE" => gate.verdict # "PASS"

WorkOK == RowsOK /\ FetchingOK /\ GateOK

Held(v, rows, jobs) ==
  \A row \in rows : \A j \in row :
    jobs[j].class # "" /\ (v = "PENDING" => jobs[j].class = "REVIEW")

GridsOK ==
  /\ view \in Views
  /\ shown \in [Clients -> Grid(Postings)]
  /\ picked \in [Clients -> Grid(Postings)]
  /\ panels \in [PanelViews -> SUBSET (SUBSET Postings)]
  /\ \A c \in Clients : Held(shown[c].view, shown[c].rows, job)
  /\ \A c \in Clients : Held(picked[c].view, picked[c].rows, job)
  /\ \A v \in PanelViews : Held(v, panels[v], job)

IInv == WorkOK /\ GridsOK

\* A posting that is stored keeps its classification.
ClassesStay == \A j \in Postings : job[j].class # "" => job'[j].class = job[j].class

-----------------------------------------------------------------------------
(* What a step does to the postings and the workers.                        *)

LEMMA NothingMoves ==
  ASSUME WorkOK, UNCHANGED <<job, worker>>
  PROVE  WorkOK' /\ ClassesStay
BY DEF WorkOK, RowsOK, FetchingOK, GateOK, ClassesStay, worker, Exists

\* What a step that leaves the workers' lists alone may make of a posting's row.
MayBecome(j, new) ==
  /\ RowOK(new)
  /\ job[j].class # "" => new.class = job[j].class
  /\ j \in fetching => new.details = "" /\ Settled(new) /\ new.class # ""
  /\ gate # NoGate /\ gate.posting = j =>
       new.details = "FETCHED" /\ new.human = job[j].human

LEMMA RowsReplaced ==
  ASSUME WorkOK, UNCHANGED worker, job' = [j \in Postings |-> job'[j]],
         \A j \in Postings : job'[j] = job[j] \/ MayBecome(j, job'[j])
  PROVE  WorkOK' /\ ClassesStay
<1>1. RowsOK'
  BY DEF WorkOK, RowsOK, MayBecome
<1>2. FetchingOK'
  BY DEF WorkOK, FetchingOK, worker, Exists, MayBecome
<1>3. GateOK'
  BY DEF WorkOK, GateOK, worker, MayBecome
<1>4. ClassesStay
  BY DEF ClassesStay, MayBecome
<1> QED  BY <1>1, <1>2, <1>3, <1>4 DEF WorkOK

\* An exclusion, or a keep, of postings that nothing has been fetched for.
LEMMA DecisionMay ==
  ASSUME WorkOK, NEW j \in Postings, NEW d, d # "",
         job[j].class # "", job[j].details = ""
  PROVE  MayBecome(j, [job[j] EXCEPT !.human = d])
<1> DEFINE q == [job[j] EXCEPT !.human = d]
<1>1. RowOK(job[j])
  BY DEF WorkOK, RowsOK
<1>2. Shaped(q) /\ q.human = d /\ q.class = job[j].class /\ SameWork(q, job[j])
  BY <1>1, HumanSet DEF RowOK
<1> HIDE DEF q
<1>3. RowOK(q)
  BY <1>1, <1>2 DEF RowOK, SameWork, Settled
<1>4. ~(gate # NoGate /\ gate.posting = j)
  BY DEF WorkOK, GateOK
<1> QED  BY <1>2, <1>3, <1>4 DEF MayBecome, SameWork, Settled, q

\* A posting that needed review and has no decision was not fetched.
LEMMA Decided ==
  ASSUME WorkOK, UNCHANGED worker, NEW S, NEW d, d # "",
         \A j \in S : job[j].class = "REVIEW",
         job' = WithDecision(S, d, job)
  PROVE  WorkOK' /\ ClassesStay
<1>1. \A j \in Postings : job'[j] = IF j \in S /\ job[j].human = ""
                                    THEN [job[j] EXCEPT !.human = d] ELSE job[j]
  BY DEF WithDecision
<1>2. ASSUME NEW j \in Postings, j \in S, job[j].human = ""
      PROVE  job[j].class # "" /\ job[j].details = ""
  BY <1>2 DEF WorkOK, RowsOK, RowOK, Settled
<1>3. ASSUME NEW j \in Postings
      PROVE  job'[j] = job[j] \/ MayBecome(j, job'[j])
  <2>1. CASE j \in S /\ job[j].human = ""
    <3>1. MayBecome(j, [job[j] EXCEPT !.human = d])
      BY <1>2, <2>1, DecisionMay
    <3> QED  BY <1>1, <2>1, <3>1
  <2>2. CASE ~(j \in S /\ job[j].human = "")
    BY <1>1, <2>2
  <2> QED  BY <2>1, <2>2
<1>4. job' = [j \in Postings |-> job'[j]]
  BY DEF WithDecision
<1> QED  BY <1>3, <1>4, RowsReplaced

\* A decision of the other views, or of the results tab, leaves alone what is
\* settled.
LEMMA Overridden ==
  ASSUME WorkOK, UNCHANGED worker, NEW S, NEW d, d # "",
         \A j \in S : job[j].class # "",
         job' = WithOverride(S, d, job)
  PROVE  WorkOK' /\ ClassesStay
<1>1. \A j \in Postings : job'[j] = IF j \in S /\ ~Locked(job[j])
                                    THEN [job[j] EXCEPT !.human = d] ELSE job[j]
  BY DEF WithOverride
<1>2. ASSUME NEW j \in Postings
      PROVE  job'[j] = job[j] \/ MayBecome(j, job'[j])
  <2>1. CASE j \in S /\ ~Locked(job[j])
    <3>1. MayBecome(j, [job[j] EXCEPT !.human = d])
      BY <2>1, DecisionMay DEF Locked
    <3> QED  BY <1>1, <2>1, <3>1
  <2>2. CASE ~(j \in S /\ ~Locked(job[j]))
    BY <1>1, <2>2
  <2> QED  BY <2>1, <2>2
<1>3. job' = [j \in Postings |-> job'[j]]
  BY DEF WithOverride
<1> QED  BY <1>2, <1>3, RowsReplaced


LEMMA ReapplyMetadataKeeps ==
  ASSUME WorkOK, ReapplyMetadata
  PROVE  WorkOK' /\ ClassesStay
<1> DEFINE now == Loaded(rules, "METADATA_GATE")
           V(j) == GateVerdict(job[j].class, job[j].human, Row(j), now)
<1>1. \A j \in Postings : job'[j] = IF job[j].details = "FETCHED"
                                    THEN [job[j] EXCEPT !.gate = V(j)] ELSE job[j]
  BY Zenon DEF ReapplyMetadata
<1>2. ASSUME NEW j \in Postings
      PROVE  job'[j] = job[j] \/ MayBecome(j, job'[j])
  <2>1. CASE job[j].details = "FETCHED"
    <3>1. PICK v : v = V(j)
      OBVIOUS
    <3>2. job[j].human = "EXCLUDE" => v = "REJECT"
      BY <3>1, Zenon DEF GateVerdict
    <3>3. job'[j] = [job[j] EXCEPT !.gate = v]
      BY <1>1, <2>1, <3>1, Zenon
    <3>4. RowOK(job[j])
      BY DEF WorkOK, RowsOK
    <3>5. /\ Shaped(job'[j]) /\ job'[j].gate = v /\ job'[j].class = job[j].class
          /\ job'[j].human = job[j].human /\ job'[j].details = job[j].details
          /\ job'[j].ai = job[j].ai /\ job'[j].post = job[j].post
      <4> HIDE DEF V
      <4> DEFINE q == [job[j] EXCEPT !.gate = v]
      <4>1. /\ Shaped(q) /\ q.gate = v /\ q.class = job[j].class /\ q.human = job[j].human
            /\ q.details = job[j].details /\ q.ai = job[j].ai /\ q.post = job[j].post
        BY <3>4, GateSet DEF RowOK
      <4> QED  BY <3>3, <4>1, Zenon
    <3>6. j \notin fetching
      BY <2>1 DEF WorkOK, FetchingOK
    <3>7. RowOK(job'[j])
      <4> HIDE DEF V
      <4> QED  BY <2>1, <3>2, <3>4, <3>5 DEF RowOK, Settled
    <3> QED  BY <2>1, <3>5, <3>6, <3>7 DEF MayBecome
  <2>2. CASE job[j].details # "FETCHED"
    BY <1>1, <2>2, Zenon
  <2> QED  BY <2>1, <2>2
<1>3. job' = [j \in Postings |-> job'[j]] /\ UNCHANGED worker
  BY DEF ReapplyMetadata
<1> QED  BY <1>2, <1>3, RowsReplaced

\* What POST_AI judges was extracted, so it is not excluded.
LEMMA JudgedMay ==
  ASSUME WorkOK, NEW j \in Postings, job[j].ai = "EXTRACTED", NEW now, NEW z,
         z = Judged(j, job[j], now)
  PROVE  MayBecome(j, z)
<1>1. RowOK(job[j])
  BY DEF WorkOK, RowsOK
<1>2. /\ Shaped(z) /\ z.class = job[j].class /\ z.human = job[j].human
      /\ z.details = job[j].details /\ z.gate = job[j].gate /\ z.ai = job[j].ai
  <2> DEFINE row == job[j]
             q == Judged(j, row, now)
  <2>1. Shaped(row)
    BY <1>1 DEF RowOK
  <2> HIDE DEF row
  <2>2. /\ Shaped(q) /\ q.class = row.class /\ q.human = row.human
        /\ q.details = row.details /\ q.gate = row.gate /\ q.ai = row.ai
    BY <2>1, JudgedSet, Zenon
  <2> QED  BY <2>2, Zenon DEF row
<1>3. RowOK(z)
  BY <1>1, <1>2 DEF RowOK, Settled
<1>4. job[j].details = "FETCHED" /\ j \notin fetching
  BY <1>1 DEF RowOK, WorkOK, FetchingOK
<1> QED  BY <1>2, <1>3, <1>4 DEF MayBecome

LEMMA ReapplyPostAiKeeps ==
  ASSUME WorkOK, ReapplyPostAi
  PROVE  WorkOK' /\ ClassesStay
<1> DEFINE now == Loaded(rules, "POST_AI")
<1>1. \A j \in Postings : job'[j] = IF job[j].ai = "EXTRACTED"
                                    THEN Judged(j, job[j], now) ELSE job[j]
  BY Zenon DEF ReapplyPostAi
<1>2. ASSUME NEW j \in Postings
      PROVE  job'[j] = job[j] \/ MayBecome(j, job'[j])
  <2> HIDE DEF now
  <2>1. CASE job[j].ai = "EXTRACTED"
    BY <1>1, <2>1, JudgedMay
  <2>2. CASE job[j].ai # "EXTRACTED"
    BY <1>1, <2>2
  <2> QED  BY <2>1, <2>2
<1>3. job' = [j \in Postings |-> job'[j]] /\ UNCHANGED worker
  BY DEF ReapplyPostAi
<1> QED  BY <1>2, <1>3, RowsReplaced

LEMMA RunPostAiKeeps ==
  ASSUME WorkOK, NEW i \in Postings, RunPostAi(i)
  PROVE  WorkOK' /\ ClassesStay
<1> DEFINE now == Loaded(rules, "POST_AI")
<1>1. PICK z : z = Judged(i, job[i], now)
  OBVIOUS
<1>2. job' = [job EXCEPT ![i] = z] /\ UNCHANGED worker /\ job[i].ai = "EXTRACTED"
  BY <1>1, Zenon DEF RunPostAi
<1>3. MayBecome(i, z)
  <2> HIDE DEF now
  <2> QED  BY <1>1, <1>2, JudgedMay
<1>4. job' = [j \in Postings |-> job'[j]]
  BY <1>2 DEF WorkOK, RowsOK
<1>5. \A j \in Postings : job'[j] = job[j] \/ MayBecome(j, job'[j])
  BY <1>2, <1>3 DEF WorkOK, RowsOK
<1> QED  BY <1>2, <1>4, <1>5, RowsReplaced

LEMMA ExtractKeeps ==
  ASSUME WorkOK, NEW i \in Postings, Extract(i)
  PROVE  WorkOK' /\ ClassesStay
<1> DEFINE z == [job[i] EXCEPT !.ai = "EXTRACTED"]
<1>1. RowOK(job[i])
  BY DEF WorkOK, RowsOK
<1>2. /\ Shaped(z) /\ z.ai = "EXTRACTED" /\ z.class = job[i].class
      /\ z.human = job[i].human /\ z.details = job[i].details /\ z.gate = job[i].gate
      /\ z.post = job[i].post
  BY <1>1, ExtractedSet DEF RowOK
<1>3. job' = [job EXCEPT ![i] = z] /\ UNCHANGED worker
  BY DEF Extract
<1> HIDE DEF z
<1>4. /\ job[i].details = "FETCHED" /\ job[i].human # "EXCLUDE"
      /\ i \notin fetching
  BY DEF Extract, Approved, WorkOK, FetchingOK
<1>5. RowOK(z)
  BY <1>1, <1>2, <1>4 DEF RowOK, Settled
<1>6. MayBecome(i, z)
  BY <1>2, <1>4, <1>5 DEF MayBecome
<1>7. job' = [j \in Postings |-> job'[j]]
  BY <1>3 DEF WorkOK, RowsOK
<1>8. \A j \in Postings : job'[j] = job[j] \/ MayBecome(j, job'[j])
  BY <1>3, <1>6 DEF WorkOK, RowsOK
<1> QED  BY <1>3, <1>7, <1>8, RowsReplaced

\* What a search adds had no decision, no fetch and no verdict under way.
LEMMA StoreRunKeeps ==
  ASSUME WorkOK, NEW r \in Runs, StoreRun(r)
  PROVE  WorkOK' /\ ClassesStay
<1>1. PICK found : job' = [j \in Postings |-> IF j \in found /\ ~Exists(j)
                                              THEN NewRow(r, j) ELSE job[j]]
  BY Zenon DEF StoreRun
<1>2. ASSUME NEW j \in Postings
      PROVE  job'[j] = job[j] \/ MayBecome(j, job'[j])
  <2>1. CASE j \in found /\ ~Exists(j)
    <3>1. PICK z : z = NewRow(r, j)
      OBVIOUS
    <3>2. job'[j] = z
      BY <1>1, <2>1, <3>1, Zenon
    <3>3. Fresh(z)
      BY <3>1, NewRowFresh
    <3>4. job[j].class = "" /\ RowOK(job[j])
      BY <2>1 DEF Exists, WorkOK, RowsOK
    <3>5. job[j].details = "" /\ j \notin fetching
      BY <3>4 DEF RowOK, Settled, WorkOK, FetchingOK, Exists
    <3>6. ~(gate # NoGate /\ gate.posting = j)
      BY <3>5 DEF WorkOK, GateOK
    <3>7. RowOK(z)
      BY <3>3 DEF Fresh, RowOK
    <3> QED  BY <3>2, <3>4, <3>5, <3>6, <3>7 DEF MayBecome
  <2>2. CASE ~(j \in found /\ ~Exists(j))
    BY <1>1, <2>2, Zenon
  <2> QED  BY <2>1, <2>2
<1>3. job' = [j \in Postings |-> job'[j]]
  <2>1. \A j \in Postings : job'[j] = IF j \in found /\ ~Exists(j) THEN NewRow(r, j) ELSE job[j]
    BY <1>1, Zenon
  <2> QED  BY <1>1, <2>1, Zenon
<1>4. UNCHANGED worker
  BY Zenon DEF StoreRun
<1> QED  BY <1>2, <1>3, <1>4, RowsReplaced

LEMMA LoadForDetailsKeeps ==
  ASSUME WorkOK, LoadForDetails
  PROVE  WorkOK' /\ ClassesStay
<1>1. fetching' = {j \in Postings : Approved(job[j]) /\ job[j].details = ""}
      /\ UNCHANGED <<job, gate>>
  BY DEF LoadForDetails
<1>2. \A j \in fetching' : j \in Postings /\ job[j].details = "" /\ Settled(job[j]) /\ Exists(j)
  BY <1>1 DEF Approved, Settled, Exists, WorkOK, RowsOK, RowOK
<1>3. FetchingOK'
  BY <1>1, <1>2 DEF FetchingOK, Exists
<1> QED  BY <1>1, <1>3 DEF WorkOK, RowsOK, GateOK, ClassesStay

LEMMA FetchDetailsKeeps ==
  ASSUME WorkOK, NEW i \in Postings, FetchDetails(i)
  PROVE  WorkOK' /\ ClassesStay
<1>1. PICK d \in {"", "FETCHED", "UNAVAILABLE"} : job' = [job EXCEPT ![i].details = d]
  BY DEF FetchDetails
<1> DEFINE z == [job[i] EXCEPT !.details = d]
<1>2. RowOK(job[i])
  BY DEF WorkOK, RowsOK
<1>3. /\ Shaped(z) /\ z.details = d /\ z.class = job[i].class /\ z.human = job[i].human
      /\ z.gate = job[i].gate /\ z.ai = job[i].ai /\ z.post = job[i].post
  BY <1>2, DetailsSet DEF RowOK
<1>4. job' = [job EXCEPT ![i] = z]
  BY <1>1
<1> HIDE DEF z
<1>5. job[i].details = "" /\ Settled(job[i]) /\ i \in fetching
      /\ fetching' = fetching \ {i} /\ gate' = gate
  BY DEF FetchDetails, WorkOK, FetchingOK
<1>6. RowOK(z)
  BY <1>2, <1>3, <1>5 DEF RowOK, Settled
<1>7. job' = [j \in Postings |-> job'[j]] /\ job'[i] = z
      /\ \A j \in Postings \ {i} : job'[j] = job[j]
  BY <1>4 DEF WorkOK, RowsOK
<1>8. RowsOK'
  BY <1>6, <1>7 DEF RowsOK, WorkOK
<1>9. FetchingOK'
  BY <1>5, <1>7 DEF FetchingOK, WorkOK, Exists
<1>10. GateOK'
  BY <1>5, <1>7 DEF GateOK, WorkOK
<1>11. ClassesStay
  BY <1>3, <1>7 DEF ClassesStay
<1> QED  BY <1>8, <1>9, <1>10, <1>11 DEF WorkOK

LEMMA LoadForGateKeeps ==
  ASSUME WorkOK, NEW i \in Postings, LoadForGate(i)
  PROVE  WorkOK' /\ ClassesStay
<1>1. PICK v : v = GateVerdict(job[i].class, job[i].human, Row(i),
                               Loaded(rules, "METADATA_GATE"))
  OBVIOUS
<1>2. job[i].human = "EXCLUDE" => v = "REJECT"
  BY <1>1, Zenon DEF GateVerdict
<1>3. gate' = [posting |-> i, verdict |-> v] /\ job[i].details = "FETCHED"
      /\ job' = job /\ fetching' = fetching
  BY <1>1, Zenon DEF LoadForGate
<1>4. GateOK'
  BY <1>2, <1>3 DEF GateOK
<1> QED  BY <1>3, <1>4 DEF WorkOK, RowsOK, FetchingOK, Exists, ClassesStay

LEMMA PersistGateKeeps ==
  ASSUME WorkOK, PersistGate
  PROVE  WorkOK' /\ ClassesStay
<1> DEFINE i == gate.posting
           z == [job[i] EXCEPT !.gate = gate.verdict]
<1>1. i \in Postings /\ job[i].details = "FETCHED" /\ fetching' = fetching
      /\ (job[i].human = "EXCLUDE" => gate.verdict # "PASS")
      /\ job' = [job EXCEPT ![i] = z] /\ gate' = NoGate
  BY DEF PersistGate, WorkOK, GateOK
<1>2. RowOK(job[i])
  BY <1>1 DEF WorkOK, RowsOK
<1>3. /\ Shaped(z) /\ z.gate = gate.verdict /\ z.class = job[i].class
      /\ z.human = job[i].human /\ z.details = job[i].details /\ z.ai = job[i].ai
      /\ z.post = job[i].post
  BY <1>2, GateSet DEF RowOK
<1> HIDE DEF z
<1>4. RowOK(z)
  BY <1>1, <1>2, <1>3 DEF RowOK, Settled
<1>5. job' = [j \in Postings |-> job'[j]] /\ job'[i] = z
      /\ \A j \in Postings \ {i} : job'[j] = job[j]
  BY <1>1 DEF WorkOK, RowsOK
<1>6. RowsOK'
  BY <1>4, <1>5 DEF RowsOK, WorkOK
<1>7. FetchingOK'
  BY <1>1, <1>5 DEF FetchingOK, WorkOK, Exists
<1>8. GateOK'
  BY <1>1 DEF GateOK
<1>9. ClassesStay
  BY <1>3, <1>5 DEF ClassesStay
<1> QED  BY <1>6, <1>7, <1>8, <1>9 DEF WorkOK


-----------------------------------------------------------------------------
(* What the grids hold.                                                     *)

LEMMA InViewHeld ==
  ASSUME NEW v \in Views \cup PanelViews, NEW row, row.human # "" => row.class # "",
         NEW table, InView(v, row, table)
  PROVE  row.class # "" /\ (v = "PENDING" => row.class = "REVIEW")
<1>1. v \in {"PENDING", "FORWARD", "EXCLUDED", "AUTO_KEPT", "LEARNED_EXCLUSIONS",
             "AUTO_REJECTED", "HUMAN_REVIEWED", "ALL"}
  BY DEF Views, PanelViews
<1>2. CASE v = "PENDING"
  BY <1>2 DEF InView, Pending
<1>3. CASE v = "FORWARD"
  BY <1>3 DEF InView, Approved
<1>4. CASE v = "EXCLUDED"
  BY <1>4 DEF InView
<1>5. CASE v = "AUTO_KEPT"
  BY <1>5 DEF InView
<1>6. CASE v = "LEARNED_EXCLUSIONS"
  BY <1>6, Zenon DEF InView, LearnedBy
<1>7. CASE v = "AUTO_REJECTED"
  BY <1>7 DEF InView
<1>8. CASE v = "HUMAN_REVIEWED"
  BY <1>8 DEF InView
<1>9. CASE v = "ALL"
  BY <1>9 DEF InView
<1> QED  BY <1>1, <1>2, <1>3, <1>4, <1>5, <1>6, <1>7, <1>8, <1>9

LEMMA ListedHeld ==
  ASSUME NEW v \in Views \cup PanelViews, NEW jobs,
         \A j \in Postings : jobs[j].human # "" => jobs[j].class # "",
         NEW scope, NEW status, NEW found, NEW table
  PROVE  /\ Rows(Lists(v, scope, jobs, status, found, table)) \subseteq SUBSET Postings
         /\ Held(v, Rows(Lists(v, scope, jobs, status, found, table)), jobs)
<1> DEFINE L == Lists(v, scope, jobs, status, found, table)
<1>1. \A j \in L : j \in Postings /\ InView(v, jobs[j], table)
  BY Zenon DEF Lists
<1>2. \A j \in L : j \in Postings /\ jobs[j].class # ""
                   /\ (v = "PENDING" => jobs[j].class = "REVIEW")
  BY <1>1, InViewHeld
<1> HIDE DEF L
<1>3. \A row \in Rows(L) : row \subseteq L
  BY DEF Rows
<1>4. Rows(L) \subseteq SUBSET Postings /\ Held(v, Rows(L), jobs)
  BY <1>2, <1>3 DEF Held
<1> QED  BY <1>4 DEF L

\* A page of the filtered rows is one of their subsets.
LEMMA PageHeld ==
  ASSUME NEW v \in Views \cup PanelViews, NEW jobs,
         \A j \in Postings : jobs[j].human # "" => jobs[j].class # "",
         NEW scope, NEW f, NEW status, NEW found, NEW table, NEW p, NEW n
  PROVE  LET rows == OnPage(v, Matching(v, scope, f, jobs, status, found, table), p, n, jobs)
         IN rows \in SUBSET (SUBSET Postings) /\ Held(v, rows, jobs)
<1> DEFINE R == Rows(Lists(v, scope, jobs, status, found, table))
           M == Matching(v, scope, f, jobs, status, found, table)
           O == OnPage(v, M, p, n, jobs)
<1>1. R \subseteq SUBSET Postings /\ Held(v, R, jobs)
  BY ListedHeld
<1>2. M \subseteq R
  BY Zenon DEF Matching
<1> HIDE DEF M
<1>3. O \subseteq M
  BY Zenon DEF OnPage
<1> HIDE DEF R, O
<1>4. O \in SUBSET (SUBSET Postings) /\ Held(v, O, jobs)
  BY <1>1, <1>2, <1>3 DEF Held
<1> QED  BY <1>4 DEF M, O

LEMMA HeldStays ==
  ASSUME NEW v, NEW rows \in SUBSET (SUBSET Postings), Held(v, rows, job), ClassesStay
  PROVE  Held(v, rows, job')
BY DEF Held, ClassesStay

LEMMA GridsStay ==
  ASSUME GridsOK, ClassesStay, UNCHANGED <<view, shown, picked, panels>>
  PROVE  GridsOK'
<1>1. \A c \in Clients : shown[c].rows \in SUBSET (SUBSET Postings)
                         /\ picked[c].rows \in SUBSET (SUBSET Postings)
  BY DEF GridsOK, Grid
<1>2. \A c \in Clients : Held(shown[c].view, shown[c].rows, job')
                         /\ Held(picked[c].view, picked[c].rows, job')
  BY <1>1, HeldStays DEF GridsOK
<1>3. \A v \in PanelViews : Held(v, panels[v], job')
  BY HeldStays DEF GridsOK
<1> QED  BY <1>2, <1>3 DEF GridsOK, Held


ShownOK ==
  /\ view \in Views
  /\ shown \in [Clients -> Grid(Postings)]
  /\ \A c \in Clients : Held(shown[c].view, shown[c].rows, job)

LEMMA RefreshShows ==
  ASSUME WorkOK', NEW v \in Views, NEW scopes, NEW n, NEW p, NEW f,
         Refresh(v, scopes, n, p, f)
  PROVE  ShownOK'
<1>1. \A j \in Postings : job'[j].human # "" => job'[j].class # ""
  BY DEF WorkOK, RowsOK, RowOK
<1>2. PICK s, q :
        /\ view' = v
        /\ shown' = [c \in Clients |->
             [view |-> v,
              rows |-> OnPage(v, Matching(v, s, f, job', run', hits', rules'), q, n, job')]]
  BY Zenon DEF Refresh
<1>3. PICK rows : rows = OnPage(v, Matching(v, s, f, job', run', hits', rules'), q, n, job')
  OBVIOUS
<1>4. rows \in SUBSET (SUBSET Postings) /\ Held(v, rows, job')
  BY <1>1, <1>3, PageHeld, Zenon
<1>5. view' = v /\ shown' = [c \in Clients |-> [view |-> v, rows |-> rows]]
  BY <1>2, <1>3, Zenon
<1> QED  BY <1>4, <1>5 DEF ShownOK, Grid

\* The other grids, when the windows were given new rows.
LEMMA AfterRefresh ==
  ASSUME GridsOK, ClassesStay, ShownOK', UNCHANGED panels,
         \/ UNCHANGED picked
         \/ \E c \in Clients : Drop(c)
  PROVE  GridsOK'
<1>1. /\ picked' \in [Clients -> Grid(Postings)]
      /\ \A c \in Clients : Held(picked'[c].view, picked'[c].rows, job')
  <2>1. \A c \in Clients : Held(picked[c].view, picked[c].rows, job')
    BY HeldStays DEF GridsOK, Grid
  <2>2. CASE UNCHANGED picked
    BY <2>1, <2>2 DEF GridsOK
  <2>3. ASSUME NEW c \in Clients, Drop(c)
        PROVE  /\ picked' \in [Clients -> Grid(Postings)]
               /\ \A b \in Clients : Held(picked'[b].view, picked'[b].rows, job')
    <3>1. PICK g : g = [picked[c] EXCEPT !.rows = NoRows]
      OBVIOUS
    <3>2. picked[c] \in Grid(Postings)
      BY DEF GridsOK
    <3>3. g \in Grid(Postings) /\ g.rows = {}
      BY <3>1, <3>2 DEF Grid, NoRows
    <3>4. picked' = [picked EXCEPT ![c] = g]
      BY <2>3, <3>1, Zenon DEF Drop
    <3>5. Held(g.view, g.rows, job')
      BY <3>3 DEF Held
    <3> QED  BY <2>1, <3>3, <3>4, <3>5 DEF GridsOK
  <2> QED  BY <2>2, <2>3
<1>2. \A v \in PanelViews : Held(v, panels[v], job')
  BY HeldStays DEF GridsOK
<1> QED  BY <1>1, <1>2 DEF GridsOK, ShownOK

LEMMA MoveKeeps ==
  ASSUME IInv, Browse \/ Paging
  PROVE  IInv'
<1>1. UNCHANGED <<job, worker, picked, panels>>
  BY Zenon DEF Browse, Paging, ScopeChanged, ViewChanged, PreviousPage, NextPage,
               PageSizeChanged, FilterChanged, bookVars
<1>2. WorkOK' /\ ClassesStay
  BY <1>1, NothingMoves DEF IInv
<1>3. \E v \in Views : \E scopes, n, p, f : Refresh(v, scopes, n, p, f)
  <2>1. view \in Views
    BY DEF IInv, GridsOK
  <2> QED  BY <2>1, Zenon DEF Browse, Paging, ScopeChanged, ViewChanged, PreviousPage,
                              NextPage, PageSizeChanged, FilterChanged
<1>4. ShownOK'
  BY <1>2, <1>3, RefreshShows
<1> QED  BY <1>1, <1>2, <1>4, AfterRefresh DEF IInv

LEMMA OpenKeeps ==
  ASSUME IInv, NEW c \in Clients, Open(c)
  PROVE  IInv'
<1>1. UNCHANGED <<job, worker, picked, panels, view>>
  BY Zenon DEF Open, bookVars
<1>2. WorkOK' /\ ClassesStay
  BY <1>1, NothingMoves DEF IInv
<1>3. PICK q : shown' = [shown EXCEPT ![c] =
                 [view |-> view,
                  rows |-> OnPage(view, Matching(view, scopeOf[view], filter, job, run,
                                                 hits, rules), q, size, job)]]
  BY Zenon DEF Open
<1>4. PICK rows : rows = OnPage(view, Matching(view, scopeOf[view], filter, job, run,
                                               hits, rules), q, size, job)
  OBVIOUS
<1>5. view \in Views /\ \A j \in Postings : job[j].human # "" => job[j].class # ""
  BY DEF IInv, GridsOK, WorkOK, RowsOK, RowOK
<1>6. rows \in SUBSET (SUBSET Postings) /\ Held(view, rows, job)
  BY <1>4, <1>5, PageHeld, Zenon
<1>7. shown' = [shown EXCEPT ![c] = [view |-> view, rows |-> rows]]
  BY <1>3, <1>4, Zenon
<1>8. ShownOK'
  BY <1>1, <1>5, <1>6, <1>7 DEF IInv, GridsOK, ShownOK, Grid
<1> QED  BY <1>1, <1>2, <1>8, AfterRefresh DEF IInv

LEMMA PickKeeps ==
  ASSUME IInv, NEW c \in Clients, Pick(c)
  PROVE  IInv'
<1>1. UNCHANGED <<job, worker, shown, panels, view>>
  BY Zenon DEF Pick, bookVars, controls
<1>2. WorkOK' /\ ClassesStay
  BY <1>1, NothingMoves DEF IInv
<1>3. PICK rows \in SUBSET shown[c].rows :
        picked' = [picked EXCEPT ![c] = [view |-> shown[c].view, rows |-> rows]]
  BY DEF Pick
<1>4. shown[c] \in Grid(Postings) /\ Held(shown[c].view, shown[c].rows, job)
  BY DEF IInv, GridsOK
<1>5. rows \in SUBSET (SUBSET Postings) /\ Held(shown[c].view, rows, job)
  BY <1>3, <1>4 DEF Grid, Held
<1>6. /\ picked' \in [Clients -> Grid(Postings)]
      /\ \A b \in Clients : Held(picked'[b].view, picked'[b].rows, job)
  BY <1>3, <1>4, <1>5 DEF IInv, GridsOK, Grid
<1> QED  BY <1>1, <1>2, <1>6 DEF IInv, GridsOK


\* What a handler took in the pending view needed review, whatever happened to
\* it since.
LEMMA PickedHeld ==
  ASSUME IInv, NEW c \in Clients, NEW j \in UNION picked[c].rows
  PROVE  job[j].class # "" /\ (picked[c].view = "PENDING" => job[j].class = "REVIEW")
BY DEF IInv, GridsOK, Held

LEMMA RefreshedAll ==
  ASSUME IInv, WorkOK', ClassesStay, RefreshAll, UNCHANGED panels,
         UNCHANGED picked \/ \E c \in Clients : Drop(c)
  PROVE  IInv'
<1>1. ShownOK'
  BY RefreshShows DEF RefreshAll, IInv, GridsOK
<1> QED  BY <1>1, AfterRefresh DEF IInv

LEMMA DecideKeeps ==
  ASSUME IInv, NEW c \in Clients, Decide(c)
  PROVE  IInv'
<1>1. PICK d \in {"KEEP", "EXCLUDE"} : job' = WithDecision(UNION picked[c].rows, d, job)
  BY Zenon DEF Decide
<1>2. picked[c].view = "PENDING" /\ UNCHANGED worker
      /\ RefreshAll /\ Drop(c) /\ UNCHANGED panels
  BY Zenon DEF Decide
<1>3. WorkOK' /\ ClassesStay
  BY <1>1, <1>2, PickedHeld, Decided DEF IInv
<1> QED  BY <1>2, <1>3, RefreshedAll

LEMMA OverrideKeeps ==
  ASSUME IInv, NEW c \in Clients, Override(c)
  PROVE  IInv'
<1>1. PICK d \in {"KEEP", "EXCLUDE"} : job' = WithOverride(UNION picked[c].rows, d, job)
  BY Zenon DEF Override
<1>2. UNCHANGED worker /\ RefreshAll /\ Drop(c) /\ UNCHANGED panels
  BY Zenon DEF Override
<1>3. WorkOK' /\ ClassesStay
  BY <1>1, <1>2, PickedHeld, Overridden DEF IInv
<1> QED  BY <1>2, <1>3, RefreshedAll

LEMMA TeachKeeps ==
  ASSUME IInv, NEW c \in Clients, NEW mode \in RuleModes, Teach(c, mode)
  PROVE  IInv'
<1>1. Drop(c) /\ UNCHANGED panels /\ picked[c].view = "PENDING"
  BY Zenon DEF Teach
<1>2. CASE \A row \in picked[c].rows : IsKnown(ValueOf(row, mode[1]))
  <2>1. job' = WithDecision(UNION picked[c].rows, "EXCLUDE", job) /\ UNCHANGED worker
        /\ RefreshAll
    BY <1>2, Zenon DEF Teach
  <2>2. WorkOK' /\ ClassesStay
    BY <1>1, <2>1, PickedHeld, Decided DEF IInv
  <2> QED  BY <1>1, <2>1, <2>2, RefreshedAll
<1>3. CASE ~\A row \in picked[c].rows : IsKnown(ValueOf(row, mode[1]))
  <2>1. UNCHANGED <<job, worker, view, shown>>
    BY <1>3, Zenon DEF Teach, bookVars, controls
  <2>2. WorkOK' /\ ClassesStay
    BY <2>1, NothingMoves DEF IInv
  <2>3. ShownOK'
    BY <2>1 DEF ShownOK, IInv, GridsOK
  <2> QED  BY <1>1, <2>2, <2>3, AfterRefresh DEF IInv
<1> QED  BY <1>2, <1>3

LEMMA OpenPanelsKeeps ==
  ASSUME IInv, OpenPanels
  PROVE  IInv'
<1>1. UNCHANGED <<job, worker, shown, picked, view>>
  BY Zenon DEF OpenPanels, bookVars, controls
<1>2. WorkOK' /\ ClassesStay
  BY <1>1, NothingMoves DEF IInv
<1>3. panels' = [v \in PanelViews |-> PanelRows(v, job)]
  BY DEF OpenPanels
<1>4. \A j \in Postings : job[j].human # "" => job[j].class # ""
  BY DEF IInv, WorkOK, RowsOK, RowOK
<1>5. ASSUME NEW v \in PanelViews
      PROVE  PanelRows(v, job) \in SUBSET (SUBSET Postings) /\ Held(v, PanelRows(v, job), job)
  BY <1>4, ListedHeld, Zenon DEF PanelRows
<1>6. /\ panels' \in [PanelViews -> SUBSET (SUBSET Postings)]
      /\ \A v \in PanelViews : Held(v, panels'[v], job)
  BY <1>3, <1>5
<1> QED  BY <1>1, <1>2, <1>6 DEF IInv, GridsOK

LEMMA PanelDecisionKeeps ==
  ASSUME IInv, NEW v \in PanelViews, PanelDecision(v)
  PROVE  IInv'
<1>1. PICK S \in SUBSET panels[v], d \in {"KEEP", "EXCLUDE"} :
        job' = WithOverride(UNION S, d, job)
  BY Zenon DEF PanelDecision
<1>2. UNCHANGED <<worker, picked>> /\ RefreshAll
      /\ panels' = [panels EXCEPT ![v] = PanelRows(v, job')]
  BY Zenon DEF PanelDecision
<1>3. \A j \in UNION S : job[j].class # ""
  BY DEF IInv, GridsOK, Held
<1>4. WorkOK' /\ ClassesStay
  BY <1>1, <1>2, <1>3, Overridden DEF IInv
<1>5. ShownOK'
  BY <1>2, <1>4, RefreshShows DEF RefreshAll, IInv, GridsOK
<1>6. \A j \in Postings : job'[j].human # "" => job'[j].class # ""
  BY <1>4 DEF WorkOK, RowsOK, RowOK
<1>7. PanelRows(v, job') \in SUBSET (SUBSET Postings) /\ Held(v, PanelRows(v, job'), job')
  BY <1>6, ListedHeld, Zenon DEF PanelRows
<1>8. /\ panels' \in [PanelViews -> SUBSET (SUBSET Postings)]
      /\ \A w \in PanelViews : Held(w, panels'[w], job')
  <2>1. \A w \in PanelViews : Held(w, panels[w], job')
    BY <1>4, HeldStays DEF IInv, GridsOK
  <2> QED  BY <1>2, <1>7, <2>1 DEF IInv, GridsOK
<1>9. \A c \in Clients : Held(picked[c].view, picked[c].rows, job')
  BY <1>4, HeldStays DEF IInv, GridsOK, Grid
<1> QED  BY <1>2, <1>4, <1>5, <1>8, <1>9 DEF IInv, GridsOK, ShownOK

-----------------------------------------------------------------------------
LEMMA BookKeeps ==
  ASSUME IInv, WorkOK' /\ ClassesStay, UNCHANGED inboxVars
  PROVE  IInv'
<1>1. UNCHANGED <<view, shown, picked, panels>>
  BY DEF inboxVars, controls
<1> QED  BY <1>1, GridsStay DEF IInv

LEMMA BookSteps ==
  ASSUME IInv,
         \/ \E r \in Runs : StartRun(r) \/ StoreRun(r) \/ FinishRun(r) \/ FailRun(r)
         \/ RulesPage \/ Settings \/ Fetching \/ Gating \/ Extracting
  PROVE  WorkOK' /\ ClassesStay
<1> USE DEF IInv
<1>1. ASSUME NEW r \in Runs, StartRun(r) \/ FinishRun(r) \/ FailRun(r)
      PROVE  WorkOK' /\ ClassesStay
  <2>1. UNCHANGED <<job, worker>>
    BY <1>1, Zenon DEF StartRun, FinishRun, FailRun
  <2> QED  BY <2>1, NothingMoves
<1>2. ASSUME NEW r \in Runs, StoreRun(r)
      PROVE  WorkOK' /\ ClassesStay
  BY <1>2, StoreRunKeeps
<1>3. CASE RulesPage
  <2>1. UNCHANGED <<job, worker>>
    BY <1>3, Zenon DEF RulesPage, AddRule, EnableRules
  <2> QED  BY <2>1, NothingMoves
<1>4. CASE Settings
  <2>1. CASE SaveCategory \/ \E on \in BOOLEAN, S \in SUBSET DOMAIN cats : EnableCategories(S, on)
    <3>1. UNCHANGED <<job, worker>>
      BY <2>1, Zenon DEF SaveCategory, EnableCategories
    <3> QED  BY <3>1, NothingMoves
  <2> QED  BY <1>4, <2>1, ReapplyMetadataKeeps, ReapplyPostAiKeeps DEF Settings
<1>5. CASE Fetching
  BY <1>5, LoadForDetailsKeeps, FetchDetailsKeeps DEF Fetching
<1>6. CASE Gating
  BY <1>6, LoadForGateKeeps, PersistGateKeeps DEF Gating
<1>7. CASE Extracting
  BY <1>7, ExtractKeeps, RunPostAiKeeps DEF Extracting
<1> QED  BY <1>1, <1>2, <1>3, <1>4, <1>5, <1>6, <1>7

LEMMA IInvInit == Init => IInv
<1> SUFFICES ASSUME Init PROVE IInv
  OBVIOUS
<1>1. job = [j \in Postings |-> NotStored] /\ fetching = {} /\ gate = NoGate
  BY DEF Init, BookInit
<1>2. RowOK(NotStored)
  BY NotStoredFresh DEF Fresh, RowOK
<1>3. WorkOK
  BY <1>1, <1>2 DEF WorkOK, RowsOK, FetchingOK, GateOK
<1>4. GridsOK
  BY DEF Init, InboxInit, GridsOK, Grid, NoRows, Held, Views
<1> QED  BY <1>3, <1>4 DEF IInv

LEMMA IInvStep == IInv /\ [Next]_vars => IInv'
<1> SUFFICES ASSUME IInv, [Next]_vars PROVE IInv'
  OBVIOUS
<1>1. CASE UNCHANGED vars
  <2>1. UNCHANGED <<job, worker>> /\ UNCHANGED inboxVars
    BY <1>1 DEF vars, bookVars
  <2> QED  BY <2>1, NothingMoves, BookKeeps DEF IInv
<1>2. CASE Next
  <2>1. CASE Inbox \/ Deciding \/ Teaching
    BY <2>1, OpenKeeps, PickKeeps, DecideKeeps, OverrideKeeps, TeachKeeps
       DEF Inbox, Deciding, Teaching
  <2>2. CASE Browse \/ Paging
    BY <2>2, MoveKeeps
  <2>3. CASE Panels
    BY <2>3, OpenPanelsKeeps, PanelDecisionKeeps DEF Panels
  <2>4. CASE /\ \/ Search({1}) \/ Search(Runs \ {1}) \/ \E r \in Runs : FailRun(r)
                \/ RulesPage \/ Settings \/ Fetching \/ Gating \/ Extracting
             /\ UNCHANGED inboxVars
    <3>1. 1 \in Runs
      BY InboxAssumption, RuleBookAssumption DEF Runs
    <3>2. \/ \E r \in Runs : StartRun(r) \/ StoreRun(r) \/ FinishRun(r) \/ FailRun(r)
          \/ RulesPage \/ Settings \/ Fetching \/ Gating \/ Extracting
      BY <2>4, <3>1, Zenon DEF Search
    <3> QED  BY <2>4, <3>2, BookSteps, BookKeeps
  <2> QED  BY <1>2, <2>1, <2>2, <2>3, <2>4 DEF Next
<1> QED  BY <1>1, <1>2

LEMMA Invariant == Spec => []IInv
BY IInvInit, IInvStep, PTL DEF Spec

\* No window, however old its rows, and no order of decision, fetch and verdict
\* lets an excluded posting pass the gate or be extracted or proposed.
THEOREM ExclusionHolds == Spec => []ExclusionStops
<1>1. IInv => ExclusionStops
  BY DEF IInv, WorkOK, RowsOK, RowOK, ExclusionStops
<1> QED  BY <1>1, Invariant, PTL


-----------------------------------------------------------------------------
(* The action properties.                                                   *)

KeepsDecisions == \A j \in Postings : job[j].human # "" => job'[j].human = job[j].human

LEMMA WithDecisionKeeps ==
  ASSUME NEW S, NEW d, job' = WithDecision(S, d, job)
  PROVE  KeepsDecisions
BY DEF WithDecision, KeepsDecisions

\* Only the handler that took the rows lets them go.
LEMMA OnlyItsOwn ==
  ASSUME IInv, NEW b \in Clients, NEW c \in Clients, Drop(b),
         picked[c].rows # NoRows, picked'[c].rows = NoRows
  PROVE  b = c
BY DEF Drop, IInv, GridsOK

LEMMA PendingStep ==
  ASSUME IInv, Next, NEW c \in Clients,
         picked[c].view = "PENDING", picked[c].rows # NoRows, picked'[c].rows = NoRows
  PROVE  KeepsDecisions
<1>1. ASSUME NEW b \in Clients, Open(b) PROVE FALSE
  BY <1>1, Zenon DEF Open
<1>2. ASSUME NEW b \in Clients, Pick(b) PROVE FALSE
  <2>1. PICK rows \in (SUBSET shown[b].rows) \ {NoRows} :
          picked' = [picked EXCEPT ![b] = [view |-> shown[b].view, rows |-> rows]]
    BY <1>2 DEF Pick
  <2>2. picked \in [Clients -> Grid(Postings)]
    BY DEF IInv, GridsOK
  <2>3. CASE b = c
    <3>1. picked'[c] = [view |-> shown[b].view, rows |-> rows]
      BY <2>1, <2>2, <2>3
    <3>2. picked'[c].rows = rows
      BY <3>1
    <3>3. rows # NoRows
      OBVIOUS
    <3> QED  BY <3>2, <3>3
  <2>4. CASE b # c
    <3>1. picked'[c] = picked[c]
      BY <2>1, <2>2, <2>4
    <3> QED  BY <3>1
  <2> QED  BY <2>3, <2>4
<1>3. ASSUME NEW b \in Clients, Decide(b) PROVE KeepsDecisions
  <2>1. PICK d : job' = WithDecision(UNION picked[b].rows, d, job)
    BY <1>3, Zenon DEF Decide
  <2> QED  BY <2>1, WithDecisionKeeps
<1>4. ASSUME NEW b \in Clients, Override(b) PROVE FALSE
  <2>1. Drop(b) /\ picked[b].view # "PENDING"
    BY <1>4, Zenon DEF Override
  <2> QED  BY <2>1, OnlyItsOwn
<1>5. ASSUME NEW b \in Clients, NEW mode \in RuleModes, Teach(b, mode)
      PROVE  KeepsDecisions
  <2>1. CASE \A row \in picked[b].rows : IsKnown(ValueOf(row, mode[1]))
    <3>1. job' = WithDecision(UNION picked[b].rows, "EXCLUDE", job)
      BY <1>5, <2>1, Zenon DEF Teach
    <3> QED  BY <3>1, WithDecisionKeeps
  <2>2. CASE ~\A row \in picked[b].rows : IsKnown(ValueOf(row, mode[1]))
    <3>1. UNCHANGED job
      BY <1>5, <2>2, Zenon DEF Teach, bookVars
    <3> QED  BY <3>1 DEF KeepsDecisions
  <2> QED  BY <2>1, <2>2
<1>6. ASSUME UNCHANGED picked PROVE FALSE
  BY <1>6
<1>7. CASE Inbox \/ Deciding \/ Teaching
  BY <1>7, <1>1, <1>2, <1>3, <1>4, <1>5 DEF Inbox, Deciding, Teaching
<1>8. CASE Browse \/ Paging
  <2>1. UNCHANGED picked
    BY <1>8, Zenon DEF Browse, Paging, ScopeChanged, ViewChanged, PreviousPage, NextPage,
                       PageSizeChanged, FilterChanged
  <2> QED  BY <2>1, <1>6
<1>9. CASE Panels
  <2>1. UNCHANGED picked
    BY <1>9, Zenon DEF Panels, OpenPanels, PanelDecision
  <2> QED  BY <2>1, <1>6
<1>10. CASE UNCHANGED inboxVars
  BY <1>10, <1>6 DEF inboxVars
<1> QED  BY <1>7, <1>8, <1>9, <1>10 DEF Next

\* What a window selected in the pending view is applied late, and still
\* overwrites no decision made since (_save_review_decisions).
THEOREM DecisionsHold == Spec => DecisionsStand
<1>1. IInv /\ [Next]_vars =>
        [\A c \in Clients :
           picked[c].view = "PENDING" /\ picked[c].rows # NoRows /\ picked'[c].rows = NoRows =>
             \A j \in Postings : job[j].human # "" => job'[j].human = job[j].human]_vars
  <2> SUFFICES ASSUME IInv, [Next]_vars, ~UNCHANGED vars, NEW c \in Clients,
                      picked[c].view = "PENDING", picked[c].rows # NoRows,
                      picked'[c].rows = NoRows
               PROVE  KeepsDecisions
    BY DEF KeepsDecisions
  <2> QED  BY PendingStep
<1> QED  BY <1>1, Invariant, PTL DEF Spec, DecisionsStand
=============================================================================
