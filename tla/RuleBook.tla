------------------------------ MODULE RuleBook ------------------------------
(***************************************************************************)
(* The rule tables at work.  Discovery runs load the title rules once,     *)
(* search for a long time, and classify what is new with the rules they    *)
(* loaded; the rules page edits the tables meanwhile; the pipeline judges  *)
(* fetched and extracted postings with the metadata and POST_AI rules.     *)
(* One action is one committed transaction.                                *)
(***************************************************************************)
EXTENDS RuleEngine

CONSTANTS NumPostings,   \* postings, in the order of company, title, location
          NumRuns,       \* search runs, in the order they are started
          Fields,        \* the columns a rule may look at
          CategoryKeys,  \* category_key of a rule or a posting, unset included
          Raw,           \* posting -> the row a search returns for it
          Facts,         \* posting -> the facts AI extraction stores
          Returns,       \* the sets of postings a search may return
          SeedRules, SeedCategories,   \* the tables at the start
          NewRules,      \* what the user may enter in the add-rule forms
          NewCategories, \* pairs <<key, row>> the user may save
          MaxEdits,      \* bound: changes of the rule tables
          MaxFaults      \* bound: runs that end early

Postings == 1..NumPostings
Runs     == 1..NumRuns

Category == [action : {"KEEP", "REVIEW", "EXCLUDE"}, enabled : BOOLEAN]
Rule == {r \in [id : Nat, stage : Stages, field : Fields, op : Operators, value : Scalars,
                action : UNION {Actions[s] : s \in Stages}, category : CategoryKeys,
                priority : Int, enabled : BOOLEAN,
                source : {"seed", "user", "review_inbox"}] :
           r.action \in Actions[r.stage]}

ASSUME RuleBookAssumption ==
  /\ NumPostings \in Nat /\ NumRuns \in Nat
  /\ MaxEdits \in Nat /\ MaxFaults \in Nat
  /\ Returns \subseteq SUBSET Postings
  /\ SeedRules \subseteq Rule
  /\ IsFiniteSet(SeedRules)
  /\ \A r, q \in SeedRules : r.id = q.id => r = q
  /\ \A r \in SeedRules : r.priority # 0 /\ r.source = "seed"
  /\ \A new \in NewCategories : new[2] \in Category

\* What the forms of the rules page and the migrations write.
ASSUME FormsAssumption ==
  /\ {"company", "title"} \subseteq Fields
  /\ {NoCategory, Ambiguous} \subseteq CategoryKeys
  /\ NewRules \subseteq
       [stage : Stages, field : Fields, op : Operators, value : Scalars,
        action : UNION {Actions[s] : s \in Stages}, category : CategoryKeys,
        priority : Int, enabled : BOOLEAN]
  /\ SeedCategories \in [DOMAIN SeedCategories -> Category]

\* A company or a title comes as one text or not at all, and folding a text that
\* is not blank leaves something.
ASSUME TextsAssumption ==
  /\ "UNKNOWN" \in Scalars /\ Fold["UNKNOWN"] # Blank
  /\ \A j \in Postings, f \in {"company", "title"} :
       \/ Get(Raw[j], f) = Unknown
       \/ \E s \in Scalars :
            /\ Get(Raw[j], f) = Single(s)
            /\ Trim[s] # Blank => Fold[Trim[s]] # Blank

VARIABLES
  rules, cats,             \* pipeline_rules, review_categories
  job,                     \* jobs
  run,                     \* search_runs.status, with the progress of its worker
  hits,                    \* search_hits
  snap,                    \* what the worker of a run loaded before it searched
  fetching,                \* the details worker: the postings still on its list
  gate,                    \* run_metadata_gate: the verdict it has yet to write
  lessons,                 \* history: exclusions taught and not switched off since
  edits, faults

tables == <<rules, cats, lessons>>
search == <<run, hits, snap>>
worker == <<fetching, gate>>
bookVars == <<tables, job, search, worker, edits, faults>>

NotStored == [class |-> "", category |-> NoCategory, suggested |-> "", by |-> {},
              human |-> "", details |-> "", gate |-> "", ai |-> "",
              post |-> "", postCategory |-> NoCategory]

Exists(j)   == job[j].class # ""
NoSnapshot  == [rules |-> {}, cats |-> <<>>, lessons |-> {}]
NoGate      == [posting |-> 0, verdict |-> ""]
LatestIs(r, status) == status[r] = "SUCCESS" /\ \A q \in Runs : status[q] = "SUCCESS" => q <= r

\* The row insert_new_job writes: stripped texts, None for blank and for NaN,
\* and a title in any case.
Cleaned(v) ==
  IF ~IsKnown(v) \/ Trim[v.items[1]] = Blank THEN Unknown ELSE Single(Trim[v.items[1]])
Row(j) ==
  [f \in DOMAIN Raw[j] |->
     IF f = "title" /\ ~IsKnown(Cleaned(Raw[j][f])) THEN Single("UNKNOWN")
     ELSE Cleaned(Raw[j][f])]

BookInit ==
  /\ rules = SeedRules /\ cats = SeedCategories
  /\ job = [j \in Postings |-> NotStored]
  /\ run = [r \in Runs |-> ""]
  /\ hits = [r \in Runs |-> {}]
  /\ snap = [r \in Runs |-> NoSnapshot]
  /\ fetching = {} /\ gate = NoGate
  /\ lessons = {}
  /\ edits = 0 /\ faults = 0

-----------------------------------------------------------------------------
(* The rules page.                                                         *)

Edit == edits < MaxEdits /\ edits' = edits + 1

\* The key SQLite gives the new row: rules are never deleted.
NextId(table) ==
  1 + (CHOOSE n \in {0} \cup {r.id : r \in table} : \A r \in table : r.id <= n)

\* add_pipeline_rule: a REVIEW rule needs a category; is_true and is_false take
\* no value; a rule key is made unique, two rules may say the same.
AddRule ==
  /\ Edit
  /\ \E new \in NewRules :
       /\ new.action \in Actions[new.stage]
       /\ new.action = "REVIEW" => new.category # NoCategory
       /\ rules' = rules \cup
            {[id |-> NextId(rules), stage |-> new.stage, field |-> new.field,
              op |-> new.op,
              value |-> IF new.op \in {"is_true", "is_false"} THEN Blank ELSE new.value,
              action |-> new.action, category |-> new.category,
              priority |-> IF new.priority = 0 THEN 500 ELSE new.priority,
              enabled |-> new.enabled, source |-> "user"]}
  /\ UNCHANGED <<cats, lessons, job, search, worker, faults>>

Lesson(r) == [field |-> r.field, op |-> r.op, text |-> Fold[r.value]]

\* set_pipeline_rules_enabled on the selected rows of one stage's table.
EnableRules(S, on) ==
  /\ Edit
  /\ S # {}
  /\ rules' = {IF r \in S THEN [r EXCEPT !.enabled = on] ELSE r : r \in rules}
  /\ lessons' = IF on THEN lessons ELSE lessons \ {Lesson(r) : r \in S}
  /\ UNCHANGED <<cats, job, search, worker, faults>>

SaveCategory ==
  /\ Edit
  /\ \E new \in NewCategories :
       cats' = [c \in DOMAIN cats \cup {new[1]} |-> IF c = new[1] THEN new[2] ELSE cats[c]]
  /\ UNCHANGED <<rules, lessons, job, search, worker, faults>>

EnableCategories(S, on) ==
  /\ Edit
  /\ S # {}
  /\ cats' = [c \in DOMAIN cats |-> IF c \in S THEN [cats[c] EXCEPT !.enabled = on]
                                    ELSE cats[c]]
  /\ UNCHANGED <<rules, lessons, job, search, worker, faults>>

\* run_all_fetched_jobs commits after each posting, but no posting's verdict
\* depends on another: one action stands for the loop.
ReapplyMetadata ==
  LET now == Loaded(rules, "METADATA_GATE")
  IN /\ job' = [j \in Postings |->
                  IF job[j].details = "FETCHED"
                  THEN [job[j] EXCEPT !.gate =
                          GateVerdict(job[j].class, job[j].human, Row(j), now)]
                  ELSE job[j]]
     /\ UNCHANGED <<tables, search, worker, edits, faults>>

Judged(j, row, now) ==
  LET verdict == PostVerdict(row.human, PostRow(Facts[j]), now)
  IN [row EXCEPT !.post = verdict.status, !.postCategory = verdict.category]

ReapplyPostAi ==
  LET now == Loaded(rules, "POST_AI")
  IN /\ job' = [j \in Postings |-> IF job[j].ai = "EXTRACTED"
                                   THEN Judged(j, job[j], now) ELSE job[j]]
     /\ UNCHANGED <<tables, search, worker, edits, faults>>

-----------------------------------------------------------------------------
(* Discovery.                                                              *)

\* main loads the rules, then the categories, then creates the run: a single
\* edit in between is an edit before the two reads or after them.
StartRun(r) ==
  /\ run[r] = "" /\ \A q \in Runs : q < r => run[q] # ""
  /\ snap' = [snap EXCEPT ![r] = [rules |-> Loaded(rules, "PRE_DESCRIPTION"),
                                  cats |-> cats, lessons |-> lessons]]
  /\ run' = [run EXCEPT ![r] = "RUNNING"]
  /\ UNCHANGED <<tables, job, hits, worker, edits, faults>>

NewRow(r, j) ==
  LET c == ClassifyPre(Raw[j], snap[r].rules, snap[r].cats)
  IN [NotStored EXCEPT !.class = c.class, !.category = c.category,
                       !.suggested = c.suggested, !.by = c.by]

\* store_run_results: what is new is classified, what is known is only touched;
\* the postings and the hits are one transaction, the run's status is not.
StoreRun(r) ==
  /\ run[r] = "RUNNING"
  /\ \E found \in Returns \ {{}} :
       /\ job' = [j \in Postings |-> IF j \in found /\ ~Exists(j) THEN NewRow(r, j)
                                     ELSE job[j]]
       /\ hits' = [hits EXCEPT ![r] = found]
  /\ run' = [run EXCEPT ![r] = "STORED"]
  /\ snap' = [snap EXCEPT ![r] = NoSnapshot]
  /\ UNCHANGED <<tables, worker, edits, faults>>

\* SUCCESS stands for PARTIAL as well.
FinishRun(r) ==
  /\ run[r] = "STORED"
  /\ run' = [run EXCEPT ![r] = "SUCCESS"]
  /\ UNCHANGED <<tables, job, hits, snap, worker, edits, faults>>

\* FAILED stands for EMPTY, and for a run a stopped worker left RUNNING; printing
\* the summary may still fail a run that has ended.  What store_run_results had
\* written when it raised is committed with the status: StoreRun, of as many
\* postings, and then this.
FailRun(r) ==
  /\ faults < MaxFaults /\ faults' = faults + 1
  /\ run[r] \in {"RUNNING", "STORED", "SUCCESS"}
  /\ run' = [run EXCEPT ![r] = "FAILED"]
  /\ snap' = [snap EXCEPT ![r] = NoSnapshot]
  /\ UNCHANGED <<tables, job, hits, worker, edits>>

-----------------------------------------------------------------------------
(* The pipeline, as far as the rules are concerned.                        *)

Approved(row) == row.human = "KEEP" \/ (row.human = "" /\ row.class = "AUTO_KEEP")

\* load_detail_queue takes the approved postings; each is fetched, and stored,
\* later, whatever was decided on it in the meantime.  "" is a failed attempt.
LoadForDetails ==
  /\ fetching = {}
  /\ fetching' = {j \in Postings : Approved(job[j]) /\ job[j].details = ""}
  /\ UNCHANGED <<tables, job, search, gate, edits, faults>>

FetchDetails(j) ==
  /\ j \in fetching
  /\ fetching' = fetching \ {j}
  /\ \E d \in {"", "FETCHED", "UNAVAILABLE"} : job' = [job EXCEPT ![j].details = d]
  /\ UNCHANGED <<tables, search, gate, edits, faults>>

\* run_metadata_gate reads a posting without a verdict and the rules, judges, and
\* writes the verdict later.
LoadForGate(j) ==
  /\ gate = NoGate
  /\ job[j].details = "FETCHED" /\ job[j].gate = ""
  /\ gate' = [posting |-> j,
              verdict |-> GateVerdict(job[j].class, job[j].human, Row(j),
                                      Loaded(rules, "METADATA_GATE"))]
  /\ UNCHANGED <<tables, job, search, fetching, edits, faults>>

PersistGate ==
  /\ gate # NoGate
  /\ job' = [job EXCEPT ![gate.posting].gate = gate.verdict]
  /\ gate' = NoGate
  /\ UNCHANGED <<tables, search, fetching, edits, faults>>

\* AI extraction stores the facts, then POST_AI judges them.
Extract(j) ==
  /\ job[j].details = "FETCHED" /\ job[j].gate = "PASS" /\ job[j].ai = ""
  /\ Approved(job[j])
  /\ job' = [job EXCEPT ![j].ai = "EXTRACTED"]
  /\ UNCHANGED <<tables, search, worker, edits, faults>>

RunPostAi(j) ==
  /\ job[j].ai = "EXTRACTED" /\ job[j].post = ""
  /\ job' = [job EXCEPT ![j] = Judged(j, job[j], Loaded(rules, "POST_AI"))]
  /\ UNCHANGED <<tables, search, worker, edits, faults>>
=============================================================================
