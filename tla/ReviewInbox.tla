----------------------------- MODULE ReviewInbox ----------------------------
(***************************************************************************)
(* The portal's review inbox.  View, scope, page size, page and filter are *)
(* shared by all browser windows; every window holds the rows it was last  *)
(* given, and what its user selects is applied later, when other windows,  *)
(* a search or the pipeline may have changed the postings.                 *)
(***************************************************************************)
EXTENDS RuleBook

CONSTANTS Clients,      \* browser windows
          Group,        \* posting -> its normalized company and title
          Rank,         \* category -> its place in the alphabet
          PageSizes,    \* BATCH_SIZE_OPTIONS
          FirstSize,    \* review_batch_size at the start
          Filters,      \* pairs <<column, text>> the user may filter by
          Sessions,     \* bound: what may go on together in one behaviour
          MaxMoves      \* bound: changes of view, scope, page, size or filter

AllSessions == {"search", "again", "fail", "inbox", "decide", "teach", "browse", "page",
                "panel", "rules", "settings", "fetch", "gate", "extract"}

ASSUME InboxAssumption ==
  /\ PageSizes \subseteq Nat \ {0} /\ FirstSize \in PageSizes
  /\ Sessions \subseteq SUBSET AllSessions
  /\ MaxMoves \in Nat /\ NumRuns > 0

\* What a row may show as its category has a place in the alphabet.
ASSUME RankAssumption == \A c \in CategoryKeys \cup {"mixed"} : Rank[c] \in Int

VARIABLES
  view, scopeOf, size, page, filter,   \* the page's globals
  shown,                               \* client -> the view and rows in its grid
  picked,                              \* client -> the rows its handler took
  panels,                              \* the five grids of a pre-fetch results tab
  session, moves

controls  == <<view, scopeOf, size, page, filter>>
inboxVars == <<controls, shown, picked, panels, session, moves>>
vars == <<bookVars, inboxVars>>

Views == {"PENDING", "FORWARD", "EXCLUDED"}
PanelViews == {"AUTO_KEPT", "LEARNED_EXCLUSIONS", "AUTO_REJECTED", "HUMAN_REVIEWED", "ALL"}
LatestRun == 0                       \* scopes; a run is a scope as well
AllRuns == -1
AllPreFetch == -2
Scopes == {LatestRun, AllRuns} \cup Runs
NoFilter == <<"title", Blank>>
NoRows == {}

-----------------------------------------------------------------------------
(* What a view lists, as rows of grouped postings.                         *)

\* latest_run_id, 0 when no run has completed.
Latest(status) ==
  IF \E r \in Runs : LatestIs(r, status) THEN CHOOSE r \in Runs : LatestIs(r, status) ELSE 0

\* resolve_review_run_id: anything that is not a completed run is the latest one.
Resolved(scope, status) ==
  CASE scope = AllRuns -> 0
    [] scope \in Runs -> IF status[scope] = "SUCCESS" THEN scope ELSE Latest(status)
    [] OTHER -> Latest(status)

\* load_review_scope_options: the latest run is offered under its own name.
Options(status) ==
  {LatestRun, AllRuns} \cup {r \in Runs : status[r] = "SUCCESS" /\ r # Latest(status)}

Pending(row) == row.class = "REVIEW" /\ row.human = ""

LearnedBy(row, table) ==
  /\ row.class = "AUTO_EXCLUDE"
  /\ \E r \in table : row.by = {r.id} /\ r.source = "review_inbox"

InView(v, row, table) ==
  CASE v = "PENDING" -> Pending(row)
    [] v = "FORWARD" -> row.details = "" /\ Approved(row)
    [] v = "EXCLUDED" ->
         /\ row.details = ""
         /\ row.human = "EXCLUDE" \/ (row.human = "" /\ row.class = "AUTO_EXCLUDE")
    [] v = "AUTO_KEPT" -> row.details = "" /\ row.class = "AUTO_KEEP"
    [] v = "LEARNED_EXCLUSIONS" -> row.details = "" /\ LearnedBy(row, table)
    [] v = "AUTO_REJECTED" -> row.details = "" /\ row.class = "AUTO_EXCLUDE"
    [] v = "HUMAN_REVIEWED" -> row.details = "" /\ row.human # ""
    [] v = "ALL" -> row.details = "" /\ row.class # ""

Lists(v, scope, jobs, status, found, table) ==
  LET r == Resolved(scope, status)
  IN {j \in Postings : InView(v, jobs[j], table) /\ (r # 0 => j \in found[r])}

Rows(listed) == {{j \in listed : Group[j] = Group[k]} : k \in listed}
FirstOf(row) == CHOOSE j \in row : \A k \in row : j <= k

\* One value for the group, "mixed" when its postings differ.
Common(values) == IF Cardinality(values) = 1 THEN CHOOSE v \in values : TRUE ELSE "mixed"
RowCategory(row, jobs) ==
  LET named == {jobs[j].category : j \in row} \ {NoCategory}
  IN IF named = {} THEN NoCategory ELSE Common(named)

Order == [s \in {"KEEP", "REVIEW", "EXCLUDE"} |->
            CASE s = "KEEP" -> 1 [] s = "REVIEW" -> 2 [] s = "EXCLUDE" -> 3]
RowSuggestion(row, jobs) ==
  LET named == {jobs[j].suggested : j \in row}
  IN IF Cardinality(named) = 1 THEN CHOOSE s \in named : TRUE ELSE "REVIEW"

\* effective_decision of a row of the pre-fetch views.
Effective(row) ==
  CASE row.human # "" -> row.human
    [] row.human = "" /\ row.class = "AUTO_KEEP" -> "KEEP"
    [] row.human = "" /\ row.class = "AUTO_EXCLUDE" -> "EXCLUDE"
    [] OTHER -> "REVIEW"
RowDecision(row, jobs) ==
  LET all == {Effective(jobs[j]) : j \in row}
  IN IF Cardinality(all) = 1 THEN Order[CHOOSE d \in all : TRUE] ELSE 4

\* The inbox sorts by category, then suggestion; the other views by decision,
\* then category; company and title decide the rest.
Precedes(v, a, b, jobs) ==
  LET key(row) == IF v = "PENDING"
                  THEN <<Rank[RowCategory(row, jobs)], Order[RowSuggestion(row, jobs)],
                         FirstOf(row)>>
                  ELSE <<RowDecision(row, jobs), Rank[RowCategory(row, jobs)], FirstOf(row)>>
      x == key(a)
      y == key(b)
  IN \/ x[1] < y[1]
     \/ x[1] = y[1] /\ x[2] < y[2]
     \/ x[1] = y[1] /\ x[2] = y[2] /\ x[3] < y[3]

\* filter_review_rows, for the columns that show a text of the posting.
Shows(f, row) ==
  \/ f[2] = Blank
  \/ LET v == Get(Row(FirstOf(row)), f[1])
     IN IsKnown(v) /\ <<f[2], Fold[v.items[1]]>> \in Inside

Matching(v, scope, f, jobs, status, found, table) ==
  {row \in Rows(Lists(v, scope, jobs, status, found, table)) : Shows(f, row)}

Least(m, n) == IF m < n THEN m ELSE n
FullPages(rows, n) == IF Cardinality(rows) <= n THEN 1 ELSE (Cardinality(rows) - 1) \div n
Pages(rows, n) == IF rows = {} THEN 1 ELSE (Cardinality(rows) - 1) \div n + 1
PageKept(p, rows, n) == p
Clamp(p, rows, n) == Least(p, Pages(rows, n) - 1)

OnPage(v, rows, p, n, jobs) ==
  {row \in rows : Cardinality({q \in rows : Precedes(v, q, row, jobs)}) \in p * n..(p + 1) * n - 1}

-----------------------------------------------------------------------------
(* Rendering.                                                              *)

\* review_grid_area, and refresh_review before it: a scope that is no longer
\* offered falls back, and as the select then changes its value, scope_changed
\* turns to the first page; the page number is brought into range, and every
\* window is given the new rows; a new grid has no selection.
Refresh(v, scopes, n, p, f) ==
  LET s    == IF scopes[v] \in Options(run') THEN scopes[v] ELSE LatestRun
      rows == Matching(v, s, f, job', run', hits', rules')
      q    == Clamp(IF s = scopes[v] THEN p ELSE 0, rows, n)
      grid == [view |-> v, rows |-> OnPage(v, rows, q, n, job')]
  IN /\ view' = v /\ size' = n /\ filter' = f /\ page' = q
     /\ scopeOf' = [scopes EXCEPT ![v] = s]
     /\ shown' = [c \in Clients |-> grid]

RefreshAll == Refresh(view, scopeOf, size, page, filter)

InboxInit ==
  /\ view = "PENDING" /\ scopeOf = [v \in Views |-> LatestRun]
  /\ size = FirstSize /\ page = 0 /\ filter = NoFilter
  /\ shown = [c \in Clients |-> [view |-> "PENDING", rows |-> NoRows]]
  /\ picked = [c \in Clients |-> [view |-> "PENDING", rows |-> NoRows]]
  /\ panels = [v \in PanelViews |-> NoRows]
  /\ session \in Sessions
  /\ moves = 0

Init == BookInit /\ InboxInit

\* A window is opened or reloaded: only that window is given rows.
Open(c) ==
  LET rows == Matching(view, scopeOf[view], filter, job, run, hits, rules)
      q    == Clamp(page, rows, size)
  IN /\ page' = q
     /\ shown' = [shown EXCEPT ![c] = [view |-> view, rows |-> OnPage(view, rows, q, size, job)]]
     /\ UNCHANGED <<bookVars, view, scopeOf, size, filter, picked, panels, session, moves>>

Move == moves < MaxMoves /\ moves' = moves + 1

PreviousPageUnguarded ==
  /\ Move /\ UNCHANGED <<bookVars, picked, panels, session>>
  /\ Refresh(view, scopeOf, size, page - 1, filter)

PreviousPage ==
  /\ Move /\ UNCHANGED <<bookVars, picked, panels, session>>
  /\ page > 0
  /\ Refresh(view, scopeOf, size, page - 1, filter)

NextPage ==
  LET rows == Matching(view, scopeOf[view], filter, job, run, hits, rules)
  IN /\ Move /\ UNCHANGED <<bookVars, picked, panels, session>>
     /\ page + 1 < Pages(rows, size)
     /\ Refresh(view, scopeOf, size, page + 1, filter)

ScopeChanged ==
  /\ Move /\ UNCHANGED <<bookVars, picked, panels, session>>
  /\ \E s \in Options(run) : Refresh(view, [scopeOf EXCEPT ![view] = s], size, 0, filter)

ViewChanged ==
  /\ Move /\ UNCHANGED <<bookVars, picked, panels, session>>
  /\ \E v \in Views \ {view} : Refresh(v, scopeOf, size, 0, filter)

PageSizeChanged ==
  /\ Move /\ UNCHANGED <<bookVars, picked, panels, session>>
  /\ \E n \in PageSizes \ {size} : Refresh(view, scopeOf, n, 0, filter)

FilterChanged ==
  /\ Move /\ UNCHANGED <<bookVars, picked, panels, session>>
  /\ \E f \in Filters \ {filter} : Refresh(view, scopeOf, size, 0, f)

-----------------------------------------------------------------------------
(* Decisions.                                                              *)

\* A handler takes the selected rows of its window's grid and waits for them;
\* what it does with them comes later.
Pick(c) ==
  /\ picked[c].rows = NoRows
  /\ \E rows \in (SUBSET shown[c].rows) \ {NoRows} :
       picked' = [picked EXCEPT ![c] = [view |-> shown[c].view, rows |-> rows]]
  /\ UNCHANGED <<bookVars, controls, shown, panels, session, moves>>

Drop(c) == picked' = [picked EXCEPT ![c].rows = NoRows]

LastDecision(S, d, jobs) ==
  [j \in Postings |-> IF j \in S THEN [jobs[j] EXCEPT !.human = d] ELSE jobs[j]]

\* _save_review_decisions: a posting that has a decision keeps it.
WithDecision(S, d, jobs) ==
  [j \in Postings |-> IF j \in S /\ jobs[j].human = ""
                      THEN [jobs[j] EXCEPT !.human = d] ELSE jobs[j]]

Decide(c) ==
  /\ picked[c].view = "PENDING" /\ picked[c].rows # NoRows
  /\ \E d \in {"KEEP", "EXCLUDE"} : job' = WithDecision(UNION picked[c].rows, d, job)
  /\ UNCHANGED <<tables, search, worker, edits, faults>>
  /\ RefreshAll
  /\ Drop(c)
  /\ UNCHANGED <<panels, session, moves>>

LearnedPriority == 50
RuleModes == {<<"company", "equals">>, <<"title", "equals">>, <<"title", "contains">>}

\* review_exclusion_rule_values: the value a row shows, one per folded text, as
\* the first of the selected rows spells it.
ValueOf(row, field) == Get(Row(FirstOf(row)), field)
TextOf(row, field)  == Fold[ValueOf(row, field).items[1]]
Speakers(S, field)  ==
  {row \in S : \A q \in S : TextOf(q, field) = TextOf(row, field) => FirstOf(row) <= FirstOf(q)}

SameSpelling(r, mode, text) ==
  /\ r.stage = "PRE_DESCRIPTION" /\ r.action = "AUTO_EXCLUDE"
  /\ r.field = mode[1] /\ r.op = mode[2] /\ r.value = text
\* _ensure_review_exclusion_rule: the first rule that already excludes the value
\* is switched on and promoted, else one is created.
SameExclusion(r, mode, text) ==
  /\ r.stage = "PRE_DESCRIPTION" /\ r.action = "AUTO_EXCLUDE"
  /\ r.field = mode[1] /\ r.op = mode[2] /\ Fold[r.value] = text
Reused(table, mode, text) == {r \in table : SameExclusion(r, mode, text)}

PromotedOnly(r) == [r EXCEPT !.priority = Least(r.priority, LearnedPriority)]
Promoted(r) == [r EXCEPT !.enabled = TRUE, !.priority = Least(r.priority, LearnedPriority)]

Taught(table, mode, S) ==
  LET speakers == Speakers(S, mode[1])
      old == {row \in speakers : Reused(table, mode, TextOf(row, mode[1])) # {}}
      new == speakers \ old
      reused == {First(Reused(table, mode, TextOf(row, mode[1]))) : row \in old}
      created(row) ==
        [id |-> NextId(table) + Cardinality({q \in new : FirstOf(q) < FirstOf(row)}),
         stage |-> "PRE_DESCRIPTION", field |-> mode[1], op |-> mode[2],
         value |-> ValueOf(row, mode[1]).items[1], action |-> "AUTO_EXCLUDE",
         category |-> NoCategory, priority |-> LearnedPriority, enabled |-> TRUE,
         source |-> "review_inbox"]
  IN {IF r \in reused THEN Promoted(r) ELSE r : r \in table} \cup {created(row) : row \in new}

\* exclude_and_add_review_rules: the decisions and the rules are one transaction;
\* a row without the field makes it fail before it writes anything.
Teach(c, mode) ==
  LET S == picked[c].rows
  IN /\ picked[c].view = "PENDING" /\ S # NoRows
     /\ IF \A row \in S : IsKnown(ValueOf(row, mode[1]))
        THEN /\ job' = WithDecision(UNION S, "EXCLUDE", job)
             /\ rules' = Taught(rules, mode, S)
             /\ lessons' = lessons \cup
                  {[field |-> mode[1], op |-> mode[2], text |-> TextOf(row, mode[1])] : row \in S}
             /\ Edit
             /\ UNCHANGED <<cats, search, worker, faults>>
             /\ RefreshAll
        ELSE UNCHANGED <<bookVars, controls, shown>>
     /\ Drop(c)
     /\ UNCHANGED <<panels, session, moves>>

LockedWhenJudged(row) == row.gate # ""

\* save_prefetch_decisions: locked once a fetch has settled the posting.
Locked(row) == row.details # ""
WithOverride(S, d, jobs) ==
  [j \in Postings |-> IF j \in S /\ ~Locked(jobs[j])
                      THEN [jobs[j] EXCEPT !.human = d] ELSE jobs[j]]

Override(c) ==
  /\ picked[c].view # "PENDING" /\ picked[c].rows # NoRows
  /\ \E d \in {"KEEP", "EXCLUDE"} : job' = WithOverride(UNION picked[c].rows, d, job)
  /\ UNCHANGED <<tables, search, worker, edits, faults>>
  /\ RefreshAll
  /\ Drop(c)
  /\ UNCHANGED <<panels, session, moves>>

\* The pre-fetch results tab of a window of its own: five grids, all filled when
\* the page is opened, each refilled by a decision made in it.  Its scope "All
\* pre-fetch" resolves to the latest run, like any unknown one.
PanelRows(v, jobs) == Rows(Lists(v, AllPreFetch, jobs, run, hits, rules))

OpenPanels ==
  /\ panels' = [v \in PanelViews |-> PanelRows(v, job)]
  /\ UNCHANGED <<bookVars, controls, shown, picked, session, moves>>

PanelDecision(v) ==
  /\ \E S \in (SUBSET panels[v]) \ {NoRows}, d \in {"KEEP", "EXCLUDE"} :
       job' = WithOverride(UNION S, d, job)
  /\ panels' = [panels EXCEPT ![v] = PanelRows(v, job')]
  /\ UNCHANGED <<tables, search, worker, edits, faults>>
  /\ RefreshAll
  /\ UNCHANGED <<picked, session, moves>>

-----------------------------------------------------------------------------
Inbox    == \E c \in Clients : Open(c) \/ Pick(c)
Deciding == \E c \in Clients : Decide(c) \/ Override(c)
Teaching == \E c \in Clients, mode \in RuleModes : Teach(c, mode)
Browse   == ScopeChanged \/ ViewChanged
Paging   == PreviousPage \/ NextPage \/ PageSizeChanged \/ FilterChanged
RulesPage ==
  \/ AddRule
  \/ \E on \in BOOLEAN, s \in Stages :
       \E S \in SUBSET {r \in rules : r.stage = s} : EnableRules(S, on)
Settings ==
  \/ SaveCategory \/ ReapplyMetadata \/ ReapplyPostAi
  \/ \E on \in BOOLEAN, S \in SUBSET DOMAIN cats : EnableCategories(S, on)
Panels   == OpenPanels \/ \E v \in PanelViews : PanelDecision(v)
Search(started) == \E r \in started : StartRun(r) \/ StoreRun(r) \/ FinishRun(r)
Fetching == LoadForDetails \/ \E j \in Postings : FetchDetails(j)
Gating   == PersistGate \/ \E j \in Postings : LoadForGate(j)
Extracting == \E j \in Postings : Extract(j) \/ RunPostAi(j)

Next ==
  \/ "inbox" \in session /\ Inbox
  \/ "decide" \in session /\ Deciding
  \/ "teach" \in session /\ Teaching
  \/ "browse" \in session /\ Browse
  \/ "page" \in session /\ Paging
  \/ "panel" \in session /\ Panels
  \/ "search" \in session /\ Search({1}) /\ UNCHANGED inboxVars
  \/ "again" \in session /\ Search(Runs \ {1}) /\ UNCHANGED inboxVars
  \/ "fail" \in session /\ (\E r \in Runs : FailRun(r)) /\ UNCHANGED inboxVars
  \/ "rules" \in session /\ RulesPage /\ UNCHANGED inboxVars
  \/ "settings" \in session /\ Settings /\ UNCHANGED inboxVars
  \/ "fetch" \in session /\ Fetching /\ UNCHANGED inboxVars
  \/ "gate" \in session /\ Gating /\ UNCHANGED inboxVars
  \/ "extract" \in session /\ Extracting /\ UNCHANGED inboxVars

Spec == Init /\ [][Next]_vars

-----------------------------------------------------------------------------
Grid(S) == [view : Views, rows : SUBSET (SUBSET S)]

TypeOK ==
  /\ rules \subseteq Rule
  /\ cats \in [DOMAIN cats -> Category]
  /\ job \in [Postings ->
        [class : {"", "AUTO_KEEP", "REVIEW", "AUTO_EXCLUDE"}, category : CategoryKeys,
         suggested : {"", "KEEP", "REVIEW", "EXCLUDE"}, by : SUBSET Nat,
         human : {"", "KEEP", "EXCLUDE"}, details : {"", "FETCHED", "UNAVAILABLE"},
         gate : {"", "PASS", "REJECT"}, ai : {"", "EXTRACTED"},
         post : {"", "SHORTLIST", "REVIEW", "REJECT"}, postCategory : CategoryKeys]]
  /\ run \in [Runs -> {"", "RUNNING", "STORED", "SUCCESS", "FAILED"}]
  /\ hits \in [Runs -> SUBSET Postings]
  /\ snap \in [Runs -> [rules : SUBSET Rule, cats : {snap[r].cats : r \in Runs},
                        lessons : SUBSET [field : Fields, op : Operators, text : Scalars]]]
  /\ fetching \subseteq Postings
  /\ gate \in [posting : 0..NumPostings, verdict : {"", "PASS", "REJECT"}]
  /\ edits \in 0..MaxEdits /\ faults \in 0..MaxFaults
  /\ view \in Views /\ scopeOf \in [Views -> Scopes] /\ size \in PageSizes
  /\ page \in 0..NumPostings /\ filter \in Filters \cup {NoFilter}
  /\ shown \in [Clients -> Grid(Postings)] /\ picked \in [Clients -> Grid(Postings)]
  /\ panels \in [PanelViews -> SUBSET (SUBSET Postings)]
  /\ session \in Sessions /\ moves \in 0..MaxMoves

\* A posting that a search stores after the user taught the inbox a company or
\* a title is excluded when it has that company or title, unless the rules hold
\* an earlier exception for it or the lesson was switched off: the promise of
\* EXCLUDE + ADD RULE for searches that start later (views.py:6954).
Says(lesson, row) ==
  \E v \in {Get(row, lesson.field)} :
    /\ IsKnown(v)
    /\ \/ lesson.op = "equals" /\ Fold[v.items[1]] = lesson.text
       \/ lesson.op = "contains" /\ <<lesson.text, Fold[v.items[1]]>> \in Inside

Excepted(row, table) ==
  \E q \in table : /\ q.action # "AUTO_EXCLUDE"
                   /\ q.priority <= LearnedPriority
                   /\ Matches(q, row)

LearnedExclusion ==
  [][\A r \in Runs, j \in Postings :
       run[r] = "RUNNING" /\ run'[r] = "STORED" /\ ~Exists(j) /\ job'[j].class # "" =>
         \A lesson \in snap[r].lessons :
           Says(lesson, Raw[j]) /\ ~Excepted(Raw[j], snap[r].rules)
             => job'[j].class = "AUTO_EXCLUDE"]_vars

\* Teaching the same value again, in another spelling or from another window,
\* creates no second rule (_ensure_review_exclusion_rule).
OneRulePerValue ==
  \A r, q \in rules :
    /\ r.source = "review_inbox" /\ q.source = "review_inbox"
    /\ r.field = q.field /\ r.op = q.op /\ Fold[r.value] = Fold[q.value]
    => r = q

\* What a window selected in the pending view is applied to postings that other
\* windows may have decided, or the pipeline fetched, since: a decision that is
\* there stays (_save_review_decisions).
DecisionsStand ==
  [][\A c \in Clients :
       picked[c].view = "PENDING" /\ picked[c].rows # NoRows /\ picked'[c].rows = NoRows =>
         \A j \in Postings : job[j].human # "" => job'[j].human = job[j].human]_vars

\* An excluded title goes no further: whichever window still shows the posting,
\* and whenever the exclusion comes while the details or the verdict are under
\* way, it never passes the gate and is never extracted or proposed.
ExclusionStops ==
  \A j \in Postings : job[j].human = "EXCLUDE" =>
    job[j].gate # "PASS" /\ job[j].ai = "" /\ job[j].post = ""

\* Every stored posting that was not fetched is found in exactly one of the three
\* views over all runs by paging through it, whatever the page size.
NothingHidden ==
  /\ \A j \in Postings : Exists(j) /\ job[j].details = "" =>
       \E v \in Views : \A w \in Views :
         j \in Lists(w, AllRuns, job, run, hits, rules) <=> w = v
  /\ \A v \in Views, n \in PageSizes :
       LET rows == Matching(v, AllRuns, NoFilter, job, run, hits, rules)
       IN \A j \in Lists(v, AllRuns, job, run, hits, rules) :
            \E p \in 0..Pages(rows, n) - 1 :
              \E row \in OnPage(v, rows, p, n, job) : j \in row

\* A window is given an empty page only when nothing matches: deciding the last
\* rows of the last page does not leave the user there.
NeverABlankPage ==
  [][\A c \in Clients :
       shown'[c] # shown[c] /\ shown'[c].rows = NoRows =>
         Matching(view', scopeOf'[view'], filter', job', run', hits', rules') = {}]_vars
=============================================================================
