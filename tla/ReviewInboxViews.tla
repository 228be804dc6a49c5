-------------------------- MODULE ReviewInboxViews ---------------------------
(***************************************************************************)
(* The types of ReviewInbox, and what its views and pages show, for any    *)
(* postings, rules, windows and sessions.                                  *)
(***************************************************************************)
EXTENDS RuleLessons

-----------------------------------------------------------------------------
(* The types of the tables, of the postings and of what a search loaded.     *)

LessonType == [field : Fields, op : Operators, text : Scalars]

CatsTyped(c) == c \in [DOMAIN c -> Category]

TablesTyped ==
  /\ rules \subseteq Rule
  /\ CatsTyped(cats)
  /\ lessons \subseteq LessonType

SnapTyped ==
  \A r \in Runs :
    /\ snap[r] = [rules |-> snap[r].rules, cats |-> snap[r].cats,
                  lessons |-> snap[r].lessons]
    /\ snap[r].rules \subseteq Rule
    /\ \A q \in snap[r].rules : q.stage = "PRE_DESCRIPTION"
    /\ CatsTyped(snap[r].cats)
    /\ snap[r].lessons \subseteq LessonType

JobRow ==
  [class : {"", "AUTO_KEEP", "REVIEW", "AUTO_EXCLUDE"}, category : CategoryKeys,
   suggested : {"", "KEEP", "REVIEW", "EXCLUDE"}, by : SUBSET Nat,
   human : {"", "KEEP", "EXCLUDE"}, details : {"", "FETCHED", "UNAVAILABLE"},
   gate : {"", "PASS", "REJECT"}, ai : {"", "EXTRACTED"},
   post : {"", "SHORTLIST", "REVIEW", "REJECT"}, postCategory : CategoryKeys]

\* A stored posting has a suggestion.
RowTyped(row) ==
  /\ row \in JobRow
  /\ row.class # "" => row.suggested \in {"KEEP", "REVIEW", "EXCLUDE"}

RowsTyped == job = [j \in Postings |-> job[j]] /\ \A j \in Postings : RowTyped(job[j])

WorkTyped ==
  /\ run \in [Runs -> {"", "RUNNING", "STORED", "SUCCESS", "FAILED"}]
  /\ hits \in [Runs -> SUBSET Postings]
  /\ gate \in [posting : 0..NumPostings, verdict : {"", "PASS", "REJECT"}]
  /\ edits \in 0..MaxEdits /\ faults \in 0..MaxFaults

PagesTyped ==
  /\ scopeOf \in [Views -> Scopes] /\ size \in PageSizes
  /\ page \in 0..NumPostings /\ filter \in Filters \cup {NoFilter}
  /\ session \in Sessions /\ moves \in 0..MaxMoves

TInv == TablesTyped /\ SnapTyped /\ RowsTyped /\ WorkTyped /\ PagesTyped

-----------------------------------------------------------------------------
(* The rule tables.                                                          *)

LEMMA AddRuleTyped ==
  ASSUME TablesOK, TablesTyped, AddRule
  PROVE  TablesTyped'
<1>1. PICK new \in NewRules :
        /\ new.action \in Actions[new.stage]
        /\ rules' = rules \cup
            {[id |-> NextId(rules), stage |-> new.stage, field |-> new.field,
              op |-> new.op,
              value |-> IF new.op \in {"is_true", "is_false"} THEN Blank ELSE new.value,
              action |-> new.action, category |-> new.category,
              priority |-> IF new.priority = 0 THEN 500 ELSE new.priority,
              enabled |-> new.enabled, source |-> "user"]}
  BY Zenon DEF AddRule
<1>2. PICK v, p : /\ v = IF new.op \in {"is_true", "is_false"} THEN Blank ELSE new.value
                  /\ p = IF new.priority = 0 THEN 500 ELSE new.priority
  OBVIOUS
<1>3. /\ new.stage \in Stages /\ new.field \in Fields /\ new.op \in Operators
      /\ new.value \in Scalars /\ new.action \in UNION {Actions[s] : s \in Stages}
      /\ new.category \in CategoryKeys /\ new.priority \in Int /\ new.enabled \in BOOLEAN
  BY FormsAssumption
<1>4. p \in Int /\ v \in Scalars
  BY <1>2, <1>3, ScalarsAssumption
<1>5. PICK n \in Nat : n = NextId(rules)
  BY NextIdIs DEF TablesOK
<1>6. PICK q : q = [id |-> n, stage |-> new.stage, field |-> new.field,
                    op |-> new.op, value |-> v, action |-> new.action,
                    category |-> new.category, priority |-> p, enabled |-> new.enabled,
                    source |-> "user"]
  OBVIOUS
<1>7. rules' = rules \cup {q}
  BY <1>1, <1>2, <1>5, <1>6, Zenon
<1>8. q \in Rule
  BY <1>1, <1>3, <1>4, <1>6 DEF Rule
<1>9. UNCHANGED <<cats, lessons>>
  BY Zenon DEF AddRule
<1> QED  BY <1>7, <1>8, <1>9 DEF TablesTyped, CatsTyped

LEMMA EnabledTyped ==
  ASSUME NEW r \in Rule, NEW on \in BOOLEAN
  PROVE  [r EXCEPT !.enabled = on] \in Rule
BY DEF Rule

LEMMA EnableRulesTyped ==
  ASSUME TablesTyped, NEW S, NEW on \in BOOLEAN, EnableRules(S, on)
  PROVE  TablesTyped'
<1> DEFINE E(r) == IF r \in S THEN [r EXCEPT !.enabled = on] ELSE r
<1>1. rules' = {E(r) : r \in rules}
  BY Zenon DEF EnableRules
<1>2. \A r \in rules : E(r) \in Rule
  BY EnabledTyped DEF TablesTyped
<1> HIDE DEF E
<1>3. lessons' \subseteq lessons /\ UNCHANGED cats
  <2>1. lessons' = IF on THEN lessons ELSE lessons \ {Lesson(r) : r \in S}
    BY Zenon DEF EnableRules
  <2>2. UNCHANGED cats
    BY Zenon DEF EnableRules
  <2> QED  BY <2>1, <2>2
<1> QED  BY <1>1, <1>2, <1>3 DEF TablesTyped, CatsTyped

LEMMA SaveCategoryTyped ==
  ASSUME TablesTyped, SaveCategory
  PROVE  TablesTyped'
<1>1. PICK new \in NewCategories :
        cats' = [c \in DOMAIN cats \cup {new[1]} |-> IF c = new[1] THEN new[2] ELSE cats[c]]
  BY Zenon DEF SaveCategory
<1>2. new[2] \in Category
  BY RuleBookAssumption
<1>3. CatsTyped(cats')
  BY <1>1, <1>2 DEF TablesTyped, CatsTyped
<1>4. UNCHANGED <<rules, lessons>>
  BY Zenon DEF SaveCategory
<1> QED  BY <1>3, <1>4 DEF TablesTyped

LEMMA EnableCategoriesTyped ==
  ASSUME TablesTyped, NEW S, NEW on \in BOOLEAN, EnableCategories(S, on)
  PROVE  TablesTyped'
<1> DEFINE E(c) == IF c \in S THEN [cats[c] EXCEPT !.enabled = on] ELSE cats[c]
<1>1. cats' = [c \in DOMAIN cats |-> E(c)]
  BY Zenon DEF EnableCategories
<1>2. \A c \in DOMAIN cats : E(c) \in Category
  BY DEF TablesTyped, CatsTyped, Category
<1> HIDE DEF E
<1>3. CatsTyped(cats')
  BY <1>1, <1>2 DEF CatsTyped
<1>4. UNCHANGED <<rules, lessons>>
  BY Zenon DEF EnableCategories
<1> QED  BY <1>3, <1>4 DEF TablesTyped

\* What a row of the inbox shows, and so what a lesson or a rule may hold.
LEMMA ValueTyped ==
  ASSUME NEW row, row # {}, row \subseteq Postings, NEW field \in {"company", "title"},
         IsKnown(ValueOf(row, field))
  PROVE  ValueOf(row, field).items[1] \in Scalars /\ TextOf(row, field) \in Scalars
<1>1. PICK j \in Postings : j = FirstOf(row)
  BY FirstOfIs
<1>2. PICK w : w = Row(j)
  OBVIOUS
<1>3. ValueOf(row, field) = Get(w, field) /\ IsKnown(Get(w, field))
  BY <1>1, <1>2, Zenon DEF ValueOf
<1>4. field \in DOMAIN w /\ Get(w, field) = w[field]
  BY <1>3 DEF Get, IsKnown, Unknown
<1>5. DOMAIN w = DOMAIN Raw[j]
      /\ w[field] = IF field = "title" /\ ~IsKnown(Cleaned(Raw[j][field]))
                    THEN Single("UNKNOWN") ELSE Cleaned(Raw[j][field])
  BY <1>2, <1>4 DEF Row
<1>6. PICK v : v = Raw[j][field] /\ v = Get(Raw[j], field)
  BY <1>4, <1>5 DEF Get
<1>7. PICK x : x = ValueOf(row, field).items[1]
  OBVIOUS
<1>8. x \in Scalars
  <2>1. CASE w[field] = Single("UNKNOWN")
    <3>1. x = "UNKNOWN"
      BY <1>3, <1>4, <1>7, <2>1 DEF Single
    <3> QED  BY <3>1, TextsAssumption
  <2>2. CASE w[field] = Cleaned(v)
    <3>1. IsKnown(Cleaned(v))
      BY <1>3, <1>4, <2>2
    <3>2. IsKnown(v) /\ Cleaned(v) = Single(Trim[v.items[1]])
      BY <3>1 DEF Cleaned, IsKnown, Unknown
    <3>3. PICK s \in Scalars : v = Single(s)
      <4>1. v # Unknown
        BY <3>2 DEF IsKnown, Unknown
      <4> QED  BY <1>6, <4>1, TextsAssumption
    <3>4. x = Trim[s]
      BY <1>3, <1>4, <1>7, <2>2, <3>2, <3>3 DEF Single
    <3> QED  BY <3>4, ScalarsAssumption
  <2> QED  BY <1>5, <1>6, <2>1, <2>2
<1>9. TextOf(row, field) = Fold[x]
  BY <1>7 DEF TextOf
<1> QED  BY <1>7, <1>8, <1>9, ScalarsAssumption

LEMMA PromotedTyped ==
  ASSUME NEW r \in Rule
  PROVE  Promoted(r) \in Rule
<1> DEFINE p == [r EXCEPT !.enabled = TRUE]
           m == Least(r.priority, LearnedPriority)
<1>1. p \in Rule
  BY EnabledTyped
<1>2. m \in Int
  BY DEF Rule, Least, LearnedPriority
<1>3. Promoted(r) = [p EXCEPT !.priority = m]
  BY DEF Promoted
<1> HIDE DEF p, m
<1> QED  BY <1>1, <1>2, <1>3 DEF Rule

LEMMA CreatedTyped ==
  ASSUME TablesOK, NEW mode \in RuleModes, NEW S, Groups(S), NEW row \in NewOf(mode, S),
         IsKnown(ValueOf(row, mode[1]))
  PROVE  Created(row, mode, S) \in Rule
<1>1. row \in S
  BY NewSpeaks
<1>2. row # {} /\ row \subseteq Postings
  BY <1>1 DEF Groups
<1>3. mode[1] \in {"company", "title"} /\ mode[2] \in {"equals", "contains"}
  BY DEF RuleModes
<1>4. PICK v \in Scalars : v = ValueOf(row, mode[1]).items[1]
  BY <1>2, <1>3, ValueTyped
<1>5. PICK n \in Nat : n = Created(row, mode, S).id
  BY GroupsFinite, CreatedIs DEF RuleOK
<1>6. PICK q : q = [id |-> n, stage |-> "PRE_DESCRIPTION", field |-> mode[1], op |-> mode[2],
                    value |-> v, action |-> "AUTO_EXCLUDE",
                    category |-> NoCategory, priority |-> LearnedPriority, enabled |-> TRUE,
                    source |-> "review_inbox"]
  OBVIOUS
<1>7. n = NextId(rules) + Cardinality(Earlier(row, mode, S))
  BY <1>5 DEF Created
<1>8. Created(row, mode, S) = q
  BY <1>4, <1>6, <1>7, Zenon DEF Created
<1>9. /\ "AUTO_EXCLUDE" \in Actions["PRE_DESCRIPTION"] /\ "PRE_DESCRIPTION" \in Stages
      /\ "AUTO_EXCLUDE" \in UNION {Actions[s] : s \in Stages}
  BY DEF Actions, Stages
<1>10. mode[1] \in Fields /\ mode[2] \in Operators /\ NoCategory \in CategoryKeys
  BY <1>3, FormsAssumption DEF Operators
<1>11. q \in Rule
  BY <1>6, <1>9, <1>10 DEF Rule, LearnedPriority
<1> QED  BY <1>8, <1>11

LEMMA TeachTyped ==
  ASSUME LInv, TablesTyped, NEW c \in Clients, NEW mode \in RuleModes, Teach(c, mode)
  PROVE  TablesTyped'
<1>1. PICK S : S = picked[c].rows
  OBVIOUS
<1>2. Groups(S) /\ TablesOK
  BY <1>1 DEF LInv, GroupsOK
<1>3. CASE \A row \in S : IsKnown(ValueOf(row, mode[1]))
  <2>1. rules' = Taught(rules, mode, S)
    BY <1>1, <1>3, Zenon DEF Teach
  <2>2. lessons' = lessons \cup
          {[field |-> mode[1], op |-> mode[2], text |-> TextOf(row, mode[1])] : row \in S}
    BY <1>1, <1>3, Zenon DEF Teach
  <2>3. UNCHANGED cats
    BY <1>1, <1>3, Zenon DEF Teach
  <2>4. \A r \in rules : Kept(r, mode, S) \in Rule
    BY PromotedTyped DEF Kept, TablesTyped
  <2>5. \A row \in NewOf(mode, S) : Created(row, mode, S) \in Rule
    <3> SUFFICES ASSUME NEW row \in NewOf(mode, S) PROVE Created(row, mode, S) \in Rule
      OBVIOUS
    <3>1. IsKnown(ValueOf(row, mode[1]))
      BY <1>3, NewSpeaks
    <3> QED  BY <1>2, <3>1, CreatedTyped
  <2>6. rules' \subseteq Rule
    BY <2>1, <2>4, <2>5, TaughtIs
  <2>7. \A row \in S : TextOf(row, mode[1]) \in Scalars
    <3> SUFFICES ASSUME NEW row \in S PROVE TextOf(row, mode[1]) \in Scalars
      OBVIOUS
    <3>1. row # {} /\ row \subseteq Postings /\ IsKnown(ValueOf(row, mode[1]))
      BY <1>2, <1>3 DEF Groups
    <3>2. mode[1] \in {"company", "title"}
      BY DEF RuleModes
    <3> QED  BY <3>1, <3>2, ValueTyped
  <2>8. mode[1] \in Fields /\ mode[2] \in Operators
    BY FormsAssumption DEF RuleModes, Operators
  <2>9. lessons' \subseteq LessonType
    BY <2>2, <2>7, <2>8 DEF TablesTyped, LessonType
  <2> QED  BY <2>3, <2>6, <2>9 DEF TablesTyped, CatsTyped
<1>4. CASE ~\A row \in S : IsKnown(ValueOf(row, mode[1]))
  <2>1. UNCHANGED <<rules, lessons, cats>>
    BY <1>1, <1>4, Zenon DEF Teach, bookVars, tables
  <2> QED  BY <2>1 DEF TablesTyped, CatsTyped
<1> QED  BY <1>3, <1>4

-----------------------------------------------------------------------------
(* What the rules make of a posting.                                         *)

LEMMA FirstOfSome ==
  ASSUME NEW table, TableOK(table), NEW T \in SUBSET table, T # {}
  PROVE  First(T) \in T
<1>1. IsFiniteSet(T)
  BY FS_Subset DEF TableOK
<1>2. /\ \A r \in T : r.id \in Nat /\ r.priority \in Int
      /\ \A r, q \in T : r.id = q.id => r = q
  BY DEF TableOK, RuleOK
<1> QED  BY <1>1, <1>2, FirstIs

Suggestions == {"KEEP", "REVIEW", "EXCLUDE"}

\* What a search writes of a new posting.
Classification(c) ==
  /\ c.class \in {"AUTO_KEEP", "REVIEW", "AUTO_EXCLUDE"} /\ c.category \in CategoryKeys
  /\ c.suggested \in Suggestions /\ c.by \in SUBSET Nat

LEMMA SuggestedTyped ==
  ASSUME NEW cs, CatsTyped(cs), NEW c
  PROVE  Suggested(cs, c) \in Suggestions
BY DEF Suggested, CatsTyped, Category, Suggestions

LEMMA OrAmbiguousTyped ==
  ASSUME NEW c \in CategoryKeys
  PROVE  OrAmbiguous(c) \in CategoryKeys
BY FormsAssumption DEF OrAmbiguous

LEMMA FromRuleTyped ==
  ASSUME NEW r \in Rule, r.stage = "PRE_DESCRIPTION", NEW cs, CatsTyped(cs)
  PROVE  Classification(FromRule(r, cs))
<1>1. r.action \in {"AUTO_KEEP", "REVIEW", "AUTO_EXCLUDE"}
  BY DEF Rule, Actions, Stages
<1>2. r.id \in Nat /\ r.category \in CategoryKeys
  BY DEF Rule
<1>3. CASE r.action = "AUTO_KEEP"
  <2>1. FromRule(r, cs) = [class |-> "AUTO_KEEP", category |-> NoCategory,
                           suggested |-> "KEEP", by |-> {r.id}]
    BY <1>3 DEF FromRule
  <2> QED  BY <1>2, <2>1, FormsAssumption DEF Classification, Suggestions
<1>4. CASE r.action = "AUTO_EXCLUDE"
  <2>1. FromRule(r, cs) = [class |-> "AUTO_EXCLUDE", category |-> r.category,
                           suggested |-> "EXCLUDE", by |-> {r.id}]
    BY <1>4 DEF FromRule
  <2> QED  BY <1>2, <2>1 DEF Classification, Suggestions
<1>5. CASE r.action = "REVIEW"
  <2>1. PICK k \in CategoryKeys : k = OrAmbiguous(r.category)
    BY <1>2, OrAmbiguousTyped
  <2>2. PICK s \in Suggestions : s = Suggested(cs, k)
    BY SuggestedTyped
  <2>3. FromRule(r, cs) = [class |-> "REVIEW", category |-> k, suggested |-> s, by |-> {r.id}]
    BY <1>5, <2>1, <2>2 DEF FromRule
  <2> QED  BY <1>2, <2>3 DEF Classification
<1> QED  BY <1>1, <1>3, <1>4, <1>5

LEMMA ClassifyTyped ==
  ASSUME NEW row, NEW table, TableOK(table), table \subseteq Rule,
         \A r \in table : r.stage = "PRE_DESCRIPTION", NEW cs, CatsTyped(cs)
  PROVE  Classification(ClassifyPre(row, table, cs))
<1>1. PICK H : H = {r \in Active(table, cs) : Matches(r, row)}
  OBVIOUS
<1>2. PICK K : K = {r \in H : r.action = "AUTO_KEEP"}
  OBVIOUS
<1>3. PICK R : R = {r \in H : r.category = "research"}
  OBVIOUS
<1>4. PICK T : T = {r \in H : r.category = "emerging_ai_roles"}
  OBVIOUS
<1>5. PICK E : E = Early(H)
  OBVIOUS
<1>6. H \in SUBSET table /\ E \in SUBSET H /\ K \in SUBSET H /\ R \in SUBSET H /\ T \in SUBSET H
  BY <1>1, <1>2, <1>3, <1>4, <1>5 DEF Active, Early
<1>7. ASSUME NEW X \in SUBSET H, X # {}
      PROVE  First(X) \in table /\ Classification(FromRule(First(X), cs))
  <2>1. First(X) \in table
    BY <1>6, <1>7, FirstOfSome
  <2> QED  BY <2>1, FromRuleTyped
<1>8. PICK c : c = ClassifyPre(row, table, cs)
  OBVIOUS
<1>9. c = CASE E # {} -> FromRule(First(E), cs)
            [] E = {} /\ K # {} -> FromRule(First(K), cs)
            [] E = {} /\ K = {} /\ R # {} /\ T # {} /\ TargetResearchRole(row) ->
                 [class |-> "AUTO_KEEP", category |-> NoCategory, suggested |-> "KEEP",
                  by |-> {First(R).id, First(T).id}]
            [] OTHER ->
                 IF H # {} THEN FromRule(First(H), cs)
                 ELSE [class |-> "REVIEW", category |-> Ambiguous,
                       suggested |-> Suggested(cs, Ambiguous), by |-> {}]
  BY <1>1, <1>2, <1>3, <1>4, <1>5, <1>8, Zenon DEF ClassifyPre
<1>10. CASE E # {}
  <2>1. c = FromRule(First(E), cs)
    BY <1>9, <1>10
  <2> QED  BY <1>6, <1>7, <1>8, <1>10, <2>1
<1>11. CASE E = {} /\ K # {}
  <2>1. c = FromRule(First(K), cs)
    BY <1>9, <1>11
  <2> QED  BY <1>6, <1>7, <1>8, <1>11, <2>1
<1>12. CASE E = {} /\ K = {} /\ R # {} /\ T # {} /\ TargetResearchRole(row)
  <2>1. PICK m, n : m = First(R).id /\ n = First(T).id
    OBVIOUS
  <2>2. m \in Nat /\ n \in Nat
    <3>1. First(R) \in Rule /\ First(T) \in Rule
      BY <1>6, <1>7, <1>12
    <3> QED  BY <2>1, <3>1 DEF Rule
  <2>3. c = [class |-> "AUTO_KEEP", category |-> NoCategory, suggested |-> "KEEP",
             by |-> {m, n}]
    BY <1>9, <1>12, <2>1
  <2>4. Classification(c)
    BY <2>2, <2>3, FormsAssumption DEF Classification, Suggestions
  <2> QED  BY <1>8, <2>4
<1>13. CASE /\ E = {} /\ K = {}
            /\ ~(R # {} /\ T # {} /\ TargetResearchRole(row))
  <2>1. CASE H # {}
    <3>1. c = FromRule(First(H), cs)
      BY <1>9, <1>13, <2>1
    <3> QED  BY <1>7, <1>8, <2>1, <3>1
  <2>2. CASE H = {}
    <3>1. PICK s \in Suggestions : s = Suggested(cs, Ambiguous)
      BY SuggestedTyped
    <3>2. c = [class |-> "REVIEW", category |-> Ambiguous, suggested |-> s, by |-> {}]
      BY <1>9, <1>13, <2>2, <3>1
    <3>3. Classification(c)
      BY <3>2, FormsAssumption DEF Classification
    <3> QED  BY <1>8, <3>3
  <2> QED  BY <2>1, <2>2
<1> QED  BY <1>10, <1>11, <1>12, <1>13

LEMMA LoadedTable ==
  ASSUME NEW table, TableOK(table), NEW stage
  PROVE  TableOK(Loaded(table, stage))
<1>1. Loaded(table, stage) \subseteq table
  BY DEF Loaded
<1> QED  BY <1>1, FS_Subset DEF TableOK

LEMMA GateTyped ==
  ASSUME NEW table, TableOK(table), NEW class, NEW human, NEW row
  PROVE  GateVerdict(class, human, row, table) \in {"PASS", "REJECT"}
<1>1. PICK H : H = {r \in table : Matches(r, row) /\ r.action \in {"PASS", "REJECT"}}
  OBVIOUS
<1>2. H # {} => First(H).action \in {"PASS", "REJECT"}
  BY <1>1, FirstOfSome
<1>3. PICK v : v = GateVerdict(class, human, row, table)
  OBVIOUS
<1>4. v = IF human = "EXCLUDE" \/ (class = "AUTO_EXCLUDE" /\ human # "KEEP")
          THEN "REJECT" ELSE IF H # {} THEN First(H).action ELSE "PASS"
  BY <1>1, <1>3, Zenon DEF GateVerdict
<1> QED  BY <1>2, <1>3, <1>4

LEMMA PostTyped ==
  ASSUME NEW table, TableOK(table), table \subseteq Rule, NEW human, NEW row
  PROVE  /\ PostVerdict(human, row, table).status \in {"SHORTLIST", "REVIEW", "REJECT"}
         /\ PostVerdict(human, row, table).category \in CategoryKeys
<1>1. PICK H : H = {r \in table : Matches(r, row)
                                  /\ r.action \in {"SHORTLIST", "REVIEW", "REJECT"}}
  OBVIOUS
<1>2. PICK f : f = First(H)
  OBVIOUS
<1>3. PICK v : v = PostVerdict(human, row, table)
  OBVIOUS
<1>4. v = IF human = "EXCLUDE" THEN [status |-> "REJECT", category |-> NoCategory]
          ELSE IF H = {} THEN [status |-> "REVIEW", category |-> Ambiguous]
          ELSE [status |-> f.action,
                category |-> IF f.action = "REVIEW" THEN OrAmbiguous(f.category)
                             ELSE NoCategory]
  BY <1>1, <1>2, <1>3, Zenon DEF PostVerdict
<1>5. H # {} => f \in Rule /\ f.action \in {"SHORTLIST", "REVIEW", "REJECT"}
  BY <1>1, <1>2, FirstOfSome
<1>6. H # {} => f.category \in CategoryKeys /\ OrAmbiguous(f.category) \in CategoryKeys
  BY <1>5, OrAmbiguousTyped DEF Rule
<1> QED  BY <1>3, <1>4, <1>5, <1>6, FormsAssumption

-----------------------------------------------------------------------------
(* The postings.                                                             *)

LEMMA ColumnSet ==
  ASSUME NEW row, RowTyped(row)
  PROVE  /\ \A d \in {"KEEP", "EXCLUDE"} : RowTyped([row EXCEPT !.human = d])
         /\ \A d \in {"", "FETCHED", "UNAVAILABLE"} : RowTyped([row EXCEPT !.details = d])
         /\ \A d \in {"", "PASS", "REJECT"} : RowTyped([row EXCEPT !.gate = d])
         /\ RowTyped([row EXCEPT !.ai = "EXTRACTED"])
<1>1. ASSUME NEW d \in {"KEEP", "EXCLUDE"} PROVE RowTyped([row EXCEPT !.human = d])
  BY DEF RowTyped, JobRow
<1>2. ASSUME NEW d \in {"", "FETCHED", "UNAVAILABLE"}
      PROVE  RowTyped([row EXCEPT !.details = d])
  BY DEF RowTyped, JobRow
<1>3. ASSUME NEW d \in {"", "PASS", "REJECT"} PROVE RowTyped([row EXCEPT !.gate = d])
  BY DEF RowTyped, JobRow
<1>4. RowTyped([row EXCEPT !.ai = "EXTRACTED"])
  BY DEF RowTyped, JobRow
<1> QED  BY <1>1, <1>2, <1>3, <1>4

LEMMA JudgedTyped ==
  ASSUME NEW row, RowTyped(row), NEW table, TableOK(table), table \subseteq Rule, NEW j
  PROVE  RowTyped(Judged(j, row, table))
<1> DEFINE v == PostVerdict(row.human, PostRow(Facts[j]), table)
<1>1. Judged(j, row, table) = [row EXCEPT !.post = v.status, !.postCategory = v.category]
  BY Zenon DEF Judged
<1>2. v.status \in {"SHORTLIST", "REVIEW", "REJECT"} /\ v.category \in CategoryKeys
  BY PostTyped
<1>3. PICK a \in {"SHORTLIST", "REVIEW", "REJECT"}, b \in CategoryKeys :
        a = v.status /\ b = v.category
  BY <1>2
<1> DEFINE q == [row EXCEPT !.post = a]
           z == [q EXCEPT !.postCategory = b]
<1>4. Judged(j, row, table) = z
  <2> HIDE DEF v
  <2>1. Judged(j, row, table) = [row EXCEPT !.post = a, !.postCategory = b]
    BY <1>1, <1>3, Zenon
  <2> QED  BY <2>1
<1>5. RowTyped(q)
  BY DEF RowTyped, JobRow
<1> HIDE DEF q
<1>6. RowTyped(z)
  BY <1>5 DEF RowTyped, JobRow
<1> QED  BY <1>4, <1>6, Zenon

LEMMA NotStoredTyped == RowTyped(NotStored)
BY FormsAssumption DEF RowTyped, JobRow, NotStored

LEMMA NewRowTyped ==
  ASSUME SnapOK, SnapTyped, NEW r \in Runs, NEW j
  PROVE  RowTyped(NewRow(r, j))
<1> DEFINE c == ClassifyPre(Raw[j], snap[r].rules, snap[r].cats)
<1>1. NewRow(r, j) = [NotStored EXCEPT !.class = c.class, !.category = c.category,
                                       !.suggested = c.suggested, !.by = c.by]
  BY Zenon DEF NewRow
<1>2. Classification(c)
  <2>1. PICK table, cs : table = snap[r].rules /\ cs = snap[r].cats
    OBVIOUS
  <2>2. /\ TableOK(table) /\ table \subseteq Rule /\ CatsTyped(cs)
        /\ \A q \in table : q.stage = "PRE_DESCRIPTION"
    BY <2>1 DEF SnapOK, SnapTyped
  <2> QED  BY <2>1, <2>2, ClassifyTyped
<1> HIDE DEF c
<1>3. PICK v \in {"AUTO_KEEP", "REVIEW", "AUTO_EXCLUDE"}, w \in CategoryKeys,
           x \in Suggestions, y \in SUBSET Nat :
        v = c.class /\ w = c.category /\ x = c.suggested /\ y = c.by
  BY <1>2 DEF Classification
<1> DEFINE m == [NotStored EXCEPT !.class = v]
           o == [m EXCEPT !.category = w]
           p == [o EXCEPT !.suggested = x]
           q == [p EXCEPT !.by = y]
<1>4. NewRow(r, j) = q
  <2>1. NewRow(r, j) = [NotStored EXCEPT !.class = v, !.category = w, !.suggested = x, !.by = y]
    BY <1>1, <1>3, Zenon
  <2> QED  BY <2>1
<1>5. m \in JobRow
  BY NotStoredTyped DEF RowTyped, JobRow
<1> HIDE DEF m
<1>6. o \in JobRow
  BY <1>5 DEF JobRow
<1> HIDE DEF o
<1>7. p \in JobRow /\ p.suggested = x
  BY <1>6 DEF JobRow, Suggestions
<1> HIDE DEF p
<1>8. q \in JobRow /\ q.suggested = x
  BY <1>7 DEF JobRow
<1> HIDE DEF q
<1>9. RowTyped(q)
  BY <1>8 DEF RowTyped, Suggestions
<1> QED  BY <1>4, <1>9, Zenon

LEMMA RowRewritten ==
  ASSUME RowsTyped, NEW j \in Postings, NEW z, RowTyped(z), job' = [job EXCEPT ![j] = z]
  PROVE  RowsTyped'
<1>1. job' = [k \in Postings |-> IF k = j THEN z ELSE job[k]]
  BY DEF RowsTyped
<1> QED  BY <1>1 DEF RowsTyped

LEMMA DecisionTyped ==
  ASSUME RowsTyped, NEW S, NEW d \in {"KEEP", "EXCLUDE"},
         job' = WithDecision(S, d, job) \/ job' = WithOverride(S, d, job)
  PROVE  RowsTyped'
<1> DEFINE E(j) == [job[j] EXCEPT !.human = d]
<1>1. \A j \in Postings : RowTyped(E(j))
  BY ColumnSet DEF RowsTyped
<1>2. CASE job' = WithDecision(S, d, job)
  <2>1. job' = [j \in Postings |-> IF j \in S /\ job[j].human = "" THEN E(j) ELSE job[j]]
    BY <1>2, Zenon DEF WithDecision
  <2> HIDE DEF E
  <2> QED  BY <1>1, <2>1 DEF RowsTyped
<1>3. CASE job' = WithOverride(S, d, job)
  <2>1. job' = [j \in Postings |-> IF j \in S /\ ~Locked(job[j]) THEN E(j) ELSE job[j]]
    BY <1>3, Zenon DEF WithOverride
  <2> HIDE DEF E
  <2> QED  BY <1>1, <2>1 DEF RowsTyped
<1> QED  BY <1>2, <1>3

LEMMA ReappliesTyped ==
  ASSUME TablesOK, TablesTyped, RowsTyped, ReapplyMetadata \/ ReapplyPostAi
  PROVE  RowsTyped'
<1>1. CASE ReapplyMetadata
  <2>1. PICK now : now = Loaded(rules, "METADATA_GATE")
    OBVIOUS
  <2>2. TableOK(now)
    BY <2>1, LoadedTable DEF TablesOK
  <2> DEFINE V(j) == GateVerdict(job[j].class, job[j].human, Row(j), now)
             E(j) == [job[j] EXCEPT !.gate = V(j)]
  <2>3. job' = [j \in Postings |-> IF job[j].details = "FETCHED" THEN E(j) ELSE job[j]]
    BY <1>1, <2>1, Zenon DEF ReapplyMetadata
  <2>4. ASSUME NEW j \in Postings PROVE RowTyped(E(j))
    <3>1. PICK v \in {"PASS", "REJECT"} : v = V(j)
      BY <2>2, GateTyped
    <3>2. RowTyped([job[j] EXCEPT !.gate = v])
      BY ColumnSet DEF RowsTyped
    <3> QED  BY <3>1, <3>2
  <2> HIDE DEF E
  <2> QED  BY <2>3, <2>4 DEF RowsTyped
<1>2. CASE ReapplyPostAi
  <2>1. PICK now : now = Loaded(rules, "POST_AI")
    OBVIOUS
  <2>2. TableOK(now) /\ now \subseteq Rule
    BY <2>1, LoadedTable DEF TablesOK, TablesTyped, Loaded
  <2>3. job' = [j \in Postings |-> IF job[j].ai = "EXTRACTED"
                                   THEN Judged(j, job[j], now) ELSE job[j]]
    BY <1>2, <2>1, Zenon DEF ReapplyPostAi
  <2>4. \A j \in Postings : RowTyped(Judged(j, job[j], now))
    BY <2>2, JudgedTyped DEF RowsTyped
  <2> QED  BY <2>3, <2>4 DEF RowsTyped
<1> QED  BY <1>1, <1>2

LEMMA StoreRunTyped ==
  ASSUME SnapOK, SnapTyped, RowsTyped, NEW r \in Runs, StoreRun(r)
  PROVE  RowsTyped'
<1>1. PICK found : job' = [j \in Postings |-> IF j \in found /\ ~Exists(j)
                                              THEN NewRow(r, j) ELSE job[j]]
  BY Zenon DEF StoreRun
<1>2. \A j \in Postings : RowTyped(NewRow(r, j))
  BY NewRowTyped
<1> QED  BY <1>1, <1>2 DEF RowsTyped

LEMMA PipelineTyped ==
  ASSUME IInv, TablesOK, TablesTyped, RowsTyped, WorkTyped, NEW j \in Postings,
         FetchDetails(j) \/ PersistGate \/ Extract(j) \/ RunPostAi(j)
  PROVE  RowsTyped'
<1>1. CASE FetchDetails(j)
  <2>1. PICK d \in {"", "FETCHED", "UNAVAILABLE"} : job' = [job EXCEPT ![j].details = d]
    BY <1>1, Zenon DEF FetchDetails
  <2> DEFINE z == [job[j] EXCEPT !.details = d]
  <2>2. RowTyped(z)
    BY ColumnSet DEF RowsTyped
  <2>3. job' = [job EXCEPT ![j] = z]
    BY <2>1
  <2> HIDE DEF z
  <2> QED  BY <2>2, <2>3, RowRewritten
<1>2. CASE PersistGate
  <2>1. PICK i \in Postings : i = gate.posting
    BY <1>2 DEF PersistGate, IInv, WorkOK, GateOK
  <2>2. PICK v \in {"", "PASS", "REJECT"} : v = gate.verdict
    BY DEF WorkTyped
  <2> DEFINE z == [job[i] EXCEPT !.gate = v]
  <2>3. RowTyped(z)
    BY ColumnSet DEF RowsTyped
  <2>4. job' = [job EXCEPT ![gate.posting].gate = gate.verdict]
    BY <1>2, Zenon DEF PersistGate
  <2>5. job' = [job EXCEPT ![i] = z]
    BY <2>1, <2>2, <2>4
  <2> HIDE DEF z
  <2> QED  BY <2>3, <2>5, RowRewritten
<1>3. CASE Extract(j)
  <2> DEFINE z == [job[j] EXCEPT !.ai = "EXTRACTED"]
  <2>1. job' = [job EXCEPT ![j] = z]
    BY <1>3, Zenon DEF Extract
  <2>2. RowTyped(z)
    BY ColumnSet DEF RowsTyped
  <2> HIDE DEF z
  <2> QED  BY <2>1, <2>2, RowRewritten
<1>4. CASE RunPostAi(j)
  <2>1. PICK now : now = Loaded(rules, "POST_AI")
    OBVIOUS
  <2>2. TableOK(now) /\ now \subseteq Rule
    BY <2>1, LoadedTable DEF TablesOK, TablesTyped, Loaded
  <2>3. PICK z : z = Judged(j, job[j], now)
    OBVIOUS
  <2>4. job' = [job EXCEPT ![j] = z]
    BY <1>4, <2>1, <2>3, Zenon DEF RunPostAi
  <2>5. RowTyped(z)
    BY <2>2, <2>3, JudgedTyped DEF RowsTyped
  <2> QED  BY <2>4, <2>5, RowRewritten
<1> QED  BY <1>1, <1>2, <1>3, <1>4

-----------------------------------------------------------------------------
(* The searches and the workers.                                             *)

LEMMA NoSnapshotTyped ==
  /\ NoSnapshot = [rules |-> NoSnapshot.rules, cats |-> NoSnapshot.cats,
                   lessons |-> NoSnapshot.lessons]
  /\ NoSnapshot.rules = {} /\ NoSnapshot.lessons = {} /\ CatsTyped(NoSnapshot.cats)
<1>1. /\ NoSnapshot.rules = {} /\ NoSnapshot.lessons = {} /\ NoSnapshot.cats = <<>>
      /\ NoSnapshot = [rules |-> NoSnapshot.rules, cats |-> NoSnapshot.cats,
                       lessons |-> NoSnapshot.lessons]
  BY DEF NoSnapshot
<1>2. CatsTyped(<<>>)
  BY DEF CatsTyped
<1> QED  BY <1>1, <1>2

LEMMA SearchTyped ==
  ASSUME LInv, TablesTyped, SnapTyped, WorkTyped, NEW r \in Runs,
         StartRun(r) \/ StoreRun(r) \/ FinishRun(r) \/ FailRun(r)
  PROVE  SnapTyped' /\ WorkTyped'
<1> DEFINE SnapOf(s) ==
             /\ s = [rules |-> s.rules, cats |-> s.cats, lessons |-> s.lessons]
             /\ s.rules \subseteq Rule /\ CatsTyped(s.cats) /\ s.lessons \subseteq LessonType
             /\ \A q \in s.rules : q.stage = "PRE_DESCRIPTION"
<1>1. snap = [q \in Runs |-> snap[q]]
  BY DEF LInv, SnapOK
<1>2. ASSUME NEW s, SnapOf(s), snap' = [snap EXCEPT ![r] = s] PROVE SnapTyped'
  BY <1>1, <1>2 DEF SnapTyped
<1>3. SnapTyped'
  <2>1. CASE StartRun(r)
    <3>1. PICK s : s = [rules |-> Loaded(rules, "PRE_DESCRIPTION"),
                        cats |-> cats, lessons |-> lessons]
      OBVIOUS
    <3>2. snap' = [snap EXCEPT ![r] = s]
      BY <2>1, <3>1, Zenon DEF StartRun
    <3>3. SnapOf(s)
      BY <3>1 DEF TablesTyped, Loaded
    <3> HIDE DEF SnapOf
    <3> QED  BY <1>2, <3>2, <3>3
  <2>2. CASE StoreRun(r) \/ FailRun(r)
    <3>1. PICK s : s = NoSnapshot
      OBVIOUS
    <3>2. snap' = [snap EXCEPT ![r] = s]
      BY <2>2, <3>1, Zenon DEF StoreRun, FailRun
    <3>3. SnapOf(s)
      BY <3>1, NoSnapshotTyped
    <3> HIDE DEF SnapOf
    <3> QED  BY <1>2, <3>2, <3>3
  <2>3. CASE FinishRun(r)
    <3>1. UNCHANGED snap
      BY <2>3, Zenon DEF FinishRun
    <3> QED  BY <3>1 DEF SnapTyped
  <2> QED  BY <2>1, <2>2, <2>3
<1>4. run' \in [Runs -> {"", "RUNNING", "STORED", "SUCCESS", "FAILED"}]
  <2>1. PICK s \in {"RUNNING", "STORED", "SUCCESS", "FAILED"} : run' = [run EXCEPT ![r] = s]
    BY Zenon DEF StartRun, StoreRun, FinishRun, FailRun
  <2> QED  BY <2>1 DEF WorkTyped
<1>5. hits' \in [Runs -> SUBSET Postings]
  <2>1. CASE StoreRun(r)
    <3>1. PICK found \in Returns : hits' = [hits EXCEPT ![r] = found]
      BY <2>1, Zenon DEF StoreRun
    <3>2. found \in SUBSET Postings
      BY RuleBookAssumption
    <3> QED  BY <3>1, <3>2 DEF WorkTyped
  <2>2. CASE StartRun(r) \/ FinishRun(r) \/ FailRun(r)
    <3>1. UNCHANGED hits
      BY <2>2, Zenon DEF StartRun, FinishRun, FailRun
    <3> QED  BY <3>1 DEF WorkTyped
  <2> QED  BY <2>1, <2>2
<1>6. UNCHANGED <<gate, edits>>
  BY Zenon DEF StartRun, StoreRun, FinishRun, FailRun, worker
<1>7. faults' \in 0..MaxFaults
  <2>1. CASE FailRun(r)
    <3>1. faults < MaxFaults /\ faults' = faults + 1
      BY <2>1, Zenon DEF FailRun
    <3>2. MaxFaults \in Nat /\ faults \in 0..MaxFaults
      BY RuleBookAssumption DEF WorkTyped
    <3> QED  BY <3>1, <3>2
  <2>2. CASE StartRun(r) \/ StoreRun(r) \/ FinishRun(r)
    <3>1. UNCHANGED faults
      BY <2>2, Zenon DEF StartRun, StoreRun, FinishRun
    <3> QED  BY <3>1 DEF WorkTyped
  <2> QED  BY <2>1, <2>2
<1>8. WorkTyped'
  BY <1>4, <1>5, <1>6, <1>7, Zenon DEF WorkTyped
<1> QED  BY <1>3, <1>8

LEMMA EditTyped ==
  ASSUME WorkTyped, Edit \/ UNCHANGED edits, UNCHANGED <<run, hits, gate, faults>>
  PROVE  WorkTyped'
<1>1. edits' \in 0..MaxEdits
  <2>1. MaxEdits \in Nat /\ edits \in 0..MaxEdits
    BY RuleBookAssumption DEF WorkTyped
  <2>2. edits' = edits \/ (edits < MaxEdits /\ edits' = edits + 1)
    BY Zenon DEF Edit
  <2> QED  BY <2>1, <2>2
<1> QED  BY <1>1, Zenon DEF WorkTyped

LEMMA LoadForGateTyped ==
  ASSUME TablesOK, WorkTyped, NEW j \in Postings, LoadForGate(j)
  PROVE  WorkTyped'
<1>1. PICK now : now = Loaded(rules, "METADATA_GATE")
  OBVIOUS
<1>2. TableOK(now)
  BY <1>1, LoadedTable DEF TablesOK
<1>3. PICK v \in {"PASS", "REJECT"} : v = GateVerdict(job[j].class, job[j].human, Row(j), now)
  BY <1>2, GateTyped
<1>4. gate' = [posting |-> j, verdict |-> v]
  BY <1>1, <1>3, Zenon DEF LoadForGate
<1>5. j \in 0..NumPostings
  BY RuleBookAssumption DEF Postings
<1>6. UNCHANGED <<run, hits, edits, faults>>
  BY Zenon DEF LoadForGate, search
<1> QED  BY <1>4, <1>5, <1>6 DEF WorkTyped

-----------------------------------------------------------------------------
(* The pages.                                                                *)

LEMMA GroupsFew ==
  ASSUME NEW S, Groups(S)
  PROVE  IsFiniteSet(S) /\ Cardinality(S) \in 0..NumPostings
<1> DEFINE f == [a \in S |-> FirstOf(a)]
<1>1. \A a \in S : FirstOf(a) \in Postings
  BY FirstOfIs DEF Groups
<1>2. f \in Injection(S, Postings)
  BY <1>1, FirstOfTells DEF Injection, IsInjective
<1>3. IsFiniteSet(Postings) /\ Cardinality(Postings) = NumPostings
  BY FS_Interval, RuleBookAssumption DEF Postings
<1> HIDE DEF f
<1>4. IsFiniteSet(S) /\ Cardinality(S) <= NumPostings
  BY <1>2, <1>3, FS_Injection
<1> QED  BY <1>4, FS_CardinalityType, RuleBookAssumption

LEMMA ClampIs ==
  ASSUME NEW rows, Groups(rows), NEW n \in PageSizes, NEW p \in Nat
  PROVE  /\ Clamp(p, rows, n) \in 0..NumPostings
         /\ Clamp(p, rows, n) < Pages(rows, n)
<1>1. n \in Nat \ {0}
  BY InboxAssumption
<1>2. PICK m : m = Cardinality(rows)
  OBVIOUS
<1>3. m \in 0..NumPostings /\ (rows # {} => m # 0)
  BY <1>2, GroupsFew, FS_EmptySet
<1>4. PICK k : k = Pages(rows, n)
  OBVIOUS
<1>5. k = IF rows = {} THEN 1 ELSE (m - 1) \div n + 1
  BY <1>2, <1>4 DEF Pages
<1>6. k \in Nat /\ 1 <= k /\ k - 1 <= NumPostings
  <2>1. CASE rows = {}
    BY <1>5, <2>1, RuleBookAssumption
  <2>2. CASE rows # {}
    <3>1. m - 1 \in Nat
      BY <1>3, <2>2, RuleBookAssumption
    <3>2. (m - 1) \div n \in 0..(m - 1)
      BY <1>1, <3>1
    <3>3. k = (m - 1) \div n + 1
      BY <1>5, <2>2
    <3>4. PICK d \in 0..(m - 1) : k = d + 1
      BY <3>2, <3>3
    <3> QED  BY <1>3, <3>1, <3>4, RuleBookAssumption
  <2> QED  BY <2>1, <2>2
<1>7. Clamp(p, rows, n) = IF p < k - 1 THEN p ELSE k - 1
  BY <1>4 DEF Clamp, Least
<1> QED  BY <1>4, <1>6, <1>7, RuleBookAssumption

\* The page's globals after a refresh.
LEMMA RefreshTyped ==
  ASSUME NEW v \in Views, NEW scopes \in [Views -> Scopes], NEW n \in PageSizes,
         NEW p \in Nat, NEW f \in Filters \cup {NoFilter}, Refresh(v, scopes, n, p, f)
  PROVE  /\ scopeOf' \in [Views -> Scopes] /\ size' \in PageSizes
         /\ page' \in 0..NumPostings /\ filter' \in Filters \cup {NoFilter}
<1>1. PICK s : s = IF scopes[v] \in Options(run') THEN scopes[v] ELSE LatestRun
  OBVIOUS
<1>2. PICK rows : rows = Matching(v, s, f, job', run', hits', rules')
  OBVIOUS
<1>3. PICK o : o = IF s = scopes[v] THEN p ELSE 0
  OBVIOUS
<1>4. /\ size' = n /\ filter' = f /\ page' = Clamp(o, rows, n)
      /\ scopeOf' = [scopes EXCEPT ![v] = s]
  BY <1>1, <1>2, <1>3, Zenon DEF Refresh
<1>5. s \in Scopes
  BY <1>1 DEF Scopes
<1>6. o \in Nat
  BY <1>3
<1>7. Clamp(o, rows, n) \in 0..NumPostings
  BY <1>2, <1>6, MatchingGroups, ClampIs
<1> QED  BY <1>4, <1>5, <1>7

-----------------------------------------------------------------------------
(* The types hold in every state.                                            *)

LEMMA TablesTypeStays ==
  ASSUME TablesTyped, UNCHANGED tables
  PROVE  TablesTyped'
<1>1. UNCHANGED <<rules, cats, lessons>>
  BY DEF tables
<1> QED  BY <1>1 DEF TablesTyped, CatsTyped

LEMMA SnapTypeStays ==
  ASSUME SnapTyped, UNCHANGED snap
  PROVE  SnapTyped'
BY Zenon DEF SnapTyped

LEMMA RowsTypeStay ==
  ASSUME RowsTyped, UNCHANGED job
  PROVE  RowsTyped'
BY Zenon DEF RowsTyped

LEMMA WorkTypeStays ==
  ASSUME WorkTyped, UNCHANGED <<run, hits, gate, edits, faults>>
  PROVE  WorkTyped'
BY Zenon DEF WorkTyped

LEMMA PagesTypeStay ==
  ASSUME PagesTyped, UNCHANGED <<scopeOf, size, page, filter, session, moves>>
  PROVE  PagesTyped'
BY Zenon DEF PagesTyped

LEMMA BookTypesStay ==
  ASSUME TInv, UNCHANGED bookVars
  PROVE  TablesTyped' /\ SnapTyped' /\ RowsTyped' /\ WorkTyped'
<1>1. UNCHANGED tables /\ UNCHANGED <<job, run, hits, snap, gate, edits, faults>>
  BY DEF bookVars, search, worker
<1> QED  BY <1>1, TablesTypeStays, SnapTypeStays, RowsTypeStay, WorkTypeStays DEF TInv

LEMMA InboxTypesStay ==
  ASSUME PagesTyped, UNCHANGED inboxVars
  PROVE  PagesTyped'
<1>1. UNCHANGED <<scopeOf, size, page, filter, session, moves>>
  BY DEF inboxVars, controls
<1> QED  BY <1>1, PagesTypeStay

LEMMA RefreshAllTyped ==
  ASSUME IInv, PagesTyped, RefreshAll, UNCHANGED <<session, moves>>
  PROVE  PagesTyped'
<1>1. view \in Views /\ page \in Nat
  BY RuleBookAssumption DEF IInv, GridsOK, PagesTyped
<1>2. Refresh(view, scopeOf, size, page, filter)
  BY DEF RefreshAll
<1>3. scopeOf \in [Views -> Scopes] /\ size \in PageSizes /\ filter \in Filters \cup {NoFilter}
  BY DEF PagesTyped
<1>4. /\ scopeOf' \in [Views -> Scopes] /\ size' \in PageSizes
      /\ page' \in 0..NumPostings /\ filter' \in Filters \cup {NoFilter}
  BY <1>1, <1>2, <1>3, RefreshTyped
<1> QED  BY <1>4, Zenon DEF PagesTyped

\* The handlers of the page's controls: what each refreshes with.
LEMMA MoveRefreshes ==
  ASSUME IInv, PagesTyped, Browse \/ Paging
  PROVE  /\ \E v \in Views, scopes \in [Views -> Scopes], n \in PageSizes, p \in Nat,
               f \in Filters \cup {NoFilter} : Refresh(v, scopes, n, p, f)
         /\ Move /\ UNCHANGED <<bookVars, picked, panels, session>>
<1>1. view \in Views
  BY DEF IInv, GridsOK
<1>2. /\ scopeOf \in [Views -> Scopes] /\ size \in PageSizes /\ page \in Nat
      /\ filter \in Filters \cup {NoFilter}
  BY RuleBookAssumption DEF PagesTyped
<1>3. 0 \in Nat /\ page + 1 \in Nat /\ (page > 0 => page - 1 \in Nat)
  BY <1>2
<1>4. CASE PreviousPage
  <2>1. page > 0 /\ Refresh(view, scopeOf, size, page - 1, filter)
    BY <1>4, Zenon DEF PreviousPage
  <2>2. Move /\ UNCHANGED <<bookVars, picked, panels, session>>
    BY <1>4, Zenon DEF PreviousPage
  <2> QED  BY <1>1, <1>2, <1>3, <2>1, <2>2, Zenon
<1>5. CASE NextPage
  <2>1. Refresh(view, scopeOf, size, page + 1, filter)
    BY <1>5, Zenon DEF NextPage
  <2>2. Move /\ UNCHANGED <<bookVars, picked, panels, session>>
    BY <1>5, Zenon DEF NextPage
  <2> QED  BY <1>1, <1>2, <1>3, <2>1, <2>2, Zenon
<1>6. CASE ScopeChanged
  <2>1. PICK s \in Options(run) : Refresh(view, [scopeOf EXCEPT ![view] = s], size, 0, filter)
    BY <1>6, Zenon DEF ScopeChanged
  <2>2. s \in Scopes
    BY DEF Options, Scopes
  <2>3. PICK scopes \in [Views -> Scopes] : scopes = [scopeOf EXCEPT ![view] = s]
    BY <1>1, <1>2, <2>2
  <2>4. Refresh(view, scopes, size, 0, filter)
    BY <2>1, <2>3, Zenon
  <2>5. Move /\ UNCHANGED <<bookVars, picked, panels, session>>
    BY <1>6, Zenon DEF ScopeChanged
  <2> QED  BY <1>1, <1>2, <1>3, <2>4, <2>5, Zenon
<1>7. CASE ViewChanged
  <2>1. PICK v \in Views : Refresh(v, scopeOf, size, 0, filter)
    BY <1>7, Zenon DEF ViewChanged
  <2>2. Move /\ UNCHANGED <<bookVars, picked, panels, session>>
    BY <1>7, Zenon DEF ViewChanged
  <2> QED  BY <1>2, <1>3, <2>1, <2>2, Zenon
<1>8. CASE PageSizeChanged
  <2>1. PICK n \in PageSizes : Refresh(view, scopeOf, n, 0, filter)
    BY <1>8, Zenon DEF PageSizeChanged
  <2>2. Move /\ UNCHANGED <<bookVars, picked, panels, session>>
    BY <1>8, Zenon DEF PageSizeChanged
  <2> QED  BY <1>1, <1>2, <1>3, <2>1, <2>2, Zenon
<1>9. CASE FilterChanged
  <2>1. PICK f \in Filters \cup {NoFilter} : Refresh(view, scopeOf, size, 0, f)
    BY <1>9, Zenon DEF FilterChanged
  <2>2. Move /\ UNCHANGED <<bookVars, picked, panels, session>>
    BY <1>9, Zenon DEF FilterChanged
  <2> QED  BY <1>1, <1>2, <1>3, <2>1, <2>2, Zenon
<1> QED  BY <1>4, <1>5, <1>6, <1>7, <1>8, <1>9 DEF Browse, Paging

LEMMA MoveTyped ==
  ASSUME IInv, TInv, Browse \/ Paging
  PROVE  TInv'
<1>1. /\ \E v \in Views, scopes \in [Views -> Scopes], n \in PageSizes, p \in Nat,
            f \in Filters \cup {NoFilter} : Refresh(v, scopes, n, p, f)
      /\ Move /\ UNCHANGED <<bookVars, picked, panels, session>>
  BY MoveRefreshes DEF TInv
<1>2. /\ scopeOf' \in [Views -> Scopes] /\ size' \in PageSizes
      /\ page' \in 0..NumPostings /\ filter' \in Filters \cup {NoFilter}
  BY <1>1, RefreshTyped, Zenon
<1>3. moves' \in 0..MaxMoves
  <2>1. moves \in 0..MaxMoves /\ MaxMoves \in Nat
    BY InboxAssumption DEF TInv, PagesTyped
  <2> QED  BY <1>1, <2>1 DEF Move
<1>4. session' \in Sessions
  BY <1>1 DEF TInv, PagesTyped
<1>5. PagesTyped'
  BY <1>2, <1>3, <1>4, Zenon DEF PagesTyped
<1>6. UNCHANGED bookVars
  BY <1>1, Zenon
<1> QED  BY <1>5, <1>6, BookTypesStay DEF TInv

LEMMA OpenTyped ==
  ASSUME TInv, NEW c \in Clients, Open(c)
  PROVE  TInv'
<1>1. page' = Clamp(page, Matching(view, scopeOf[view], filter, job, run, hits, rules), size)
  BY Zenon DEF Open
<1>2. PICK rows : rows = Matching(view, scopeOf[view], filter, job, run, hits, rules)
  OBVIOUS
<1>3. Groups(rows)
  BY <1>2, MatchingGroups
<1>4. size \in PageSizes /\ page \in Nat
  BY RuleBookAssumption DEF TInv, PagesTyped
<1>5. page' \in 0..NumPostings
  BY <1>1, <1>2, <1>3, <1>4, ClampIs
<1>6. UNCHANGED <<scopeOf, size, filter, session, moves>> /\ UNCHANGED bookVars
  BY Zenon DEF Open
<1>7. PagesTyped'
  BY <1>5, <1>6, Zenon DEF TInv, PagesTyped
<1> QED  BY <1>6, <1>7, BookTypesStay DEF TInv

\* Decide, Override and PanelDecision.
LEMMA DecidedTyped ==
  ASSUME IInv, TInv, NEW S, NEW d \in {"KEEP", "EXCLUDE"},
         job' = WithDecision(S, d, job) \/ job' = WithOverride(S, d, job),
         RefreshAll, UNCHANGED <<tables, search, worker, edits, faults, session, moves>>
  PROVE  TInv'
<1>1. RowsTyped'
  BY DecisionTyped DEF TInv
<1>2. PagesTyped'
  BY RefreshAllTyped DEF TInv
<1>3. UNCHANGED tables /\ UNCHANGED <<run, hits, snap, gate, edits, faults>>
  BY DEF search, worker
<1> QED  BY <1>1, <1>2, <1>3, TablesTypeStays, SnapTypeStays, WorkTypeStays DEF TInv

LEMMA TaughtTyped ==
  ASSUME IInv, LInv, TInv, NEW c \in Clients, NEW mode \in RuleModes, Teach(c, mode)
  PROVE  TInv'
<1>1. CASE \A row \in picked[c].rows : IsKnown(ValueOf(row, mode[1]))
  <2>1. /\ job' = WithDecision(UNION picked[c].rows, "EXCLUDE", job) /\ Edit /\ RefreshAll
        /\ UNCHANGED <<cats, search, worker, faults>> /\ UNCHANGED <<panels, session, moves>>
    BY <1>1, Zenon DEF Teach
  <2>2. TablesTyped'
    BY TeachTyped DEF TInv
  <2>3. RowsTyped'
    BY <2>1, DecisionTyped DEF TInv
  <2>4. PagesTyped'
    BY <2>1, RefreshAllTyped DEF TInv
  <2>5. UNCHANGED <<run, hits, snap, gate, faults>>
    BY <2>1 DEF search, worker
  <2>6. WorkTyped' /\ SnapTyped'
    BY <2>1, <2>5, EditTyped, SnapTypeStays DEF TInv
  <2> QED  BY <2>2, <2>3, <2>4, <2>6 DEF TInv
<1>2. CASE ~\A row \in picked[c].rows : IsKnown(ValueOf(row, mode[1]))
  <2>1. UNCHANGED <<bookVars, controls, session, moves>>
    BY <1>2, Zenon DEF Teach
  <2>2. UNCHANGED bookVars /\ UNCHANGED <<scopeOf, size, page, filter, session, moves>>
    BY <2>1 DEF controls
  <2> QED  BY <2>2, BookTypesStay, PagesTypeStay DEF TInv
<1> QED  BY <1>1, <1>2

LEMMA InboxTyped ==
  ASSUME IInv, LInv, TInv, Inbox \/ Deciding \/ Teaching \/ Panels
  PROVE  TInv'
<1>1. ASSUME NEW c \in Clients, Pick(c) PROVE TInv'
  <2>1. UNCHANGED bookVars /\ UNCHANGED controls /\ UNCHANGED <<session, moves>>
    BY <1>1, Zenon DEF Pick
  <2>2. UNCHANGED <<scopeOf, size, page, filter, session, moves>>
    BY <2>1 DEF controls
  <2> QED  BY <2>1, <2>2, BookTypesStay, PagesTypeStay DEF TInv
<1>2. ASSUME NEW c \in Clients, Decide(c) \/ Override(c) PROVE TInv'
  <2>1. PICK d \in {"KEEP", "EXCLUDE"} :
          \/ job' = WithDecision(UNION picked[c].rows, d, job)
          \/ job' = WithOverride(UNION picked[c].rows, d, job)
    BY <1>2, Zenon DEF Decide, Override
  <2>2. RefreshAll /\ UNCHANGED <<tables, search, worker, edits, faults, session, moves>>
    BY <1>2, Zenon DEF Decide, Override
  <2> QED  BY <2>1, <2>2, DecidedTyped
<1>3. ASSUME NEW v \in PanelViews, PanelDecision(v) PROVE TInv'
  <2>1. PICK S \in (SUBSET panels[v]) \ {NoRows}, d \in {"KEEP", "EXCLUDE"} :
          job' = WithOverride(UNION S, d, job)
    BY <1>3, Zenon DEF PanelDecision
  <2>2. RefreshAll /\ UNCHANGED <<tables, search, worker, edits, faults, session, moves>>
    BY <1>3, Zenon DEF PanelDecision
  <2> QED  BY <2>1, <2>2, DecidedTyped
<1>4. ASSUME OpenPanels PROVE TInv'
  <2>1. UNCHANGED bookVars /\ UNCHANGED controls /\ UNCHANGED <<session, moves>>
    BY <1>4, Zenon DEF OpenPanels
  <2>2. UNCHANGED <<scopeOf, size, page, filter, session, moves>>
    BY <2>1 DEF controls
  <2> QED  BY <2>1, <2>2, BookTypesStay, PagesTypeStay DEF TInv
<1> QED  BY <1>1, <1>2, <1>3, <1>4, OpenTyped, TaughtTyped
         DEF Inbox, Deciding, Teaching, Panels

LEMMA SearchesTyped ==
  ASSUME IInv, LInv, TInv, UNCHANGED inboxVars, NEW r \in Runs,
         StartRun(r) \/ StoreRun(r) \/ FinishRun(r) \/ FailRun(r)
  PROVE  TInv'
<1>1. SnapTyped' /\ WorkTyped'
  BY SearchTyped DEF TInv
<1>2. UNCHANGED tables
  BY Zenon DEF StartRun, StoreRun, FinishRun, FailRun
<1>3. RowsTyped'
  <2>1. CASE StoreRun(r)
    BY <2>1, StoreRunTyped DEF LInv, TInv
  <2>2. CASE StartRun(r) \/ FinishRun(r) \/ FailRun(r)
    <3>1. UNCHANGED job
      BY <2>2, Zenon DEF StartRun, FinishRun, FailRun
    <3> QED  BY <3>1, RowsTypeStay DEF TInv
  <2> QED  BY <2>1, <2>2
<1> QED  BY <1>1, <1>2, <1>3, TablesTypeStays, InboxTypesStay DEF TInv

LEMMA EditsTyped ==
  ASSUME LInv, TInv, UNCHANGED inboxVars, RulesPage \/ Settings
  PROVE  TInv'
<1>1. CASE ReapplyMetadata \/ ReapplyPostAi
  <2>1. UNCHANGED <<tables, search, worker, edits, faults>>
    BY <1>1, Zenon DEF ReapplyMetadata, ReapplyPostAi
  <2>2. UNCHANGED tables /\ UNCHANGED <<run, hits, snap, gate, edits, faults>>
    BY <2>1 DEF search, worker
  <2>3. RowsTyped'
    BY <1>1, ReappliesTyped DEF LInv, TInv
  <2> QED  BY <2>2, <2>3, TablesTypeStays, SnapTypeStays, WorkTypeStays, InboxTypesStay
           DEF TInv
<1>2. ASSUME TablesTyped', Edit, UNCHANGED <<job, search, worker, faults>> PROVE TInv'
  <2>1. UNCHANGED job /\ UNCHANGED <<run, hits, snap, gate, faults>>
    BY <1>2 DEF search, worker
  <2>2. WorkTyped'
    BY <1>2, <2>1, EditTyped DEF TInv
  <2> QED  BY <1>2, <2>1, <2>2, SnapTypeStays, RowsTypeStay, InboxTypesStay DEF TInv
<1>3. ASSUME AddRule PROVE TInv'
  <2>1. TablesTyped'
    BY <1>3, AddRuleTyped DEF LInv, TInv
  <2>2. Edit /\ UNCHANGED <<job, search, worker, faults>>
    BY <1>3, Zenon DEF AddRule
  <2> QED  BY <1>2, <2>1, <2>2
<1>4. ASSUME NEW S, NEW on \in BOOLEAN, EnableRules(S, on) PROVE TInv'
  <2>1. TablesTyped'
    BY <1>4, EnableRulesTyped DEF TInv
  <2>2. Edit /\ UNCHANGED <<job, search, worker, faults>>
    BY <1>4, Zenon DEF EnableRules
  <2> QED  BY <1>2, <2>1, <2>2
<1>5. ASSUME SaveCategory PROVE TInv'
  <2>1. TablesTyped'
    BY <1>5, SaveCategoryTyped DEF TInv
  <2>2. Edit /\ UNCHANGED <<job, search, worker, faults>>
    BY <1>5, Zenon DEF SaveCategory
  <2> QED  BY <1>2, <2>1, <2>2
<1>6. ASSUME NEW S, NEW on \in BOOLEAN, EnableCategories(S, on) PROVE TInv'
  <2>1. TablesTyped'
    BY <1>6, EnableCategoriesTyped DEF TInv
  <2>2. Edit /\ UNCHANGED <<job, search, worker, faults>>
    BY <1>6, Zenon DEF EnableCategories
  <2> QED  BY <1>2, <2>1, <2>2
<1> QED  BY <1>1, <1>3, <1>4, <1>5, <1>6, Zenon DEF RulesPage, Settings

LEMMA WorkersTyped ==
  ASSUME IInv, LInv, TInv, UNCHANGED inboxVars, Fetching \/ Gating \/ Extracting
  PROVE  TInv'
<1>1. CASE LoadForDetails
  <2>1. UNCHANGED <<tables, job, search, gate, edits, faults>>
    BY <1>1, Zenon DEF LoadForDetails
  <2>2. UNCHANGED tables /\ UNCHANGED job /\ UNCHANGED <<run, hits, snap, gate, edits, faults>>
    BY <2>1 DEF search
  <2> QED  BY <2>2, TablesTypeStays, SnapTypeStays, RowsTypeStay, WorkTypeStays, InboxTypesStay
           DEF TInv
<1>2. ASSUME NEW j \in Postings, LoadForGate(j) PROVE TInv'
  <2>1. UNCHANGED <<tables, job, search, fetching, edits, faults>>
    BY <1>2, Zenon DEF LoadForGate
  <2>2. UNCHANGED tables /\ UNCHANGED <<job, snap>>
    BY <2>1 DEF search
  <2>3. WorkTyped'
    BY <1>2, LoadForGateTyped DEF LInv, TInv
  <2> QED  BY <2>2, <2>3, TablesTypeStays, SnapTypeStays, RowsTypeStay, InboxTypesStay DEF TInv
<1>3. ASSUME NEW j \in Postings, FetchDetails(j) \/ PersistGate \/ Extract(j) \/ RunPostAi(j)
      PROVE  TInv'
  <2>1. RowsTyped'
    BY <1>3, PipelineTyped DEF LInv, TInv
  <2>2. UNCHANGED tables /\ UNCHANGED search /\ UNCHANGED <<edits, faults>>
    BY <1>3, Zenon DEF FetchDetails, PersistGate, Extract, RunPostAi
  <2>3. UNCHANGED gate \/ gate' = NoGate
    <3>1. CASE FetchDetails(j) \/ PersistGate
      BY <3>1, Zenon DEF FetchDetails, PersistGate
    <3>2. CASE Extract(j) \/ RunPostAi(j)
      <4>1. UNCHANGED worker
        BY <3>2, Zenon DEF Extract, RunPostAi
      <4> QED  BY <4>1 DEF worker
    <3> QED  BY <1>3, <3>1, <3>2
  <2>4. gate' \in [posting : 0..NumPostings, verdict : {"", "PASS", "REJECT"}]
    <3>1. 0 \in 0..NumPostings
      BY RuleBookAssumption
    <3>2. NoGate \in [posting : 0..NumPostings, verdict : {"", "PASS", "REJECT"}]
      BY <3>1 DEF NoGate
    <3>3. gate \in [posting : 0..NumPostings, verdict : {"", "PASS", "REJECT"}]
      BY DEF TInv, WorkTyped
    <3> QED  BY <2>3, <3>2, <3>3, Zenon
  <2>5. UNCHANGED <<run, hits, snap, edits, faults>>
    BY <2>2 DEF search
  <2>6. WorkTyped'
    BY <2>4, <2>5, Zenon DEF TInv, WorkTyped
  <2> QED  BY <2>1, <2>2, <2>5, <2>6, TablesTypeStays, SnapTypeStays, InboxTypesStay DEF TInv
<1>4. CASE PersistGate
  <2>1. PICK j \in Postings : TRUE
    BY <1>4 DEF PersistGate, IInv, WorkOK, GateOK
  <2> QED  BY <1>3, <1>4
<1> QED  BY <1>1, <1>2, <1>3, <1>4 DEF Fetching, Gating, Extracting

LEMMA TInvInit == Init => TInv
<1> SUFFICES ASSUME Init PROVE TInv
  OBVIOUS
<1>1. TablesTyped
  BY RuleBookAssumption, FormsAssumption DEF Init, BookInit, TablesTyped, CatsTyped
<1>2. SnapTyped
  <2>1. \A r \in Runs : snap[r] = NoSnapshot
    BY DEF Init, BookInit
  <2> QED  BY <2>1, NoSnapshotTyped DEF SnapTyped
<1>3. RowsTyped
  BY NotStoredTyped DEF Init, BookInit, RowsTyped
<1>4. WorkTyped
  <2>1. 0 \in 0..NumPostings /\ 0 \in 0..MaxEdits /\ 0 \in 0..MaxFaults
    BY RuleBookAssumption
  <2>2. /\ run = [r \in Runs |-> ""] /\ hits = [r \in Runs |-> {}]
        /\ gate = [posting |-> 0, verdict |-> ""] /\ edits = 0 /\ faults = 0
    BY Zenon DEF Init, BookInit, NoGate
  <2> QED  BY <2>1, <2>2 DEF WorkTyped
<1>5. PagesTyped
  BY RuleBookAssumption, InboxAssumption DEF Init, InboxInit, PagesTyped, Scopes
<1> QED  BY <1>1, <1>2, <1>3, <1>4, <1>5 DEF TInv

LEMMA TInvStep == IInv /\ LInv /\ TInv /\ [Next]_vars => TInv'
<1> SUFFICES ASSUME IInv, LInv, TInv, [Next]_vars PROVE TInv'
  OBVIOUS
<1>1. CASE UNCHANGED vars
  <2>1. UNCHANGED bookVars /\ UNCHANGED inboxVars
    BY <1>1 DEF vars
  <2> QED  BY <2>1, BookTypesStay, InboxTypesStay DEF TInv
<1>2. 1 \in Runs
  BY InboxAssumption, RuleBookAssumption DEF Runs
<1>3. CASE /\ Search({1}) \/ Search(Runs \ {1}) \/ \E r \in Runs : FailRun(r)
           /\ UNCHANGED inboxVars
  <2>1. PICK r \in Runs : StartRun(r) \/ StoreRun(r) \/ FinishRun(r) \/ FailRun(r)
    BY <1>2, <1>3, Zenon DEF Search
  <2> QED  BY <1>3, <2>1, SearchesTyped
<1> QED  BY <1>1, <1>3, InboxTyped, MoveTyped, EditsTyped, WorkersTyped, Zenon DEF Next

LEMMA TypesInvariant == Spec => [](IInv /\ LInv /\ TInv)
<1>1. Init => IInv /\ LInv /\ TInv
  BY IInvInit, LInvInit, TInvInit
<1>2. (IInv /\ LInv /\ TInv) /\ [Next]_vars => (IInv /\ LInv /\ TInv)'
  BY IInvStep, LInvStep, TInvStep
<1> QED  BY <1>1, <1>2, PTL DEF Spec

\* The types of the tables, the postings, the searches, the workers, the grids
\* and the page's globals: every write of these modules keeps them, a page number
\* stays in range of a page, and no rule has an action its stage does not know.
THEOREM InboxTypes == Spec => []TypeOK
<1>1. ASSUME IInv, LInv, TInv PROVE TypeOK
  <2>1. rules \subseteq Rule /\ cats \in [DOMAIN cats -> Category]
    BY <1>1, Zenon DEF TInv, TablesTyped, CatsTyped
  <2>2. job \in [Postings ->
          [class : {"", "AUTO_KEEP", "REVIEW", "AUTO_EXCLUDE"}, category : CategoryKeys,
           suggested : {"", "KEEP", "REVIEW", "EXCLUDE"}, by : SUBSET Nat,
           human : {"", "KEEP", "EXCLUDE"}, details : {"", "FETCHED", "UNAVAILABLE"},
           gate : {"", "PASS", "REJECT"}, ai : {"", "EXTRACTED"},
           post : {"", "SHORTLIST", "REVIEW", "REJECT"}, postCategory : CategoryKeys]]
    <3>1. job = [j \in Postings |-> job[j]] /\ \A j \in Postings : job[j] \in JobRow
      BY <1>1 DEF TInv, RowsTyped, RowTyped
    <3>2. job \in [Postings -> JobRow]
      BY <3>1
    <3> QED  BY <3>2, Zenon DEF JobRow
  <2>3. snap \in [Runs -> [rules : SUBSET Rule, cats : {snap[r].cats : r \in Runs},
                           lessons : SUBSET [field : Fields, op : Operators, text : Scalars]]]
    <3>1. PICK C : C = {snap[r].cats : r \in Runs}
      OBVIOUS
    <3>2. ASSUME NEW r \in Runs PROVE snap[r] \in [rules : SUBSET Rule, cats : C,
                                                   lessons : SUBSET LessonType]
      <4>1. PICK a, b, l : a = snap[r].rules /\ b = snap[r].cats /\ l = snap[r].lessons
        OBVIOUS
      <4>2. snap[r] = [rules |-> a, cats |-> b, lessons |-> l]
        BY <1>1, <4>1, Zenon DEF TInv, SnapTyped
      <4>3. a \in SUBSET Rule /\ b \in C /\ l \in SUBSET LessonType
        BY <1>1, <3>1, <4>1 DEF TInv, SnapTyped
      <4> QED  BY <4>2, <4>3
    <3>3. snap = [r \in Runs |-> snap[r]]
      BY <1>1 DEF LInv, SnapOK
    <3>4. snap \in [Runs -> [rules : SUBSET Rule, cats : C, lessons : SUBSET LessonType]]
      BY <3>2, <3>3
    <3> QED  BY <3>1, <3>4, Zenon DEF LessonType
  <2>4. /\ run \in [Runs -> {"", "RUNNING", "STORED", "SUCCESS", "FAILED"}]
        /\ hits \in [Runs -> SUBSET Postings]
        /\ gate \in [posting : 0..NumPostings, verdict : {"", "PASS", "REJECT"}]
        /\ edits \in 0..MaxEdits /\ faults \in 0..MaxFaults
    BY <1>1, Zenon DEF TInv, WorkTyped
  <2>5. /\ scopeOf \in [Views -> Scopes] /\ size \in PageSizes
        /\ page \in 0..NumPostings /\ filter \in Filters \cup {NoFilter}
        /\ session \in Sessions /\ moves \in 0..MaxMoves
    BY <1>1, Zenon DEF TInv, PagesTyped
  <2>6. fetching \subseteq Postings
    BY <1>1, Zenon DEF IInv, WorkOK, FetchingOK
  <2>7. /\ view \in Views
        /\ shown \in [Clients -> Grid(Postings)] /\ picked \in [Clients -> Grid(Postings)]
        /\ panels \in [PanelViews -> SUBSET (SUBSET Postings)]
    BY <1>1, Zenon DEF IInv, GridsOK
  <2> QED  BY <2>1, <2>2, <2>3, <2>4, <2>5, <2>6, <2>7, Zenon DEF TypeOK
<1> QED  BY <1>1, TypesInvariant, PTL

-----------------------------------------------------------------------------
(* In a finite total order every number of predecessors is taken.            *)

LEMMA FiniteGreatest ==
  ASSUME NEW T, IsFiniteSet(T), T # {}, NEW R \in SUBSET (T \X T),
         \A x \in T : <<x, x>> \notin R,
         \A x, y, z \in T : <<x, y>> \in R /\ <<y, z>> \in R => <<x, z>> \in R
  PROVE  \E x \in T : \A y \in T : <<x, y>> \notin R
<1>1. PICK Q : Q = {p \in T \X T : <<p[2], p[1]>> \in R}
  OBVIOUS
<1>2. \A x, y \in T : <<x, y>> \in Q <=> <<y, x>> \in R
  BY <1>1
<1>3. Q \in SUBSET (T \X T)
  BY <1>1
<1>4. \A x \in T : <<x, x>> \notin Q
  BY <1>2
<1>5. \A x, y, z \in T : <<x, y>> \in Q /\ <<y, z>> \in Q => <<x, z>> \in Q
  BY <1>2
<1>6. PICK x \in T : \A y \in T : <<y, x>> \notin Q
  BY <1>3, <1>4, <1>5, FiniteLeast
<1> QED  BY <1>2, <1>6

Below(x, S, R) == {y \in S : <<y, x>> \in R}

TotalOrder(R, S) ==
  /\ R \subseteq S \X S
  /\ \A x \in S : <<x, x>> \notin R
  /\ \A x, y, z \in S : <<x, y>> \in R /\ <<y, z>> \in R => <<x, z>> \in R
  /\ \A x, y \in S : x # y => <<x, y>> \in R \/ <<y, x>> \in R

LEMMA PlaceTaken ==
  ASSUME NEW S, IsFiniteSet(S), NEW R, TotalOrder(R, S), NEW k \in Nat, k < Cardinality(S)
  PROVE  \E x \in S : Cardinality(Below(x, S, R)) = k
<1>0. /\ R \in SUBSET (S \X S)
      /\ \A x \in S : <<x, x>> \notin R
      /\ \A x, y, z \in S : <<x, y>> \in R /\ <<y, z>> \in R => <<x, z>> \in R
      /\ \A x, y \in S : x # y => <<x, y>> \in R \/ <<y, x>> \in R
  BY DEF TotalOrder
<1> DEFINE B(x) == {y \in S : <<y, x>> \in R}
<1>1. \A x \in S : IsFiniteSet(B(x)) /\ Cardinality(B(x)) \in Nat
  <2>1. \A x : B(x) \in SUBSET S
    OBVIOUS
  <2> HIDE DEF B
  <2> QED  BY <2>1, FS_Subset, FS_CardinalityType
\* The greatest of a set that is closed downwards is preceded by all the others.
<1>2. ASSUME NEW T \in SUBSET S, T # {}, \A x \in T : B(x) \subseteq T
      PROVE  \E m \in T : B(m) = T \ {m} /\ Cardinality(B(m)) = Cardinality(T) - 1
  <2>1. IsFiniteSet(T)
    BY FS_Subset
  <2>2. PICK Q : Q = R \cap (T \X T)
    OBVIOUS
  <2>3. \A x, y \in T : <<x, y>> \in Q <=> <<x, y>> \in R
    BY <2>2
  <2>4. PICK m \in T : \A y \in T : <<m, y>> \notin Q
    <3>1. Q \in SUBSET (T \X T)
      BY <2>2
    <3>2. \A x \in T : <<x, x>> \notin Q
      BY <1>0, <2>3
    <3>3. \A x, y, z \in T : <<x, y>> \in Q /\ <<y, z>> \in Q => <<x, z>> \in Q
      BY <1>0, <2>3
    <3> QED  BY <1>2, <2>1, <3>1, <3>2, <3>3, FiniteGreatest
  <2>5. B(m) = T \ {m}
    <3>1. B(m) \subseteq T /\ m \notin B(m)
      BY <1>0, <1>2
    <3>2. \A y \in T \ {m} : y \in B(m)
      BY <1>0, <2>3, <2>4
    <3> QED  BY <3>1, <3>2
  <2>6. Cardinality(T \ {m}) = Cardinality(T) - 1
    BY <2>1, FS_RemoveElement
  <2> QED  BY <2>5, <2>6
<1>3. PICK D : D = {x \in S : k <= Cardinality(B(x))}
  OBVIOUS
<1>4. Cardinality(S) \in Nat
  BY FS_CardinalityType
<1>5. D # {}
  <2>1. S # {}
    BY FS_EmptySet
  <2>2. PICK m \in S : Cardinality(B(m)) = Cardinality(S) - 1
    BY <1>2, <2>1
  <2>3. k <= Cardinality(B(m))
    BY <1>4, <2>2
  <2> QED  BY <1>3, <2>3
<1>6. PICK x \in D : \A y \in D : <<y, x>> \notin R
  <2>1. PICK Q : Q = R \cap (D \X D)
    OBVIOUS
  <2>2. \A u, w \in D : <<u, w>> \in Q <=> <<u, w>> \in R
    BY <2>1
  <2>3. Q \in SUBSET (D \X D)
    BY <2>1
  <2>4. D \in SUBSET S
    BY <1>3
  <2>5. IsFiniteSet(D)
    BY <2>4, FS_Subset
  <2>6. \A u \in D : <<u, u>> \notin Q
    BY <1>0, <2>2, <2>4
  <2>7. \A u, w, z \in D : <<u, w>> \in Q /\ <<w, z>> \in Q => <<u, z>> \in Q
    BY <1>0, <2>2, <2>4
  <2>8. PICK u \in D : \A w \in D : <<w, u>> \notin Q
    BY <1>5, <2>3, <2>5, <2>6, <2>7, FiniteLeast
  <2> QED  BY <2>2, <2>8
<1>7. x \in S /\ k <= Cardinality(B(x))
  BY <1>3
<1>8. ASSUME k < Cardinality(B(x)) PROVE FALSE
  <2>1. B(x) \in SUBSET S /\ \A y \in B(x) : B(y) \subseteq B(x)
    BY <1>0, <1>7
  <2>2. PICK T : T = B(x)
    OBVIOUS
  <2>3. T # {}
    <3>1. k < Cardinality(T)
      BY <1>8, <2>2
    <3> QED  BY <3>1, FS_EmptySet
  <2>4. PICK y \in T : Cardinality(B(y)) = Cardinality(T) - 1
    <3>1. T \in SUBSET S /\ T # {} /\ \A y \in T : B(y) \subseteq T
      BY <2>1, <2>2, <2>3
    <3> HIDE DEF B
    <3>2. \E y \in T : B(y) = T \ {y} /\ Cardinality(B(y)) = Cardinality(T) - 1
      BY <1>2, <3>1
    <3> QED  BY <3>2
  <2>5. y \in S /\ <<y, x>> \in R
    BY <1>7, <2>2
  <2>6. k <= Cardinality(B(y))
    <3>1. PICK m : m = Cardinality(B(x))
      OBVIOUS
    <3>2. m \in Nat /\ k < m
      BY <1>1, <1>7, <1>8, <3>1
    <3>3. Cardinality(B(y)) = m - 1
      BY <2>2, <2>4, <3>1
    <3> QED  BY <3>2, <3>3
  <2>7. y \in D
    BY <1>3, <2>5, <2>6
  <2> QED  BY <1>6, <2>5, <2>7
<1>9. Cardinality(B(x)) = k
  BY <1>1, <1>7, <1>8
<1> QED  BY <1>7, <1>9 DEF Below

-----------------------------------------------------------------------------
(* The order of the rows.                                                    *)

Key1(v, row, jobs) == IF v = "PENDING" THEN Rank[RowCategory(row, jobs)] ELSE RowDecision(row, jobs)
Key2(v, row, jobs) ==
  IF v = "PENDING" THEN Order[RowSuggestion(row, jobs)] ELSE Rank[RowCategory(row, jobs)]

LEMMA PrecedesIs ==
  ASSUME NEW v, NEW a, NEW b, NEW jobs
  PROVE  Precedes(v, a, b, jobs) <=>
           \/ Key1(v, a, jobs) < Key1(v, b, jobs)
           \/ /\ Key1(v, a, jobs) = Key1(v, b, jobs)
              /\ Key2(v, a, jobs) < Key2(v, b, jobs)
           \/ /\ Key1(v, a, jobs) = Key1(v, b, jobs)
              /\ Key2(v, a, jobs) = Key2(v, b, jobs)
              /\ FirstOf(a) < FirstOf(b)
<1>1. PICK p, q, r, w, x, y, f, g :
        /\ p = Rank[RowCategory(a, jobs)] /\ q = Order[RowSuggestion(a, jobs)]
        /\ r = RowDecision(a, jobs) /\ f = FirstOf(a)
        /\ w = Rank[RowCategory(b, jobs)] /\ x = Order[RowSuggestion(b, jobs)]
        /\ y = RowDecision(b, jobs) /\ g = FirstOf(b)
  OBVIOUS
<1>2. CASE v = "PENDING"
  <2>1. /\ Key1(v, a, jobs) = p /\ Key2(v, a, jobs) = q
        /\ Key1(v, b, jobs) = w /\ Key2(v, b, jobs) = x
    BY <1>1, <1>2 DEF Key1, Key2
  <2>2. Precedes(v, a, b, jobs) <=>
          p < w \/ (p = w /\ q < x) \/ (p = w /\ q = x /\ f < g)
    BY <1>1, <1>2 DEF Precedes
  <2> QED  BY <1>1, <2>1, <2>2
<1>3. CASE v # "PENDING"
  <2>1. /\ Key1(v, a, jobs) = r /\ Key2(v, a, jobs) = p
        /\ Key1(v, b, jobs) = y /\ Key2(v, b, jobs) = w
    BY <1>1, <1>3 DEF Key1, Key2
  <2>2. Precedes(v, a, b, jobs) <=>
          r < y \/ (r = y /\ p < w) \/ (r = y /\ p = w /\ f < g)
    BY <1>1, <1>3 DEF Precedes
  <2> QED  BY <1>1, <2>1, <2>2
<1> QED  BY <1>2, <1>3

LEMMA OrderIs == Order["REVIEW"] \in Int /\ \A s \in Suggestions : Order[s] \in Int
<1>1. \A s \in {"KEEP", "REVIEW", "EXCLUDE"} : Order[s] \in Int
  BY DEF Order
<1> QED  BY <1>1 DEF Suggestions

\* What a list of rows is ordered by, whatever its postings are.
RowsListed(v, rows, jobs) ==
  /\ Groups(rows) /\ \A j \in Postings : RowTyped(jobs[j])
  /\ v = "PENDING" => \A row \in rows : \A j \in row : jobs[j].class = "REVIEW"

LEMMA KeysAre ==
  ASSUME NEW v, NEW rows, NEW jobs, RowsListed(v, rows, jobs), NEW row \in rows
  PROVE  Key1(v, row, jobs) \in Int /\ Key2(v, row, jobs) \in Int /\ FirstOf(row) \in Int
<1>1. row # {} /\ row \subseteq Postings
  BY DEF RowsListed, Groups
<1>2. FirstOf(row) \in Int
  BY <1>1, FirstOfIs
<1>3. \A j \in row : RowTyped(jobs[j])
  BY <1>1 DEF RowsListed
<1>4. Rank[RowCategory(row, jobs)] \in Int
  <2>1. PICK named : named = {jobs[j].category : j \in row} \ {NoCategory}
    OBVIOUS
  <2>2. named \subseteq CategoryKeys
    <3>1. \A j \in row : jobs[j].category \in CategoryKeys
      BY <1>3 DEF RowTyped, JobRow
    <3> QED  BY <2>1, <3>1
  <2>3. RowCategory(row, jobs) = IF named = {} THEN NoCategory ELSE Common(named)
    BY <2>1, Zenon DEF RowCategory
  <2>4. named # {} => Common(named) \in named \cup {"mixed"}
    BY DEF Common
  <2>5. RowCategory(row, jobs) \in CategoryKeys \cup {"mixed"}
    BY <2>2, <2>3, <2>4, FormsAssumption
  <2> QED  BY <2>5, RankAssumption
<1>5. v = "PENDING" => Order[RowSuggestion(row, jobs)] \in Int
  <2> SUFFICES ASSUME v = "PENDING" PROVE Order[RowSuggestion(row, jobs)] \in Int
    OBVIOUS
  <2> DEFINE named == {jobs[j].suggested : j \in row}
             one == CHOOSE s \in named : TRUE
  <2>1. RowSuggestion(row, jobs) = IF Cardinality(named) = 1 THEN one ELSE "REVIEW"
    BY DEF RowSuggestion
  <2>2. ASSUME NEW j \in row PROVE jobs[j].suggested \in Suggestions
    <3>1. jobs[j].class = "REVIEW" /\ RowTyped(jobs[j])
      BY <1>3 DEF RowsListed
    <3> QED  BY <3>1 DEF RowTyped, Suggestions
  <2>3. named \subseteq Suggestions /\ named # {}
    BY <1>1, <2>2
  <2>4. one \in Suggestions
    <3> HIDE DEF named
    <3> QED  BY <2>3
  <2> HIDE DEF one, named
  <2>5. RowSuggestion(row, jobs) \in Suggestions
    BY <2>1, <2>4 DEF Suggestions
  <2> QED  BY <2>5, OrderIs
<1>6. RowDecision(row, jobs) \in Int
  <2> DEFINE all == {Effective(jobs[j]) : j \in row}
             one == CHOOSE d \in all : TRUE
  <2>1. RowDecision(row, jobs) = IF Cardinality(all) = 1 THEN Order[one] ELSE 4
    BY DEF RowDecision
  <2>2. ASSUME NEW j \in row PROVE Effective(jobs[j]) \in Suggestions
    <3>1. jobs[j].human \in {"", "KEEP", "EXCLUDE"}
      BY <1>3 DEF RowTyped, JobRow
    <3> QED  BY <3>1 DEF Effective, Suggestions
  <2>3. all \subseteq Suggestions /\ all # {}
    BY <1>1, <2>2
  <2>4. one \in Suggestions
    <3> HIDE DEF all
    <3> QED  BY <2>3
  <2> HIDE DEF one, all
  <2> QED  BY <2>1, <2>4, OrderIs
<1> QED  BY <1>2, <1>4, <1>5, <1>6 DEF Key1, Key2

LEMMA PrecedesOrders ==
  ASSUME NEW v, NEW rows, NEW jobs, RowsListed(v, rows, jobs)
  PROVE  /\ \A a \in rows : ~Precedes(v, a, a, jobs)
         /\ \A a, b, c \in rows :
              Precedes(v, a, b, jobs) /\ Precedes(v, b, c, jobs) => Precedes(v, a, c, jobs)
         /\ \A a, b \in rows : a # b => Precedes(v, a, b, jobs) \/ Precedes(v, b, a, jobs)
<1>1. ASSUME NEW a \in rows PROVE ~Precedes(v, a, a, jobs)
  BY KeysAre, PrecedesIs
<1>2. ASSUME NEW a \in rows, NEW b \in rows, NEW c \in rows,
             Precedes(v, a, b, jobs), Precedes(v, b, c, jobs)
      PROVE  Precedes(v, a, c, jobs)
  <2>1. PICK p \in Int, q \in Int, r \in Int : p = Key1(v, a, jobs) /\ q = Key2(v, a, jobs)
                                               /\ r = FirstOf(a)
    BY KeysAre
  <2>2. PICK s \in Int, t \in Int, u \in Int : s = Key1(v, b, jobs) /\ t = Key2(v, b, jobs)
                                               /\ u = FirstOf(b)
    BY KeysAre
  <2>3. PICK x \in Int, y \in Int, z \in Int : x = Key1(v, c, jobs) /\ y = Key2(v, c, jobs)
                                               /\ z = FirstOf(c)
    BY KeysAre
  <2>4. p < s \/ (p = s /\ q < t) \/ (p = s /\ q = t /\ r < u)
    BY <1>2, <2>1, <2>2, PrecedesIs
  <2>5. s < x \/ (s = x /\ t < y) \/ (s = x /\ t = y /\ u < z)
    BY <1>2, <2>2, <2>3, PrecedesIs
  <2>6. p < x \/ (p = x /\ q < y) \/ (p = x /\ q = y /\ r < z)
    BY <2>4, <2>5
  <2> QED  BY <2>1, <2>3, <2>6, PrecedesIs
<1>3. ASSUME NEW a \in rows, NEW b \in rows, a # b
      PROVE  Precedes(v, a, b, jobs) \/ Precedes(v, b, a, jobs)
  <2>1. PICK p \in Int, q \in Int, r \in Int : p = Key1(v, a, jobs) /\ q = Key2(v, a, jobs)
                                               /\ r = FirstOf(a)
    BY KeysAre
  <2>2. PICK s \in Int, t \in Int, u \in Int : s = Key1(v, b, jobs) /\ t = Key2(v, b, jobs)
                                               /\ u = FirstOf(b)
    BY KeysAre
  <2>3. r # u
    BY <1>3, <2>1, <2>2, FirstOfTells DEF RowsListed
  <2>4. \/ p < s \/ (p = s /\ q < t) \/ (p = s /\ q = t /\ r < u)
        \/ s < p \/ (s = p /\ t < q) \/ (s = p /\ t = q /\ u < r)
    BY <2>3
  <2> QED  BY <2>1, <2>2, <2>4, PrecedesIs
<1> QED  BY <1>1, <1>2, <1>3

-----------------------------------------------------------------------------
(* What the pages hold.                                                      *)

Preceding(v, rows, row, jobs) == {q \in rows : Precedes(v, q, row, jobs)}

LEMMA OnPageIs ==
  ASSUME NEW v, NEW rows, NEW p, NEW n, NEW jobs
  PROVE  OnPage(v, rows, p, n, jobs) =
           {row \in rows : Cardinality(Preceding(v, rows, row, jobs)) \in p * n..(p + 1) * n - 1}
BY DEF OnPage, Preceding

\* The page number of each place in a list, and the last page.
LEMMA PageOfPlace ==
  ASSUME NEW n \in Nat \ {0}, NEW c \in Nat, NEW m \in Nat, c <= m
  PROVE  /\ c \div n \in 0..m \div n
         /\ c \in (c \div n) * n..(c \div n + 1) * n - 1
OBVIOUS

LEMMA PlaceOfPage ==
  ASSUME NEW n \in Nat \ {0}, NEW m \in Nat, NEW p \in Nat, p <= m \div n
  PROVE  p * n \in 0..m /\ p * n \in p * n..(p + 1) * n - 1
OBVIOUS

LEMMA PagesIs ==
  ASSUME NEW rows, Groups(rows), rows # {}, NEW n \in PageSizes
  PROVE  /\ Cardinality(rows) - 1 \in Nat
         /\ Pages(rows, n) = (Cardinality(rows) - 1) \div n + 1
<1>1. Cardinality(rows) # 0 /\ Cardinality(rows) \in Nat
  BY GroupsFew, GroupsFinite, FS_EmptySet, FS_CardinalityType
<1>2. Pages(rows, n) = (Cardinality(rows) - 1) \div n + 1
  BY DEF Pages
<1> QED  BY <1>1, <1>2

\* A row is on the page that its place in the order gives it.
LEMMA OnSomePage ==
  ASSUME NEW v, NEW rows, NEW jobs, RowsListed(v, rows, jobs), NEW row \in rows,
         NEW n \in PageSizes
  PROVE  \E p \in 0..Pages(rows, n) - 1 : row \in OnPage(v, rows, p, n, jobs)
<1>1. n \in Nat \ {0}
  BY InboxAssumption
<1>2. Groups(rows) /\ IsFiniteSet(rows)
  BY GroupsFinite DEF RowsListed
<1>3. PICK m \in Nat : m = Cardinality(rows) - 1 /\ Pages(rows, n) = m \div n + 1
  BY <1>2, PagesIs
<1>4. PICK B : B = Preceding(v, rows, row, jobs)
  OBVIOUS
<1>5. B \subseteq rows \ {row}
  <2>1. ~Precedes(v, row, row, jobs)
    BY PrecedesOrders
  <2> QED  BY <1>4, <2>1 DEF Preceding
<1>6. IsFiniteSet(rows \ {row}) /\ Cardinality(rows \ {row}) = m
  BY <1>2, <1>3, FS_RemoveElement
<1>7. PICK c \in Nat : c = Cardinality(B) /\ c <= m
  BY <1>5, <1>6, FS_Subset, FS_CardinalityType
<1>8. PICK d \in 0..m \div n : d = c \div n
  BY <1>1, <1>7, PageOfPlace
<1>9. c \in d * n..(d + 1) * n - 1
  BY <1>1, <1>7, <1>8, PageOfPlace
<1>10. row \in OnPage(v, rows, d, n, jobs)
  BY <1>4, <1>7, <1>9, OnPageIs
<1>11. d \in 0..Pages(rows, n) - 1
  <2>1. PICK e : e = m \div n
    OBVIOUS
  <2>2. e \in Nat
    BY <1>1, <2>1
  <2> QED  BY <1>3, <1>8, <2>1, <2>2
<1> QED  BY <1>10, <1>11

\* A page whose number is in range has a row.
LEMMA PageFilled ==
  ASSUME NEW v, NEW rows, NEW jobs, RowsListed(v, rows, jobs), rows # {},
         NEW n \in PageSizes, NEW p \in Nat, p < Pages(rows, n)
  PROVE  OnPage(v, rows, p, n, jobs) # {}
<1>1. n \in Nat \ {0}
  BY InboxAssumption
<1>2. Groups(rows) /\ IsFiniteSet(rows)
  BY GroupsFinite DEF RowsListed
<1>3. PICK m \in Nat : m = Cardinality(rows) - 1 /\ Pages(rows, n) = m \div n + 1
  BY <1>2, PagesIs
<1>4. p <= m \div n
  <2>1. PICK e : e = m \div n
    OBVIOUS
  <2>2. e \in Nat
    BY <1>1, <2>1
  <2> QED  BY <1>3, <2>1, <2>2
<1>5. PICK k \in 0..m : k = p * n /\ k \in p * n..(p + 1) * n - 1
  BY <1>1, <1>4, PlaceOfPage
<1>6. PICK R : R = {q \in rows \X rows : Precedes(v, q[1], q[2], jobs)}
  OBVIOUS
<1>7. R \subseteq rows \X rows
  BY <1>6
<1>8. \A a, b \in rows : <<a, b>> \in R <=> Precedes(v, a, b, jobs)
  BY <1>6
<1>9. TotalOrder(R, rows)
  <2>1. \A a \in rows : <<a, a>> \notin R
    BY <1>8, PrecedesOrders
  <2>2. \A a, b, c \in rows : <<a, b>> \in R /\ <<b, c>> \in R => <<a, c>> \in R
    BY <1>8, PrecedesOrders
  <2>3. \A a, b \in rows : a # b => <<a, b>> \in R \/ <<b, a>> \in R
    BY <1>8, PrecedesOrders
  <2> QED  BY <1>7, <2>1, <2>2, <2>3 DEF TotalOrder
<1>10. k \in Nat /\ k < Cardinality(rows)
  <2>1. Cardinality(rows) \in Nat
    BY <1>2, FS_CardinalityType
  <2> QED  BY <1>3, <1>5, <2>1
<1>11. PICK row \in rows : Cardinality(Below(row, rows, R)) = k
  BY <1>2, <1>9, <1>10, PlaceTaken
<1>12. Below(row, rows, R) = Preceding(v, rows, row, jobs)
  BY <1>8 DEF Below, Preceding
<1>13. row \in OnPage(v, rows, p, n, jobs)
  BY <1>5, <1>11, <1>12, OnPageIs
<1> QED  BY <1>13

\* What the page lists is a list of such rows.
LEMMA MatchingListed ==
  ASSUME NEW v \in Views, NEW jobs, \A j \in Postings : RowTyped(jobs[j]),
         \A j \in Postings : jobs[j].human # "" => jobs[j].class # "",
         NEW scope, NEW f, NEW status, NEW found, NEW table
  PROVE  RowsListed(v, Matching(v, scope, f, jobs, status, found, table), jobs)
<1>1. PICK L : L = Lists(v, scope, jobs, status, found, table)
  OBVIOUS
<1>2. PICK M : M = Matching(v, scope, f, jobs, status, found, table)
  OBVIOUS
<1>3. Held(v, Rows(L), jobs)
  BY <1>1, ListedHeld
<1>4. M \subseteq Rows(L)
  BY <1>1, <1>2 DEF Matching
<1>5. v = "PENDING" => \A row \in M : \A j \in row : jobs[j].class = "REVIEW"
  BY <1>3, <1>4 DEF Held
<1>6. Groups(M)
  BY <1>2, MatchingGroups
<1>7. RowsListed(v, M, jobs)
  BY <1>5, <1>6 DEF RowsListed
<1> QED  BY <1>2, <1>7

-----------------------------------------------------------------------------
(* Nothing is hidden.                                                        *)

LEMMA InAllRuns ==
  ASSUME NEW v, NEW j \in Postings, NEW jobs, NEW status, NEW found, NEW table
  PROVE  j \in Lists(v, AllRuns, jobs, status, found, table) <=> InView(v, jobs[j], table)
<1>1. Resolved(AllRuns, status) = 0
  <2>1. AllRuns \notin Runs
    BY RuleBookAssumption DEF AllRuns, Runs
  <2> QED  BY <2>1, Zenon DEF Resolved
<1> QED  BY <1>1, Zenon DEF Lists

\* The one view that lists a posting that was not fetched.
ViewOf(row) ==
  IF row.human = "KEEP" \/ (row.human = "" /\ row.class = "AUTO_KEEP") THEN "FORWARD"
  ELSE IF row.human = "EXCLUDE" \/ (row.human = "" /\ row.class = "AUTO_EXCLUDE")
       THEN "EXCLUDED" ELSE "PENDING"

LEMMA OneView ==
  ASSUME NEW row, RowTyped(row), row.class # "", row.details = "", NEW table, NEW w \in Views
  PROVE  InView(w, row, table) <=> w = ViewOf(row)
<1>1. /\ row.class \in {"AUTO_KEEP", "REVIEW", "AUTO_EXCLUDE"}
      /\ row.human \in {"", "KEEP", "EXCLUDE"}
  BY DEF RowTyped, JobRow
<1>2. /\ InView("PENDING", row, table) <=> row.class = "REVIEW" /\ row.human = ""
      /\ InView("FORWARD", row, table) <=>
           row.human = "KEEP" \/ (row.human = "" /\ row.class = "AUTO_KEEP")
      /\ InView("EXCLUDED", row, table) <=>
           row.human = "EXCLUDE" \/ (row.human = "" /\ row.class = "AUTO_EXCLUDE")
  <2>1. InView("PENDING", row, table) <=> row.class = "REVIEW" /\ row.human = ""
    BY DEF InView, Pending
  <2>2. InView("FORWARD", row, table) <=>
          row.human = "KEEP" \/ (row.human = "" /\ row.class = "AUTO_KEEP")
    BY DEF InView, Approved
  <2>3. InView("EXCLUDED", row, table) <=>
          row.human = "EXCLUDE" \/ (row.human = "" /\ row.class = "AUTO_EXCLUDE")
    BY DEF InView
  <2> QED  BY <2>1, <2>2, <2>3
<1>3. CASE w = "PENDING"
  BY <1>1, <1>2, <1>3 DEF ViewOf
<1>4. CASE w = "FORWARD"
  BY <1>1, <1>2, <1>4 DEF ViewOf
<1>5. CASE w = "EXCLUDED"
  BY <1>1, <1>2, <1>5 DEF ViewOf
<1> QED  BY <1>3, <1>4, <1>5 DEF Views

\* Paging through a view over all runs comes by every posting in it.
LEMMA PagedThrough ==
  ASSUME NEW v \in Views, NEW jobs, \A j \in Postings : RowTyped(jobs[j]),
         \A j \in Postings : jobs[j].human # "" => jobs[j].class # "",
         NEW n \in PageSizes, NEW scope, NEW status, NEW found, NEW table,
         NEW j \in Lists(v, scope, jobs, status, found, table)
  PROVE  \E p \in 0..Pages(Matching(v, scope, NoFilter, jobs, status, found, table), n) - 1 :
           \E row \in OnPage(v, Matching(v, scope, NoFilter, jobs, status, found, table),
                             p, n, jobs) : j \in row
<1>1. PICK L : L = Lists(v, scope, jobs, status, found, table)
  OBVIOUS
<1>2. PICK M : M = Matching(v, scope, NoFilter, jobs, status, found, table)
  OBVIOUS
<1>3. PICK row : row = {k \in L : Group[k] = Group[j]}
  OBVIOUS
<1>4. row \in Rows(L) /\ j \in row
  BY <1>1, <1>3 DEF Rows
<1>5. Shows(NoFilter, row)
  <2>1. NoFilter[2] = Blank
    BY DEF NoFilter
  <2> QED  BY <2>1, Zenon DEF Shows
<1>6. row \in M
  BY <1>1, <1>2, <1>4, <1>5 DEF Matching
<1>7. RowsListed(v, M, jobs)
  BY <1>2, MatchingListed
<1>8. PICK p \in 0..Pages(M, n) - 1 : row \in OnPage(v, M, p, n, jobs)
  BY <1>6, <1>7, OnSomePage
<1> QED  BY <1>2, <1>4, <1>8

LEMMA TypedRows ==
  ASSUME IInv, TInv
  PROVE  \A j \in Postings : RowTyped(job[j]) /\ (job[j].human # "" => job[j].class # "")
BY DEF IInv, WorkOK, RowsOK, RowOK, TInv, RowsTyped

\* A posting that was not fetched is in exactly one of the three views, whatever
\* its classification and decision, and on one of the pages the inbox offers,
\* whatever the page size: no order of decisions, searches and rules hides it.
THEOREM NothingIsHidden == Spec => []NothingHidden
<1>1. ASSUME IInv, TInv PROVE NothingHidden
  <2>1. ASSUME NEW j \in Postings, Exists(j), job[j].details = ""
        PROVE  \E v \in Views : \A w \in Views :
                 j \in Lists(w, AllRuns, job, run, hits, rules) <=> w = v
    <3>1. RowTyped(job[j]) /\ job[j].class # ""
      BY <1>1, <2>1, TypedRows DEF Exists
    <3>2. PICK v \in Views : v = ViewOf(job[j])
      BY DEF ViewOf, Views
    <3>3. \A w \in Views : InView(w, job[j], rules) <=> w = v
      BY <2>1, <3>1, <3>2, OneView
    <3> QED  BY <3>3, InAllRuns
  <2>2. ASSUME NEW v \in Views, NEW n \in PageSizes,
               NEW j \in Lists(v, AllRuns, job, run, hits, rules)
        PROVE  \E p \in 0..Pages(Matching(v, AllRuns, NoFilter, job, run, hits, rules), n) - 1 :
                 \E row \in OnPage(v, Matching(v, AllRuns, NoFilter, job, run, hits, rules),
                                   p, n, job) : j \in row
    BY <1>1, PagedThrough, TypedRows
  <2> QED  BY <2>1, <2>2, Zenon DEF NothingHidden
<1> QED  BY <1>1, TypesInvariant, PTL

-----------------------------------------------------------------------------
(* No blank page.                                                            *)

LEMMA RefreshFills ==
  ASSUME IInv', TInv', NEW v \in Views, NEW scopes \in [Views -> Scopes], NEW n \in PageSizes,
         NEW p \in Nat, NEW f, Refresh(v, scopes, n, p, f),
         NEW c \in Clients, shown'[c].rows = NoRows
  PROVE  Matching(view', scopeOf'[view'], filter', job', run', hits', rules') = {}
<1>1. PICK s : s = IF scopes[v] \in Options(run') THEN scopes[v] ELSE LatestRun
  OBVIOUS
<1>2. PICK rows : rows = Matching(v, s, f, job', run', hits', rules')
  OBVIOUS
<1>3. PICK q : q = Clamp(IF s = scopes[v] THEN p ELSE 0, rows, n)
  OBVIOUS
<1>4. /\ view' = v /\ filter' = f /\ scopeOf' = [scopes EXCEPT ![v] = s]
      /\ shown' = [b \in Clients |-> [view |-> v, rows |-> OnPage(v, rows, q, n, job')]]
  BY <1>1, <1>2, <1>3, Zenon DEF Refresh
<1>5. OnPage(v, rows, q, n, job') = {}
  <2>1. PICK o : o = OnPage(v, rows, q, n, job')
    OBVIOUS
  <2>2. shown' = [b \in Clients |-> [view |-> v, rows |-> o]]
    BY <1>4, <2>1, Zenon
  <2>3. shown'[c].rows = o
    BY <2>2
  <2> QED  BY <2>1, <2>3 DEF NoRows
<1>6. \A j \in Postings : RowTyped(job'[j]) /\ (job'[j].human # "" => job'[j].class # "")
  BY DEF IInv, WorkOK, RowsOK, RowOK, TInv, RowsTyped
<1>7. RowsListed(v, rows, job')
  BY <1>2, <1>6, MatchingListed
<1>8. q \in Nat /\ q < Pages(rows, n)
  <2>1. Groups(rows)
    BY <1>7 DEF RowsListed
  <2>2. PICK o : o = IF s = scopes[v] THEN p ELSE 0
    OBVIOUS
  <2>3. o \in Nat
    BY <2>2
  <2>4. Clamp(o, rows, n) \in 0..NumPostings /\ Clamp(o, rows, n) < Pages(rows, n)
    BY <2>1, <2>3, ClampIs
  <2> QED  BY <1>3, <2>2, <2>4
<1>9. rows = {}
  BY <1>5, <1>7, <1>8, PageFilled
<1>10. scopeOf'[view'] = s
  BY <1>4
<1>11. Matching(view', scopeOf'[view'], filter', job', run', hits', rules') = rows
  BY <1>2, <1>4, <1>10, Zenon
<1> QED  BY <1>9, <1>11

LEMMA OpenFills ==
  ASSUME IInv, TInv, NEW b \in Clients, Open(b), NEW c \in Clients,
         shown'[c] # shown[c], shown'[c].rows = NoRows
  PROVE  Matching(view', scopeOf'[view'], filter', job', run', hits', rules') = {}
<1>1. PICK rows : rows = Matching(view, scopeOf[view], filter, job, run, hits, rules)
  OBVIOUS
<1>2. PICK q : q = Clamp(page, rows, size)
  OBVIOUS
<1>3. PICK o : o = OnPage(view, rows, q, size, job)
  OBVIOUS
<1>4. shown' = [shown EXCEPT ![b] = [view |-> view, rows |-> OnPage(view, rows, q, size, job)]]
  BY <1>1, <1>2, Zenon DEF Open
<1>5. shown' = [shown EXCEPT ![b] = [view |-> view, rows |-> o]]
  BY <1>3, <1>4, Zenon
<1>6. o = {}
  <2>1. shown \in [Clients -> Grid(Postings)]
    BY DEF IInv, GridsOK
  <2>2. b = c
    BY <1>5, <2>1
  <2>3. shown'[c].rows = o
    BY <1>5, <2>1, <2>2
  <2> QED  BY <2>3 DEF NoRows
<1>7. view \in Views /\ size \in PageSizes /\ page \in Nat
  BY RuleBookAssumption DEF IInv, GridsOK, TInv, PagesTyped
<1>8. RowsListed(view, rows, job)
  BY <1>1, <1>7, MatchingListed, TypedRows
<1>9. q \in Nat /\ q < Pages(rows, size)
  <2>1. Groups(rows)
    BY <1>8 DEF RowsListed
  <2>2. Clamp(page, rows, size) \in 0..NumPostings /\ Clamp(page, rows, size) < Pages(rows, size)
    BY <1>7, <2>1, ClampIs
  <2> QED  BY <1>2, <2>2
<1>10. rows = {}
  BY <1>3, <1>6, <1>7, <1>8, <1>9, PageFilled
<1>11. UNCHANGED <<bookVars, view, scopeOf, filter>>
  BY Zenon DEF Open
<1>12. UNCHANGED <<view, scopeOf, filter, job, run, hits, rules>>
  BY <1>11 DEF bookVars, tables, search
<1> QED  BY <1>1, <1>10, <1>12

LEMMA GridStep ==
  ASSUME IInv, TInv, Next, NEW c \in Clients, shown'[c] # shown[c]
  PROVE  \/ \E b \in Clients : Open(b)
         \/ \E v \in Views, scopes \in [Views -> Scopes], n \in PageSizes, p \in Nat,
               f \in Filters \cup {NoFilter} : Refresh(v, scopes, n, p, f)
<1>1. CASE RefreshAll
  <2>1. /\ view \in Views /\ scopeOf \in [Views -> Scopes] /\ size \in PageSizes
        /\ page \in Nat /\ filter \in Filters \cup {NoFilter}
    BY RuleBookAssumption DEF IInv, GridsOK, TInv, PagesTyped
  <2>2. Refresh(view, scopeOf, size, page, filter)
    BY <1>1 DEF RefreshAll
  <2> QED  BY <2>1, <2>2, Zenon
<1>2. CASE UNCHANGED shown
  BY <1>2
<1>3. CASE UNCHANGED inboxVars
  BY <1>2, <1>3 DEF inboxVars
<1>4. ASSUME NEW b \in Clients, Pick(b) \/ Decide(b) \/ Override(b)
      PROVE  RefreshAll \/ UNCHANGED shown
  BY <1>4, Zenon DEF Pick, Decide, Override
<1>5. ASSUME NEW b \in Clients, NEW mode \in RuleModes, Teach(b, mode)
      PROVE  RefreshAll \/ UNCHANGED shown
  <2>1. CASE \A row \in picked[b].rows : IsKnown(ValueOf(row, mode[1]))
    BY <1>5, <2>1, Zenon DEF Teach
  <2>2. CASE ~\A row \in picked[b].rows : IsKnown(ValueOf(row, mode[1]))
    BY <1>5, <2>2, Zenon DEF Teach
  <2> QED  BY <2>1, <2>2
<1>6. CASE Panels
  <2>1. RefreshAll \/ UNCHANGED shown
    BY <1>6, Zenon DEF Panels, OpenPanels, PanelDecision
  <2> QED  BY <1>1, <1>2, <2>1
<1>7. CASE Browse \/ Paging
  BY <1>7, MoveRefreshes DEF TInv
<1>8. CASE Inbox \/ Deciding \/ Teaching
  BY <1>1, <1>2, <1>4, <1>5, <1>8 DEF Inbox, Deciding, Teaching
<1> QED  BY <1>3, <1>6, <1>7, <1>8 DEF Next

\* Whatever was decided, searched or filtered since, a window that is given new
\* rows is given some when any match: the page number is brought into range, and
\* every page in range has a row.
THEOREM NoPageIsBlank == Spec => NeverABlankPage
<1>1. (IInv /\ LInv /\ TInv) /\ [Next]_vars =>
        [\A c \in Clients :
           shown'[c] # shown[c] /\ shown'[c].rows = NoRows =>
             Matching(view', scopeOf'[view'], filter', job', run', hits', rules') = {}]_vars
  <2> SUFFICES ASSUME IInv, LInv, TInv, Next, NEW c \in Clients,
                      shown'[c] # shown[c], shown'[c].rows = NoRows
               PROVE  Matching(view', scopeOf'[view'], filter', job', run', hits', rules') = {}
    OBVIOUS
  <2>1. IInv' /\ TInv'
    BY IInvStep, TInvStep
  <2> QED  BY <2>1, GridStep, OpenFills, RefreshFills, Zenon
<1> QED  BY <1>1, TypesInvariant, PTL DEF Spec, NeverABlankPage
=============================================================================
