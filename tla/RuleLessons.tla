---------------------------- MODULE RuleLessons -----------------------------
(***************************************************************************)
(* What EXCLUDE + ADD RULE promises for the searches that start later, for *)
(* any rule table, any postings and any windows.                           *)
(***************************************************************************)
EXTENDS ReviewInboxProofs, FiniteSetTheorems, WellFoundedInduction

-----------------------------------------------------------------------------
(* A finite set has a least element.                                        *)

LEMMA FiniteLeast ==
  ASSUME NEW T, IsFiniteSet(T), T # {}, NEW R \in SUBSET (T \X T),
         \A x \in T : <<x, x>> \notin R,
         \A x, y, z \in T : <<x, y>> \in R /\ <<y, z>> \in R => <<x, z>> \in R
  PROVE  \E x \in T : \A y \in T : <<y, x>> \notin R
<1> DEFINE Below(x) == {y \in T : <<y, x>> \in R}
<1>1. PICK F : F = {Below(x) : x \in T}
  OBVIOUS
<1>2. F \subseteq SUBSET T /\ F # {}
  <2>1. \A x \in T : Below(x) \in SUBSET T
    OBVIOUS
  <2> HIDE DEF Below
  <2> QED  BY <1>1, <2>1
<1>3. IsWellFoundedOn(StrictSubsetOrdering(T), SUBSET T)
  <2>1. FiniteSubsetsOf(T) = SUBSET T
    BY FS_FiniteSubsetsOfFinite
  <2>2. IsWellFoundedOn(StrictSubsetOrdering(T), FiniteSubsetsOf(T))
    BY FS_StrictSubsetOrderingWellFounded, Zenon
  <2> QED  BY <2>1, <2>2, Zenon
<1>4. PICK m \in F : \A b \in F : <<b, m>> \notin StrictSubsetOrdering(T)
  BY <1>2, <1>3, WFMin
<1>5. PICK x \in T : m = Below(x)
  BY <1>1
<1>6. ASSUME NEW y \in T, <<y, x>> \in R PROVE FALSE
  <2>1. Below(y) \subseteq Below(x)
    BY <1>6
  <2>2. y \in Below(x) /\ y \notin Below(y)
    BY <1>6
  <2>3. <<Below(y), m>> \in StrictSubsetOrdering(T)
    BY <2>1, <2>2, <1>5 DEF StrictSubsetOrdering
  <2>4. Below(y) \in F
    BY <1>1
  <2> QED  BY <2>3, <2>4, <1>4
<1> QED  BY <1>6

LEMMA FiniteImage ==
  ASSUME NEW T, IsFiniteSet(T), NEW f, DOMAIN f = T
  PROVE  IsFiniteSet({f[x] : x \in T})
<1> DEFINE g == [x \in T |-> f[x]]
<1>1. g \in Surjection(T, {f[x] : x \in T})
  BY DEF Surjection
<1> QED  BY <1>1, FS_Surjection

-----------------------------------------------------------------------------
(* The rule tables.                                                         *)

RuleShaped(r) ==
  r = [id |-> r.id, stage |-> r.stage, field |-> r.field, op |-> r.op,
       value |-> r.value, action |-> r.action, category |-> r.category,
       priority |-> r.priority, enabled |-> r.enabled, source |-> r.source]

RuleOK(r) ==
  /\ RuleShaped(r)
  /\ r.id \in Nat /\ r.priority \in Int /\ r.priority # 0
  /\ r.source = "review_inbox" => r.stage = "PRE_DESCRIPTION" /\ r.action = "AUTO_EXCLUDE"

TableOK(table) ==
  /\ IsFiniteSet(table)
  /\ \A r \in table : RuleOK(r)
  /\ \A r, q \in table : r.id = q.id => r = q

\* First names the rule SQLite would return first.
LEMMA FirstIs ==
  ASSUME NEW T, IsFiniteSet(T), T # {},
         \A r \in T : r.id \in Nat /\ r.priority \in Int,
         \A r, q \in T : r.id = q.id => r = q
  PROVE  First(T) \in T /\ \A q \in T : First(T).priority <= q.priority
<1> DEFINE R == {p \in T \X T : Before(p[1], p[2])}
<1>1. \A x \in T : <<x, x>> \notin R
  BY DEF Before
<1>2. \A x, y, z \in T : <<x, y>> \in R /\ <<y, z>> \in R => <<x, z>> \in R
  BY DEF Before
<1>3. PICK m \in T : \A y \in T : <<y, m>> \notin R
  <2>1. R \in SUBSET (T \X T)
    OBVIOUS
  <2> HIDE DEF R
  <2> QED  BY <1>1, <1>2, <2>1, FiniteLeast
<1>4. \A q \in T \ {m} : Before(m, q)
  <2> SUFFICES ASSUME NEW q \in T \ {m} PROVE Before(m, q)
    OBVIOUS
  <2>1. <<q, m>> \in T \X T /\ <<q, m>> \notin R
    BY <1>3
  <2>2. ~Before(q, m)
    BY <2>1
  <2>3. q.id # m.id
    OBVIOUS
  <2>4. q.id \in Nat /\ m.id \in Nat /\ q.priority \in Int /\ m.priority \in Int
    OBVIOUS
  <2> QED  BY <2>2, <2>3, <2>4 DEF Before
<1>5. First(T) \in T /\ \A q \in T \ {First(T)} : Before(First(T), q)
  BY <1>4 DEF First
<1> QED  BY <1>5 DEF Before

LEMMA NextIdIs ==
  ASSUME NEW table, TableOK(table)
  PROVE  NextId(table) \in Nat /\ \A r \in table : r.id < NextId(table)
<1>1. PICK N : N = {0} \cup {r.id : r \in table}
  OBVIOUS
<1>2. N \subseteq Nat /\ N # {}
  BY <1>1 DEF TableOK, RuleOK
<1>3. IsFiniteSet(N)
  <2> DEFINE f == [r \in table |-> r.id]
             I == {f[r] : r \in table}
  <2>1. IsFiniteSet(I)
    <3>1. DOMAIN f = table
      OBVIOUS
    <3> HIDE DEF f
    <3> QED  BY <3>1, FiniteImage DEF TableOK
  <2>2. N = {0} \cup I
    BY <1>1
  <2>3. IsFiniteSet({0})
    BY FS_Singleton
  <2> HIDE DEF I
  <2> QED  BY <2>1, <2>2, <2>3, FS_Union
<1>4. PICK R : R = {p \in N \X N : p[2] < p[1]}
  OBVIOUS
<1>5. PICK m \in N : \A y \in N : <<y, m>> \notin R
  <2>1. R \in SUBSET (N \X N)
    BY <1>4
  <2>2. \A x, y \in N : <<x, y>> \in R <=> y < x
    BY <1>4
  <2>3. \A x \in N : <<x, x>> \notin R
    BY <1>2, <2>2
  <2>4. \A x, y, z \in N : <<x, y>> \in R /\ <<y, z>> \in R => <<x, z>> \in R
    <3> SUFFICES ASSUME NEW x \in N, NEW y \in N, NEW z \in N, y < x, z < y
                 PROVE  z < x
      BY <2>2
    <3> QED  BY <1>2
  <2> QED  BY <1>2, <1>3, <2>1, <2>3, <2>4, FiniteLeast
<1>6. \A y \in N : y <= m
  <2> SUFFICES ASSUME NEW y \in N PROVE y <= m
    OBVIOUS
  <2>1. ~(m < y)
    BY <1>4, <1>5
  <2> QED  BY <1>2, <2>1
<1>7. \A r \in table : r.id \in N
  BY <1>1
<1>8. PICK n : n = CHOOSE k \in {0} \cup {r.id : r \in table} : \A r \in table : r.id <= k
  OBVIOUS
<1>9. n \in N /\ \A r \in table : r.id <= n
  BY <1>1, <1>6, <1>7, <1>8
<1>10. NextId(table) = 1 + n
  BY <1>8, Zenon DEF NextId
<1>11. n \in Nat
  BY <1>2, <1>9
<1>12. ASSUME NEW r \in table PROVE r.id < 1 + n
  <2>1. r.id \in Nat /\ r.id <= n
    BY <1>2, <1>7, <1>9
  <2> QED  BY <1>11, <2>1
<1> QED  BY <1>10, <1>11, <1>12


\* An exclusion among the early rules decides, unless an earlier rule says
\* something else.
LEMMA ExclusionSpeaks ==
  ASSUME NEW table, TableOK(table), NEW cs, NEW row, NEW rule \in table,
         rule.action = "AUTO_EXCLUDE", rule.priority <= LearnedPriority,
         Matches(rule, row), ~Excepted(row, table)
  PROVE  ClassifyPre(row, table, cs).class = "AUTO_EXCLUDE"
<1>1. PICK found : found = {r \in Active(table, cs) : Matches(r, row)}
  OBVIOUS
<1>2. found \subseteq table /\ rule \in found /\ \A r \in found : Matches(r, row)
  BY <1>1 DEF Active
<1>3. Early(found) \subseteq table /\ rule \in Early(found)
  BY <1>2 DEF Early, EarlyPriority, LearnedPriority, TableOK, RuleOK
<1>4. PICK f : f = First(Early(found))
  OBVIOUS
<1>5. f \in Early(found) /\ f.priority <= rule.priority
  <2>1. IsFiniteSet(Early(found))
    BY <1>3, FS_Subset DEF TableOK
  <2>2. /\ \A r \in Early(found) : r.id \in Nat /\ r.priority \in Int
        /\ \A r, q \in Early(found) : r.id = q.id => r = q
    BY <1>3 DEF TableOK, RuleOK
  <2>3. First(Early(found)) \in Early(found)
        /\ \A q \in Early(found) : First(Early(found)).priority <= q.priority
    BY <1>3, <2>1, <2>2, FirstIs
  <2> QED  BY <1>3, <1>4, <2>3
<1>6. f.action = "AUTO_EXCLUDE"
  <2>1. f \in table /\ Matches(f, row)
    BY <1>2, <1>3, <1>5 DEF Early
  <2>2. f.priority <= LearnedPriority
    BY <1>5, <2>1 DEF LearnedPriority, TableOK, RuleOK
  <2> QED  BY <2>1, <2>2, Zenon DEF Excepted
<1>7. ClassifyPre(row, table, cs) = FromRule(f, cs)
  <2>1. Early({r \in Active(table, cs) : Matches(r, row)}) # {}
    BY <1>1, <1>3
  <2>2. ClassifyPre(row, table, cs) =
          FromRule(First(Early({r \in Active(table, cs) : Matches(r, row)})), cs)
    BY <2>1, Zenon DEF ClassifyPre
  <2> QED  BY <1>1, <1>4, <2>2
<1>8. FromRule(f, cs) = [class |-> "AUTO_EXCLUDE", category |-> f.category,
                         suggested |-> "EXCLUDE", by |-> {f.id}]
  BY <1>6 DEF FromRule
<1> QED  BY <1>7, <1>8

\* What a lesson says of a posting, the rule that holds the lesson matches.
Holds(rule, lesson) ==
  /\ rule.stage = "PRE_DESCRIPTION" /\ rule.action = "AUTO_EXCLUDE"
  /\ rule.field = lesson.field /\ rule.op = lesson.op
  /\ Fold[rule.value] = lesson.text
  /\ rule.enabled = TRUE /\ rule.priority <= LearnedPriority

LessonOK(lesson) ==
  /\ lesson = [field |-> lesson.field, op |-> lesson.op, text |-> lesson.text]
  /\ \/ lesson.op = "equals" /\ lesson.field \in {"company", "title"}
     \/ lesson.op = "contains" /\ lesson.field = "title" /\ lesson.text # Blank

LEMMA LessonMatches ==
  ASSUME NEW rule, NEW lesson, Holds(rule, lesson), LessonOK(lesson),
         NEW j \in Postings, Says(lesson, Raw[j])
  PROVE  Matches(rule, Raw[j])
<1>1. PICK v : v = Get(Raw[j], lesson.field)
  OBVIOUS
<1>2. /\ IsKnown(v)
      /\ \/ lesson.op = "equals" /\ Fold[v.items[1]] = lesson.text
         \/ lesson.op = "contains" /\ <<lesson.text, Fold[v.items[1]]>> \in Inside
  BY <1>1, Zenon DEF Says
<1>3. PICK s \in Scalars : v = Single(s)
  <2>1. lesson.field \in {"company", "title"}
    BY DEF LessonOK
  <2>2. v = Unknown \/ \E s \in Scalars : v = Single(s)
    BY <1>1, <2>1, TextsAssumption
  <2>3. ~IsKnown(Unknown)
    BY DEF IsKnown, Unknown
  <2> QED  BY <1>2, <2>2, <2>3
<1>4. v.list = FALSE /\ v.items = <<s>> /\ v.items[1] = s /\ DOMAIN v.items = {1}
  BY <1>3 DEF Single
<1>5. Left(v) = {1}
  BY <1>4 DEF Left
<1>6. LeftTexts(v) = {Fold[s]}
  BY <1>4, <1>5 DEF LeftTexts
<1>7. Cardinality(Left(v)) = 1
  BY <1>5, FS_Singleton
<1>8. CASE lesson.op = "equals"
  <2>1. IsOnly(v, Fold[rule.value])
    BY <1>2, <1>4, <1>6, <1>7, <1>8 DEF IsOnly, Holds
  <2> QED  BY <1>1, <1>2, <1>8, <2>1, Zenon DEF Matches, Holds
<1>9. CASE lesson.op = "contains"
  <2>1. Fold[rule.value] # Blank
    BY <1>9 DEF LessonOK, Holds
  <2>2. \E t \in LeftTexts(v) : <<Fold[rule.value], t>> \in Inside
    BY <1>2, <1>4, <1>6, <1>9 DEF Holds
  <2> QED  BY <1>1, <1>2, <1>9, <2>1, <2>2, Zenon DEF Matches, Holds
<1> QED  BY <1>2, <1>8, <1>9


-----------------------------------------------------------------------------
(* The invariant: the table is well formed, says each lesson, and says it   *)
(* once; so does what a search loaded.                                      *)

AllHeld(table, taught) ==
  \A lesson \in taught : LessonOK(lesson) /\ \E r \in table : Holds(r, lesson)

\* OneRulePerValue of a table.
Once(table) ==
  \A r, q \in table :
    /\ r.source = "review_inbox" /\ q.source = "review_inbox"
    /\ r.field = q.field /\ r.op = q.op /\ Fold[r.value] = Fold[q.value]
    => r = q

TablesOK == TableOK(rules) /\ AllHeld(rules, lessons) /\ Once(rules)

SnapOK ==
  /\ snap = [r \in Runs |-> snap[r]]
  /\ \A r \in Runs : TableOK(snap[r].rules) /\ AllHeld(snap[r].rules, snap[r].lessons)

\* A grid's rows are groups: not empty, and no posting is in two of them.
Groups(rows) ==
  /\ \A a \in rows : a # {} /\ a \subseteq Postings
  /\ \A a, b \in rows : a \cap b # {} => a = b

GroupsOK ==
  /\ \A c \in Clients : Groups(shown[c].rows)
  /\ \A c \in Clients : Groups(picked[c].rows)

LInv == TablesOK /\ SnapOK /\ GroupsOK

-----------------------------------------------------------------------------
(* The rules page.                                                          *)

LEMMA EnabledSet ==
  ASSUME NEW r, RuleOK(r), NEW on
  PROVE  LET q == [r EXCEPT !.enabled = on]
         IN /\ RuleOK(q) /\ q.id = r.id /\ q.stage = r.stage /\ q.field = r.field
            /\ q.op = r.op /\ q.value = r.value /\ q.action = r.action
            /\ q.priority = r.priority /\ q.enabled = on /\ q.source = r.source
<1> DEFINE q == [r EXCEPT !.enabled = on]
<1>1. RuleShaped(r)
  BY DEF RuleOK
<1>2. RuleShaped(q)
  BY <1>1 DEF RuleShaped
<1>3. /\ q.id = r.id /\ q.stage = r.stage /\ q.field = r.field
      /\ q.op = r.op /\ q.value = r.value /\ q.action = r.action
      /\ q.priority = r.priority /\ q.enabled = on /\ q.source = r.source
  BY <1>1 DEF RuleShaped
<1> HIDE DEF q
<1>4. RuleOK(q)
  BY <1>2, <1>3 DEF RuleOK
<1> QED  BY <1>3, <1>4 DEF q

\* Adding one rule of the user's own.
LEMMA RuleAdded ==
  ASSUME TablesOK, NEW q, RuleOK(q), q.id = NextId(rules), q.source = "user"
  PROVE  /\ TableOK(rules \cup {q})
         /\ AllHeld(rules \cup {q}, lessons)
         /\ Once(rules \cup {q})
<1>1. \A r \in rules : r.id < q.id
  BY NextIdIs DEF TablesOK
<1>2. IsFiniteSet(rules \cup {q})
  BY FS_AddElement DEF TablesOK, TableOK
<1>3. \A r \in rules : r.id # q.id
  BY <1>1 DEF TablesOK, TableOK, RuleOK
<1>4. TableOK(rules \cup {q})
  BY <1>2, <1>3 DEF TablesOK, TableOK
<1>5. AllHeld(rules \cup {q}, lessons)
  BY DEF TablesOK, AllHeld
<1>6. Once(rules \cup {q})
  BY DEF TablesOK, Once
<1> QED  BY <1>4, <1>5, <1>6

LEMMA AddRuleTables ==
  ASSUME TablesOK, AddRule
  PROVE  TablesOK'
<1>1. PICK new \in NewRules :
        rules' = rules \cup
            {[id |-> NextId(rules), stage |-> new.stage, field |-> new.field,
              op |-> new.op,
              value |-> IF new.op \in {"is_true", "is_false"} THEN Blank ELSE new.value,
              action |-> new.action, category |-> new.category,
              priority |-> IF new.priority = 0 THEN 500 ELSE new.priority,
              enabled |-> new.enabled, source |-> "user"]}
  BY Zenon DEF AddRule
<1>2. PICK v, p : /\ v = IF new.op \in {"is_true", "is_false"} THEN Blank ELSE new.value
                  /\ p = IF new.priority = 0 THEN 500 ELSE new.priority
  OBVIOUS
<1>3. p \in Int /\ p # 0
  BY <1>2, FormsAssumption
<1>4. PICK q : q = [id |-> NextId(rules), stage |-> new.stage, field |-> new.field,
                    op |-> new.op, value |-> v, action |-> new.action,
                    category |-> new.category, priority |-> p, enabled |-> new.enabled,
                    source |-> "user"]
  OBVIOUS
<1>5. rules' = rules \cup {q}
  BY <1>1, <1>2, <1>4, Zenon
<1>6. NextId(rules) \in Nat
  BY NextIdIs DEF TablesOK
<1>7. RuleOK(q) /\ q.id = NextId(rules) /\ q.source = "user"
  BY <1>3, <1>4, <1>6 DEF RuleOK, RuleShaped
<1>8. lessons' = lessons
  BY Zenon DEF AddRule
<1> QED  BY <1>5, <1>7, <1>8, RuleAdded DEF TablesOK

LEMMA EnableRulesTables ==
  ASSUME TablesOK, NEW S \in SUBSET rules, NEW on \in BOOLEAN, EnableRules(S, on)
  PROVE  TablesOK'
<1> DEFINE E(r) == IF r \in S THEN [r EXCEPT !.enabled = on] ELSE r
           f == [r \in rules |-> E(r)]
<1>1. rules' = {E(r) : r \in rules}
      /\ lessons' = IF on THEN lessons ELSE lessons \ {Lesson(r) : r \in S}
  BY Zenon DEF EnableRules
<1>2. \A r \in rules :
        /\ RuleOK(E(r)) /\ E(r).id = r.id /\ E(r).stage = r.stage /\ E(r).field = r.field
        /\ E(r).op = r.op /\ E(r).value = r.value /\ E(r).action = r.action
        /\ E(r).priority = r.priority /\ E(r).source = r.source
        /\ E(r).enabled = IF r \in S THEN on ELSE r.enabled
  BY EnabledSet DEF TablesOK, TableOK
<1>3. IsFiniteSet(rules')
  <2>1. DOMAIN f = rules /\ rules' = {f[r] : r \in rules}
    BY <1>1
  <2> HIDE DEF f
  <2> QED  BY <2>1, FiniteImage DEF TablesOK, TableOK
<1> HIDE DEF E
<1>4. TableOK(rules')
  BY <1>1, <1>2, <1>3 DEF TablesOK, TableOK
<1>5. AllHeld(rules', lessons')
  <2> SUFFICES ASSUME NEW lesson \in lessons'
               PROVE  LessonOK(lesson) /\ \E q \in rules' : Holds(q, lesson)
    BY DEF AllHeld
  <2>1. lesson \in lessons
    BY <1>1
  <2>2. LessonOK(lesson) /\ \E r \in rules : Holds(r, lesson)
    BY <2>1 DEF TablesOK, AllHeld
  <2>3. PICK r \in rules : Holds(r, lesson)
    BY <2>2
  <2>4. CASE r \notin S \/ on
    <3>1. Holds(E(r), lesson)
      BY <1>2, <2>3, <2>4 DEF Holds
    <3> QED  BY <1>1, <2>2, <3>1
  <2>5. CASE r \in S /\ ~on
    <3>1. lesson # Lesson(r)
      BY <1>1, <2>5
    <3>2. lesson.field = r.field /\ lesson.op = r.op /\ lesson.text = Fold[r.value]
      BY <2>3 DEF Holds
    <3> QED  BY <2>2, <3>1, <3>2 DEF Lesson, LessonOK
  <2> QED  BY <2>4, <2>5
<1>6. Once(rules')
  BY <1>1, <1>2 DEF TablesOK, Once
<1> QED  BY <1>4, <1>5, <1>6 DEF TablesOK


-----------------------------------------------------------------------------
(* EXCLUDE + ADD RULE.                                                      *)

LEMMA PromotedSet ==
  ASSUME NEW r, RuleOK(r)
  PROVE  LET q == Promoted(r)
         IN /\ RuleOK(q) /\ q.id = r.id /\ q.stage = r.stage /\ q.field = r.field
            /\ q.op = r.op /\ q.value = r.value /\ q.action = r.action
            /\ q.enabled = TRUE /\ q.source = r.source
            /\ q.priority <= LearnedPriority /\ q.priority <= r.priority
<1> DEFINE m == Least(r.priority, LearnedPriority)
           p == [r EXCEPT !.enabled = TRUE]
<1>1. m \in Int /\ m # 0 /\ m <= LearnedPriority /\ m <= r.priority
  BY DEF RuleOK, Least, LearnedPriority
<1>2. Promoted(r) = [p EXCEPT !.priority = m]
  BY DEF Promoted
<1>3. /\ RuleOK(p) /\ p.id = r.id /\ p.stage = r.stage /\ p.field = r.field
      /\ p.op = r.op /\ p.value = r.value /\ p.action = r.action
      /\ p.enabled = TRUE /\ p.source = r.source
  BY EnabledSet
<1> HIDE DEF m, p
<1> DEFINE q == [p EXCEPT !.priority = m]
<1>4. RuleShaped(p)
  BY <1>3 DEF RuleOK
<1>5. RuleShaped(q)
  BY <1>4 DEF RuleShaped
<1>6. /\ q.id = p.id /\ q.stage = p.stage /\ q.field = p.field
      /\ q.op = p.op /\ q.value = p.value /\ q.action = p.action
      /\ q.priority = m /\ q.enabled = p.enabled /\ q.source = p.source
  BY <1>4 DEF RuleShaped
<1>7. RuleOK(q)
  <2> HIDE DEF q
  <2> QED  BY <1>1, <1>3, <1>5, <1>6 DEF RuleOK
<1> HIDE DEF q
<1>8. Promoted(r) = q
  BY <1>2 DEF q
<1> QED  BY <1>1, <1>3, <1>6, <1>7, <1>8

LEMMA FirstOfIs ==
  ASSUME NEW row, row # {}, row \subseteq Postings
  PROVE  FirstOf(row) \in row /\ FirstOf(row) \in Nat
<1>1. IsFiniteSet(row)
  <2>1. IsFiniteSet(Postings)
    BY FS_Interval, RuleBookAssumption DEF Postings
  <2> QED  BY <2>1, FS_Subset
<1>2. row \subseteq Nat
  BY RuleBookAssumption DEF Postings
<1>3. PICK R : R = {p \in row \X row : p[1] < p[2]}
  OBVIOUS
<1>4. PICK m \in row : \A y \in row : <<y, m>> \notin R
  <2>1. R \in SUBSET (row \X row)
    BY <1>3
  <2>2. \A x, y \in row : <<x, y>> \in R <=> x < y
    BY <1>3
  <2>3. \A x \in row : <<x, x>> \notin R
    BY <1>2, <2>2
  <2>4. \A x, y, z \in row : <<x, y>> \in R /\ <<y, z>> \in R => <<x, z>> \in R
    <3> SUFFICES ASSUME NEW x \in row, NEW y \in row, NEW z \in row, x < y, y < z
                 PROVE  x < z
      BY <2>2
    <3> QED  BY <1>2
  <2> QED  BY <1>1, <2>1, <2>3, <2>4, FiniteLeast
<1>5. \A y \in row : m <= y
  <2> SUFFICES ASSUME NEW y \in row PROVE m <= y
    OBVIOUS
  <2>1. ~(y < m)
    BY <1>3, <1>4
  <2> QED  BY <1>2, <2>1
<1>6. FirstOf(row) \in row
  BY <1>5 DEF FirstOf
<1> QED  BY <1>2, <1>6

LEMMA FirstOfTells ==
  ASSUME NEW S, Groups(S), NEW a \in S, NEW b \in S, FirstOf(a) = FirstOf(b)
  PROVE  a = b
BY FirstOfIs DEF Groups

\* For each text among the rows one row speaks, and only one.
LEMMA OneSpeaks ==
  ASSUME NEW S, IsFiniteSet(S), Groups(S), NEW field
  PROVE  /\ \A row \in S : \E q \in Speakers(S, field) : TextOf(q, field) = TextOf(row, field)
         /\ \A p, q \in Speakers(S, field) : TextOf(p, field) = TextOf(q, field) => p = q
<1>1. \A row \in S : FirstOf(row) \in Nat
  BY FirstOfIs DEF Groups
<1>2. ASSUME NEW row \in S
      PROVE  \E q \in Speakers(S, field) : TextOf(q, field) = TextOf(row, field)
  <2>1. PICK A : A = {q \in S : TextOf(q, field) = TextOf(row, field)}
    OBVIOUS
  <2>2. row \in A /\ A \subseteq S /\ IsFiniteSet(A)
    BY <2>1, FS_Subset
  <2>3. PICK R : R = {p \in A \X A : FirstOf(p[1]) < FirstOf(p[2])}
    OBVIOUS
  <2>4. \A x, y \in A : <<x, y>> \in R <=> FirstOf(x) < FirstOf(y)
    BY <2>3
  <2>5. R \in SUBSET (A \X A)
    BY <2>3
  <2>6. \A x \in A : <<x, x>> \notin R
    BY <1>1, <2>2, <2>4
  <2>7. \A x, y, z \in A : <<x, y>> \in R /\ <<y, z>> \in R => <<x, z>> \in R
    <3> SUFFICES ASSUME NEW x \in A, NEW y \in A, NEW z \in A,
                        FirstOf(x) < FirstOf(y), FirstOf(y) < FirstOf(z)
                 PROVE  FirstOf(x) < FirstOf(z)
      BY <2>4
    <3>1. FirstOf(x) \in Nat /\ FirstOf(y) \in Nat /\ FirstOf(z) \in Nat
      BY <1>1, <2>2
    <3> QED  BY <3>1
  <2>8. PICK m \in A : \A y \in A : <<y, m>> \notin R
    BY <2>2, <2>5, <2>6, <2>7, FiniteLeast
  <2>9. ASSUME NEW q \in S, TextOf(q, field) = TextOf(m, field)
        PROVE  FirstOf(m) <= FirstOf(q)
    <3>1. q \in A /\ m \in S
      BY <2>1, <2>2, <2>9
    <3>2. ~(FirstOf(q) < FirstOf(m))
      BY <2>4, <2>8, <3>1
    <3>3. FirstOf(q) \in Nat /\ FirstOf(m) \in Nat
      BY <1>1, <3>1
    <3> QED  BY <3>2, <3>3
  <2>10. m \in Speakers(S, field)
    BY <2>2, <2>9 DEF Speakers
  <2> QED  BY <2>1, <2>10
<1>3. ASSUME NEW p \in Speakers(S, field), NEW q \in Speakers(S, field),
             TextOf(p, field) = TextOf(q, field)
      PROVE  p = q
  <2>1. p \in S /\ q \in S /\ FirstOf(p) <= FirstOf(q) /\ FirstOf(q) <= FirstOf(p)
    BY <1>3 DEF Speakers
  <2>2. FirstOf(p) = FirstOf(q)
    BY <1>1, <2>1
  <2> QED  BY <2>1, <2>2, FirstOfTells
<1> QED  BY <1>2, <1>3


\* A title the inbox shows is not blank when it is folded.
LEMMA TitleSays ==
  ASSUME NEW row, row # {}, row \subseteq Postings, IsKnown(ValueOf(row, "title"))
  PROVE  TextOf(row, "title") # Blank
<1>1. PICK j \in Postings : j = FirstOf(row)
  BY FirstOfIs
<1>2. PICK w : w = Row(j)
  OBVIOUS
<1>3. ValueOf(row, "title") = Get(w, "title") /\ IsKnown(Get(w, "title"))
  BY <1>1, <1>2, Zenon DEF ValueOf
<1>4. "title" \in DOMAIN w /\ Get(w, "title") = w["title"]
  BY <1>3 DEF Get, IsKnown, Unknown
<1>5. DOMAIN w = DOMAIN Raw[j]
      /\ w["title"] = IF ~IsKnown(Cleaned(Raw[j]["title"])) THEN Single("UNKNOWN")
                      ELSE Cleaned(Raw[j]["title"])
  BY <1>2, <1>4 DEF Row
<1>6. PICK v : v = Raw[j]["title"] /\ v = Get(Raw[j], "title")
  BY <1>4, <1>5 DEF Get
<1>7. CASE ~IsKnown(Cleaned(v))
  <2>1. w["title"] = Single("UNKNOWN")
    BY <1>5, <1>6, <1>7
  <2>2. TextOf(row, "title") = Fold["UNKNOWN"]
    BY <1>3, <1>4, <2>1 DEF TextOf, Single
  <2> QED  BY <2>2, TextsAssumption
<1>8. CASE IsKnown(Cleaned(v))
  <2>1. w["title"] = Cleaned(v)
    BY <1>5, <1>6, <1>8
  <2>2. IsKnown(v) /\ Trim[v.items[1]] # Blank /\ Cleaned(v) = Single(Trim[v.items[1]])
    BY <1>8 DEF Cleaned, IsKnown, Unknown
  <2>3. PICK s \in Scalars : v = Single(s) /\ (Trim[s] # Blank => Fold[Trim[s]] # Blank)
    <3>1. v # Unknown
      BY <2>2 DEF IsKnown, Unknown
    <3> QED  BY <1>6, <3>1, TextsAssumption
  <2>4. v.items[1] = s
    BY <2>3 DEF Single
  <2>5. TextOf(row, "title") = Fold[Trim[s]]
    BY <1>3, <1>4, <2>1, <2>2, <2>4 DEF TextOf, Single
  <2> QED  BY <2>2, <2>3, <2>4, <2>5
<1> QED  BY <1>7, <1>8

-----------------------------------------------------------------------------
OldOf(mode, S) ==
  {row \in Speakers(S, mode[1]) : Reused(rules, mode, TextOf(row, mode[1])) # {}}
NewOf(mode, S) == Speakers(S, mode[1]) \ OldOf(mode, S)
ReusedBy(mode, S) == {First(Reused(rules, mode, TextOf(row, mode[1]))) : row \in OldOf(mode, S)}
Kept(r, mode, S) == IF r \in ReusedBy(mode, S) THEN Promoted(r) ELSE r
Earlier(row, mode, S) == {q \in NewOf(mode, S) : FirstOf(q) < FirstOf(row)}
Created(row, mode, S) ==
  [id |-> NextId(rules) + Cardinality(Earlier(row, mode, S)),
   stage |-> "PRE_DESCRIPTION", field |-> mode[1], op |-> mode[2],
   value |-> ValueOf(row, mode[1]).items[1], action |-> "AUTO_EXCLUDE",
   category |-> NoCategory, priority |-> LearnedPriority, enabled |-> TRUE,
   source |-> "review_inbox"]

LEMMA TaughtIs ==
  ASSUME NEW mode, NEW S
  PROVE  Taught(rules, mode, S) =
           {Kept(r, mode, S) : r \in rules} \cup {Created(row, mode, S) : row \in NewOf(mode, S)}
BY Zenon DEF Taught, OldOf, NewOf, ReusedBy, Kept, Earlier, Created

LEMMA KeptIs ==
  ASSUME TablesOK, NEW mode, NEW S, NEW r \in rules
  PROVE  LET q == Kept(r, mode, S)
         IN /\ RuleOK(q) /\ q.id = r.id /\ q.stage = r.stage /\ q.field = r.field
            /\ q.op = r.op /\ q.value = r.value /\ q.action = r.action
            /\ q.source = r.source
            /\ \A lesson : Holds(r, lesson) => Holds(q, lesson)
<1>1. RuleOK(r)
  BY DEF TablesOK, TableOK
<1>2. CASE r \in ReusedBy(mode, S)
  <2>1. PICK q : q = Promoted(r)
    OBVIOUS
  <2>2. /\ RuleOK(q) /\ q.id = r.id /\ q.stage = r.stage /\ q.field = r.field
        /\ q.op = r.op /\ q.value = r.value /\ q.action = r.action
        /\ q.enabled = TRUE /\ q.source = r.source
        /\ q.priority <= LearnedPriority
    BY <1>1, <2>1, PromotedSet
  <2>3. \A lesson : Holds(r, lesson) => Holds(q, lesson)
    BY <2>2 DEF Holds
  <2>4. Kept(r, mode, S) = q
    BY <1>2, <2>1 DEF Kept
  <2> QED  BY <2>2, <2>3, <2>4
<1>3. CASE r \notin ReusedBy(mode, S)
  <2>1. Kept(r, mode, S) = r
    BY <1>3 DEF Kept
  <2> QED  BY <1>1, <2>1
<1> QED  BY <1>2, <1>3

LEMMA CreatedIs ==
  ASSUME TablesOK, NEW mode, NEW S, IsFiniteSet(S), Groups(S), NEW row \in NewOf(mode, S)
  PROVE  LET q == Created(row, mode, S)
         IN /\ RuleOK(q) /\ NextId(rules) <= q.id
            /\ q.stage = "PRE_DESCRIPTION" /\ q.action = "AUTO_EXCLUDE"
            /\ q.field = mode[1] /\ q.op = mode[2]
            /\ q.value = ValueOf(row, mode[1]).items[1]
            /\ q.enabled = TRUE /\ q.priority = LearnedPriority
<1>1. NewOf(mode, S) \subseteq S
  BY DEF NewOf, Speakers
<1>2. IsFiniteSet(Earlier(row, mode, S))
  <2>1. Earlier(row, mode, S) \subseteq S
    BY <1>1 DEF Earlier
  <2> QED  BY <2>1, FS_Subset
<1>3. PICK n \in Nat : n = Cardinality(Earlier(row, mode, S))
  BY <1>2, FS_CardinalityType
<1>4. NextId(rules) \in Nat
  BY NextIdIs DEF TablesOK
<1>5. PICK v : v = ValueOf(row, mode[1]).items[1]
  OBVIOUS
<1>6. PICK q : q = [id |-> NextId(rules) + n,
                    stage |-> "PRE_DESCRIPTION", field |-> mode[1], op |-> mode[2],
                    value |-> v, action |-> "AUTO_EXCLUDE",
                    category |-> NoCategory, priority |-> LearnedPriority, enabled |-> TRUE,
                    source |-> "review_inbox"]
  OBVIOUS
<1>7. Created(row, mode, S) = q
  BY <1>3, <1>5, <1>6, Zenon DEF Created
<1>8. RuleOK(q)
  BY <1>4, <1>6 DEF RuleOK, RuleShaped, LearnedPriority
<1>9. /\ NextId(rules) <= q.id /\ q.stage = "PRE_DESCRIPTION" /\ q.action = "AUTO_EXCLUDE"
      /\ q.field = mode[1] /\ q.op = mode[2] /\ q.value = v
      /\ q.enabled = TRUE /\ q.priority = LearnedPriority
  BY <1>4, <1>6
<1> QED  BY <1>5, <1>7, <1>8, <1>9, Zenon

LEMMA CreatedSays ==
  ASSUME TablesOK, NEW mode, NEW S, IsFiniteSet(S), Groups(S), NEW row \in NewOf(mode, S)
  PROVE  Fold[Created(row, mode, S).value] = TextOf(row, mode[1])
<1>1. PICK v : v = ValueOf(row, mode[1]).items[1]
  OBVIOUS
<1>2. Created(row, mode, S).value = v
  BY <1>1, CreatedIs
<1>3. TextOf(row, mode[1]) = Fold[v]
  BY <1>1, Zenon DEF TextOf
<1> QED  BY <1>2, <1>3

LEMMA CreatedTells ==
  ASSUME TablesOK, NEW mode, NEW S, IsFiniteSet(S), Groups(S),
         NEW a \in NewOf(mode, S), NEW b \in NewOf(mode, S), FirstOf(a) < FirstOf(b)
  PROVE  Created(a, mode, S).id < Created(b, mode, S).id
<1> DEFINE A == Earlier(a, mode, S)
           B == Earlier(b, mode, S)
<1>1. NewOf(mode, S) \subseteq S /\ \A row \in S : FirstOf(row) \in Nat
  BY FirstOfIs DEF NewOf, Speakers, Groups
<1>2. A \subseteq B /\ a \in B /\ a \notin A /\ B \subseteq S
  <2>1. FirstOf(a) \in Nat /\ FirstOf(b) \in Nat
        /\ \A q \in NewOf(mode, S) : FirstOf(q) \in Nat
    BY <1>1
  <2> QED  BY <1>1, <2>1 DEF Earlier
<1>3. IsFiniteSet(A) /\ IsFiniteSet(B)
  BY <1>2, FS_Subset
<1>4. Cardinality(A) \in Nat /\ Cardinality(B) \in Nat /\ Cardinality(A) < Cardinality(B)
  <2>1. Cardinality(A) <= Cardinality(B) /\ (Cardinality(B) = Cardinality(A) => B = A)
    BY <1>2, <1>3, FS_Subset
  <2>2. Cardinality(A) \in Nat /\ Cardinality(B) \in Nat
    BY <1>3, FS_CardinalityType
  <2> QED  BY <1>2, <2>1, <2>2
<1>5. /\ Created(a, mode, S).id = NextId(rules) + Cardinality(A)
      /\ Created(b, mode, S).id = NextId(rules) + Cardinality(B)
  BY DEF Created
<1>6. NextId(rules) \in Nat
  BY NextIdIs DEF TablesOK
<1> QED  BY <1>4, <1>5, <1>6

\* The rule that excludes the value already is one of the table, and speaks of it.
LEMMA ReusedIs ==
  ASSUME TablesOK, NEW mode, NEW text, Reused(rules, mode, text) # {}
  PROVE  LET r == First(Reused(rules, mode, text))
         IN r \in rules /\ SameExclusion(r, mode, text)
<1>1. PICK T : T = Reused(rules, mode, text)
  OBVIOUS
<1>2. T \subseteq rules /\ \A r \in T : SameExclusion(r, mode, text)
  BY <1>1 DEF Reused
<1>3. IsFiniteSet(T)
  BY <1>2, FS_Subset DEF TablesOK, TableOK
<1>4. /\ \A r \in T : r.id \in Nat /\ r.priority \in Int
      /\ \A r, q \in T : r.id = q.id => r = q
  BY <1>2 DEF TablesOK, TableOK, RuleOK
<1>5. First(T) \in T
  BY <1>1, <1>3, <1>4, FirstIs
<1> QED  BY <1>1, <1>2, <1>5

LEMMA NewSpeaks ==
  ASSUME NEW mode, NEW S, NEW row \in NewOf(mode, S)
  PROVE  /\ row \in Speakers(S, mode[1]) /\ row \in S
         /\ \A r \in rules : ~SameExclusion(r, mode, TextOf(row, mode[1]))
BY DEF NewOf, OldOf, Reused, Speakers

LEMMA CreatedOnce ==
  ASSUME TablesOK, NEW mode, NEW S, IsFiniteSet(S), Groups(S),
         NEW a \in NewOf(mode, S), NEW b \in NewOf(mode, S),
         \/ Created(a, mode, S).id = Created(b, mode, S).id
         \/ Fold[Created(a, mode, S).value] = Fold[Created(b, mode, S).value]
  PROVE  Created(a, mode, S) = Created(b, mode, S)
<1>1. a \in Speakers(S, mode[1]) /\ b \in Speakers(S, mode[1]) /\ a \in S /\ b \in S
  BY NewSpeaks
<1>2. CASE Created(a, mode, S).id = Created(b, mode, S).id
  <2>1. /\ Created(a, mode, S).id \in Nat /\ Created(b, mode, S).id \in Nat
    BY CreatedIs DEF RuleOK
  <2>2. ~(FirstOf(a) < FirstOf(b)) /\ ~(FirstOf(b) < FirstOf(a))
    BY <1>2, <2>1, CreatedTells
  <2>3. FirstOf(a) \in Nat /\ FirstOf(b) \in Nat
    BY <1>1, FirstOfIs DEF Groups
  <2>4. FirstOf(a) = FirstOf(b)
    BY <2>2, <2>3
  <2>5. a = b
    BY <1>1, <2>4, FirstOfTells
  <2> QED  BY <2>5
<1>3. CASE Fold[Created(a, mode, S).value] = Fold[Created(b, mode, S).value]
  <2>1. TextOf(a, mode[1]) = TextOf(b, mode[1])
    BY <1>3, CreatedSays
  <2>2. a = b
    BY <1>1, <2>1, OneSpeaks
  <2> QED  BY <2>2
<1> QED  BY <1>2, <1>3

LEMMA TaughtTable ==
  ASSUME TablesOK, NEW mode, NEW S, IsFiniteSet(S), Groups(S)
  PROVE  TableOK(Taught(rules, mode, S)) /\ Once(Taught(rules, mode, S))
<1> DEFINE K == {Kept(r, mode, S) : r \in rules}
           C == {Created(row, mode, S) : row \in NewOf(mode, S)}
<1>1. Taught(rules, mode, S) = K \cup C
  BY TaughtIs
<1>2. IsFiniteSet(K)
  <2> DEFINE f == [r \in rules |-> Kept(r, mode, S)]
  <2>1. DOMAIN f = rules /\ K = {f[r] : r \in rules}
    OBVIOUS
  <2> HIDE DEF f, K
  <2> QED  BY <2>1, FiniteImage DEF TablesOK, TableOK
<1>3. IsFiniteSet(C)
  <2> DEFINE f == [row \in NewOf(mode, S) |-> Created(row, mode, S)]
  <2>1. DOMAIN f = NewOf(mode, S) /\ C = {f[row] : row \in NewOf(mode, S)}
    OBVIOUS
  <2>2. IsFiniteSet(NewOf(mode, S))
    <3>1. NewOf(mode, S) \subseteq S
      BY NewSpeaks
    <3> QED  BY <3>1, FS_Subset
  <2> HIDE DEF f, C
  <2> QED  BY <2>1, <2>2, FiniteImage
<1>4. PICK k : k = NextId(rules)
  OBVIOUS
<1>5. k \in Nat /\ \A r \in rules : r.id < k
  BY <1>4, NextIdIs DEF TablesOK
<1>6. \A q \in K : \E r \in rules :
        /\ q = Kept(r, mode, S) /\ RuleOK(q) /\ RuleOK(r)
        /\ q.id = r.id /\ q.field = r.field
        /\ q.op = r.op /\ q.value = r.value /\ q.source = r.source
        /\ q.stage = r.stage /\ q.action = r.action
  BY KeptIs DEF TablesOK, TableOK
<1>7. \A q \in C : \E row \in NewOf(mode, S) :
        /\ q = Created(row, mode, S) /\ RuleOK(q) /\ k <= q.id
        /\ q.field = mode[1] /\ q.op = mode[2] /\ Fold[q.value] = TextOf(row, mode[1])
  <2> SUFFICES ASSUME NEW row \in NewOf(mode, S)
               PROVE  LET q == Created(row, mode, S)
                      IN /\ RuleOK(q) /\ k <= q.id
                         /\ q.field = mode[1] /\ q.op = mode[2]
                         /\ Fold[q.value] = TextOf(row, mode[1])
    OBVIOUS
  <2>1. Fold[Created(row, mode, S).value] = TextOf(row, mode[1])
    BY CreatedSays
  <2>2. /\ RuleOK(Created(row, mode, S)) /\ k <= Created(row, mode, S).id
        /\ Created(row, mode, S).field = mode[1] /\ Created(row, mode, S).op = mode[2]
    BY <1>4, CreatedIs
  <2> QED  BY <2>1, <2>2
<1>8. \A p, q \in K : p.id = q.id => p = q
  BY <1>6 DEF TablesOK, TableOK
<1>9. \A p \in K, q \in C : p.id # q.id
  <2> SUFFICES ASSUME NEW p \in K, NEW q \in C PROVE p.id # q.id
    OBVIOUS
  <2>1. p.id \in Nat /\ p.id < k
    BY <1>5, <1>6 DEF RuleOK
  <2>2. q.id \in Nat /\ k <= q.id
    BY <1>7 DEF RuleOK
  <2> QED  BY <1>5, <2>1, <2>2
<1>10. \A p, q \in C : p.id = q.id => p = q
  BY CreatedOnce
<1>11. \A p, q \in K : p.source = "review_inbox" /\ q.source = "review_inbox"
          /\ p.field = q.field /\ p.op = q.op /\ Fold[p.value] = Fold[q.value] => p = q
  BY <1>6 DEF TablesOK, Once
<1>12. \A p \in K, q \in C : p.source = "review_inbox" =>
          ~(p.field = q.field /\ p.op = q.op /\ Fold[p.value] = Fold[q.value])
  <2> SUFFICES ASSUME NEW p \in K, NEW q \in C, p.source = "review_inbox",
                      p.field = q.field, p.op = q.op, Fold[p.value] = Fold[q.value]
               PROVE  FALSE
    OBVIOUS
  <2>1. PICK r \in rules :
          /\ RuleOK(r) /\ p.field = r.field
          /\ p.op = r.op /\ p.value = r.value /\ p.source = r.source
    BY <1>6
  <2>2. PICK row \in NewOf(mode, S) :
          q.field = mode[1] /\ q.op = mode[2] /\ Fold[q.value] = TextOf(row, mode[1])
    BY <1>7
  <2>3. r.stage = "PRE_DESCRIPTION" /\ r.action = "AUTO_EXCLUDE"
    BY <2>1 DEF RuleOK
  <2>4. SameExclusion(r, mode, TextOf(row, mode[1]))
    BY <2>1, <2>2, <2>3 DEF SameExclusion
  <2> QED  BY <2>4, NewSpeaks
<1>13. \A p, q \in C : Fold[p.value] = Fold[q.value] => p = q
  BY CreatedOnce
<1>14. \A q \in K \cup C : RuleOK(q)
  BY <1>6, <1>7
<1>15. IsFiniteSet(K \cup C)
  BY <1>2, <1>3, FS_Union
<1> HIDE DEF K, C
<1>16. TableOK(K \cup C)
  BY <1>8, <1>9, <1>10, <1>14, <1>15 DEF TableOK
<1>17. Once(K \cup C)
  BY <1>11, <1>12, <1>13 DEF Once
<1> QED  BY <1>1, <1>16, <1>17

\* After EXCLUDE + ADD RULE there is a rule for each row's value.
LEMMA TaughtHolds ==
  ASSUME TablesOK, NEW mode, NEW S, IsFiniteSet(S), Groups(S), NEW row \in S,
         NEW lesson, lesson.field = mode[1], lesson.op = mode[2],
         lesson.text = TextOf(row, mode[1])
  PROVE  \E q \in Taught(rules, mode, S) : Holds(q, lesson)
<1>1. PICK s \in Speakers(S, mode[1]) : TextOf(s, mode[1]) = lesson.text
  BY OneSpeaks
<1>2. CASE s \in OldOf(mode, S)
  <2>1. PICK r : r = First(Reused(rules, mode, TextOf(s, mode[1])))
    OBVIOUS
  <2>2. r \in rules /\ SameExclusion(r, mode, lesson.text) /\ r \in ReusedBy(mode, S)
    BY <1>1, <1>2, <2>1, ReusedIs DEF OldOf, ReusedBy
  <2>3. PICK q : q = Promoted(r)
    OBVIOUS
  <2>4. q \in Taught(rules, mode, S)
    BY <2>2, <2>3, TaughtIs DEF Kept
  <2>5. /\ q.stage = r.stage /\ q.field = r.field
        /\ q.op = r.op /\ q.value = r.value /\ q.action = r.action
        /\ q.enabled = TRUE /\ q.priority <= LearnedPriority
    BY <2>2, <2>3, PromotedSet DEF TablesOK, TableOK
  <2>6. Holds(q, lesson)
    BY <2>2, <2>5 DEF Holds, SameExclusion
  <2> QED  BY <2>4, <2>6
<1>3. CASE s \in NewOf(mode, S)
  <2>1. Created(s, mode, S) \in Taught(rules, mode, S)
    BY <1>3, TaughtIs
  <2>2. PICK q : q = Created(s, mode, S)
    OBVIOUS
  <2>3. /\ q.stage = "PRE_DESCRIPTION" /\ q.action = "AUTO_EXCLUDE"
        /\ q.field = mode[1] /\ q.op = mode[2]
        /\ Fold[q.value] = TextOf(s, mode[1])
        /\ q.enabled = TRUE /\ q.priority = LearnedPriority
    <3>1. Fold[Created(s, mode, S).value] = TextOf(s, mode[1])
      BY <1>3, CreatedSays
    <3>2. /\ Created(s, mode, S).stage = "PRE_DESCRIPTION"
          /\ Created(s, mode, S).action = "AUTO_EXCLUDE"
          /\ Created(s, mode, S).field = mode[1] /\ Created(s, mode, S).op = mode[2]
          /\ Created(s, mode, S).enabled = TRUE
          /\ Created(s, mode, S).priority = LearnedPriority
      BY <1>3, CreatedIs
    <3> QED  BY <2>2, <3>1, <3>2
  <2>4. Fold[q.value] = lesson.text /\ LearnedPriority <= LearnedPriority
    BY <1>1, <2>3 DEF LearnedPriority
  <2>5. Holds(q, lesson)
    BY <2>3, <2>4 DEF Holds
  <2> QED  BY <2>1, <2>2, <2>5
<1> QED  BY <1>1, <1>2, <1>3 DEF NewOf

LEMMA TaughtTables ==
  ASSUME TablesOK, NEW mode \in RuleModes, NEW S, IsFiniteSet(S), Groups(S),
         \A row \in S : IsKnown(ValueOf(row, mode[1])),
         rules' = Taught(rules, mode, S),
         lessons' = lessons \cup
           {[field |-> mode[1], op |-> mode[2], text |-> TextOf(row, mode[1])] : row \in S}
  PROVE  TablesOK'
<1>1. TableOK(rules') /\ Once(rules')
  BY TaughtTable
<1>2. AllHeld(rules', lessons')
  <2> SUFFICES ASSUME NEW lesson \in lessons'
               PROVE  LessonOK(lesson) /\ \E q \in rules' : Holds(q, lesson)
    BY DEF AllHeld
  <2>1. CASE lesson \in lessons
    <3>1. PICK r \in rules : LessonOK(lesson) /\ Holds(r, lesson)
      BY <2>1 DEF TablesOK, AllHeld
    <3>2. Kept(r, mode, S) \in rules'
      BY TaughtIs
    <3> QED  BY <3>1, <3>2, KeptIs
  <2>2. CASE lesson \notin lessons
    <3>1. PICK row \in S :
            lesson = [field |-> mode[1], op |-> mode[2], text |-> TextOf(row, mode[1])]
      BY <2>2
    <3>2. lesson.field = mode[1] /\ lesson.op = mode[2] /\ lesson.text = TextOf(row, mode[1])
      BY <3>1
    <3>3. \E q \in rules' : Holds(q, lesson)
      BY <3>2, TaughtHolds
    <3>4. mode = <<"title", "contains">> => lesson.text # Blank
      BY <3>2, TitleSays DEF Groups
    <3>5. LessonOK(lesson)
      BY <3>1, <3>2, <3>4 DEF LessonOK, RuleModes
    <3> QED  BY <3>3, <3>5
  <2> QED  BY <2>1, <2>2
<1> QED  BY <1>1, <1>2 DEF TablesOK


-----------------------------------------------------------------------------
(* The grids.                                                               *)

LEMMA GroupsFinite ==
  ASSUME NEW S, Groups(S)
  PROVE  IsFiniteSet(S)
<1>1. IsFiniteSet(Postings)
  BY FS_Interval, RuleBookAssumption DEF Postings
<1>2. IsFiniteSet(SUBSET Postings)
  BY <1>1, FS_SUBSET
<1>3. S \subseteq SUBSET Postings
  BY DEF Groups
<1> QED  BY <1>2, <1>3, FS_Subset

LEMMA FewerGroups ==
  ASSUME NEW S, Groups(S), NEW T \in SUBSET S
  PROVE  Groups(T)
BY DEF Groups

\* The rows of a view, and so those on a page of it, are groups.
LEMMA MatchingGroups ==
  ASSUME NEW v, NEW scope, NEW f, NEW jobs, NEW status, NEW found, NEW table
  PROVE  Groups(Matching(v, scope, f, jobs, status, found, table))
<1> DEFINE L == Lists(v, scope, jobs, status, found, table)
           M == Matching(v, scope, f, jobs, status, found, table)
<1>1. L \subseteq Postings
  BY Zenon DEF Lists
<1>2. M \in SUBSET Rows(L)
  BY Zenon DEF Matching
<1> HIDE DEF L, M
<1>3. \A row \in Rows(L) : \E k \in L : row = {j \in L : Group[j] = Group[k]}
  BY DEF Rows
<1>4. \A a \in Rows(L) : a # {} /\ a \subseteq Postings
  BY <1>1, <1>3
<1>5. ASSUME NEW a \in Rows(L), NEW b \in Rows(L), a \cap b # {} PROVE a = b
  <2>1. PICK k \in L : a = {j \in L : Group[j] = Group[k]}
    BY <1>3
  <2>2. PICK m \in L : b = {j \in L : Group[j] = Group[m]}
    BY <1>3
  <2>3. Group[k] = Group[m]
    BY <1>5, <2>1, <2>2
  <2> QED  BY <2>1, <2>2, <2>3
<1>6. Groups(M)
  BY <1>2, <1>4, <1>5 DEF Groups
<1> QED  BY <1>6 DEF M

LEMMA PageGroups ==
  ASSUME NEW v, NEW scope, NEW f, NEW jobs, NEW status, NEW found, NEW table, NEW p, NEW n
  PROVE  Groups(OnPage(v, Matching(v, scope, f, jobs, status, found, table), p, n, jobs))
<1>1. PICK M : M = Matching(v, scope, f, jobs, status, found, table)
  OBVIOUS
<1>2. OnPage(v, M, p, n, jobs) \in SUBSET M
  BY Zenon DEF OnPage
<1>3. Groups(OnPage(v, M, p, n, jobs))
  BY <1>1, <1>2, MatchingGroups, FewerGroups
<1> QED  BY <1>1, <1>3

\* Every window was given new rows, and a handler may have let its own go.
LEMMA RefreshGroups ==
  ASSUME IInv, GroupsOK, NEW v, NEW scopes, NEW n, NEW p, NEW f,
         Refresh(v, scopes, n, p, f),
         UNCHANGED picked \/ \E c \in Clients : Drop(c)
  PROVE  GroupsOK'
<1>1. PICK s, q :
        shown' = [c \in Clients |->
             [view |-> v,
              rows |-> OnPage(v, Matching(v, s, f, job', run', hits', rules'), q, n, job')]]
  BY Zenon DEF Refresh
<1>2. PICK rows : rows = OnPage(v, Matching(v, s, f, job', run', hits', rules'), q, n, job')
  OBVIOUS
<1>3. Groups(rows)
  BY <1>2, PageGroups, Zenon
<1>4. shown' = [c \in Clients |-> [view |-> v, rows |-> rows]]
  BY <1>1, <1>2, Zenon
<1>5. \A c \in Clients : Groups(shown'[c].rows)
  BY <1>3, <1>4
<1>6. \A c \in Clients : Groups(picked'[c].rows)
  <2>1. CASE UNCHANGED picked
    BY <2>1 DEF GroupsOK
  <2>2. ASSUME NEW c \in Clients, Drop(c) PROVE \A b \in Clients : Groups(picked'[b].rows)
    <3>1. PICK g : g = [picked[c] EXCEPT !.rows = NoRows]
      OBVIOUS
    <3>2. picked \in [Clients -> Grid(Postings)]
      BY DEF IInv, GridsOK
    <3>3. g.rows = {}
      BY <3>1, <3>2 DEF Grid, NoRows
    <3>4. picked' = [picked EXCEPT ![c] = g]
      BY <2>2, <3>1, Zenon DEF Drop
    <3>5. Groups(g.rows)
      BY <3>3 DEF Groups
    <3> QED  BY <3>2, <3>4, <3>5 DEF GroupsOK
  <2> QED  BY <2>1, <2>2
<1> QED  BY <1>5, <1>6 DEF GroupsOK, Groups

LEMMA OpenGroups ==
  ASSUME IInv, GroupsOK, NEW c \in Clients, Open(c)
  PROVE  GroupsOK'
<1>1. PICK q : shown' = [shown EXCEPT ![c] =
                 [view |-> view,
                  rows |-> OnPage(view, Matching(view, scopeOf[view], filter, job, run,
                                                 hits, rules), q, size, job)]]
  BY Zenon DEF Open
<1>2. PICK rows : rows = OnPage(view, Matching(view, scopeOf[view], filter, job, run,
                                               hits, rules), q, size, job)
  OBVIOUS
<1>3. Groups(rows)
  BY <1>2, PageGroups, Zenon
<1>4. shown' = [shown EXCEPT ![c] = [view |-> view, rows |-> rows]]
  BY <1>1, <1>2, Zenon
<1>5. shown \in [Clients -> Grid(Postings)]
  BY DEF IInv, GridsOK
<1>6. \A b \in Clients : Groups(shown'[b].rows)
  BY <1>3, <1>4, <1>5 DEF GroupsOK
<1>7. UNCHANGED picked
  BY Zenon DEF Open
<1> QED  BY <1>6, <1>7 DEF GroupsOK, Groups

LEMMA PickGroups ==
  ASSUME IInv, GroupsOK, NEW c \in Clients, Pick(c)
  PROVE  GroupsOK'
<1>1. PICK rows \in SUBSET shown[c].rows :
        picked' = [picked EXCEPT ![c] = [view |-> shown[c].view, rows |-> rows]]
  BY DEF Pick
<1>2. Groups(rows)
  BY FewerGroups DEF GroupsOK
<1>3. picked \in [Clients -> Grid(Postings)]
  BY DEF IInv, GridsOK
<1>4. \A b \in Clients : Groups(picked'[b].rows)
  BY <1>1, <1>2, <1>3 DEF GroupsOK
<1>5. UNCHANGED shown
  BY Zenon DEF Pick
<1> QED  BY <1>4, <1>5 DEF GroupsOK, Groups

-----------------------------------------------------------------------------
(* What the searches loaded.                                                *)

LEMMA LoadedOK ==
  ASSUME TablesOK
  PROVE  LET now == Loaded(rules, "PRE_DESCRIPTION")
         IN TableOK(now) /\ AllHeld(now, lessons)
<1>1. PICK now : now = Loaded(rules, "PRE_DESCRIPTION")
  OBVIOUS
<1>2. \A r : r \in now <=> r \in rules /\ r.stage = "PRE_DESCRIPTION" /\ r.enabled
  BY <1>1 DEF Loaded
<1>3. IsFiniteSet(now)
  BY <1>2, FS_Subset DEF TablesOK, TableOK
<1>4. TableOK(now)
  BY <1>2, <1>3 DEF TablesOK, TableOK
<1>5. AllHeld(now, lessons)
  BY <1>2 DEF TablesOK, AllHeld, Holds
<1> QED  BY <1>1, <1>4, <1>5

LEMMA NoSnapshotOK == TableOK(NoSnapshot.rules) /\ AllHeld(NoSnapshot.rules, NoSnapshot.lessons)
<1>1. NoSnapshot.rules = {} /\ NoSnapshot.lessons = {}
  BY DEF NoSnapshot
<1>2. IsFiniteSet({})
  BY FS_EmptySet
<1> QED  BY <1>1, <1>2 DEF TableOK, AllHeld

LEMMA SearchSnaps ==
  ASSUME TablesOK, SnapOK, NEW r \in Runs,
         StartRun(r) \/ StoreRun(r) \/ FinishRun(r) \/ FailRun(r)
  PROVE  SnapOK'
<1>1. CASE StartRun(r)
  <2>1. PICK s : s = [rules |-> Loaded(rules, "PRE_DESCRIPTION"),
                      cats |-> cats, lessons |-> lessons]
    OBVIOUS
  <2>2. snap' = [snap EXCEPT ![r] = s]
    BY <1>1, <2>1, Zenon DEF StartRun
  <2>3. TableOK(s.rules) /\ AllHeld(s.rules, s.lessons)
    BY <2>1, LoadedOK
  <2> QED  BY <2>2, <2>3 DEF SnapOK
<1>2. CASE StoreRun(r) \/ FailRun(r)
  <2>1. PICK s : s = NoSnapshot
    OBVIOUS
  <2>2. snap' = [snap EXCEPT ![r] = s]
    BY <1>2, <2>1, Zenon DEF StoreRun, FailRun
  <2>3. TableOK(s.rules) /\ AllHeld(s.rules, s.lessons)
    BY <2>1, NoSnapshotOK
  <2> QED  BY <2>2, <2>3 DEF SnapOK
<1>3. CASE FinishRun(r)
  <2>1. UNCHANGED snap
    BY <1>3, Zenon DEF FinishRun
  <2> QED  BY <2>1 DEF SnapOK, TableOK, AllHeld
<1> QED  BY <1>1, <1>2, <1>3


-----------------------------------------------------------------------------
(* The invariant.                                                           *)

LEMMA TablesStay ==
  ASSUME TablesOK, UNCHANGED <<rules, lessons>>
  PROVE  TablesOK'
BY DEF TablesOK, TableOK, AllHeld, Once

LEMMA SnapsStay ==
  ASSUME SnapOK, UNCHANGED snap
  PROVE  SnapOK'
BY DEF SnapOK, TableOK, AllHeld

LEMMA GroupsStay ==
  ASSUME GroupsOK, UNCHANGED <<shown, picked>>
  PROVE  GroupsOK'
BY DEF GroupsOK, Groups

LEMMA TeachTables ==
  ASSUME LInv, NEW c \in Clients, NEW mode \in RuleModes, Teach(c, mode)
  PROVE  TablesOK'
<1>1. PICK S : S = picked[c].rows
  OBVIOUS
<1>2. Groups(S) /\ IsFiniteSet(S)
  BY <1>1, GroupsFinite DEF LInv, GroupsOK
<1>3. CASE \A row \in S : IsKnown(ValueOf(row, mode[1]))
  <2>1. /\ rules' = Taught(rules, mode, S)
        /\ lessons' = lessons \cup
             {[field |-> mode[1], op |-> mode[2], text |-> TextOf(row, mode[1])] : row \in S}
    BY <1>1, <1>3, Zenon DEF Teach
  <2> QED  BY <1>2, <1>3, <2>1, TaughtTables DEF LInv
<1>4. CASE ~\A row \in S : IsKnown(ValueOf(row, mode[1]))
  <2>1. UNCHANGED <<rules, lessons>>
    BY <1>1, <1>4, Zenon DEF Teach, bookVars, tables
  <2> QED  BY <2>1, TablesStay DEF LInv
<1> QED  BY <1>3, <1>4

LEMMA TeachGroups ==
  ASSUME IInv, LInv, NEW c \in Clients, NEW mode \in RuleModes, Teach(c, mode)
  PROVE  GroupsOK'
<1>1. Drop(c)
  BY Zenon DEF Teach
<1>2. CASE \A row \in picked[c].rows : IsKnown(ValueOf(row, mode[1]))
  <2>1. Refresh(view, scopeOf, size, page, filter)
    BY <1>2, Zenon DEF Teach, RefreshAll
  <2> QED  BY <1>1, <2>1, RefreshGroups DEF LInv
<1>3. CASE ~\A row \in picked[c].rows : IsKnown(ValueOf(row, mode[1]))
  <2>1. UNCHANGED shown
    BY <1>3, Zenon DEF Teach
  <2>2. PICK g : g = [picked[c] EXCEPT !.rows = NoRows]
    OBVIOUS
  <2>3. picked' = [picked EXCEPT ![c] = g]
    BY <1>1, <2>2, Zenon DEF Drop
  <2>4. picked \in [Clients -> Grid(Postings)]
    BY DEF IInv, GridsOK
  <2>5. g.rows = {}
    BY <2>2, <2>4 DEF Grid, NoRows
  <2>6. Groups(g.rows)
    BY <2>5 DEF Groups
  <2>7. \A b \in Clients : Groups(picked'[b].rows)
    BY <2>3, <2>4, <2>6 DEF LInv, GroupsOK
  <2> QED  BY <2>1, <2>7 DEF LInv, GroupsOK, Groups
<1> QED  BY <1>2, <1>3

LEMMA LInvInit == Init => LInv
<1> SUFFICES ASSUME Init PROVE LInv
  OBVIOUS
<1>1. rules = SeedRules /\ lessons = {} /\ snap = [r \in Runs |-> NoSnapshot]
  BY DEF Init, BookInit
<1>2. TableOK(SeedRules)
  <2>1. \A r \in SeedRules : RuleOK(r)
    BY RuleBookAssumption DEF Rule, RuleOK, RuleShaped
  <2> QED  BY <2>1, RuleBookAssumption DEF TableOK
<1>3. TablesOK
  BY <1>1, <1>2, RuleBookAssumption DEF TablesOK, AllHeld, Once
<1>4. SnapOK
  BY <1>1, NoSnapshotOK DEF SnapOK
<1>5. \A c \in Clients : shown[c].rows = {} /\ picked[c].rows = {}
  BY DEF Init, InboxInit, NoRows
<1>6. GroupsOK
  BY <1>5 DEF GroupsOK, Groups
<1> QED  BY <1>3, <1>4, <1>6 DEF LInv

LEMMA LInvStep == IInv /\ LInv /\ [Next]_vars => LInv'
<1> SUFFICES ASSUME IInv, LInv, [Next]_vars PROVE LInv'
  OBVIOUS
<1> USE DEF LInv
<1>1. CASE UNCHANGED vars
  <2>1. UNCHANGED <<rules, lessons, snap, shown, picked>>
    BY <1>1 DEF vars, bookVars, inboxVars, tables, search
  <2> QED  BY <2>1, TablesStay, SnapsStay, GroupsStay
<1>2. CASE Inbox
  <2>1. UNCHANGED <<rules, lessons, snap>>
    BY <1>2, Zenon DEF Inbox, Open, Pick, bookVars, tables, search
  <2>2. GroupsOK'
    BY <1>2, OpenGroups, PickGroups DEF Inbox
  <2> QED  BY <2>1, <2>2, TablesStay, SnapsStay
<1>3. CASE Deciding
  <2>1. UNCHANGED <<rules, lessons, snap>>
    BY <1>3, Zenon DEF Deciding, Decide, Override, tables, search
  <2>2. PICK c \in Clients : RefreshAll /\ Drop(c)
    BY <1>3, Zenon DEF Deciding, Decide, Override
  <2>3. GroupsOK'
    BY <2>2, RefreshGroups DEF RefreshAll
  <2> QED  BY <2>1, <2>3, TablesStay, SnapsStay
<1>4. CASE Teaching
  <2>1. PICK c \in Clients, mode \in RuleModes : Teach(c, mode)
    BY <1>4 DEF Teaching
  <2>2. UNCHANGED snap
    BY <2>1, Zenon DEF Teach, bookVars, search
  <2> QED  BY <2>1, <2>2, TeachTables, TeachGroups, SnapsStay
<1>5. CASE Browse \/ Paging
  <2>1. UNCHANGED <<rules, lessons, snap, picked>>
    BY <1>5, Zenon DEF Browse, Paging, ScopeChanged, ViewChanged, PreviousPage, NextPage,
                       PageSizeChanged, FilterChanged, bookVars, tables, search
  <2>2. \E v, scopes, n, p, f : Refresh(v, scopes, n, p, f)
    BY <1>5, Zenon DEF Browse, Paging, ScopeChanged, ViewChanged, PreviousPage, NextPage,
                       PageSizeChanged, FilterChanged
  <2>3. GroupsOK'
    BY <2>1, <2>2, RefreshGroups
  <2> QED  BY <2>1, <2>3, TablesStay, SnapsStay
<1>6. CASE OpenPanels
  <2>1. UNCHANGED <<rules, lessons, snap, shown, picked>>
    BY <1>6, Zenon DEF OpenPanels, bookVars, tables, search
  <2> QED  BY <2>1, TablesStay, SnapsStay, GroupsStay
<1>7. ASSUME NEW v \in PanelViews, PanelDecision(v) PROVE LInv'
  <2>1. UNCHANGED <<rules, lessons, snap, picked>> /\ RefreshAll
    BY <1>7, Zenon DEF PanelDecision, tables, search
  <2>2. GroupsOK'
    BY <2>1, RefreshGroups DEF RefreshAll
  <2> QED  BY <2>1, <2>2, TablesStay, SnapsStay
<1>8. ASSUME NEW r \in Runs, StartRun(r) \/ StoreRun(r) \/ FinishRun(r) \/ FailRun(r),
             UNCHANGED inboxVars
      PROVE  LInv'
  <2>1. UNCHANGED <<rules, lessons>>
    BY <1>8, Zenon DEF StartRun, StoreRun, FinishRun, FailRun, tables
  <2>2. UNCHANGED <<shown, picked>>
    BY <1>8 DEF inboxVars
  <2> QED  BY <1>8, <2>1, <2>2, TablesStay, SearchSnaps, GroupsStay
<1>9. ASSUME RulesPage, UNCHANGED inboxVars PROVE LInv'
  <2>1. UNCHANGED snap
    BY <1>9, Zenon DEF RulesPage, AddRule, EnableRules, search
  <2>2. UNCHANGED <<shown, picked>>
    BY <1>9 DEF inboxVars
  <2>3. ASSUME NEW on \in BOOLEAN, NEW s \in Stages,
               NEW S \in SUBSET {r \in rules : r.stage = s}, EnableRules(S, on)
        PROVE  TablesOK'
    <3>1. S \in SUBSET rules
      OBVIOUS
    <3> QED  BY <2>3, <3>1, EnableRulesTables
  <2>4. TablesOK'
    BY <1>9, <2>3, AddRuleTables DEF RulesPage
  <2> QED  BY <2>1, <2>2, <2>4, SnapsStay, GroupsStay
<1>10. ASSUME Settings \/ Fetching \/ Gating \/ Extracting, UNCHANGED inboxVars PROVE LInv'
  <2>1. UNCHANGED <<rules, lessons, snap>>
    BY <1>10, Zenon DEF Settings, Fetching, Gating, Extracting, SaveCategory,
         ReapplyMetadata, ReapplyPostAi, EnableCategories, LoadForDetails, FetchDetails,
         LoadForGate, PersistGate, Extract, RunPostAi, tables, search
  <2>2. UNCHANGED <<shown, picked>>
    BY <1>10 DEF inboxVars
  <2> QED  BY <2>1, <2>2, TablesStay, SnapsStay, GroupsStay
<1>11. 1 \in Runs
  BY InboxAssumption, RuleBookAssumption DEF Runs
<1>12. CASE Next
  <2>1. CASE (Search({1}) \/ Search(Runs \ {1})) /\ UNCHANGED inboxVars
    BY <2>1, <1>8, <1>11, Zenon DEF Search
  <2> QED  BY <1>12, <1>2, <1>3, <1>4, <1>5, <1>6, <1>7, <1>8, <1>9, <1>10, <2>1
           DEF Next, Panels
<1> QED  BY <1>1, <1>12

LEMMA LessonsInvariant == Spec => [](IInv /\ LInv)
<1>1. Init => IInv /\ LInv
  BY IInvInit, LInvInit
<1>2. (IInv /\ LInv) /\ [Next]_vars => (IInv /\ LInv)'
  BY IInvStep, LInvStep
<1> QED  BY <1>1, <1>2, PTL DEF Spec

-----------------------------------------------------------------------------
(* The theorems.                                                            *)

\* However often a value is taught, in whatever spelling and from whichever
\* window, one rule holds it (_ensure_review_exclusion_rule).
THEOREM OneRuleHolds == Spec => []OneRulePerValue
<1>1. LInv => OneRulePerValue
  BY DEF LInv, TablesOK, Once, OneRulePerValue
<1> QED  BY <1>1, LessonsInvariant, PTL

StoresExcluded ==
  \A r \in Runs, j \in Postings :
       run[r] = "RUNNING" /\ run'[r] = "STORED" /\ ~Exists(j) /\ job'[j].class # "" =>
         \A lesson \in snap[r].lessons :
           Says(lesson, Raw[j]) /\ ~Excepted(Raw[j], snap[r].rules)
             => job'[j].class = "AUTO_EXCLUDE"

LEMMA StoreExcludes ==
  ASSUME LInv, NEW r \in Runs, NEW j \in Postings, StoreRun(r),
         ~Exists(j), job'[j].class # "",
         NEW lesson \in snap[r].lessons, Says(lesson, Raw[j]),
         ~Excepted(Raw[j], snap[r].rules)
  PROVE  job'[j].class = "AUTO_EXCLUDE"
<1>1. PICK found : job' = [k \in Postings |-> IF k \in found /\ ~Exists(k) THEN NewRow(r, k)
                                              ELSE job[k]]
  BY Zenon DEF StoreRun
<1>2. job'[j] = NewRow(r, j)
  BY <1>1 DEF Exists
<1>3. PICK table : table = snap[r].rules
  OBVIOUS
<1>4. TableOK(table) /\ LessonOK(lesson) /\ \E q \in table : Holds(q, lesson)
  BY <1>3 DEF LInv, SnapOK, AllHeld
<1>5. PICK q \in table : Holds(q, lesson)
  BY <1>4
<1>6. Matches(q, Raw[j])
  BY <1>4, <1>5, LessonMatches
<1>7. ClassifyPre(Raw[j], table, snap[r].cats).class = "AUTO_EXCLUDE"
  <2>1. q.action = "AUTO_EXCLUDE" /\ q.priority <= LearnedPriority
    BY <1>5 DEF Holds
  <2>2. ~Excepted(Raw[j], table)
    BY <1>3, Zenon
  <2>3. PICK cs : cs = snap[r].cats
    OBVIOUS
  <2>4. ClassifyPre(Raw[j], table, cs).class = "AUTO_EXCLUDE"
    BY <1>4, <1>6, <2>1, <2>2, ExclusionSpeaks
  <2> QED  BY <2>3, <2>4
<1>8. NewRow(r, j).class = ClassifyPre(Raw[j], snap[r].rules, snap[r].cats).class
  BY NewRowFresh
<1> QED  BY <1>2, <1>3, <1>7, <1>8

\* Only storing its results takes a run from RUNNING to STORED.
LEMMA OnlyStoring ==
  ASSUME Next, NEW r \in Runs, run[r] = "RUNNING", run'[r] = "STORED"
  PROVE  StoreRun(r)
<1>1. run' # run
  OBVIOUS
<1>2. CASE UNCHANGED run
  BY <1>1, <1>2
<1>3. ASSUME NEW q \in Runs, StartRun(q) \/ StoreRun(q) \/ FinishRun(q) \/ FailRun(q)
      PROVE  StoreRun(r)
  <2>1. CASE StoreRun(q)
    <3>1. run' = [run EXCEPT ![q] = "STORED"]
      BY <2>1, Zenon DEF StoreRun
    <3>2. q = r
      BY <3>1
    <3> QED  BY <2>1, <3>2
  <2>2. CASE StartRun(q) \/ FinishRun(q) \/ FailRun(q)
    <3>1. PICK s \in {"RUNNING", "SUCCESS", "FAILED"} : run' = [run EXCEPT ![q] = s]
      BY <2>2, Zenon DEF StartRun, FinishRun, FailRun
    <3>2. run'[r] = run[r] \/ (q = r /\ r \in DOMAIN run /\ run'[r] = s)
      BY <3>1
    <3> QED  BY <3>2
  <2> QED  BY <1>3, <2>1, <2>2
<1>4. CASE Inbox \/ Deciding \/ Teaching
  <2>1. UNCHANGED run
    BY <1>4, Zenon DEF Inbox, Open, Pick, Deciding, Decide, Override, Teaching, Teach,
                       bookVars, search
  <2> QED  BY <1>2, <2>1
<1>5. CASE Browse \/ Paging \/ Panels
  <2>1. UNCHANGED run
    BY <1>5, Zenon DEF Browse, Paging, ScopeChanged, ViewChanged, PreviousPage, NextPage,
                       PageSizeChanged, FilterChanged, Panels, OpenPanels, PanelDecision,
                       bookVars, search
  <2> QED  BY <1>2, <2>1
<1>6. CASE RulesPage \/ Settings \/ Fetching \/ Gating \/ Extracting
  <2>1. UNCHANGED run
    BY <1>6, Zenon DEF RulesPage, AddRule, EnableRules,
         Settings, Fetching, Gating, Extracting, SaveCategory,
         ReapplyMetadata, ReapplyPostAi, EnableCategories, LoadForDetails, FetchDetails,
         LoadForGate, PersistGate, Extract, RunPostAi, search
  <2> QED  BY <1>2, <2>1
<1>7. 1 \in Runs
  BY InboxAssumption, RuleBookAssumption DEF Runs
<1>8. CASE Search({1}) \/ Search(Runs \ {1}) \/ \E q \in Runs : FailRun(q)
  BY <1>3, <1>7, <1>8, Zenon DEF Search
<1> QED  BY <1>4, <1>5, <1>6, <1>8 DEF Next

\* What a search stores after EXCLUDE + ADD RULE is excluded when the lesson
\* says so, whatever was edited between the lesson and the search's start.
THEOREM LessonsHold == Spec => LearnedExclusion
<1>1. IInv /\ LInv /\ [Next]_vars =>
        [\A r \in Runs, j \in Postings :
           run[r] = "RUNNING" /\ run'[r] = "STORED" /\ ~Exists(j) /\ job'[j].class # "" =>
             \A lesson \in snap[r].lessons :
               Says(lesson, Raw[j]) /\ ~Excepted(Raw[j], snap[r].rules)
                 => job'[j].class = "AUTO_EXCLUDE"]_vars
  <2> SUFFICES ASSUME LInv, [Next]_vars, ~UNCHANGED vars PROVE StoresExcluded
    BY DEF StoresExcluded
  <2> QED  BY OnlyStoring, StoreExcludes DEF StoresExcluded
<1> QED  BY <1>1, LessonsInvariant, PTL DEF Spec, LearnedExclusion
=============================================================================
