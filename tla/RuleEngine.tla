----------------------------- MODULE RuleEngine -----------------------------
(***************************************************************************)
(* The rule engine: what the rules of a stage make of one posting.  A rule *)
(* is a row of pipeline_rules, cats the table review_categories.  Texts    *)
(* are opaque; what Python's string functions say of them is given by the  *)
(* constants.                                                              *)
(***************************************************************************)
EXTENDS Integers, FiniteSets, Sequences
SeqExt == INSTANCE SequencesExt

CONSTANTS Scalars,     \* texts, numbers and truth values, as stored
          Blank,       \* the empty text; also what is written when unset
          Trim,        \* clean_text: Scalars to Scalars, Blank for NaN
          Fold,        \* normalize_text: Scalars to Scalars
          Inside,      \* <<s, t>>: the folded text s occurs in the folded text t
          Found,       \* <<p, s>>: the pattern p, ignoring case, is found in s
          Listed,      \* parse_list: Scalars to sets of folded items
          Number,      \* to_float, a function on the scalars that are numbers
          Truths, Falsehoods,         \* the scalars to_bool reads
          Yes, No,                    \* True and False themselves
          Canonical,                  \* canonical_language: Scalars to Scalars
          ResearchTitles              \* titles is_target_research_role accepts

ASSUME ScalarsAssumption ==
  /\ Blank \in Scalars
  /\ Trim \in [Scalars -> Scalars] /\ Trim[Blank] = Blank
  /\ Fold \in [Scalars -> Scalars] /\ Fold[Blank] = Blank
  /\ Listed \in [Scalars -> SUBSET Scalars]
  /\ DOMAIN Number \subseteq Scalars /\ \A s \in DOMAIN Number : Number[s] \in Int
  /\ Truths \cap Falsehoods = {} /\ Yes \in Truths /\ No \in Falsehoods
  /\ Canonical \in [Scalars -> Scalars]

Stages   == {"PRE_DESCRIPTION", "METADATA_GATE", "POST_AI"}
Operators == {"is_true", "is_false", "gt", "gte", "lt", "lte", "equals",
              "not_equals", "contains", "not_contains", "regex", "in", "not_in"}
Actions == [s \in Stages |->
              CASE s = "PRE_DESCRIPTION" -> {"AUTO_KEEP", "REVIEW", "AUTO_EXCLUDE"}
                [] s = "METADATA_GATE"   -> {"PASS", "REJECT"}
                [] s = "POST_AI"         -> {"SHORTLIST", "REVIEW", "REJECT"}]

NoCategory == ""
Ambiguous  == "other_ambiguous"

-----------------------------------------------------------------------------
(* Values of a job's fields, and how a rule matches one.                   *)

\* None, a scalar, or a list of scalars.
Unknown   == [list |-> FALSE, items |-> <<>>]
Single(s) == [list |-> FALSE, items |-> <<s>>]
Many(seq) == [list |-> TRUE, items |-> seq]

IsKnown(v) == v.list \/ v.items # <<>>
Get(job, field) == IF field \in DOMAIN job THEN job[field] ELSE Unknown

\* The positions and the folded texts of left_values: a list drops its blank
\* items, a single value stays even when it is blank.
Left(v)      == {n \in DOMAIN v.items : v.list => Fold[v.items[n]] # Blank}
LeftTexts(v) == {Fold[v.items[n]] : n \in Left(v)}
IsOnly(v, text) == Cardinality(Left(v)) = 1 /\ LeftTexts(v) = {text}

Compares(op, x, y) ==
  \/ op = "gt" /\ x > y
  \/ op = "gte" /\ x >= y
  \/ op = "lt" /\ x < y
  \/ op = "lte" /\ x <= y

\* What is unknown satisfies no rule, the negative ones included.
Matches(rule, job) ==
  LET v     == Get(job, rule.field)
      right == Fold[rule.value]
  IN /\ IsKnown(v)
     /\ \/ rule.op = "is_true" /\ ~v.list /\ v.items[1] \in Truths
        \/ rule.op = "is_false" /\ ~v.list /\ v.items[1] \in Falsehoods
        \/ /\ ~v.list /\ v.items[1] \in DOMAIN Number
           /\ rule.value \in DOMAIN Number
           /\ Compares(rule.op, Number[v.items[1]], Number[rule.value])
        \/ rule.op = "equals" /\ IsOnly(v, right)
        \/ rule.op = "not_equals" /\ ~IsOnly(v, right)
        \/ /\ rule.op = "contains" /\ right # Blank
           /\ \E t \in LeftTexts(v) : <<right, t>> \in Inside
        \/ /\ rule.op = "not_contains" /\ right # Blank
           /\ \A t \in LeftTexts(v) : <<right, t>> \notin Inside
        \/ /\ rule.op = "regex" /\ rule.value # Blank
           /\ \E n \in DOMAIN v.items : <<rule.value, v.items[n]>> \in Found
        \/ /\ rule.op = "in" /\ Listed[rule.value] # {}
           /\ LeftTexts(v) \cap Listed[rule.value] # {}
        \/ /\ rule.op = "not_in" /\ Listed[rule.value] # {}
           /\ LeftTexts(v) \cap Listed[rule.value] = {}

-----------------------------------------------------------------------------
(* The rules of a stage, in priority order.                                *)

Loaded(table, stage) == {r \in table : r.stage = stage /\ r.enabled}

Before(r, q) == r.priority < q.priority \/ (r.priority = q.priority /\ r.id < q.id)
First(rules) == CHOOSE r \in rules : \A q \in rules \ {r} : Before(r, q)

CategoryEnabled(cats, c) == c \in DOMAIN cats => cats[c].enabled

Suggested(cats, c) ==
  IF c \in DOMAIN cats /\ cats[c].enabled THEN cats[c].action ELSE "REVIEW"

OrAmbiguous(c) == IF c = NoCategory THEN Ambiguous ELSE c

\* The classification a rule gives, with the rules it names as its reason.
FromRule(rule, cats) ==
  CASE rule.action = "AUTO_KEEP" ->
         [class |-> "AUTO_KEEP", category |-> NoCategory,
          suggested |-> "KEEP", by |-> {rule.id}]
    [] rule.action = "AUTO_EXCLUDE" ->
         [class |-> "AUTO_EXCLUDE", category |-> rule.category,
          suggested |-> "EXCLUDE", by |-> {rule.id}]
    [] rule.action = "REVIEW" ->
         [class |-> "REVIEW", category |-> OrAmbiguous(rule.category),
          suggested |-> Suggested(cats, OrAmbiguous(rule.category)), by |-> {rule.id}]

EarlyPriority == 200
\* A priority 0 counts as 1000.
Early(rules) == {r \in rules : r.priority # 0 /\ r.priority < EarlyPriority}

\* The rules that may speak: a REVIEW rule of a disabled category does not.
Active(rules, cats) ==
  {r \in rules : r.action = "REVIEW" => CategoryEnabled(cats, r.category)}

TargetResearchRole(job) ==
  LET title == Get(job, "title") IN IsKnown(title) /\ title.items[1] \in ResearchTitles

\* Early rules, clear keeps, research with target technology, the rest, review.
ClassifyPre(job, rules, cats) ==
  LET hits     == {r \in Active(rules, cats) : Matches(r, job)}
      keeps    == {r \in hits : r.action = "AUTO_KEEP"}
      research == {r \in hits : r.category = "research"}
      tech     == {r \in hits : r.category = "emerging_ai_roles"}
  IN CASE Early(hits) # {} -> FromRule(First(Early(hits)), cats)
       [] Early(hits) = {} /\ keeps # {} -> FromRule(First(keeps), cats)
       [] /\ Early(hits) = {} /\ keeps = {}
          /\ research # {} /\ tech # {} /\ TargetResearchRole(job) ->
            [class |-> "AUTO_KEEP", category |-> NoCategory, suggested |-> "KEEP",
             by |-> {First(research).id, First(tech).id}]
       [] OTHER ->
            IF hits # {} THEN FromRule(First(hits), cats)
            ELSE [class |-> "REVIEW", category |-> Ambiguous,
                  suggested |-> Suggested(cats, Ambiguous), by |-> {}]

\* The metadata gate: the title decision first, then the first rule, else PASS.
GateVerdict(class, human, job, rules) ==
  LET hits == {r \in rules : Matches(r, job) /\ r.action \in {"PASS", "REJECT"}}
  IN IF human = "EXCLUDE" \/ (class = "AUTO_EXCLUDE" /\ human # "KEEP")
     THEN "REJECT"
     ELSE IF hits # {} THEN First(hits).action ELSE "PASS"

\* The proposal after extraction: a human KEEP is not a final decision.
PostVerdict(human, job, rules) ==
  LET hits == {r \in rules : Matches(r, job)
                             /\ r.action \in {"SHORTLIST", "REVIEW", "REJECT"}}
      rule == First(hits)
  IN IF human = "EXCLUDE"
     THEN [status |-> "REJECT", category |-> NoCategory]
     ELSE IF hits = {} THEN [status |-> "REVIEW", category |-> Ambiguous]
     ELSE [status |-> rule.action,
           category |-> IF rule.action = "REVIEW" THEN OrAmbiguous(rule.category)
                        ELSE NoCategory]
-----------------------------------------------------------------------------
(* The row the POST_AI rules see: the extracted facts and what the code      *)
(* derives from them.                                                        *)

TargetFamilies == {"data_science", "machine_learning", "ai_engineering",
                   "computer_vision", "deep_learning"}
Accepted == {"english", "dutch", "german"}

Truth(b) == Single(IF b THEN Yes ELSE No)
Folded(seq)    == SelectSeq([n \in DOMAIN seq |-> Fold[seq[n]]], LAMBDA t : t # Blank)
Languages(seq) == {Canonical[seq[n]] : n \in DOMAIN seq} \ {Blank}

AiDataHybrid(families) ==
  "data_engineering" \in families /\ families \cap TargetFamilies # {}

DerivedFields == {"role_families", "ai_data_engineering_hybrid", "languages_required",
                  "languages_preferred", "languages_bonus",
                  "other_required_language_present",
                  "non_english_preferred_language_present",
                  "non_english_bonus_language_present"}

\* facts: the columns taken over as they are, and the lists derived from.
PostRow(facts) ==
  LET named     == Get(facts.plain, "role_family")
      families  == Folded(IF facts.families = <<>> THEN named.items ELSE facts.families)
      required  == Languages(facts.required)
      preferred == Languages(facts.preferred)
      bonus     == Languages(facts.bonus)
  IN [f \in DOMAIN facts.plain \cup DerivedFields |->
        CASE f = "role_families"       -> Many(families)
          [] f = "ai_data_engineering_hybrid" -> Truth(AiDataHybrid(SeqExt!Range(families)))
          [] f = "languages_required"  -> Many(SeqExt!SetToSeq(required))
          [] f = "languages_preferred" -> Many(SeqExt!SetToSeq(preferred))
          [] f = "languages_bonus"     -> Many(SeqExt!SetToSeq(bonus))
          [] f = "other_required_language_present" -> Truth(required \ Accepted # {})
          [] f = "non_english_preferred_language_present" ->
               Truth(preferred \ {"english"} # {})
          [] f = "non_english_bonus_language_present" -> Truth(bonus \ {"english"} # {})
          [] OTHER -> facts.plain[f]]
=============================================================================
