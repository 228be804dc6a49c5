--------------------------- MODULE MCReviewInbox ----------------------------
(* An instance of ReviewInbox for TLC: three postings, two of them of one  *)
(* company in two spellings, and rules that compete for them.              *)
EXTENDS ReviewInbox, TLC

CONSTANTS c1, c2

TwoClients == {c1, c2}

Texts   == {"", "Acme", "acme", "ACME", "Beta", "beta", "Dev", "dev", "UNKNOWN",
            "unknown", "Yes", "No", "yes", "english"}
Folding == [s \in Texts |->
              CASE s \in {"Acme", "ACME"} -> "acme" [] s = "Beta" -> "beta"
                [] s = "Dev" -> "dev" [] s = "UNKNOWN" -> "unknown"
                [] s = "Yes" -> "yes" [] s = "No" -> "" [] OTHER -> s]
Same    == [s \in Texts |-> s]
Lists1  == [s \in Texts |-> IF s = "" THEN {} ELSE {Folding[s]}]
Parts   == {<<s, s>> : s \in Texts}
NoNumbers == [s \in {} |-> 0]
NoneSet == {}
Yeses   == {"Yes", "yes"}
Noes    == {"No"}

Posted(company, title) == [company |-> Single(company), title |-> Single(title)]
Postings3 == <<Posted("ACME", "Dev"), Posted("Acme", "dev"), Posted("Beta", "")>>
Groups3   == <<1, 1, 2>>
Extracted == [j \in 1..3 |-> [plain |-> [phd_required |-> Single("No")], families |-> <<>>,
                              required |-> <<>>, preferred |-> <<>>, bonus |-> <<>>]]
Found3  == {{}, {1}, {2, 3}, {1, 2, 3}}

ARule(id, stage, field, value, action, category, priority, enabled) ==
  [id |-> id, stage |-> stage, field |-> field, op |-> "equals", value |-> value,
   action |-> action, category |-> category, priority |-> priority,
   enabled |-> enabled, source |-> "seed"]
Rules == {ARule(1, "PRE_DESCRIPTION", "company", "Acme", "AUTO_EXCLUDE", "", 500, FALSE),
          ARule(2, "PRE_DESCRIPTION", "company", "Beta", "REVIEW", "research", 400, TRUE),
          ARule(3, "METADATA_GATE", "company", "Beta", "REJECT", "", 10, TRUE)}
Added == {[stage |-> "PRE_DESCRIPTION", field |-> "title", op |-> "equals",
           value |-> "Dev", action |-> "AUTO_KEEP", category |-> "", priority |-> 60,
           enabled |-> TRUE]}
Categories == [c \in {"research", "other_ambiguous"} |->
                 [action |-> "REVIEW", enabled |-> TRUE]]
SavedCategories == {<<"research", [action |-> "EXCLUDE", enabled |-> TRUE]>>}
Ranks == [c \in {"", "mixed", "research", "other_ambiguous"} |->
            CASE c = "" -> 0 [] c = "mixed" -> 1 [] c = "other_ambiguous" -> 2 [] OTHER -> 3]
FilterChoices == {<<"title", "">>, <<"company", "beta">>}

Working == {{"search", "inbox", "teach", "decide", "fetch"},
            {"search", "again", "inbox", "teach", "rules"},
            {"search", "again", "inbox", "decide", "page"},
            {"search", "again", "fail", "inbox", "browse"},
            {"search", "inbox", "decide", "browse", "fetch"},
            {"search", "inbox", "decide", "fetch", "gate", "extract"},
            {"search", "panel", "fetch", "gate"},
            {"search", "rules", "settings", "fetch", "gate", "extract"}}
WindowSymmetry == Permutations(Clients)
=============================================================================
