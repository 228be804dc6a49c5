SPECIFICATION Spec
CONSTANTS
  c1 = c1
  c2 = c2
  Clients <- TwoClients
  Scalars <- Texts
  Blank = ""
  Trim <- Same
  Fold <- Folding
  Inside <- Parts
  Found <- NoneSet
  Listed <- Lists1
  Number <- NoNumbers
  Truths <- Yeses
  Falsehoods <- Noes
  Yes = "Yes"
  No = "No"
  Canonical <- Same
  ResearchTitles <- NoneSet
  NumPostings = 3
  NumRuns = 2
  Fields = {"company", "title"}
  CategoryKeys = {"", "research", "other_ambiguous"}
  Raw <- Postings3
  Facts <- Extracted
  Returns <- Found3
  SeedRules <- Rules
  SeedCategories <- Categories
  NewRules <- Added
  NewCategories <- SavedCategories
  MaxEdits = 2
  MaxFaults = 1
  Group <- Groups3
  Rank <- Ranks
  PageSizes = {1, 2}
  FirstSize = 1
  Filters <- FilterChoices
  Sessions <- Working
  MaxMoves = 1
SYMMETRY WindowSymmetry
INVARIANTS TypeOK OneRulePerValue ExclusionStops NothingHidden
PROPERTIES LearnedExclusion DecisionsStand NeverABlankPage
CHECK_DEADLOCK FALSE
