----------------------------- MODULE MCWorkflow -----------------------------
(* Instances of Workflow for TLC.                                          *)
EXTENDS Workflow

Refreshers == {"reconcile"}
Unlocked   == {"direct", "nightly"}
Editors    == {"reconcile", "rules", "overrides", "backlog", "page", "reminder"}
Repeats    == {"rules", "reconcile"}
NightlyToo == {"nightly"}
Overrides  == {"overrides"}
=============================================================================
