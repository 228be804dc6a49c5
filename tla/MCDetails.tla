------------------------------ MODULE MCDetails -----------------------------
(* Instances of Details for TLC.                                           *)
EXTENDS Details

NoOverrides   == {}
FirstOverridden == {1}
=============================================================================
