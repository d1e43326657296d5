---------------------------- MODULE MCSegmentLog ----------------------------
(***************************************************************************)
(* An instance of SegmentLog for TLC: two terms, segments of two records.  *)
(***************************************************************************)
EXTENDS SegmentLog

TwoTerms == {1, 2}

=============================================================================
