--------------------------- MODULE MCFlutterKeys ---------------------------
(***************************************************************************)
(* An instance of FlutterKeys for TLC: two keys and two runs of the job, so *)
(* that runs overlap on one key or on two; two credentials Flutterwave      *)
(* knows, so that a run may be answered for old ones, and one it refuses.   *)
(***************************************************************************)
EXTENDS FlutterKeys
=============================================================================
