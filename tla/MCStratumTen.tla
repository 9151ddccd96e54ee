----------------------------- MODULE MCStratumTen -----------------------------
(* Instances of StratumTen for model checking; their constants are in the cfgs. *)
EXTENDS StratumTen
=============================================================================
