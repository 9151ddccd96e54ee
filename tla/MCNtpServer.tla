----------------------------- MODULE MCNtpServer -----------------------------
(* Instances of NtpServer for model checking. *)
EXTENDS NtpServer, TLC

CONSTANTS a, b

Peers == {a, b}

(* No action tells the peers apart. *)
Symmetry == Permutations(Peers)
=============================================================================
