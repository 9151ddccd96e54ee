------------------------ MODULE MCTimekeepingClient ------------------------
(* TimekeepingClient on a second of a few cycles of a few ticks. *)
EXTENDS TimekeepingClient
=============================================================================
