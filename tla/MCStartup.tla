----------------------------- MODULE MCStartup -----------------------------
(* Start-up after runs that ended (-1), were cut short after clearing the   *)
(* segment (0), or were cut short before (a record count of their own).     *)
EXTENDS Startup

MCLeftRecs == {-1, 0, 3, 5}

=============================================================================
