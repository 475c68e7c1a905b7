--------------------------- MODULE MCAdasMapSweep ---------------------------
(* AdasMapSweep with its constants given by the configuration. *)
EXTENDS AdasMapSweep, TLC
=============================================================================
