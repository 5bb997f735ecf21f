--------------------------- MODULE MCEarlyMessages ---------------------------
(***************************************************************************)
(* A small instance of EarlyMessages for TLC.                               *)
(***************************************************************************)
EXTENDS EarlyMessages

CONSTANTS a, b, c, d, e, f

MCMessage == {a, b, c, d, e, f}
MCStage == [m \in MCMessage |-> CASE m \in {a, b} -> 0 [] m \in {c, d} -> 1 [] m \in {e, f} -> 2]
=============================================================================
