------------------------------ MODULE MCReceive ------------------------------
(***************************************************************************)
(* A small instance of Receive for TLC: a long message of one round, two of *)
(* the next, and one of a round so much later that the first is too old     *)
(* then.                                                                   *)
(***************************************************************************)
EXTENDS Receive

MCMessage == 1 .. 4
MCPriority == <<1, 2, 2, 5>>
MCSize == <<4, 1, 1, 2>>
MCRound == {1, 2, 5}
=============================================================================
