------------------------------ MODULE MCTimer ------------------------------
(***************************************************************************)
(* The timer on a small instance: a divider of 7 bits, the watched bits    *)
(* 3 to 6, a TIMA of 2 bits.  The lowest watched bit is the code's own, so *)
(* an edge cannot recur within the six ticks an overflow takes unless a    *)
(* write causes it, as in the code.                                        *)
(***************************************************************************)
EXTENDS TimerOnBus, TLC

MCDivBit == (0 :> 64) @@ (1 :> 8) @@ (2 :> 16) @@ (3 :> 32)

MCTimaInputs == {0, TimaSize - 1}

=============================================================================
