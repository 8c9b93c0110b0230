------------------------------- MODULE MCApu --------------------------------
(***************************************************************************)
(* Instance for TLC: two lengths, three volumes, four periods, a sequencer *)
(* that steps at every second tick, and three values of NR31.              *)
(***************************************************************************)
EXTENDS ApuWave

MCZeroOne == {0, 1}

=============================================================================
