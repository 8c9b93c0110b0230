------------------------------- MODULE MCMbc3 -------------------------------
(***************************************************************************)
(* The MBC3 clock on a small instance: two ticks a second, two seconds a   *)
(* minute, two minutes an hour, two hours a day and two days; the seconds  *)
(* register holds two values beyond its range, the others one.             *)
(***************************************************************************)
EXTENDS Mbc3Calendar

MCInputs == {0, 2}

=============================================================================
