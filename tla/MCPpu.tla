------------------------------- MODULE MCPpu -------------------------------
(***************************************************************************)
(* The PPU on a small frame: two drawn lines and one of VBLANK, lines of   *)
(* seven ticks of which three are OAM scan, a DMA of two bytes that is     *)
(* longer than a scan.                                                     *)
(***************************************************************************)
EXTENDS PpuFrame

MCStatInputs == {{"LYC", "HBLANK"}, {"VBLANK"}}

=============================================================================
