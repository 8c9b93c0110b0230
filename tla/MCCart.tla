------------------------------- MODULE MCCart -------------------------------
(***************************************************************************)
(* Battery files on a small instance: a cartridge of each mapper, two      *)
(* cells a RAM bank, and register values that disable, enable, wrap, and   *)
(* name banks that exist and banks that do not.                            *)
(***************************************************************************)
EXTENDS BatteryFile

CONSTANTS mbc1, mbc2, mbc3, mbc5

\* Real cartridges, but for the number of ROM banks.
MCHeader ==
  LET Cart(mapper, ram_banks, battery, rumble) ==
        [ mapper |-> mapper, rom_banks |-> 4, ram_banks |-> ram_banks,
          battery |-> battery, rumble |-> rumble ]
  IN
  [ g \in Games |->
      CASE g = mbc1 -> Cart("MBC1", 4, TRUE, FALSE)
        [] g = mbc2 -> Cart("MBC2", 0, TRUE, FALSE)
        [] g = mbc3 -> Cart("MBC3", 4, FALSE, FALSE)
        [] g = mbc5 -> Cart("MBC5", 4, FALSE, TRUE) ]

=============================================================================
