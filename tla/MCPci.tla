------------------------------- MODULE MCPci --------------------------------
(* Pci with eight slots on two buses, up to three of them in use: IDE       *)
(* controllers with bus mastering off, with it on, without a port for the   *)
(* bus master, or something else.  Without a port the base reads, depending *)
(* on the slot, 0, an unassigned 1, or an address above the 16 bits of      *)
(* ports.                                                                   *)
EXTENDS Pci

Slots == {Index(s) : s \in PciSlot}
NoPort == <<0, 1, 65537>>

Function(n, kind) ==
  [r \in {0, 4, 8} \cup {16 + 4 * i : i \in 0..5} |->
     CASE r = 0 -> n
       [] r = 4 -> [command |-> IF kind = "on" THEN {1, BUS_MASTER} ELSE {1}, status |-> {32}]
       [] r = 8 -> IF kind = "other" THEN <<2, 0>> ELSE IDE
       [] OTHER -> IF kind = "no_port" THEN NoPort[1 + (n % 3)] ELSE 4 * (n + r) + 1]

Machines ==
  UNION {{[n \in S |-> Function(n, kinds[n])] : kinds \in [S -> {"on", "off", "no_port", "other"}]} :
           S \in UNION {kSubset(k, Slots) : k \in 0..3}}
=============================================================================
