-------------------------------- MODULE Pci ---------------------------------
(***************************************************************************)
(* The PCI bus at boot, kernel/pci.c and its one caller, init_disk: the    *)
(* scan of all functions, the search for the IDE controller, and the one   *)
(* write to configuration space.  Registers are named by their addresses;  *)
(* command and status are the sets of their bits.                          *)
(***************************************************************************)
EXTENDS Naturals, SequencesExt

CONSTANTS
  BUSES, DEVICES, FUNCTIONS,  \* 256, 32 and 8
  Machine,      \* configuration spaces: function |-> register |-> value
  NONE,         \* 0xffffffff, which an empty slot answers
  NULL

(* Bus, device and function in eight, five and three bits.                 *)
Index(s) == 256 * s.bus + 8 * s.device + s.func

PciSlot == [bus : 0..(BUSES - 1), device : 0..(DEVICES - 1), func : 0..(FUNCTIONS - 1)]

(* What a machine m may have: functions in slots, not more than the array  *)
(* of scan_pci has places, with the registers that are read.               *)
Present(m) ==
  /\ DOMAIN m \subseteq {Index(s) : s \in PciSlot} /\ Cardinality(DOMAIN m) <= 64
  /\ \A n \in DOMAIN m :
       /\ {0, 4, 8} \cup {16 + 4 * i : i \in 0..5} \subseteq DOMAIN m[n]
       /\ m[n][0] # NONE
       /\ m[n][4] \in [command : SUBSET Nat, status : SUBSET Nat] /\ m[n][32] \in Nat

(* What the scan copies; Word(r): what register r may hold.                *)
Word(r) == UNION {{m[n][r] : n \in DOMAIN m} : m \in Machine}
pci_device_t ==
  [slot : PciSlot, id : Word(0), command : SUBSET Nat, class : Word(8),
   bar : [0..5 -> UNION {Word(16 + 4 * i) : i \in 0..5}]]

ASSUME PciAssumption ==
  /\ BUSES \in 1..256 /\ DEVICES \in 1..32 /\ FUNCTIONS \in 1..8
  /\ NONE # NULL
  /\ \A m \in Machine : Present(m)
  /\ NULL \notin pci_device_t

VARIABLES
  space,        \* the configuration space
  at,           \* the slot at hand: [bus, device, func]
  pci_devices,
  ide_dev,
  boot          \* "scan", then "init_disk", "enable", "ready" or "failed"

pci_vars == <<space, at, pci_devices, ide_dev, boot>>

BUS_MASTER == 4
IDE == <<1, 1>>   \* base class, sub class

----------------------------------------------------------------------------
(* Mutant of pci_addr: the device and its function overlap.                *)
pci_addr_overlap(bus, device, func, offset) == 65536 * bus + 256 * device + 256 * func + offset

(* The enable bit, which is always set, is left out.                       *)
pci_addr(bus, device, func, offset) == 65536 * bus + 2048 * device + 256 * func + offset

(* The host bridge: bits 8 to 23 choose the function.                      *)
pci_read32(addr) ==
  IF addr \div 256 \in DOMAIN space THEN space[addr \div 256][addr % 256] ELSE NONE

(* Mutant of pci_write16: all 32 bits are written, status too, whose bits  *)
(* a one clears.                                                           *)
pci_write32_status(addr, val) ==
  space' = [space EXCEPT ![addr \div 256][addr % 256].command = val,
                         ![addr \div 256][addr % 256].status = {}]

pci_write16(addr, val) == space' = [space EXCEPT ![addr \div 256][addr % 256].command = val]

(* A device as pci_read_device finds it.                                   *)
Read(s) ==
  LET reg(offset) == pci_read32(pci_addr(s.bus, s.device, s.func, offset))
  IN  [slot |-> s, id |-> reg(0), command |-> reg(4).command, class |-> reg(8),
       bar |-> [i \in 0..5 |-> reg(16 + 4 * i)]]

(* The three loops of scan_pci.                                            *)
NextSlot(s) ==
  IF s.func + 1 < FUNCTIONS THEN [s EXCEPT !.func = @ + 1]
  ELSE IF s.device + 1 < DEVICES THEN [s EXCEPT !.func = 0, !.device = @ + 1]
  ELSE [bus |-> s.bus + 1, device |-> 0, func |-> 0]

----------------------------------------------------------------------------
PciInit ==
  /\ space \in Machine
  /\ at = [bus |-> 0, device |-> 0, func |-> 0]
  /\ pci_devices = <<>> /\ ide_dev = NULL /\ boot = "scan"

(* The array has 64 places and no check (Present).                         *)
scan_pci ==
  /\ boot = "scan"
  /\ \/ /\ at.bus < BUSES
        /\ pci_devices' = IF pci_read32(pci_addr(at.bus, at.device, at.func, 0)) = NONE
                          THEN pci_devices ELSE Append(pci_devices, Read(at))
        /\ at' = NextSlot(at) /\ boot' = boot
     \/ /\ at.bus >= BUSES
        /\ boot' = "init_disk"
        /\ UNCHANGED <<at, pci_devices>>
  /\ UNCHANGED <<space, ide_dev>>

pci_find_device(class) ==
  LET found == {i \in DOMAIN pci_devices : pci_devices[i].class = class}
  IN  IF found = {} THEN NULL ELSE pci_devices[Min(found)]

(* bar & 0xfffc.  The lowest bit of the base of a range of ports is a one, *)
(* assigned or not.                                                        *)
bm_base(bar) == (bar % 65536) - (bar % 4)

(* init_disk until the controller is found usable.                         *)
init_disk ==
  /\ boot = "init_disk"
  /\ ide_dev' = pci_find_device(IDE)
  /\ boot' = IF ide_dev' = NULL THEN "failed"
             ELSE IF bm_base(ide_dev'.bar[4]) = 0 THEN "failed" ELSE "enable"
  /\ UNCHANGED <<space, at, pci_devices>>

(* The copy that the scan made of the command register is written back.    *)
pci_enable_bus_master ==
  /\ boot = "enable" /\ boot' = "ready"
  /\ IF BUS_MASTER \in ide_dev.command THEN UNCHANGED <<space, ide_dev>>
     ELSE /\ ide_dev' = [ide_dev EXCEPT !.command = @ \cup {BUS_MASTER}]
          /\ pci_write16(pci_addr(ide_dev.slot.bus, ide_dev.slot.device, ide_dev.slot.func, 4),
                         ide_dev'.command)
  /\ UNCHANGED <<at, pci_devices>>

(* main() goes on without the bus.                                         *)
Booted == boot \in {"ready", "failed"} /\ UNCHANGED pci_vars

PciNext == scan_pci \/ init_disk \/ pci_enable_bus_master \/ Booted

PciSpec == PciInit /\ [][PciNext]_pci_vars
----------------------------------------------------------------------------
(* Properties.                                                             *)

(* The functions of the machine with an IDE controller.                    *)
Controllers == {n \in DOMAIN space : space[n][8] = IDE}

(* The 16 bits of its port, in steps of four.                              *)
HasPort(n) == (space[n][32] \div 4) % 16384 # 0

(* init_disk succeeds with the first IDE controller of the machine, its    *)
(* own registers and bus mastering on, if that has a port for its bus      *)
(* master, whatever else is on the bus and however functions and devices   *)
(* have gaps; otherwise it fails, also if the port was never assigned.     *)
FirstController ==
  /\ boot = "ready" =>
       LET n == Min(Controllers)
       IN  /\ ide_dev.id = space[n][0] /\ ide_dev.bar[4] = space[n][32] /\ HasPort(n)
           /\ BUS_MASTER \in space[n][4].command
  /\ boot = "failed" => Controllers = {} \/ ~HasPort(Min(Controllers))

(* Nothing in configuration space changes but the one bit of the first     *)
(* controller: no other bit, register or function, and no status bit is    *)
(* cleared by writing it back.                                             *)
OnlyBusMaster ==
  [][\/ space' = space
     \/ space' = [space EXCEPT ![Min(Controllers)][4].command = @ \cup {BUS_MASTER}]]_pci_vars
=============================================================================
