-------------------------------- MODULE Boot --------------------------------
(***************************************************************************)
(* main: what the boot loader and the firmware left is taken over, then    *)
(* the vector map, the two interrupt controllers and the drivers are set   *)
(* up, the network card among them, which is searched for on the PCI bus;  *)
(* then the interrupts that devices raise, on whatever line, and the       *)
(* service routine each one reaches.  The interrupt flag is clear from     *)
(* boot.asm on, so nothing runs between the steps of the boot.  The        *)
(* terminal, the heap and the file system are left to their modules.       *)
(*                                                                         *)
(* An operator Name_Defect is Name with a plausible mistake in the code;   *)
(* it is not part of the specification.                                    *)
(***************************************************************************)
EXTENDS Pci, Multiboot, Paging, TLC

CONSTANTS
  Computers,  \* what main may start with: magic, tags, tables, writeProtect, machine
  NicLines,   \* the interrupt lines firmware may have given the card
  Bars,       \* what the card's BAR 0 may be: "io", "memory"
  Firmware    \* the interrupt masks firmware may leave

VARIABLES
  stage,      \* what main does next
  computer,   \* one of Computers, fixed
  found,      \* the offsets of the tags that main has used
  tables,     \* the page tables
  writeProtect, \* CR0.WP
  nic,        \* the card's interrupt line and BAR 0, fixed
  command,    \* its register with Command, half 0, and Status, half 1
  card,       \* its own registers
  devices,    \* PciBus::devices
  masked,     \* the masked lines of interrupt controller 1 and 2
  offset,     \* their first vectors
  mapSize,    \* the length of INT_VECTORS.map
  vectors,    \* the routines registered in it, by vector
  interrupts, \* the interrupt flag
  served      \* the service routine that ran last, "none" before

loaded == <<computer, found, tables, writeProtect>>
bus  == <<nic, command, card, devices>>
pic  == <<masked, offset>>
map  == <<mapSize, vectors>>
vars == <<stage, loaded, bus, pic, map, interrupts, served>>

machine == computer.machine
tags    == computer.tags

Lines == 0 .. 15
IDT_SIZE == 256
ISRs == {"TimerISR", "KeyboardISR", "Rtl8139ISR"}

(* Types; routines are registered only within the vector map, and at none  *)
(* of the vectors reserved for CPU exceptions.                             *)
TypeOK ==
  /\ stage \in {"magic", "framebuffer", "uefi", "paging", "ramdisk", "dispatcher", "idt",
                "pic", "pit", "keyboard", "scan", "card", "enable", "running", "panic"}
  /\ computer \in Computers /\ writeProtect \in BOOLEAN
  /\ DOMAIN tables = DOMAIN computer.tables
  /\ nic.line \in NicLines /\ nic.bar \in Bars
  /\ command \in [0 .. 1 -> SUBSET {"IoEnable", "MemEnable", "BusMasterEnable", "flag"}]
  /\ devices \in Seq(Address)
  /\ masked \in [{1, 2} -> SUBSET (0 .. 7)] /\ offset \in [{1, 2} -> Nat]
  /\ mapSize \in {0, IDT_SIZE}
  /\ DOMAIN vectors \subseteq 32 .. mapSize - 1 /\ \A v \in DOMAIN vectors : vectors[v] \in ISRs
  /\ interrupts \in BOOLEAN /\ served \in ISRs \cup {"none"}

Init ==
  /\ stage = "magic"
  /\ computer \in Computers /\ found = <<>>
  /\ tables = computer.tables /\ writeProtect = computer.writeProtect
  /\ nic \in [line : NicLines, bar : Bars]
  /\ command = [h \in 0 .. 1 |-> IF h = 0 THEN {"MemEnable"} ELSE {"flag"}]
  /\ card = [config1 |-> "firmware", cmd |-> {"firmware"}, rbstart |-> "firmware",
             imr |-> {"firmware"}, rcr |-> {"firmware"}]
  /\ devices = <<>>
  /\ masked \in Firmware /\ offset = (1 :> 8 @@ 2 :> 112)
  /\ mapSize = 0 /\ vectors = <<>>
  /\ interrupts = FALSE /\ served = "none"
-----------------------------------------------------------------------------
(* What the boot loader left *)

Find(type) == FindTag(tags, type)
Tag(type) == TagAt(tags, Find(type))
Has(type) == Find(type) # NoTag

(* main goes on to the next stage if ok, with the tags it used. *)
Proceed(ok, next, used) ==
  /\ stage' = IF ok THEN next ELSE "panic"
  /\ found' = IF ok THEN [type \in used |-> Find(type)] @@ found ELSE found
  /\ UNCHANGED <<computer, bus, pic, map, interrupts, served>>

CheckMagic ==
  /\ stage = "magic"
  /\ Proceed(computer.magic, "framebuffer", {})
  /\ UNCHANGED <<tables, writeProtect>>

FromMultiboot(info) == info.data = <<"RGB", 32>>

InitFramebuffer ==
  /\ stage = "framebuffer"
  /\ Proceed(Has("Framebuffer") /\ FromMultiboot(Tag("Framebuffer")), "uefi", {"Framebuffer"})
  /\ UNCHANGED <<tables, writeProtect>>

(* The system table is looked for once the image handle is there. *)
ExitUefiBootServices ==
  /\ stage = "uefi"
  /\ Proceed(/\ Has("EfiNotTerminated")
             /\ Has("EfiImageHandle") /\ Tag("EfiImageHandle").data # "null"
             /\ Has("EfiSystemTable"),
             "paging", {"EfiImageHandle", "EfiSystemTable"})
  /\ UNCHANGED <<tables, writeProtect>>

(* load_gdt, then the pass over the tables, with CR0.WP clear meanwhile. *)
SetupInitialPaging ==
  /\ stage = "paging"
  /\ tables' = SetupInitialPageMap(tables, "pml4", 4, 0)
  /\ writeProtect' = TRUE
  /\ Proceed(TRUE, "ramdisk", {})

InitFilesystem ==
  /\ stage = "ramdisk"
  /\ Proceed(Has("Module") /\ Tag("Module").data = "tar", "dispatcher", {"Module"})
  /\ UNCHANGED <<tables, writeProtect>>
-----------------------------------------------------------------------------
(* The interrupt controllers and the vector map *)

InitDispatcher ==
  /\ stage = "dispatcher"
  /\ mapSize' = IDT_SIZE
  /\ stage' = "idt"
  /\ UNCHANGED <<loaded, bus, pic, vectors, interrupts, served>>

(* The routine an entry of the IDT leads to: entry 0x80 is for system      *)
(* calls, every other one dispatches its own vector.                       *)
Gate(v) ==
  CASE v = 128 -> "syscall"
    [] v # 128 /\ v \in DOMAIN vectors -> vectors[v]
    [] OTHER -> "none"

LoadIdt ==
  /\ stage = "idt"
  /\ stage' = "pic"
  /\ UNCHANGED <<loaded, bus, pic, map, interrupts, served>>

(* All lines are masked but that of the second controller. *)
PicInit ==
  /\ stage = "pic"
  /\ offset' = (1 :> 32 @@ 2 :> 40)
  /\ masked' = (1 :> (0 .. 7) \ {2} @@ 2 :> 0 .. 7)
  /\ stage' = "pit"
  /\ UNCHANGED <<loaded, bus, map, interrupts, served>>

Chip(line) == IF line < 8 THEN 1 ELSE 2

Allow_FirstChip(line) == masked' = [masked EXCEPT ![1] = @ \ {line % 8}]

Allow(line) == masked' = [masked EXCEPT ![Chip(line)] = @ \ {line % 8}]

Register(v, isr) ==
  v < mapSize /\ vectors' = (v :> isr) @@ vectors
-----------------------------------------------------------------------------
(* The drivers *)

PitPlugin ==
  /\ stage = "pit"
  /\ Allow(0) /\ Register(32, "TimerISR")
  /\ stage' = "keyboard"
  /\ UNCHANGED <<loaded, bus, offset, mapSize, interrupts, served>>

KeyboardPlugin ==
  /\ stage = "keyboard"
  /\ Allow(1) /\ Register(33, "KeyboardISR")
  /\ stage' = "scan"
  /\ UNCHANGED <<loaded, bus, offset, mapSize, interrupts, served>>

(* pci_bus(), called for the first time by rtl8139::plugin *)
ScanPci ==
  /\ stage = "scan"
  /\ devices' = Scan(machine)
  /\ stage' = "card"
  /\ UNCHANGED <<loaded, nic, command, card, pic, map, interrupts, served>>

FoundCard == \E i \in DOMAIN devices : machine[devices[i]].class = "nic"

EnableCard == command' = Write16(command, 4, command[0] \cup {"IoEnable", "BusMasterEnable"})

(* init_rtl8139; a reset leaves nothing of what was configured before. *)
PowerOn(c) == [c EXCEPT !.config1 = "on"]
SoftwareReset(c) == [c EXCEPT !.cmd = {}, !.imr = {}, !.rcr = {}, !.rbstart = "none"]
InitRxBuffer(c) == [c EXCEPT !.rbstart = "rx_buffer"]
AllowInterrupts(c) == [c EXCEPT !.imr = {"RECEIVE_OK", "TRANSMIT_OK", "RX_OVERFLOW"}]
ConfigureReceiveBuffer(c) ==
  [c EXCEPT !.rcr = {"ACCEPT_ALL_PACKETS", "ACCEPT_PHYSICAL_MATCH", "ACCEPT_MULTICAST",
                     "ACCEPT_BROADCAST", "WRAP"}]
EnableRxTx(c) == [c EXCEPT !.cmd = {"RX_ENABLE", "TX_ENABLE"}]

InitRtl8139 ==
  card' = EnableRxTx(ConfigureReceiveBuffer(AllowInterrupts(InitRxBuffer(
            SoftwareReset(PowerOn(card))))))

SkipCard ==
  /\ stage = "card" /\ ~FoundCard
  /\ stage' = "enable"
  /\ UNCHANGED <<loaded, bus, pic, map, interrupts, served>>

RefuseBar ==
  /\ stage = "card" /\ FoundCard
  /\ nic.bar = "memory"
  /\ EnableCard
  /\ stage' = "panic"
  /\ UNCHANGED <<loaded, nic, card, devices, pic, map, interrupts, served>>

RefuseLine ==
  /\ stage = "card" /\ FoundCard
  /\ nic.bar = "io" /\ nic.line \notin 9 .. 11
  /\ EnableCard /\ InitRtl8139
  /\ stage' = "panic"
  /\ UNCHANGED <<loaded, nic, devices, pic, map, interrupts, served>>

RtlPlugin ==
  /\ stage = "card" /\ FoundCard
  /\ nic.bar = "io" /\ nic.line \in 9 .. 11
  /\ EnableCard /\ InitRtl8139
  /\ Allow(nic.line) /\ Register(nic.line + 32, "Rtl8139ISR")
  /\ stage' = "enable"
  /\ UNCHANGED <<loaded, nic, devices, offset, mapSize, interrupts, served>>

EnableInt ==
  /\ stage = "enable"
  /\ interrupts' = TRUE
  /\ stage' = "running"
  /\ UNCHANGED <<loaded, bus, pic, map, served>>
-----------------------------------------------------------------------------
(* The second controller is on line 2 of the first, and its requests pass  *)
(* only if neither masks them.                                             *)
Forwarded(line) ==
  /\ line # 2 /\ line % 8 \notin masked[Chip(line)]
  /\ Chip(line) = 2 => 2 \notin masked[1]

VectorOf(line) == offset[Chip(line)] + (line % 8)

(* dispatch_interrupt and report; it panics if no routine is registered.   *)
Interrupt(line) ==
  /\ interrupts /\ stage = "running" /\ Forwarded(line)
  /\ IF Gate(VectorOf(line)) = "none"
     THEN stage' = "panic" /\ UNCHANGED served
     ELSE served' = Gate(VectorOf(line)) /\ UNCHANGED stage
  /\ UNCHANGED <<loaded, bus, pic, map, interrupts>>

Next ==
  \/ CheckMagic \/ InitFramebuffer \/ ExitUefiBootServices
  \/ SetupInitialPaging \/ InitFilesystem
  \/ InitDispatcher \/ LoadIdt \/ PicInit
  \/ PitPlugin \/ KeyboardPlugin
  \/ ScanPci \/ SkipCard \/ RefuseBar \/ RefuseLine \/ RtlPlugin
  \/ EnableInt
  \/ \E line \in Lines : Interrupt(line)

Spec == Init /\ [][Next]_vars
-----------------------------------------------------------------------------
(* The routine of the driver whose device is on a line *)
Driver(line) ==
  CASE line = 0 -> "TimerISR"
    [] line = 1 -> "KeyboardISR"
    [] line = nic.line /\ FoundCard -> "Rtl8139ISR"
    [] OTHER -> "none"

(* With interrupts on, the controllers, the IDT, the vector map and the    *)
(* line read from the card's configuration space fit together: a request   *)
(* gets through exactly on the lines with a driver, and reaches that       *)
(* driver's routine, so dispatch_interrupt never panics.  A card that was  *)
(* found may use I/O ports and memory, receives and sends, and reports     *)
(* what its routine handles; the rest of Command is as firmware had set    *)
(* it, and Status, in the same 32 bits, was written back as read (bits     *)
(* that a write of 1 clears are not modelled).  (The variables have their  *)
(* types.)                                                                 *)
Wired ==
  /\ TypeOK
  /\ interrupts =>
       /\ \A line \in Lines :
            /\ Forwarded(line) <=> Driver(line) # "none"
            /\ Forwarded(line) => Gate(VectorOf(line)) = Driver(line)
       /\ FoundCard =>
            /\ command = (0 :> {"MemEnable", "IoEnable", "BusMasterEnable"} @@ 1 :> {"flag"})
            /\ card.cmd = {"RX_ENABLE", "TX_ENABLE"} /\ card.rbstart = "rx_buffer"
            /\ card.imr = {"RECEIVE_OK", "TRANSMIT_OK", "RX_OVERFLOW"}
            /\ "WRAP" \in card.rcr

(* The boot gets past the tags of the loader exactly when they have all    *)
(* that main needs, and main uses the first tag of each type: find_tag,    *)
(* which steps over the padding between tags, misses none and takes no     *)
(* other bytes for one.                                                    *)
Suitable(type) ==
  LET tag == TagAt(tags, FirstTag(tags, type))
  IN  /\ FirstTag(tags, type) # NoTag
      /\ CASE type = "Framebuffer" -> tag.data = <<"RGB", 32>>
           [] type = "EfiImageHandle" -> tag.data # "null"
           [] type = "Module" -> tag.data = "tar"
           [] OTHER -> TRUE

TagsFound ==
  LET needed == {"Framebuffer", "EfiNotTerminated", "EfiImageHandle", "EfiSystemTable", "Module"}
      booted == stage \notin {"magic", "framebuffer", "uefi", "paging", "ramdisk", "panic"}
      good   == computer.magic /\ \A type \in needed : Suitable(type)
  IN  /\ booted => good
      /\ stage = "panic" /\ devices = <<>> => ~good
      /\ \A type \in DOMAIN found : found[type] = FirstTag(tags, type)

(* setup_initial_paging lets user threads at every page, whatever tables   *)
(* and sizes of pages lead to it and however tables are shared, and no     *)
(* address leads elsewhere than before, or may be written that could not.  *)
PagesOpened ==
  stage \notin {"magic", "framebuffer", "uefi", "paging", "panic"} =>
    /\ writeProtect
    /\ \A address \in [1 .. 4 -> Indices] :
         LET before == Translate(computer.tables, "pml4", address)
             now    == Translate(tables, "pml4", address)
         IN  /\ now.page = before.page /\ now.level = before.level
             /\ now.page # "none" =>
                  now.allowed = (before.allowed \cap {"WRITEABLE"}) \cup {"USER"}

(* With a host that has a single function, the scan finds every device     *)
(* that there is to find, on every bus behind bridges, and each only once. *)
FoundAll ==
  stage \in {"card", "enable", "running"} /\ ~machine[Host].multi =>
    /\ ToSet(devices) = ToFind(machine)
    /\ IsInjective(devices)
=============================================================================
