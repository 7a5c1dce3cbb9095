-------------------------------- MODULE Pci ---------------------------------
(***************************************************************************)
(* The scan of the PCI bus, and the 16-bit write to the configuration      *)
(* space.  A machine m gives, for every address <<bus, device, function>>, *)
(* the class of the function there ("none" where the vendor ID reads       *)
(* 0xffff), the secondary bus of a bridge, and the multi-function bit of   *)
(* the header type.                                                        *)
(*                                                                         *)
(* An operator Name_Defect is Name with a plausible mistake in the code;   *)
(* it is not part of the specification.                                    *)
(***************************************************************************)
EXTENDS Naturals, SequencesExt

CONSTANTS Buses, MAX_DEVICES_PER_BUS, MAX_FUNCTIONS_PER_DEVICE

ASSUME PciAssumption ==
  /\ Buses \subseteq Nat /\ 0 \in Buses
  /\ {MAX_DEVICES_PER_BUS, MAX_FUNCTIONS_PER_DEVICE} \subseteq Nat \ {0}

Devices   == 0 .. MAX_DEVICES_PER_BUS - 1
Functions == 0 .. MAX_FUNCTIONS_PER_DEVICE - 1
Address   == Buses \X Devices \X Functions
Host      == <<0, 0, 0>>

Present(m, a) == m[a].class # "none"

(* As firmware numbers the buses: every bus but the first is behind one    *)
(* bridge, on a bus with a lower number.                                   *)
Numbered(m) ==
  LET Bridges == {a \in Address : m[a].class = "bridge"}
  IN  /\ \A a \in Bridges : m[a].bus > a[1]
      /\ \A a, b \in Bridges : m[a].bus = m[b].bus => a = b

(* One after the other, the parts found for 0, 1, ..., n - 1 *)
InOrder(n, part(_)) == FlattenSeq([i \in 1 .. n |-> part(i - 1)])

ScanBus_FirstFunctionOnly(m, first) ==
  LET Scan[bus \in Buses] ==
        LET CheckFunction(a) ==
              IF m[a].class = "bridge" THEN Scan[m[a].bus] ELSE <<a>>
            CheckDevice(d) ==
              IF ~Present(m, <<bus, d, 0>>) THEN <<>> ELSE CheckFunction(<<bus, d, 0>>)
        IN  InOrder(MAX_DEVICES_PER_BUS, CheckDevice)
  IN  Scan[first]

(* scan_bus, check_device and check_function: the devices pushed, in order *)
ScanBus(m, first) ==
  LET Scan[bus \in Buses] ==
        LET CheckFunction(a) ==
              IF m[a].class = "bridge" THEN Scan[m[a].bus] ELSE <<a>>
            CheckOther(d, f) ==
              IF f = 0 \/ ~Present(m, <<bus, d, f>>)
              THEN <<>> ELSE CheckFunction(<<bus, d, f>>)
            CheckDevice(d) ==
              IF ~Present(m, <<bus, d, 0>>) THEN <<>>
              ELSE CheckFunction(<<bus, d, 0>>)
                     \o IF m[<<bus, d, 0>>].multi
                        THEN InOrder(MAX_FUNCTIONS_PER_DEVICE, LAMBDA f : CheckOther(d, f))
                        ELSE <<>>
        IN  InOrder(MAX_DEVICES_PER_BUS, CheckDevice)
  IN  Scan[first]

(* scan: with a multi-function host, the loop over its functions is left   *)
(* at the first one that is present.                                       *)
Scan(m) ==
  IF ~m[Host].multi THEN ScanBus(m, 0)
  ELSE InOrder(MAX_FUNCTIONS_PER_DEVICE,
               LAMBDA f : IF \E g \in 0 .. f : Present(m, <<0, 0, g>>)
                          THEN <<>> ELSE ScanBus(m, f))

(* A 32-bit register is its low half, 0, and its high half, 1.             *)
Half(offset) == (offset % 4) \div 2

Write16(register, offset, value) ==
  [h \in 0 .. 1 |-> IF h = Half(offset) THEN value ELSE register[h]]
-----------------------------------------------------------------------------
(* What there is to find: the functions other than bridges on the buses    *)
(* that are 0 or behind a bridge that can be seen; functions above 0 can   *)
(* be seen on a multi-function device only.                                *)
Visible(m, a) ==
  /\ Present(m, a) /\ Present(m, <<a[1], a[2], 0>>)
  /\ a[3] > 0 => m[<<a[1], a[2], 0>>].multi

Reachable(m) ==
  LET Closed(T) == 0 \in T /\ \A a \in Address :
                     a[1] \in T /\ Visible(m, a) /\ m[a].class = "bridge" => m[a].bus \in T
  IN  {b \in Buses : \A T \in SUBSET Buses : Closed(T) => b \in T}

ToFind(m) ==
  {a \in Address : a[1] \in Reachable(m) /\ Visible(m, a) /\ m[a].class # "bridge"}
=============================================================================
