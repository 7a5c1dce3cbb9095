----------------------------- MODULE MCDevices ------------------------------
(* The receive ring and the Once cells for TLC.  They share nothing, so    *)
(* one run takes each through its behaviours while the other rests.        *)
EXTENDS RxRing, Once

MCFrames == [len : {n - 4 : n \in Lengths}, mark : BOOLEAN]
MCTooLarge == {f \in MCFrames : f.len > SlotSize}

DevicesInit == RxInit /\ OnceInit
DevicesNext ==
  \/ OnceInit /\ RxNext /\ UNCHANGED onceVars
  \/ RxInit /\ OnceNext /\ UNCHANGED rxVars
DevicesSpec == DevicesInit /\ [][DevicesNext]_<<rxVars, onceVars>>
=============================================================================
