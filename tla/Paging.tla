------------------------------- MODULE Paging -------------------------------
(***************************************************************************)
(* The page tables of the firmware and the pass over them that opens every *)
(* page to user threads.  tables gives the entries of each table; an entry *)
(* has the address of a table or of a page, and flags.  The firmware may   *)
(* have one table in several places, and a table that maps itself.         *)
(*                                                                         *)
(* An operator Name_Defect is Name with a plausible mistake in the code;   *)
(* it is not part of the specification.                                    *)
(***************************************************************************)
EXTENDS Naturals, FiniteSets

CONSTANT Entries   \* PAGE_TABLE_ENTRIES (512)

Indices == 0 .. Entries - 1
Zero == [to |-> "0", flags |-> {}]

RECURSIVE SetupInitialPageMap_Leaves(_, _, _, _)
SetupInitialPageMap_Leaves(tables, map, level, i) ==
  IF i = Entries THEN tables
  ELSE LET entry == tables[map][i]
           leaf  == level = 1 \/ "HUGE_PAGE" \in entry.flags
           now   == IF leaf THEN [tables EXCEPT ![map][i].flags = @ \cup {"USER"}] ELSE tables
       IN  SetupInitialPageMap_Leaves(
             IF entry = Zero THEN tables ELSE IF leaf THEN now
             ELSE SetupInitialPageMap_Leaves(tables, entry.to, level - 1, 0), map, level, i + 1)

(* setup_initial_page_map, from entry i on: the tables afterwards *)
RECURSIVE SetupInitialPageMap(_, _, _, _)
SetupInitialPageMap(tables, map, level, i) ==
  IF i = Entries THEN tables
  ELSE LET entry == tables[map][i]
           now   == [tables EXCEPT ![map][i].flags = @ \cup {"USER"}]
       IN  SetupInitialPageMap(
             IF entry = Zero THEN tables
             ELSE IF level > 1 /\ "HUGE_PAGE" \notin entry.flags
             THEN SetupInitialPageMap(now, entry.to, level - 1, 0)
             ELSE now,
             map, level, i + 1)
-----------------------------------------------------------------------------
(* The CPU's translation: where the address with these indices leads, from *)
(* level 4 down, and the flags that every entry on the way has.            *)
RECURSIVE Walk(_, _, _, _, _)
Walk(tables, map, level, address, allowed) ==
  LET entry == tables[map][address[level]]
      flags == allowed \cap entry.flags
  IN  IF "PRESENT" \notin entry.flags THEN [page |-> "none", level |-> 0, allowed |-> {}]
      ELSE IF level = 1 \/ (level < 4 /\ "HUGE_PAGE" \in entry.flags)
      THEN [page |-> entry.to, level |-> level, allowed |-> flags]
      ELSE Walk(tables, entry.to, level - 1, address, flags)

Translate(tables, cr3, address) == Walk(tables, cr3, 4, address, {"WRITEABLE", "USER"})
=============================================================================
