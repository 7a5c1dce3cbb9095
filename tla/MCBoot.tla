------------------------------- MODULE MCBoot -------------------------------
(***************************************************************************)
(* Boot on machines with up to three buses and seven functions; and with   *)
(* up to six tags and page tables of four levels and two entries each.     *)
(***************************************************************************)
EXTENDS Boot

None == [class |-> "none", bus |-> 0, multi |-> FALSE]
Fn(class, b, multi) == [class |-> class, bus |-> b, multi |-> multi]
Bridge(buses, multis) == [class : {"bridge"}, bus : buses, multi : multis]
Nic(multis) == [class : {"nic"}, bus : {0}, multi : multis]

Built(host, h1, d0, d1, e0, e1, f0) ==
  [a \in Address |->
     CASE a = <<0, 0, 0>> -> host [] a = <<0, 0, 1>> -> h1
       [] a = <<0, 1, 0>> -> d0   [] a = <<0, 1, 1>> -> d1
       [] a = <<1, 0, 0>> -> e0   [] a = <<1, 0, 1>> -> e1
       [] a = <<2, 1, 0>> -> f0
       [] OTHER -> None]

MCMachines ==
  {m \in
    {Built(Fn("host", 0, multi), h1, d0, d1, e0, e1, f0) :
       multi \in BOOLEAN,
       h1 \in {None} \cup Nic({FALSE}),
       d0 \in {None} \cup Nic(BOOLEAN) \cup Bridge({1, 2}, BOOLEAN),
       d1 \in {None} \cup Nic({FALSE}) \cup Bridge({1, 2}, {FALSE}),
       e0 \in {None} \cup Nic(BOOLEAN) \cup Bridge({2}, BOOLEAN),
       e1 \in {None} \cup Nic({FALSE}) \cup Bridge({2}, {FALSE}),
       f0 \in {None} \cup Nic({FALSE})}
   : Numbered(m)}

MCFirmware == {1 :> {} @@ 2 :> {}, 1 :> 0 .. 7 @@ 2 :> 0 .. 7}

(* Tags in the order of the types below, any of them missing, twice, or    *)
(* not as main needs it, with one that main does not know between them.    *)
T(type, size, data) == [type |-> type, size |-> size, data |-> data]
Other == T("Other", 12, "")
Fb(data) == T("Framebuffer", 31, data)
Mod(data) == T("Module", 21, data)
Handle(data) == T("EfiImageHandle", 16, data)
RGB == <<"RGB", 32>>

MCTags ==
  {o \o f \o e \o h \o t \o m :
     o \in {<<>>, <<Other>>},
     f \in {<<>>, <<Fb(RGB)>>, <<Fb(<<"RGB", 24>>)>>, <<Fb(<<"EGAText", 32>>), Fb(RGB)>>},
     e \in {<<>>, <<T("EfiNotTerminated", 8, "")>>},
     h \in {<<>>, <<Handle("image")>>, <<Handle("null")>>},
     t \in {<<>>, <<T("EfiSystemTable", 16, "")>>},
     m \in {<<>>, <<Mod("tar")>>, <<Mod("junk"), Other>>, <<Other, Mod("tar"), Mod("junk")>>}}

(* Page tables: one of each level, pages of every size, tables used twice, *)
(* and a PML4 that maps itself.                                            *)
E(to, flags) == [to |-> to, flags |-> {"PRESENT"} \cup flags]
Next2(to, huge) == {Zero, E(to, {}), E(to, {"WRITEABLE"})} \cup
                   {E(p, {"HUGE_PAGE", "WRITEABLE"}) : p \in huge}

MCTables ==
  {[m \in {"pml4", "pdpt", "pd", "pt"} |->
      [i \in 0 .. 1 |->
         CASE m = "pml4" -> IF i = 0 THEN E("pdpt", {"WRITEABLE"}) ELSE l4
           [] m = "pdpt" -> IF i = 0 THEN E("pd", {"WRITEABLE"}) ELSE l3
           [] m = "pd" -> IF i = 0 THEN E("pt", {"WRITEABLE"}) ELSE l2
           [] m = "pt" -> IF i = 0 THEN E("page0", {}) ELSE l1]] :
     l4 \in {Zero, E("pdpt", {"WRITEABLE", "USER"}), E("pml4", {"WRITEABLE"})},
     l3 \in Next2("pd", {"giant"}),
     l2 \in Next2("pt", {"large"}),
     l1 \in {Zero, E("page1", {"WRITEABLE"}), E("page1", {"USER"})}}

Plain == Built(Fn("host", 0, FALSE), None, Fn("nic", 0, FALSE), None, None, None, None)
SomeTables == CHOOSE t \in MCTables : \A m \in DOMAIN t : Zero \notin {t[m][0], t[m][1]}
SomeTags == <<Fb(RGB), T("EfiNotTerminated", 8, ""), Handle("image"),
              T("EfiSystemTable", 16, ""), Mod("tar")>>

MCComputers ==
  [magic : BOOLEAN, tags : MCTags, tables : {SomeTables}, writeProtect : {TRUE},
   machine : {Plain}]
  \cup [magic : {TRUE}, tags : {SomeTags}, tables : MCTables, writeProtect : BOOLEAN,
          machine : {Plain}]
  \cup [magic : {TRUE}, tags : {SomeTags}, tables : {SomeTables}, writeProtect : {TRUE},
          machine : MCMachines]
=============================================================================
