----------------------------- MODULE PageTables ------------------------------
(***************************************************************************)
(* Three levels of page tables, as far as the kernel relies on them: what  *)
(* lantern-hal's translate, map_page, map_megapage and unmap do to the     *)
(* tables they are given (frame.rs calls them; lantern-hal itself is not   *)
(* in the repository).  A table is a page of the kernel's arena, tb maps   *)
(* each of its pages to its entries.                                       *)
(***************************************************************************)
EXTENDS Naturals

CONSTANTS
    PageSize,      \* RISCV64_PAGE_SIZE
    TableEntries   \* entries of one table

ASSUME PageTableAssumption == PageSize \in Nat \ {0} /\ TableEntries \in Nat \ {0}

MegaSize == PageSize * TableEntries   \* RISCV64_MEGAPAGE_SIZE

Index == 0 .. TableEntries - 1

Invalid   == [kind |-> "Invalid", to |-> 0]
Branch(p) == [kind |-> "Branch", to |-> p]
Leaf(a)   == [kind |-> "Leaf", to |-> a]

EmptyTable == [i \in Index |-> Invalid]

\* Where vaddr is looked up in a table of each level: the root, L1 and L0.
RootIndex(vaddr) == (vaddr \div (MegaSize * TableEntries)) % TableEntries
MegaIndex(vaddr) == (vaddr \div MegaSize) % TableEntries
PageIndex(vaddr) == (vaddr \div PageSize) % TableEntries

\* One past the addresses that the three levels tell apart.
Reach == MegaSize * TableEntries * TableEntries

\* riscv64_translate: the leaf of the physical address vaddr stands for under
\* root, or Invalid when it stands for none.
Translate(tb, root, vaddr) ==
    LET upper == tb[root][RootIndex(vaddr)]
        mega  == tb[upper.to][MegaIndex(vaddr)]
        page  == tb[mega.to][PageIndex(vaddr)]
    IN  IF upper.kind # "Branch" THEN Invalid
        ELSE IF mega.kind = "Leaf" THEN Leaf(mega.to + (vaddr % MegaSize))
        ELSE IF mega.kind # "Branch" THEN Invalid
        ELSE IF page.kind = "Leaf" THEN Leaf(page.to + (vaddr % PageSize))
        ELSE Invalid

\* One level down: through the branch that is there, or one to the spare page.
Descend(tb, page, i, spare) ==
    IF tb[page][i].kind = "Branch"
    THEN [tb |-> tb, page |-> tb[page][i].to, used |-> 0]
    ELSE [tb |-> [tb EXCEPT ![page][i] = Branch(spare)], page |-> spare, used |-> 1]

\* riscv64_map_page and riscv64_map_megapage: the new tables, and how many of the
\* spare pages, taken in order from the first, have become branch tables.
MapPage(tb, root, vaddr, paddr, spare) ==
    LET upper == Descend(tb, root, RootIndex(vaddr), spare)
        mega  == Descend(upper.tb, upper.page, MegaIndex(vaddr), spare + upper.used)
    IN  [tb   |-> [mega.tb EXCEPT ![mega.page][PageIndex(vaddr)] = Leaf(paddr)],
         used |-> upper.used + mega.used]

MapMegapage(tb, root, vaddr, paddr, spare) ==
    LET upper == Descend(tb, root, RootIndex(vaddr), spare)
    IN  [tb   |-> [upper.tb EXCEPT ![upper.page][MegaIndex(vaddr)] = Leaf(paddr)],
         used |-> upper.used]

\* riscv64_unmap: the leaf that translates vaddr is invalid again; no table is freed.
UnmapLeaf(tb, root, vaddr) ==
    LET upper == tb[root][RootIndex(vaddr)]
        mega  == tb[upper.to][MegaIndex(vaddr)]
    IN  IF upper.kind # "Branch" THEN tb
        ELSE IF mega.kind = "Leaf" THEN [tb EXCEPT ![upper.to][MegaIndex(vaddr)] = Invalid]
        ELSE IF mega.kind = "Branch" THEN [tb EXCEPT ![mega.to][PageIndex(vaddr)] = Invalid]
        ELSE tb
=============================================================================
