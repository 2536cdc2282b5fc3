------------------------------ MODULE PageTable ------------------------------
(***************************************************************************)
(* The page tables of Labweek11/lab2/kern/mm/pmm.c on top of its physical  *)
(* memory manager: get_pte, page_insert, page_remove and the kernel code   *)
(* that calls alloc_pages and free_pages, with the processor's TLB.  The   *)
(* page directory is boot_pgdir, the one in use.                           *)
(*                                                                         *)
(* Linear addresses are page numbers, NPTE of them to a page table.  The   *)
(* mappings of physical memory at KERNBASE are not part of the model.      *)
(***************************************************************************)
EXTENDS DefaultPmm, FiniteSets

CONSTANTS Las,      \* linear pages
          NPTE,     \* entries of a page table
          Perms,    \* permission bits of an entry
          MaxAlloc  \* largest n of alloc_pages and free_pages

ASSUME Linear == /\ Las \subseteq Nat /\ IsFiniteSet(Las) /\ NPTE \in Nat \ {0}
                 /\ Perms \subseteq Nat /\ Perms # {}
                 /\ MaxAlloc \in Nat \ {0}

PDX(la) == la \div NPTE
Dirs == {PDX(la) : la \in Las}

VARIABLES e820map,  \* the map the firmware left, never written
          mem,    \* the physical memory manager
          pgdir,  \* page directory: the page of each page table
          pte,    \* the page table entries: page and permission
          tlb,    \* translations the processor has cached
          held    \* pages kernel code got from alloc_pages and still has

vars == <<e820map, mem, pgdir, pte, tlb, held>>

Absent == [page |-> NULL, perm |-> 0]

Init == /\ e820map \in E820Maps
        /\ mem = page_init(e820map)
        /\ pgdir = [d \in Dirs |-> NULL]
        /\ pte = [la \in Las |-> Absent]
        /\ tlb = [la \in Las |-> Absent]
        /\ held = {}

Invalidate(la, t) == [t EXCEPT ![la] = Absent]

(***************************************************************************)
(* alloc_pages and free_pages, called by the kernel.  A caller may free    *)
(* part of what it allocated, and frees no page that is mapped.            *)
(***************************************************************************)
alloc_pages(n) == /\ mem' = default_alloc_pages(mem, n).mem
                  /\ LET page == default_alloc_pages(mem, n).page
                     IN  held' = IF page = NULL THEN held ELSE held \cup Run(page, n)
                  /\ UNCHANGED <<e820map, pgdir, pte, tlb>>

free_pages(base, n) == /\ Run(base, n) \subseteq held
                       /\ \A p \in Run(base, n) : mem.ref[p] = 0
                       /\ mem' = default_free_pages(mem, base, n)
                       /\ held' = held \ Run(base, n)
                       /\ UNCHANGED <<e820map, pgdir, pte, tlb>>

(***************************************************************************)
(* get_pte with create: a missing page table is allocated, with one        *)
(* reference and all its entries cleared.                                  *)
(***************************************************************************)
get_pte(la) ==
    LET d == PDX(la)
        new == default_alloc_pages(mem, 1)
    IN  IF pgdir[d] # NULL
        THEN [found |-> TRUE, mem |-> mem, pgdir |-> pgdir, pte |-> pte]
        ELSE IF new.page = NULL
        THEN [found |-> FALSE, mem |-> mem, pgdir |-> pgdir, pte |-> pte]
        ELSE [found |-> TRUE,
              mem |-> [new.mem EXCEPT !.ref[new.page] = 1],
              pgdir |-> [pgdir EXCEPT ![d] = new.page],
              pte |-> [l \in Las |-> IF PDX(l) = d THEN Absent ELSE pte[l]]]

(***************************************************************************)
(* page_remove_pte: drop the reference, free the page with the last one,   *)
(* clear the entry.                                                        *)
(***************************************************************************)
\* Mutant: the page is freed whatever its count.
DropAlways(m, p) == default_free_pages(m, p, 1)

Drop(m, p) == LET dec == [m EXCEPT !.ref[p] = @ - 1]
              IN  IF dec.ref[p] = 0 THEN default_free_pages(dec, p, 1) ELSE dec

\* the page leaves its holder when its last mapping goes
Left(m, p) == IF m.ref[p] = 1 THEN held \ {p} ELSE held

\* Mutant: the translation is not invalidated.
page_removeStale(la) ==
    /\ pgdir[PDX(la)] # NULL /\ pte[la] # Absent
    /\ mem' = Drop(mem, pte[la].page)
    /\ held' = Left(mem, pte[la].page)
    /\ pte' = [pte EXCEPT ![la] = Absent]
    /\ UNCHANGED <<e820map, tlb, pgdir>>

\* page_remove of an address that has no mapping changes nothing
page_remove(la) == /\ pgdir[PDX(la)] # NULL /\ pte[la] # Absent
                   /\ mem' = Drop(mem, pte[la].page)
                   /\ held' = Left(mem, pte[la].page)
                   /\ pte' = [pte EXCEPT ![la] = Absent]
                   /\ tlb' = Invalidate(la, tlb)
                   /\ UNCHANGED <<e820map, pgdir>>

(***************************************************************************)
(* page_insert: count the new mapping, remove an old one of another page,  *)
(* write the entry.  Without memory for the page table: -E_NO_MEM.         *)
(***************************************************************************)
page_insert(page, la, perm) ==
    LET g == get_pte(la)
        old == g.pte[la].page
        inc == [g.mem EXCEPT !.ref[page] = @ + 1]
    IN  /\ page \in held
        /\ g.found
        /\ mem' = IF old = NULL THEN inc
                  ELSE IF old = page THEN g.mem ELSE Drop(inc, old)
        /\ held' = IF old \in {NULL, page} THEN held ELSE Left(inc, old)
        /\ pgdir' = g.pgdir
        /\ pte' = [g.pte EXCEPT ![la] = [page |-> page, perm |-> perm]]
        /\ tlb' = Invalidate(la, tlb)
        /\ UNCHANGED e820map

page_insert_nomem(page, la) == page \in held /\ ~ get_pte(la).found /\ UNCHANGED vars

\* The processor translates la and caches what the tables say.
Walk(la) == /\ pte[la] # Absent
            /\ tlb' = [tlb EXCEPT ![la] = pte[la]]
            /\ UNCHANGED <<e820map, mem, pgdir, pte, held>>

Next == \/ \E n \in 1 .. MaxAlloc : alloc_pages(n)
        \/ \E base \in held, n \in 1 .. MaxAlloc : free_pages(base, n)
        \/ \E page \in held, la \in Las :
             \/ \E perm \in Perms : page_insert(page, la, perm)
             \/ page_insert_nomem(page, la)
        \/ \E la \in Las : page_remove(la) \/ Walk(la)

Spec == Init /\ [][Next]_vars

-----------------------------------------------------------------------------
(***************************************************************************)
(* Properties                                                              *)
(***************************************************************************)
Blocks == ToSet(mem.free_list)
BlockPages(b) == Run(b.base, b.property)
Free == UNION {BlockPages(b) : b \in Blocks}
Tables == {pgdir[d] : d \in Dirs} \ {NULL}
Entries == [page : Pages, perm : Perms] \cup {Absent}

\* The manager's state, the tables and the TLB hold pages of memory only, and
\* every block on the free list has a page.
TypeOK == /\ mem.free_list \in Seq([base : Pages, property : Nat \ {0}])
          /\ mem.nr_free \in Nat
          /\ mem.PG_property \subseteq Pages /\ mem.PG_reserved \subseteq Pages
          /\ mem.ref \in [Pages -> Nat]
          /\ mem.panic \in BOOLEAN
          /\ pgdir \in [Dirs -> Pages \cup {NULL}]
          /\ pte \in [Las -> Entries] /\ tlb \in [Las -> Entries]
          /\ held \subseteq Pages

\* All of page p is usable memory above the kernel.
Usable(p) == /\ freemem <= p * PGSIZE
             /\ \E i \in DOMAIN e820map :
                  /\ e820map[i].arm
                  /\ e820map[i].addr <= p * PGSIZE
                  /\ (p + 1) * PGSIZE <= End(e820map[i])

\* The sum of property along the list.
Total(list) ==
    LET total[i \in 0 .. Len(list)] == IF i = 0 THEN 0 ELSE total[i - 1] + list[i].property
    IN  total[Len(list)]

\* Every page the firmware gave is in one place: on the free list once, with
\* kernel code, or a page table; none is lost when blocks split and merge, and
\* nr_free counts the free ones (default_check: "total == nr_free_pages()").
PagesAccounted ==
    /\ TypeOK
    /\ mem.nr_free = Total(mem.free_list)
    /\ mem.nr_free = Cardinality(Free)
    /\ Free \cap held = {} /\ Free \cap Tables = {} /\ held \cap Tables = {}
    /\ Cardinality(Tables) = Cardinality({d \in Dirs : pgdir[d] # NULL})
    /\ Free \cup held \cup Tables = {p \in Pages : Usable(p)}

\* alloc_pages says NULL only when no n free pages lie in a row, although it
\* looks at the blocks of the list one at a time: freeing leaves no two blocks
\* side by side.  That is so when no two usable ranges of the memory map touch,
\* since the blocks of page_init are not merged with each other.
NoFitMissed ==
    \A n \in 1 .. Cardinality(Pages) :
      default_alloc_pages(mem, n).page = NULL
        <=> ~ \E p \in Pages : Run(p, n) \subseteq Free

\* The flag PG_property marks the heads of free blocks and no other page, so
\* no assertion of the manager fails for a caller that frees what it holds.
NoPanic == ~ mem.panic /\ mem.PG_property = {b.base : b \in Blocks}

\* ref counts the mappings of a page (one for a page table): a mapped page is
\* never on the free list, and page_remove frees a page with its last mapping.
RefCounted ==
    \A p \in Pages :
      /\ mem.ref[p] = IF p \in Tables THEN 1 ELSE Cardinality({la \in Las : pte[la].page = p})
      /\ mem.ref[p] > 0 => p \notin Free

\* The TLB holds no translation that the tables no longer say: neither after
\* page_remove nor after page_insert over an old entry.
TLBCoherent == \A la \in Las : tlb[la] \in {Absent, pte[la]}

\* The free list is in the order of addresses.
FreeListSorted == \A i, j \in DOMAIN mem.free_list :
                     i < j => mem.free_list[i].base < mem.free_list[j].base
=============================================================================
