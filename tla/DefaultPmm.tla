----------------------------- MODULE DefaultPmm -----------------------------
(***************************************************************************)
(* The physical memory manager of Labweek11/lab2: page_init of pmm.c and   *)
(* the first-fit manager of default_pmm.c, as functions of the manager's   *)
(* state                                                                   *)
(*                                                                         *)
(*   free_list   the blocks on the free list, in list order: the head page *)
(*               of each and its property, the number of its pages (the    *)
(*               property of other pages is never read)                    *)
(*   nr_free     number of free pages                                      *)
(*   PG_property, PG_reserved   the pages that have the flag set           *)
(*   ref         the reference count of each page                          *)
(*   panic       an assertion has failed                                   *)
(*                                                                         *)
(* The kernel calls the manager with interrupts off, so an operation is    *)
(* never interrupted.  Addresses are bytes, pages are page numbers.        *)
(***************************************************************************)
EXTENDS Integers, FiniteSetsExt, SequencesExt

CONSTANTS KMEMSIZE, PGSIZE,
          freemem,    \* first byte after the kernel and its array of Pages
          E820Maps    \* the memory maps the firmware may report

ASSUME Layout == /\ PGSIZE \in Nat \ {0}
                 /\ KMEMSIZE \in Nat /\ KMEMSIZE % PGSIZE = 0
                 /\ freemem \in Nat

Pages == 0 .. KMEMSIZE \div PGSIZE - 1
NULL == -1
Run(base, n) == base .. base + n - 1

E820Entries == [addr : Nat, size : Nat, arm : BOOLEAN]
End(entry) == entry.addr + entry.size

\* No byte is in two usable entries: init_memmap asserts it of the pages.
ASSUME Firmware ==
    \A map \in E820Maps :
      /\ map \in Seq(E820Entries)
      /\ \A i, j \in DOMAIN map : i # j /\ map[i].arm /\ map[j].arm
           => End(map[i]) <= map[j].addr \/ End(map[j]) <= map[i].addr

(***************************************************************************)
(* default_init, default_init_memmap and page_init                         *)
(***************************************************************************)
default_init(reserved) == [free_list |-> <<>>, nr_free |-> 0, PG_property |-> {},
                           PG_reserved |-> reserved, ref |-> [p \in Pages |-> 0],
                           panic |-> FALSE]

default_init_memmap(m, base, n) ==
    [m EXCEPT !.free_list = Append(@, [base |-> base, property |-> n]),
              !.nr_free = @ + n,
              !.PG_property = (@ \ Run(base, n)) \cup {base},
              !.PG_reserved = @ \ Run(base, n),
              !.ref = [p \in Pages |-> IF p \in Run(base, n) THEN 0 ELSE @[p]],
              !.panic = @ \/ ~ (n > 0 /\ Run(base, n) \subseteq m.PG_reserved)]

\* maxpa, clipped: the end of the last usable entry that starts in KMEMSIZE
maxpa(map) == Min({KMEMSIZE, Max({0} \cup {End(map[i]) : i \in
                    {j \in DOMAIN map : map[j].arm /\ map[j].addr < KMEMSIZE}})})

\* Mutant: the first page of an entry is rounded down.
FirstPageDown(entry) == Max({entry.addr, freemem}) \div PGSIZE

\* First and last page of an entry, the partial ones left out.
FirstPage(entry) == (Max({entry.addr, freemem}) + PGSIZE - 1) \div PGSIZE
EndPage(entry) == Min({End(entry), KMEMSIZE}) \div PGSIZE

\* the part of an entry above the kernel becomes a free block
InitEntry(m, entry) ==
    IF entry.arm /\ FirstPage(entry) < EndPage(entry)
    THEN default_init_memmap(m, FirstPage(entry), EndPage(entry) - FirstPage(entry))
    ELSE m

page_init(map) ==
    LET entries[i \in 0 .. Len(map)] ==
          IF i = 0 THEN default_init(0 .. maxpa(map) \div PGSIZE - 1)
          ELSE InitEntry(entries[i - 1], map[i])
    IN  entries[Len(map)]

(***************************************************************************)
(* default_alloc_pages: the first block of the list that is large enough;  *)
(* the rest of a larger block goes to the front of the list.               *)
(***************************************************************************)
Take(m, i, n) ==
    LET block == m.free_list[i]
        rest == IF block.property > n
                THEN <<[base |-> block.base + n, property |-> block.property - n]>> ELSE <<>>
    IN  [m EXCEPT !.free_list = rest \o RemoveAt(@, i),
                  !.nr_free = @ - n,
                  !.PG_property = (@ \cup {b.base : b \in ToSet(rest)}) \ {block.base}]

default_alloc_pages(m, n) ==
    LET fits == {i \in DOMAIN m.free_list : m.free_list[i].property >= n}
    IN  IF n > m.nr_free \/ fits = {}
        THEN [page |-> NULL, mem |-> m]
        ELSE [page |-> m.free_list[Min(fits)].base, mem |-> Take(m, Min(fits), n)]

(***************************************************************************)
(* default_free_pages: one walk over the list takes out the blocks that    *)
(* touch the freed one and merges them with it, a second one finds the     *)
(* place of the result.                                                    *)
(***************************************************************************)
\* Mutant: a block is merged only with the one that follows it.
MergeUpOnly(s, b) ==
    IF s.block.base + s.block.property = b.base
    THEN [s EXCEPT !.block.property = @ + b.property, !.PG_property = @ \ {b.base}]
    ELSE [s EXCEPT !.others = Append(@, b)]

\* Mutant: the head of the block merged in keeps its flag.
MergeFlagKept(s, b) ==
    IF s.block.base + s.block.property = b.base
    THEN [s EXCEPT !.block.property = @ + b.property]
    ELSE IF b.base + b.property = s.block.base
    THEN [s EXCEPT !.block = [base |-> b.base, property |-> b.property + s.block.property]]
    ELSE [s EXCEPT !.others = Append(@, b)]

Merge(s, b) ==
    IF s.block.base + s.block.property = b.base
    THEN [s EXCEPT !.block.property = @ + b.property, !.PG_property = @ \ {b.base}]
    ELSE IF b.base + b.property = s.block.base
    THEN [s EXCEPT !.block = [base |-> b.base, property |-> b.property + s.block.property],
                   !.PG_property = @ \ {s.block.base}]
    ELSE [s EXCEPT !.others = Append(@, b)]

\* the block goes before the first one that starts after its end, or last
InsertBlock(list, block) ==
    LET after == {i \in DOMAIN list : block.base + block.property <= list[i].base}
    IN  IF after = {} THEN Append(list, block) ELSE InsertAt(list, Min(after), block)

MergeAll(m, base, n) ==
    LET walk[i \in 0 .. Len(m.free_list)] ==
          IF i = 0
          THEN [block |-> [base |-> base, property |-> n], others |-> <<>>,
                PG_property |-> m.PG_property \cup {base}]
          ELSE Merge(walk[i - 1], m.free_list[i])
    IN  walk[Len(m.free_list)]

default_free_pages(m, base, n) ==
    LET merged == MergeAll(m, base, n)
    IN  [m EXCEPT !.free_list = InsertBlock(merged.others, merged.block),
                  !.nr_free = @ + n,
                  !.PG_property = merged.PG_property,
                  !.ref = [p \in Pages |-> IF p \in Run(base, n) THEN 0 ELSE @[p]],
                  !.panic = @ \/ n = 0
                              \/ Run(base, n) \cap (m.PG_reserved \cup m.PG_property) # {}]
=============================================================================
