------------------------------- MODULE Paging -------------------------------
(***************************************************************************)
(* The page tables of kernel/paging.c: the kernel's identity map, user     *)
(* address spaces that share its tables until a user page is mapped, the   *)
(* copies that the first mapping makes of them, and the release that has   *)
(* to tell the copies from the kernel's own tables.                        *)
(*                                                                         *)
(* A page is its number, a virtual page too.  Tables live in pages, so     *)
(* mem[p][i] is entry i of page p read as a table; a page that is freed    *)
(* keeps its entries, except the first, which the link of the free list    *)
(* overwrites.  The four levels have the fan-outs Fan[4] (PML4) down to    *)
(* Fan[1] (PT), each 512 in the machine.                                   *)
(***************************************************************************)
EXTENDS PageList, FiniteSets, Functions

CONSTANTS
    Fan,        \* entries of a table of each level
    Memories,   \* <<end of physical memory, pages the allocator gets>>
    Layout,     \* the virtual pages of the user layout
    Targets,    \* the pages that are mapped for the user
    MaxSpaces,  \* user spaces alive at a time: 2, during an exec
    MaxCreated  \* bound on the user spaces created

Levels == 1..4

(* What one entry of a table of level n stands for, in virtual pages. *)
Reach == [n \in Levels |-> CASE n = 1 -> 1
                             [] n = 2 -> Fan[1]
                             [] n = 3 -> Fan[1] * Fan[2]
                             [] n = 4 -> Fan[1] * Fan[2] * Fan[3]]
VirtualPages == 0..(Reach[4] * Fan[4] - 1)

(* The index of a virtual page in a table of level n. *)
Index(v, n) == (v \div Reach[n]) % Fan[n]

Indices == 0..(CHOOSE f \in {Fan[n] : n \in Levels} : \A n \in Levels : Fan[n] <= f) - 1

(* paging_release_user_address_space looks at the tables of the first page *)
(* of the layout only.                                                     *)
Trampoline == CHOOSE v \in Layout : \A w \in Layout : v <= w

ASSUME PagingAssumption ==
    /\ Fan \in [Levels -> Nat \ {0}]
    /\ \A m \in Memories : m[1] \in Nat \ {0} /\ m[1] - 1 \in VirtualPages /\ m[2] \in 0..(m[1] - 1)
    /\ Layout \subseteq VirtualPages /\ Layout # {}
    /\ \A v \in Layout, n \in 2..4 : Index(v, n) = Index(Trampoline, n)
    /\ Index(Trampoline, 4) = 0
    /\ Targets \subseteq Nat /\ MaxSpaces \in Nat /\ MaxCreated \in Nat

VARIABLES
    list,       \* the allocator's free list
    mem,        \* the entries of each page
    limit,      \* highest_physical_end, in pages
    kernel,     \* paging_kernel_pml4
    address,    \* loop variable of paging_initialize
    pc,         \* "init" in paging_initialize, "running", "halted"
    mapped,     \* mapped[s][v]: the page mapped last at v in the space s
    created     \* number of user spaces created so far

vars == <<list, mem, limit, kernel, address, pc, mapped, created>>

Pages == DOMAIN mem      \* the null page and those of the allocator
Spaces == DOMAIN mapped  \* the live user spaces, by their PML4

Absent == [present |-> FALSE, addr |-> Null, user |-> FALSE]
Entry(p, user) == [present |-> TRUE, addr |-> p, user |-> user]
ZeroPage == [i \in Indices |-> Absent]

-----------------------------------------------------------------------------
(* The functions of paging.c, over a state m of the machine: the memory,   *)
(* the free list, and the table m.at that a function returns, Null when it *)
(* could not allocate one.                                                 *)
Machine == [mem |-> mem, list |-> list, at |-> Null]

alloc_table(m) ==
    LET p == palloc_alloc(m.list)
    IN  [mem |-> IF p = Null THEN m.mem ELSE [m.mem EXCEPT ![p] = ZeroPage],
         list |-> AfterAlloc(m.list), at |-> p]

\* Mutant: the copy is an empty table.
copy_table_Empty(m, src) == alloc_table(m)

copy_table(m, src) ==
    LET c == alloc_table(m)
    IN  IF c.at = Null THEN c ELSE [c EXCEPT !.mem = [@ EXCEPT ![c.at] = m.mem[src]]]

(* table[i] = e, and return next. *)
Store(m, table, i, e, next) ==
    [mem |-> [m.mem EXCEPT ![table][i] = e], list |-> m.list, at |-> next]

\* Mutant: a new table is not given the user bit.
get_or_create_next_Supervisor(m, i, user) ==
    LET e == m.mem[m.at][i]
        c == alloc_table(m)
    IN  IF e.present THEN Store(m, m.at, i, Entry(e.addr, e.user \/ user), e.addr)
        ELSE IF c.at = Null THEN c
        ELSE Store(c, m.at, i, Entry(c.at, FALSE), c.at)

(* The table below entry i of the table m.at. *)
get_or_create_next(m, i, user) ==
    LET e == m.mem[m.at][i]
        c == alloc_table(m)
    IN  IF e.present THEN Store(m, m.at, i, Entry(e.addr, e.user \/ user), e.addr)
        ELSE IF c.at = Null THEN c
        ELSE Store(c, m.at, i, Entry(c.at, user), c.at)

(* The way down from level n to the next one, unless a table is missing. *)
Down(m, v, n, user) == IF m.at = Null THEN m ELSE get_or_create_next(m, Index(v, n), user)

map_page_4k(m, pml4, v, p, user) ==
    LET pt == Down(Down(Down([m EXCEPT !.at = pml4], v, 4, user), v, 3, user), v, 2, user)
    IN  IF pt.at = Null THEN pt ELSE Store(pt, pt.at, Index(v, 1), Entry(p, user), pt.at)

\* Mutant: the kernel's table is used in place.
Shared_Never(e, k) == FALSE

(* An entry of a user table that leads to the kernel's own table. *)
Shared(e, k) == e.present /\ e.addr = k.addr

(* The kernel's entry for v at level n. *)
KernelEntry(m, v, n) ==
    LET k4 == m.mem[kernel][Index(v, 4)]
        k3 == IF k4.present THEN m.mem[k4.addr][Index(v, 3)] ELSE Absent
        k2 == IF k3.present THEN m.mem[k3.addr][Index(v, 2)] ELSE Absent
    IN  CASE n = 4 -> k4 [] n = 3 -> k3 [] n = 2 -> k2

Stop == -1      \* nothing below is shared: return 1

(* One level of ensure_private_user_path: a table that is the kernel's is  *)
(* replaced by a copy.                                                     *)
Private(m, v, n) ==
    LET i == Index(v, n)
        e == m.mem[m.at][i]
        c == copy_table(m, e.addr)
    IN  IF m.at \in {Null, Stop} THEN m
        ELSE IF ~e.present THEN [m EXCEPT !.at = Stop]
        ELSE IF ~Shared(e, KernelEntry(m, v, n)) THEN Store(m, m.at, i, Entry(e.addr, TRUE), e.addr)
        ELSE IF c.at = Null THEN c
        ELSE Store(c, m.at, i, Entry(c.at, TRUE), c.at)

(* ensure_private_user_path, one level after the other, until an entry is  *)
(* absent.  The entry of the PML4 is always present, because page 0 is     *)
(* mapped and the layout lies below the same entry.                        *)
ensure_private_user_path(m, pml4, v) ==
    Private(Private(Private([m EXCEPT !.at = pml4], v, 4), v, 3), v, 2)

(* paging_map_user_page; the result's at is Null if the machine must halt. *)
paging_map_user_page(m, pml4, v, p) ==
    LET path == ensure_private_user_path(m, pml4, v)
    IN  IF path.at = Null THEN path ELSE map_page_4k(path, pml4, v, p, TRUE)

\* Mutant: the kernel's page table is not told from a copy.
ReleasedTables_All(pml4, v) ==
    LET pdpt == mem[pml4][Index(v, 4)]
        pd == mem[pdpt.addr][Index(v, 3)]
        pt == mem[pd.addr][Index(v, 2)]
    IN  IF pd.present /\ pt.present THEN <<pml4, pdpt.addr, pd.addr, pt.addr>> ELSE <<pml4>>

(* The tables that paging_release_user_address_space frees, last one first: *)
(* those on the path to v that differ from the kernel's, bottom up, and    *)
(* then the PML4.                                                          *)
ReleasedTables(pml4, v) ==
    LET pdpt == mem[pml4][Index(v, 4)]
        pd == IF pdpt.present THEN mem[pdpt.addr][Index(v, 3)] ELSE Absent
        pt == IF pd.present THEN mem[pd.addr][Index(v, 2)] ELSE Absent
        Own(e, n) == IF e.present /\ e.addr # KernelEntry(Machine, v, n).addr
                     THEN <<e.addr>> ELSE <<>>
    IN  <<pml4>> \o Own(pdpt, 4) \o Own(pd, 3) \o Own(pt, 2)

(* What the checks of core.c and elf.c ask of a space they have built. *)
paging_address_space_valid(s) ==
    s # Null /\ \A i \in Indices : mem[s][i].present = mem[kernel][i].present

walk_to_pt(s, v) ==
    LET e4 == mem[s][Index(v, 4)]
        e3 == IF e4.present THEN mem[e4.addr][Index(v, 3)] ELSE Absent
        e2 == IF e3.present THEN mem[e3.addr][Index(v, 2)] ELSE Absent
    IN  e2.addr

paging_mapping_matches(s, v, p, user) ==
    /\ s # Null
    /\ walk_to_pt(s, v) # Null
    /\ mem[walk_to_pt(s, v)][Index(v, 1)] = Entry(p, user)

-----------------------------------------------------------------------------
(* The end of memory is what highest_physical_end finds in the memory map; *)
(* it is not 0, as the kernel's image lies below it.                       *)
Init ==
    /\ \E m \in Memories :
        /\ limit = m[1]
        /\ list = palloc_initialize(m[2])
        /\ mem = [p \in 0..m[2] |-> ZeroPage]
    /\ kernel = Null
    /\ address = 0
    /\ pc = "init"
    /\ mapped = <<>>
    /\ created = 0

(* The part of a step that takes over the machine a function has left. *)
Becomes(m, step) ==
    /\ mem' = m.mem
    /\ list' = m.list
    /\ pc' = IF m.at = Null THEN "halted" ELSE step

(* paging_initialize: the PML4, ... *)
InitializePml4 ==
    /\ pc = "init" /\ kernel = Null
    /\ LET m == alloc_table(Machine) IN Becomes(m, "init") /\ kernel' = m.at
    /\ UNCHANGED <<limit, address, mapped, created>>

\* Mutant: one page past the end of memory is mapped too.
MoreMemory_Past(a) == a <= limit

MoreMemory(a) == a < limit

(* ... and the identity map, page by page. *)
MapIdentity ==
    /\ pc = "init" /\ kernel # Null
    /\ Becomes(map_page_4k(Machine, kernel, address, address, FALSE),
               IF MoreMemory(address + 1) THEN "init" ELSE "running")
    /\ address' = address + 1
    /\ UNCHANGED <<limit, kernel, mapped, created>>

(* paging_create_user_address_space: a PML4 with the kernel's entries. *)
CreateUserAddressSpace ==
    /\ pc = "running"
    /\ Cardinality(Spaces) < MaxSpaces /\ created < MaxCreated
    /\ created' = created + 1
    /\ LET m == copy_table(Machine, kernel)
       IN  /\ m.at # Null
           /\ Becomes(m, pc)
           /\ mapped' = [s \in Spaces \cup {m.at} |-> IF s = m.at THEN <<>> ELSE mapped[s]]
    /\ UNCHANGED <<limit, kernel, address>>

MapUserPage(s, v, p) ==
    /\ pc = "running"
    /\ Becomes(paging_map_user_page(Machine, s, v, p), pc)
    /\ mapped' = [mapped EXCEPT ![s] = [w \in DOMAIN @ \cup {v} |-> IF w = v THEN p ELSE @[w]]]
    /\ UNCHANGED <<limit, kernel, address, created>>

(* paging_release_user_address_space.  palloc_free writes its link over    *)
(* the first entry of each page.                                           *)
ReleaseUserAddressSpace(s) ==
    /\ pc = "running"
    /\ LET freed == ReleasedTables(s, Trampoline)
       IN  /\ list' = freed \o list
           /\ mem' = [p \in Pages |-> IF p \in ToSet(freed) THEN [mem[p] EXCEPT ![0] = Absent]
                                                            ELSE mem[p]]
    /\ mapped' = [t \in Spaces \ {s} |-> mapped[t]]
    /\ UNCHANGED <<limit, kernel, address, pc, created>>

Next ==
    \/ InitializePml4 \/ MapIdentity \/ CreateUserAddressSpace
    \/ \E s \in Spaces : ReleaseUserAddressSpace(s)
    \/ \E s \in Spaces, v \in Layout, p \in Targets : MapUserPage(s, v, p)

Spec == Init /\ [][Next]_vars

-----------------------------------------------------------------------------
(* Properties *)

(* The CPU's walk (external): the page a virtual page leads to, and        *)
(* whether user code may use it, which takes the user bit at every level.  *)
Walk(s, v) ==
    LET e4 == mem[s][Index(v, 4)]
        e3 == IF e4.present THEN mem[e4.addr][Index(v, 3)] ELSE Absent
        e2 == IF e3.present THEN mem[e3.addr][Index(v, 2)] ELSE Absent
        e1 == IF e2.present THEN mem[e2.addr][Index(v, 1)] ELSE Absent
    IN  [e1 EXCEPT !.user = e1.user /\ e2.user /\ e3.user /\ e4.user]

(* The tables of the tree below a PML4: the levels above the page tables,  *)
(* and the page tables, are found through the present entries.             *)
Below(tables) ==
    {mem[e[1]][e[2]].addr : e \in {x \in tables \X Indices : mem[x[1]][x[2]].present}}
TablesOf(s) ==
    LET pdpts == Below({s})
        pds == Below(pdpts)
    IN  {s} \cup pdpts \cup pds \cup Below(pds)
PrivateTables(s) == TablesOf(s) \ TablesOf(kernel)

(* Every variable has its type. *)
TypeOK ==
    /\ list \in Seq(Pages \ {Null})
    /\ mem \in [Pages -> [Indices -> [present : BOOLEAN, addr : Nat, user : BOOLEAN]]]
    /\ limit \in {m[1] : m \in Memories}
    /\ kernel \in Pages
    /\ address \in 0..limit
    /\ pc \in {"init", "running", "halted"}
    /\ Spaces \subseteq Pages /\ created \in 0..MaxCreated
    /\ \A s \in Spaces : DOMAIN mapped[s] \subseteq Layout

(* The kernel's own map never changes: whatever user spaces share tables   *)
(* with it, and whatever is mapped or released in them, it translates      *)
(* every page below the limit to itself, for the kernel only, and nothing  *)
(* else.                                                                   *)
KernelMapFixed ==
    pc = "running" =>
        \A v \in VirtualPages :
            Walk(kernel, v) = IF v < limit THEN Entry(v, FALSE) ELSE Absent

(* User code of an address space reaches exactly the pages that were       *)
(* mapped for it, and not those of the other space.                        *)
UserReachesMappedOnly ==
    pc = "running" =>
        \A s \in Spaces, v \in VirtualPages :
            IF v \in DOMAIN mapped[s] THEN Walk(s, v) = Entry(mapped[s][v], TRUE)
                                      ELSE ~Walk(s, v).user

(* In every address space the kernel still finds its code and data where   *)
(* they are: CR3 may be switched to it.  Only the mapped pages of the      *)
(* layout hide the memory at their own address.                            *)
KernelVisibleInUserSpace ==
    pc = "running" =>
        \A s \in Spaces : \A v \in 0..(limit - 1) \ DOMAIN mapped[s] :
            Walk(s, v) = Entry(v, FALSE)

(* Every page of the allocator is free, a table of the kernel or a table   *)
(* of one user space, and only one of these: a release that takes a shared *)
(* table for a copy frees it under the kernel, one that takes a copy for a *)
(* shared table leaks it.                                                  *)
TablesOwned ==
    pc = "running" =>
        /\ IsInjective(list)
        /\ \A s, t \in Spaces : s # t => PrivateTables(s) \cap PrivateTables(t) = {}
        /\ LET tables == UNION {TablesOf(s) : s \in Spaces \cup {kernel}}
           IN  /\ ToSet(list) \cap tables = {}
               /\ ToSet(list) \cup tables = Pages \ {Null}

(* A space costs its PML4, and three more tables with its first mapping:   *)
(* this is what the pages that module Process counts for a space stand on. *)
SpaceCost ==
    pc = "running" =>
        \A s \in Spaces :
            Cardinality(PrivateTables(s)) = IF DOMAIN mapped[s] = {} THEN 1 ELSE 4

(* The kernel's own checks of a space, which look at the user bit of the   *)
(* last level only, tell what the CPU will do: a space that passes them    *)
(* works, and none that works is refused.                                  *)
ChecksTellWhatTheCpuDoes ==
    pc = "running" =>
        \A s \in Spaces :
            /\ paging_address_space_valid(s)
            /\ \A v \in VirtualPages : \A p \in Targets \cup {v}, user \in BOOLEAN :
                  paging_mapping_matches(s, v, p, user) <=> Walk(s, v) = Entry(p, user)

(* The kernel's map survives every user space, and is found in each.       *)
KernelMapped == KernelMapFixed /\ KernelVisibleInUserSpace

(* What user code reaches is what was mapped for it and what the kernel's  *)
(* own checks say of the space.                                            *)
UserMapExact == UserReachesMappedOnly /\ ChecksTellWhatTheCpuDoes

(* The page tables are accounted for, table by table.                      *)
TablesAccounted == TypeOK /\ TablesOwned /\ SpaceCost
=============================================================================
