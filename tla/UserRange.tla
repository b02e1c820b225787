----------------------------- MODULE UserRange ------------------------------
(***************************************************************************)
(* The checks on pointers that come from user code: SYS_READ and SYS_WRITE *)
(* check a buffer (syscall_user_buffer_valid, paging_user_range_mapped),   *)
(* SYS_OPEN and SYS_EXEC copy a path byte by byte (syscall_copy_path).     *)
(*                                                                         *)
(* Addresses have Width bits and additions wrap.  The user layout is the   *)
(* interval from Base to Top, of which some pages are mapped for the user; *)
(* no page outside it is.  The bytes of a path are chosen as they are      *)
(* read: a slash, the terminator or any other character.                   *)
(***************************************************************************)
EXTENDS Integers, Sequences

CONSTANTS
    Width,          \* bits of an address
    PageSize,       \* paging_page_size
    Base, Top,      \* layout->trampoline_base, layout->stack_top
    PathSize        \* sizeof(path) in the system calls

ASSUME UserRangeAssumption ==
    /\ Width \in Nat /\ PageSize \in Nat \ {0} /\ PathSize \in Nat \ {0}
    /\ Base \in Nat /\ Top \in Nat
    /\ 0 < Base /\ Base < Top /\ Top < 2^Width
    /\ Base % PageSize = 0 /\ Top % PageSize = 0

Addresses == 0..(2^Width - 1)
AddressSum(a, b) == (a + b) % 2^Width

\* Mutant: the address is not rounded.
PageOf_Not(a) == a

PageOf(a) == (a \div PageSize) * PageSize
UserPages == {a \in Base..(Top - 1) : a % PageSize = 0}

VARIABLES
    mapped,     \* pages with the present and user bits
    start,      \* buffer or path pointer
    count,      \* size of the buffer
    pc,
    page,       \* loop variable of paging_user_range_mapped
    copied      \* dst[0..index-1]

vars == <<mapped, start, count, pc, page, copied>>

Init ==
    /\ mapped \in SUBSET UserPages
    /\ start \in Addresses
    /\ \/ pc = "buffer" /\ count \in Addresses
       \/ pc = "path" /\ count = 0
    /\ page = 0
    /\ copied = <<>>

-----------------------------------------------------------------------------
\* Mutant: one byte too many.
LastByte_Past(a, n) == AddressSum(a, n)

(* The last byte of a range, as both checks compute it. *)
LastByte(a, n) == AddressSum(a, n - 1)

(* syscall_user_range_in_layout. *)
InLayout(a, n) ==
    /\ Base <= a /\ a < Top
    /\ n > 0 => a <= LastByte(a, n) /\ LastByte(a, n) < Top

(* syscall_user_buffer_valid up to the walk of the tables.  An empty       *)
(* buffer is valid wherever it is.                                         *)
CheckBuffer ==
    /\ pc = "buffer"
    /\ IF count = 0 THEN pc' = "valid" /\ UNCHANGED page
       ELSE IF start = 0 \/ ~InLayout(start, count) \/ LastByte(start, count) < start
       THEN pc' = "invalid" /\ UNCHANGED page
       ELSE pc' = "walk" /\ page' = PageOf(start)
    /\ UNCHANGED <<mapped, start, count, copied>>

\* Mutant: the walk stays where it is.
NextPage_Same(p) == p

NextPage(p) == AddressSum(p, PageSize)

(* One turn of the loop of paging_user_range_mapped, which ends at the     *)
(* page of the last byte and not at a comparison.                          *)
WalkPage ==
    /\ pc = "walk"
    /\ IF page \notin mapped THEN pc' = "invalid" /\ UNCHANGED page
       ELSE IF page = PageOf(LastByte(start, count)) THEN pc' = "valid" /\ UNCHANGED page
       ELSE page' = NextPage(page) /\ UNCHANGED pc
    /\ UNCHANGED <<mapped, start, count, copied>>

Slash == "/"
Nul == "nul"
Bytes == {Slash, Nul, "other"}

(* The byte that syscall_copy_path looks at next, and its check. *)
Address == AddressSum(start, Len(copied))

\* Mutant: only the first byte is checked.
Readable_First(a) == copied # <<>> \/ (InLayout(a, 1) /\ PageOf(a) \in mapped)
\* Mutant: the wrap check refuses the first byte.
Readable_Strict(a) == a > start /\ InLayout(a, 1) /\ PageOf(a) \in mapped

Readable(a) == a >= start /\ InLayout(a, 1) /\ PageOf(a) \in mapped

\* Mutant: the copy fills the buffer before it gives up.
RoomLeft_Full(n) == n < PathSize

(* index + 1u < dst_size: the last byte of dst is never written. *)
RoomLeft(n) == n + 1 < PathSize

(* One turn of syscall_copy_path. *)
CopyByte ==
    /\ pc = "path"
    /\ IF start = 0 \/ ~RoomLeft(Len(copied)) \/ ~Readable(Address)
       THEN pc' = "invalid" /\ UNCHANGED copied
       ELSE \E ch \in Bytes :
              /\ copied' = Append(copied, ch)
              /\ pc' = IF copied = <<>> /\ ch # Slash THEN "invalid"
                       ELSE IF ch = Nul THEN "copied" ELSE "path"
    /\ UNCHANGED <<mapped, start, count, page>>

Next == CheckBuffer \/ WalkPage \/ CopyByte

(* The CPU goes on with the handler. *)
Spec == Init /\ [][Next]_vars /\ WF_vars(Next)

-----------------------------------------------------------------------------
Done == {"valid", "invalid", "copied"}
IsBuffer == copied = <<>> /\ count > 0

(* Every variable has its type; the walk visits pages of the layout only. *)
TypeOK ==
    /\ mapped \subseteq UserPages
    /\ start \in Addresses /\ count \in Addresses
    /\ pc \in {"buffer", "walk", "path"} \cup Done
    /\ page \in {0} \cup UserPages
    /\ copied \in Seq(Bytes)

(* A byte user code may use, whatever the arithmetic of the checks. *)
UserByte(a) == a \in Addresses /\ PageOf(a) \in mapped

(* A buffer is accepted exactly if every one of its bytes is mapped for    *)
(* the user, without wrapping: none is accepted that the kernel would      *)
(* fault on or that belongs to the kernel, and none is refused that the    *)
(* task may use.                                                           *)
BufferVerdict ==
    IsBuffer /\ pc \in Done =>
        (pc = "valid" <=> \A a \in start..(start + count - 1) : UserByte(a))

(* The kernel has read only bytes of the path that the task may use, the   *)
(* page of each having been checked, across page boundaries and at the end *)
(* of the layout.                                                          *)
PathReadsUserBytes ==
    \A i \in DOMAIN copied : UserByte(start + i - 1)

(* A copied path is a terminated string that starts with a slash and fits, *)
(* and a path is refused only because the next byte, be it the first one,  *)
(* is not the task's, for its first character, or for its length:          *)
(* PathSize - 1 bytes without a terminator.  (An empty buffer is never     *)
(* refused, so that count = 0 says it is a path.)                          *)
PathVerdict ==
    /\ Len(copied) <= PathSize - 1
    /\ pc = "copied" =>
         /\ copied[1] = Slash
         /\ {i \in DOMAIN copied : copied[i] = Nul} = {Len(copied)}
    /\ pc = "invalid" /\ count = 0 =>
         \/ copied # <<>> /\ copied[1] # Slash
         \/ Len(copied) = PathSize - 1
         \/ ~UserByte(start + Len(copied))

(* Every check ends: the walk, which stops at one page only, cannot run    *)
(* past it.                                                                *)
CheckEnds == <>(pc \in Done)

(* The checks of user pointers are exact: they accept and read what the    *)
(* task may use, and refuse nothing else, at every address and size.       *)
ChecksExact == TypeOK /\ BufferVerdict /\ PathReadsUserBytes /\ PathVerdict
=============================================================================
