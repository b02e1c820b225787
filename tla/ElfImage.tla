------------------------------ MODULE ElfImage ------------------------------
(***************************************************************************)
(* elf_load_user_image of kernel/elf.c on an arbitrary file: the checks of *)
(* the header and of the program headers, the span of the load segments,   *)
(* the copy into the loader's window and the mappings of the new program.  *)
(*                                                                         *)
(* The file is unknown until it is read: a check that reads a header       *)
(* chooses its contents, and they stay as they are from then on.  Values   *)
(* are machine words, 0..Word-1, and sums wrap.  A byte of memory is the   *)
(* offset of the file byte that was copied there, Zero, or Other.  The     *)
(* pages of the window and of the stack are claimed in module Process;     *)
(* here a claim succeeds or not.                                           *)
(***************************************************************************)
EXTENDS Integers, Sequences, FiniteSets, FiniteSetsExt

CONSTANTS
    Word,           \* 2^64 in the machine
    PageBytes,      \* 4096
    HeaderSize,     \* sizeof(struct elf64_header)
    PhdrSize,       \* sizeof(struct elf64_program_header)
    LoadBase,       \* elf_user_load_base
    LoadSize,       \* elf_user_load_size
    ImageBase,      \* layout->image_base
    StackTop,       \* layout->stack_top
    Headers,        \* the file headers considered, with the size of the file
    Phdrs,          \* the program headers considered
    Entries         \* the entry points considered

Words == 0..(Word - 1)

ASSUME ElfAssumption ==
    /\ {Word, PageBytes, HeaderSize, PhdrSize, LoadBase, LoadSize, ImageBase, StackTop} \subseteq Nat \ {0}
    /\ \A n \in {Word, LoadSize, LoadBase, ImageBase, StackTop} : n % PageBytes = 0
    /\ LoadBase + LoadSize < Word
    /\ ImageBase + LoadSize + PageBytes <= StackTop /\ StackTop < Word
    /\ Headers \subseteq [size : Words, ident : BOOLEAN, phoff : Words, phnum : Nat]
    /\ Phdrs \subseteq [load : BOOLEAN, vaddr : Words, memsz : Words,
                        offset : Words, filesz : Words, align : Words]
    /\ Entries \subseteq Words

VARIABLES
    file,       \* the file's header
    phdrs,      \* the program headers read so far
    entry,      \* header->entry
    span,       \* <<image_vaddr_begin, image_vaddr_end>>
    memory,     \* physical memory around the window
    bytesRead,  \* the offsets of the file that load_segment has read
    index,      \* loop variable of the copy
    space,      \* the user mappings: virtual page -> physical page
    stage       \* the step to take next; "done", "refused" or "failed"

loaderVars == <<file, phdrs, entry, span, memory, bytesRead, index, space, stage>>

Zero == -1
Other == -2
StackPage == LoadBase + Word    \* a page outside the window
Physical == 0..(LoadBase + Word - 1)

WordSum(a, b) == (a + b) % Word

align_down(a) == a - (a % PageBytes)

\* Mutant: the end of the span is not rounded.
align_up_Not(a) == a

align_up(a) == align_down(WordSum(a, PageBytes - 1))

\* Mutant: the sum is compared, which wraps.
range_fits_Sum(size, offset, count) == WordSum(offset, count) <= size

range_fits(size, offset, count) == offset <= size /\ count <= size - offset

ByteRange(begin, count) == begin..(begin + count - 1)
Loads == {i \in DOMAIN phdrs : phdrs[i].load}

-----------------------------------------------------------------------------
LoaderInit ==
    /\ file \in Headers
    /\ phdrs = <<>>
    /\ entry = 0
    /\ span = <<0, 0>>
    /\ memory = [a \in Physical |-> Other]
    /\ bytesRead = {}
    /\ index = 1
    /\ space = <<>>
    /\ stage = "header"

Goto(ok, then) == stage' = IF ok THEN then ELSE "refused"

(* validate_header; file.ident is the outcome of the comparisons of its    *)
(* magic bytes, type, machine and sizes.                                   *)
ValidateHeader ==
    /\ stage = "header"
    /\ Goto(/\ file.size >= HeaderSize
            /\ file.ident
            /\ range_fits(file.size, file.phoff, file.phnum * PhdrSize),
            IF file.phnum = 0 THEN "refused" ELSE "segments")
    /\ UNCHANGED <<file, phdrs, entry, span, memory, bytesRead, index, space>>

PowerOfTwo(n) == \E k \in 0..n : n = 2^k

\* Mutant: a segment may end where the address space wraps.
Wraps_Not(p) == FALSE

Wraps(p) == WordSum(p.vaddr, p.memsz) < p.vaddr

validate_load_segment(p) ==
    p.load =>
        /\ p.memsz # 0 /\ p.filesz <= p.memsz
        /\ range_fits(file.size, p.offset, p.filesz)
        /\ ~Wraps(p)
        /\ p.align > 1 => PowerOfTwo(p.align) /\ p.vaddr % p.align = p.offset % p.align

(* An iteration of validate_program_headers, and its result after the last *)
(* one.                                                                    *)
ValidateSegment(p) ==
    /\ stage = "segments"
    /\ phdrs' = Append(phdrs, p)
    /\ LET last == Len(phdrs') = file.phnum
       IN  Goto(validate_load_segment(p) /\ (last => \E i \in DOMAIN phdrs' : phdrs'[i].load),
                IF last THEN "span" ELSE "segments")
    /\ UNCHANGED <<file, entry, span, memory, bytesRead, index, space>>

Lowest == Min({phdrs[i].vaddr : i \in Loads})

\* Mutant: the last segment is taken for the highest one.
Highest_Last == LET p == phdrs[Max(Loads)] IN WordSum(p.vaddr, p.memsz)

Highest == Max({WordSum(phdrs[i].vaddr, phdrs[i].memsz) : i \in Loads})

\* Mutant: the entry point may be the end of a segment.
entry_in_load_segment_End(e) ==
    \E i \in Loads : e >= phdrs[i].vaddr /\ e <= WordSum(phdrs[i].vaddr, phdrs[i].memsz)

entry_in_load_segment(e) ==
    \E i \in Loads : e >= phdrs[i].vaddr /\ e < WordSum(phdrs[i].vaddr, phdrs[i].memsz)

(* compute_load_span, entry_in_load_segment and the checks of the size.    *)
(* The layout's own checks cannot fail for the layout that the kernel has. *)
ComputeSpan(e) ==
    /\ stage = "span"
    /\ LET begin == align_down(Lowest)
           end == align_up(Highest)
           user_image_end == WordSum(ImageBase, end - begin)
       IN  /\ span' = <<begin, end>>
           /\ Goto(/\ end > begin
                   /\ entry_in_load_segment(e)
                   /\ end - begin <= LoadSize
                   /\ user_image_end >= ImageBase
                   /\ user_image_end <= StackTop - PageBytes,
                   "claim")
    /\ entry' = e
    /\ UNCHANGED <<file, phdrs, memory, bytesRead, index, space>>

LoadEnd == LoadBase + span[2] - span[1]

(* claim_window_pages, and clear_window if it succeeds. *)
ClaimWindow ==
    /\ stage = "claim"
    /\ stage' = "load"
    /\ memory' = [a \in Physical |-> IF a \in LoadBase..(LoadEnd - 1) THEN Zero ELSE memory[a]]
    /\ UNCHANGED <<file, phdrs, entry, span, bytesRead, index, space>>

\* Mutant: the segment is placed at its offset in the file.
Destination_Offset(p) == LoadBase + p.offset

Destination(p) == LoadBase + (p.vaddr - span[1])

(* The byte that load_segment puts at a. *)
Contents(p, a) ==
    LET i == a - Destination(p) IN IF i < p.filesz THEN p.offset + i ELSE Zero

BelowSpan(p) == p.load /\ p.vaddr < span[1]

load_segment(p) ==
    LET used == p.load /\ ~BelowSpan(p)
    IN  /\ memory' = [a \in Physical |-> IF used /\ a \in ByteRange(Destination(p), p.memsz)
                                          THEN Contents(p, a) ELSE memory[a]]
        /\ bytesRead' = bytesRead \cup IF used THEN ByteRange(p.offset, p.filesz) ELSE {}

(* An iteration of the loop over load_segment. *)
LoadSegment ==
    /\ stage = "load"
    /\ load_segment(phdrs[index])
    /\ index' = index + 1
    /\ stage' = CASE BelowSpan(phdrs[index]) -> "failed"
               [] index' > Len(phdrs) -> "map"
               [] OTHER -> "load"
    /\ UNCHANGED <<file, phdrs, entry, span, space>>

(* The mappings of the image, and then that of the stack.                  *)
MapImage ==
    /\ stage = "map"
    /\ space' = [v \in {ImageBase + i * PageBytes : i \in 0..((LoadEnd - LoadBase) \div PageBytes - 1)}
                    |-> LoadBase + (v - ImageBase)]
    /\ stage' = "stack"
    /\ UNCHANGED <<file, phdrs, entry, span, memory, bytesRead, index>>

AllocStack ==
    /\ stage = "stack"
    /\ space' = [v \in DOMAIN space \cup {StackTop - PageBytes} |->
                    IF v = StackTop - PageBytes THEN StackPage ELSE space[v]]
    /\ entry' = ImageBase + (entry - span[1])
    /\ stage' = "done"
    /\ UNCHANGED <<file, phdrs, span, memory, bytesRead, index>>

(* A claim or the stack may find no memory. *)
OutOfMemory ==
    /\ stage \in {"claim", "stack"}
    /\ stage' = "failed"
    /\ UNCHANGED <<file, phdrs, entry, span, memory, bytesRead, index, space>>

LoaderNext ==
    \/ ValidateHeader
    \/ \E p \in Phdrs : ValidateSegment(p)
    \/ \E e \in Entries : ComputeSpan(e)
    \/ ClaimWindow \/ LoadSegment \/ MapImage \/ AllocStack \/ OutOfMemory

LoaderSpec == LoaderInit /\ [][LoaderNext]_loaderVars

-----------------------------------------------------------------------------
(* Properties *)

(* Every variable has its type; the span is made of whole pages. *)
LoaderTypeOK ==
    /\ file \in Headers
    /\ phdrs \in Seq(Phdrs) /\ Len(phdrs) <= file.phnum
    /\ span \in Words \X Words
    /\ span[1] % PageBytes = 0 /\ span[2] % PageBytes = 0
    /\ memory \in [Physical -> {Zero, Other} \cup Nat]
    /\ index \in 1..(Len(phdrs) + 1)

(* The loader writes into the pages it has claimed and nowhere else,       *)
(* whatever the program headers say.                                       *)
WritesStayInWindow ==
    stage # "refused" =>
        \A a \in Physical : memory[a] # Other => a \in LoadBase..(LoadEnd - 1)

(* It reads the bytes of the file and nothing else, program headers        *)
(* included.                                                               *)
ReadsStayInFile ==
    /\ bytesRead \subseteq 0..(file.size - 1)
    /\ phdrs # <<>> => ByteRange(file.phoff, file.phnum * PhdrSize) \subseteq 0..(file.size - 1)

(* What the user sees at an address of the image. *)
UserSees(v) == memory[space[align_down(v)] + (v % PageBytes)]
Covering(a) == {i \in Loads : a \in ByteRange(phdrs[i].vaddr, phdrs[i].memsz)}
FileByte(a) ==
    IF Covering(a) = {} THEN Zero
    ELSE LET p == phdrs[Max(Covering(a))]
         IN  IF a - p.vaddr < p.filesz THEN p.offset + (a - p.vaddr) ELSE Zero

(* When the loader is done, the program finds at every address of its span *)
(* what the file has for it: the last segment that covers the address,     *)
(* zeros past its file part, and zeros where no segment is, never what the *)
(* window held before.                                                     *)
ImageIsTheFile ==
    stage = "done" =>
        \A a \in span[1]..(span[2] - 1) :
            LET v == ImageBase + (a - span[1])
            IN  align_down(v) \in DOMAIN space /\ UserSees(v) = FileByte(a)

(* The entry point is a byte of a segment, and the stack has a page of its *)
(* own.                                                                    *)
EntryAndStack ==
    stage = "done" =>
        /\ Covering(span[1] + (entry - ImageBase)) # {}
        /\ space[StackTop - PageBytes] = StackPage
        /\ \A v \in DOMAIN space : space[v] = StackPage => v = StackTop - PageBytes

(* The verdict, without words that wrap: what a file must be to be loaded. *)
GoodHeader ==
    file.size >= HeaderSize /\ file.ident /\ file.phoff + file.phnum * PhdrSize <= file.size
GoodSegment(p) ==
    p.load =>
        /\ p.memsz > 0 /\ p.filesz <= p.memsz
        /\ p.offset + p.filesz <= file.size
        /\ p.vaddr + p.memsz < Word
        /\ p.align > 1 => PowerOfTwo(p.align) /\ (p.vaddr - p.offset) % p.align = 0
PagesUsed ==
    {a \div PageBytes : a \in UNION {ByteRange(phdrs[i].vaddr, phdrs[i].memsz) : i \in Loads}}
GoodImage ==
    /\ Loads # {} /\ Covering(entry) # {}
    /\ Max(PagesUsed) + 1 < Word \div PageBytes
    /\ (Max(PagesUsed) - Min(PagesUsed) + 1) * PageBytes <= LoadSize

(* A file is refused exactly if something is wrong with it: no sum wraps   *)
(* into a false verdict in either direction.                               *)
Verdict ==
    /\ stage \in {"claim", "load", "map"} =>
           GoodHeader /\ (\A i \in DOMAIN phdrs : GoodSegment(phdrs[i])) /\ GoodImage
    /\ stage = "refused" =>
           \/ ~GoodHeader \/ file.phnum = 0
           \/ \E i \in DOMAIN phdrs : ~GoodSegment(phdrs[i])
           \/ Len(phdrs) = file.phnum /\ ~GoodImage

(* The loader reads and writes only where it may.                          *)
LoaderInBounds == LoaderTypeOK /\ WritesStayInWindow /\ ReadsStayInFile

(* The program that is started is the one in the file.                     *)
ProgramIsTheFile == ImageIsTheFile /\ EntryAndStack
=============================================================================
