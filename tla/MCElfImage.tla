----------------------------- MODULE MCElfImage -----------------------------
(* The instance of ElfImage that TLC checks: 16 addresses in pages of two   *)
(* bytes, files of three bytes or too short, up to two program headers with *)
(* addresses and sizes at both ends of the range.                           *)
EXTENDS ElfImage

MCHeaders ==
    [size : {0, 3}, ident : BOOLEAN, phoff : {1, 2, 3, 15}, phnum : 0..2]
MCPhdrs ==
    [load : {TRUE}, vaddr : {0, 1, 3, 4, 13, 15}, memsz : {0, 1, 2, 3, 5, 15},
     offset : {0, 1, 15}, filesz : {0, 2, 3}, align : {1, 2, 3}]
    \cup [load : {FALSE}, vaddr : {1}, memsz : {0}, offset : {15}, filesz : {3}, align : {3}]
=============================================================================
