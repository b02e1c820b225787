------------------------------ MODULE MCPaging ------------------------------
(* The instance of Paging that TLC checks: 32 virtual pages, the layout in  *)
(* the second entry of the PDPT, physical memory that ends below the layout *)
(* (its PDPT entry is absent), inside it or past it, and allocators that   *)
(* run out during boot, at a first mapping or never.                        *)
EXTENDS Paging

MCFan == <<8, 2, 2, 1>>
MCMemories == {<<16, 0>>, <<16, 4>>, <<16, 13>>, <<20, 15>>, <<32, 11>>, <<32, 15>>}
=============================================================================
