---------------------------- MODULE MCKernelHeap -----------------------------
(* KernelHeap for TLC: the sizes of the kernel's structures, six            *)
(* descriptors, and a page that holds exactly what can be live at a time.   *)
EXTENDS KernelHeap
=============================================================================
