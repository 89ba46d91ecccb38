---------------------------- MODULE MC_ImageLoader ----------------------------
(***************************************************************************)
(* Instances of ImageLoader for TLC: pages of two cells, a first megabyte   *)
(* of one page, kernels that overlap each other.                           *)
(***************************************************************************)
EXTENDS ImageLoader

K(n, f, at, file, size, syms, arg) ==
  [name |-> n, format |-> f, load |-> at, file |-> file, mem |-> size, syms |-> syms, arg |-> arg]

mcKernels ==
  {K("elf", "elf", 2, 1, 2, 1, 1), K("kludge", "kludge", 4, 2, 3, 0, 1),
   K("low", "elf", 0, 1, 1, 0, 0)}
mcModules   == {[name |-> "one", size |-> 1, arg |-> 2], [name |-> "two", size |-> 2, arg |-> 0]}
mcExpanded  == {1, 2}
mcAddresses == {4, 12}
mcFaults    == {"open", "short", "symbols"}
===============================================================================
