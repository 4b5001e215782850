------------------------------- MODULE MmapMC -------------------------------
(* Mmap for TLC.                                                           *)
EXTENDS Mmap, TLC

ReadWrite == {{"R"}, {"R", "W"}}
WriteOnly == {{"R", "W"}}

\* Munmap arguments around the first two mappings; none of them wraps.
SmallRanges == {<<1, 1>>, <<1, 2>>, <<2, 1>>}

GrowShrink == {-1, 1}
=============================================================================
