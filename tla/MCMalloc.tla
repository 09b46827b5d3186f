------------------------------- MODULE MCMalloc -------------------------------
(* An instance of Malloc for TLC. *)
EXTENDS MallocProps, TLC

SmallIds == 1 .. 3
SmallSizes == {1, 4, 5}
PaddedSizes == 5 :> 7
AnyWord == {0, 4}

\* States that differ only in left-over words are one (LeftoversDoNotMatter).
LiveView == <<Meaning(heap, TagsAndLinks(heap) \cup Payloads), block, todo, status, sums>>
=============================================================================
