----------------------- MODULE MCMetalBindingAllocator -----------------------
(***************************************************************************)
(* Instance of MetalBindingAllocator: keys in two descriptor sets, stages  *)
(* with at most two resources each, two stages, a 4-bit index counter and  *)
(* limits small enough to be exceeded.                                     *)
(***************************************************************************)
EXTENDS MetalBindingAllocator

MCKey == {<<0, 0>>, <<0, 1>>, <<1, 0>>}
MCStageModules == {m \in SUBSET (Kinds \X MCKey) : Cardinality(m) <= 2}
\* A base in the middle of the table, one that starts at the last index and
\* one that wraps at the second buffer.
MCBufferBases == {1, 2, 15}
==============================================================================
