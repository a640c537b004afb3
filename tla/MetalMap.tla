------------------------------- MODULE MetalMap -------------------------------
(***************************************************************************)
(* The dense Metal index map of a set of resources in closed form: what    *)
(* the loops of MetalBindingAllocator compute (MatchesClosedForm there) as *)
(* a definition that other modules can build on.                           *)
(***************************************************************************)
EXTENDS Naturals, FiniteSets

\* Resources as the allocator sees them are <<kind, <<set, binding>>>> pairs.
Kinds == {"buffer", "sampled_image", "image", "sampler"}

\* std::pair order, the order std::sort gives the lists.
KeyLess(a, b) == a[1] < b[1] \/ (a[1] = b[1] /\ a[2] < b[2])

KeysAmong(resources, kinds) == {r[2] : r \in {q \in resources : q[1] \in kinds}}

Rank(k, S) == Cardinality({j \in S : KeyLess(j, k)})

\* The index that has `rank' free indices below it.
FreeSlot(rank, pinned) ==
  CHOOSE n \in 0 .. rank + Cardinality(pinned) :
    n \notin pinned /\ Cardinality((0 .. n - 1) \ pinned) = rank

\* Mutant: samplers are numbered on their own, as buffers and textures are.
UnpinnedMap(resources, buffer_base, mod) ==
  LET buffers  == KeysAmong(resources, {"buffer"})
      textures == KeysAmong(resources, {"sampled_image", "image"})
      samplers == KeysAmong(resources, {"sampled_image", "sampler"})
  IN  [buffer  |-> [k \in buffers |-> (buffer_base + Rank(k, buffers)) % mod],
       texture |-> [k \in textures |-> Rank(k, textures)],
       sampler |-> [k \in samplers |-> Rank(k, samplers)]]

(***************************************************************************)
(* A key has its rank in its list.  A combined image sampler has the       *)
(* sampler index of its texture, separate samplers take what is left.      *)
(***************************************************************************)
MetalMapOf(resources, buffer_base, mod) ==
  LET buffers  == KeysAmong(resources, {"buffer"})
      textures == KeysAmong(resources, {"sampled_image", "image"})
      combined == KeysAmong(resources, {"sampled_image"})
      separate == KeysAmong(resources, {"sampler"})
      pinned   == {Rank(k, textures) : k \in combined}
  IN  [buffer  |-> [k \in buffers |-> (buffer_base + Rank(k, buffers)) % mod],
       texture |-> [k \in textures |-> Rank(k, textures)],
       sampler |-> [k \in combined \cup separate |->
                      IF k \in combined THEN Rank(k, textures)
                      ELSE FreeSlot(Rank(k, separate), pinned)]]
==============================================================================
