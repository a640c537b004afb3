------------------------ MODULE MetalBindingAllocator ------------------------
(***************************************************************************)
(* Dense (set, binding) -> Metal index assignment of one shader program    *)
(* (crosscompiler/metal_binding_allocator.cpp).  fromProgram collects the  *)
(* resources of every stage and assignFromResourceLists hands out indices  *)
(* with four loops: buffers, textures, combined image samplers (pinned to  *)
(* their texture), separate samplers (skipping the pinned indices).  One   *)
(* action is one loop iteration.                                           *)
(***************************************************************************)
EXTENDS MetalMap, Sequences

CONSTANTS
  Key,             \* logical (set, binding) pairs
  StageModules,    \* SPIR-V modules a stage may have: sets of <<kind, key>>
  NumStages,       \* bound: stages in a program
  BufferBases,     \* values of MetalBindingLayout::buffer_base
  IndexMod,        \* 2^32: width of the index counters
  MaxBufferIndex, MaxSamplerIndex, MaxTextureIndex  \* MetalIndexLimits

ASSUME KeyAssumption == Key \subseteq Nat \X Nat /\ IsFiniteSet(Key)
ASSUME ModulesAssumption == StageModules \subseteq SUBSET (Kinds \X Key)
ASSUME LimitsAssumption ==
  /\ {NumStages, IndexMod, MaxBufferIndex, MaxSamplerIndex, MaxTextureIndex} \subseteq Nat
  /\ BufferBases \subseteq 0 .. IndexMod - 1
\* A program has fewer resources than half of the 2^32 indices: each is an id
\* of a SPIR-V module.  Only a large buffer_base can wrap a counter.
ASSUME WidthAssumption == MaxBufferIndex + 2 * Cardinality(Key) < IndexMod

VARIABLES
  phase,          \* the loop of assignFromResourceLists that runs
  program,        \* the stage modules collected so far
  todo,           \* keys the running loop has not visited
  next,           \* the counter of the running loop, before truncation to 32 bits
  buffer_base,    \* layout_.buffer_base
  buffer_index, texture_index, sampler_index  \* the three IndexMaps

vars == <<phase, program, todo, next, buffer_base, buffer_index, texture_index, sampler_index>>

Phases == {"collect", "buffers", "textures", "combined", "separate", "done"}
IndexMap == UNION {[S -> 0 .. IndexMod - 1] : S \in SUBSET Key}
EmptyMap == [k \in {} |-> 0]
------------------------------------------------------------------------------
(***************************************************************************)
(* The resource lists of collectAll over the union of the stages.  A       *)
(* sampled image is in two lists: textures and combined.                   *)
(***************************************************************************)
KeysOf(kinds) ==
  {k \in Key : \E i \in DOMAIN program : \E kind \in kinds : <<kind, k>> \in program[i]}

Buffers  == KeysOf({"buffer"})
Textures == KeysOf({"sampled_image", "image"})
Combined == KeysOf({"sampled_image"})
Separate == KeysOf({"sampler"})

\* Mutant: the lists are not sorted.
AnyOrder(k, S) == k \in S

IsFirst(k, S) == \A j \in S \ {k} : KeyLess(k, j)

\* Mutant: a counter wider than the index it is stored in.
NoWrap(n) == n

Wrap(n) == n % IndexMod

\* Mutant: insert_or_assign in place of emplace.
InsertOrAssign(m, k, v) == [j \in DOMAIN m \cup {k} |-> IF j = k THEN v ELSE m[j]]

\* std::map::emplace: a key that is present keeps its value.
Emplace(m, k, v) ==
  [j \in DOMAIN m \cup {k} |-> IF j \in DOMAIN m THEN m[j] ELSE v]

\* lookup: the assertion compiled out, a missing key reads index 0.
Lookup(m, k) == IF k \in DOMAIN m THEN m[k] ELSE 0

\* Mutant: separate samplers ignore the pinned indices.
NeverReserved(n) == n \notin Nat

IsReserved(n) == \E k \in Combined : n = Lookup(texture_index, k)

Exceeds(m, limit) == \E k \in DOMAIN m : m[k] > limit

\* overflowError: the first table that does not fit Metal's argument tables.
OverflowError ==
  IF Exceeds(buffer_index, MaxBufferIndex) THEN "buffer"
  ELSE IF Exceeds(sampler_index, MaxSamplerIndex) THEN "sampler"
  ELSE IF Exceeds(texture_index, MaxTextureIndex) THEN "texture"
  ELSE "none"
------------------------------------------------------------------------------
Init ==
  /\ phase = "collect"
  /\ program = <<>>
  /\ todo = {}
  /\ next = 0
  /\ buffer_base \in BufferBases
  /\ buffer_index = EmptyMap
  /\ texture_index = EmptyMap
  /\ sampler_index = EmptyMap

\* fromProgram: one iteration over stage_spirv; the empty module adds nothing.
CollectStage ==
  /\ phase = "collect"
  /\ Len(program) < NumStages
  /\ \E m \in StageModules : program' = Append(program, m)
  /\ UNCHANGED <<phase, todo, next, buffer_base, buffer_index, texture_index, sampler_index>>

\* A loop ends and the next one starts over its sorted, duplicate-free list.
EnterLoop(from, to, keys, start) ==
  /\ phase = from
  /\ phase' = to
  /\ todo' = keys
  /\ next' = start
  /\ UNCHANGED <<program, buffer_base, buffer_index, texture_index, sampler_index>>

BeginBuffers  == program # <<>> /\ EnterLoop("collect", "buffers", Buffers, buffer_base)
BeginTextures == todo = {} /\ EnterLoop("buffers", "textures", Textures, 0)
BeginCombined == todo = {} /\ EnterLoop("textures", "combined", Combined, 0)
BeginSeparate == todo = {} /\ EnterLoop("combined", "separate", Separate, 0)
Finish        == todo = {} /\ EnterLoop("separate", "done", {}, 0)

\* The loop visits its least key.
Visit(in, k) == phase = in /\ k \in todo /\ IsFirst(k, todo) /\ todo' = todo \ {k}

AssignBuffer == \E k \in todo :
  /\ Visit("buffers", k)
  /\ buffer_index' = Emplace(buffer_index, k, Wrap(next))
  /\ next' = next + 1
  /\ UNCHANGED <<phase, program, buffer_base, texture_index, sampler_index>>

AssignTexture == \E k \in todo :
  /\ Visit("textures", k)
  /\ texture_index' = Emplace(texture_index, k, Wrap(next))
  /\ next' = next + 1
  /\ UNCHANGED <<phase, program, buffer_base, buffer_index, sampler_index>>

PinCombined == \E k \in todo :
  /\ Visit("combined", k)
  /\ sampler_index' = Emplace(sampler_index, k, Lookup(texture_index, k))
  /\ UNCHANGED <<phase, program, next, buffer_base, buffer_index, texture_index>>

\* Mutant: the loop over reserved indices forgets its increment.
SkipReservedStuck ==
  /\ phase = "separate" /\ todo # {}
  /\ IsReserved(Wrap(next))
  /\ UNCHANGED vars

\* while (binary_search(reserved, next)) ++next
SkipReserved ==
  /\ phase = "separate" /\ todo # {}
  /\ IsReserved(Wrap(next))
  /\ next' = next + 1
  /\ UNCHANGED <<phase, program, todo, buffer_base, buffer_index, texture_index, sampler_index>>

\* A key that is also a combined image keeps its pin, yet consumes an index.
AssignSeparate == \E k \in todo :
  /\ Visit("separate", k)
  /\ ~IsReserved(Wrap(next))
  /\ sampler_index' = Emplace(sampler_index, k, Wrap(next))
  /\ next' = next + 1
  /\ UNCHANGED <<phase, program, buffer_base, buffer_index, texture_index>>

Next ==
  \/ CollectStage
  \/ BeginBuffers \/ BeginTextures \/ BeginCombined \/ BeginSeparate \/ Finish
  \/ AssignBuffer \/ AssignTexture \/ PinCombined \/ SkipReserved \/ AssignSeparate

Spec == Init /\ [][Next]_vars

\* One thread runs the loops to their end; nothing may make it wait.
FairSpec == Spec /\ WF_vars(Next)
------------------------------------------------------------------------------
TypeOK ==
  /\ phase \in Phases
  /\ program \in Seq(StageModules)
  /\ todo \subseteq Key
  /\ next \in Nat
  /\ buffer_base \in BufferBases
  /\ buffer_index \in IndexMap
  /\ texture_index \in IndexMap
  /\ sampler_index \in IndexMap

IsInjectiveMap(m) == \A j, k \in DOMAIN m : m[j] = m[k] => j = k

(***************************************************************************)
(* A program that passes overflowError has one Metal slot per resource:    *)
(* every buffer, texture and sampler got an index within Metal's tables    *)
(* and no two keys of a table share one, even where buffer_base would      *)
(* wrap the 32-bit counter and where samplers share the table with pinned  *)
(* ones (lines 140-146).                                                   *)
(***************************************************************************)
AcceptedProgramFits ==
  phase = "done" /\ OverflowError = "none" =>
    /\ DOMAIN buffer_index = Buffers
    /\ DOMAIN texture_index = Textures
    /\ DOMAIN sampler_index = Combined \cup Separate
    /\ IsInjectiveMap(buffer_index)
    /\ IsInjectiveMap(texture_index)
    /\ IsInjectiveMap(sampler_index)

(***************************************************************************)
(* A combined image sampler has the sampler index of its texture, whatever *)
(* the later loop over separate samplers does with the same key (comment   *)
(* at lines 123-124: the pair cannot desync).                              *)
(***************************************************************************)
SamplerPinned ==
  \A k \in DOMAIN sampler_index :
    k \in Combined => k \in DOMAIN texture_index /\ sampler_index[k] = texture_index[k]

(***************************************************************************)
(* The loops compute the dense ranks: the result depends on the union of   *)
(* the stages' resources alone, never on stage or list order, so that      *)
(* every build of a program gets the same slots (header lines 24-30).      *)
(***************************************************************************)
MatchesClosedForm ==
  phase = "done" =>
    [buffer |-> buffer_index, texture |-> texture_index, sampler |-> sampler_index]
      = MetalMapOf(UNION {program[i] : i \in DOMAIN program}, buffer_base, IndexMod)

\* The assignment ends: the search for a free sampler index always finds one.
Terminates == <>(phase = "done")
==============================================================================
