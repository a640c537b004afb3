--------------------- MODULE MetalBindingAllocatorProofs ---------------------
(***************************************************************************)
(* Proofs about MetalBindingAllocator for every set of keys, every stage   *)
(* module, every buffer_base and every width of the counters.              *)
(***************************************************************************)
EXTENDS MetalBindingAllocator, FiniteSetTheorems, TLAPS

------------------------------------------------------------------------------
(* Facts about the operators. *)

\* emplace keeps what is there and adds at most the key.
LEMMA EmplaceMap ==
  ASSUME NEW m \in IndexMap, NEW k \in Key, NEW v \in 0 .. IndexMod - 1
  PROVE  /\ Emplace(m, k, v) \in IndexMap
         /\ DOMAIN Emplace(m, k, v) = DOMAIN m \cup {k}
         /\ \A j \in DOMAIN m : Emplace(m, k, v)[j] = m[j]
         /\ k \notin DOMAIN m => Emplace(m, k, v)[k] = v
<1> DEFINE S == DOMAIN m \cup {k}
           f == Emplace(m, k, v)
<1>1. DOMAIN m \subseteq Key /\ m \in [DOMAIN m -> 0 .. IndexMod - 1]
  BY DEF IndexMap
<1>2. S \in SUBSET Key
  BY <1>1
<1>3. f \in [S -> 0 .. IndexMod - 1]
  BY <1>1 DEF Emplace
<1>4. f \in IndexMap
  BY <1>2, <1>3 DEF IndexMap
<1> QED
  BY <1>1, <1>4 DEF Emplace

\* Truncation lands in the index range and is the identity below it.
LEMMA WrapRange ==
  ASSUME NEW n \in Nat, IndexMod > 0
  PROVE  Wrap(n) \in 0 .. IndexMod - 1 /\ (n < IndexMod => Wrap(n) = n)
BY LimitsAssumption DEF Wrap

\* buffer_base exists and is an index, so the index range is not empty.
LEMMA IndexModPositive ==
  ASSUME buffer_base \in BufferBases
  PROVE  IndexMod \in Nat /\ IndexMod > 0 /\ buffer_base \in 0 .. IndexMod - 1
BY LimitsAssumption

\* A missing key reads 0, a present one its index.
LEMMA LookupRange ==
  ASSUME NEW m \in IndexMap, NEW k, IndexMod > 0
  PROVE  Lookup(m, k) \in 0 .. IndexMod - 1
<1>1. m \in [DOMAIN m -> 0 .. IndexMod - 1]
  BY DEF IndexMap
<1> QED
  BY <1>1, LimitsAssumption DEF Lookup

\* No binding can be both pushed and out of the key space.
LEMMA ListsInKey ==
  /\ Buffers \subseteq Key /\ Textures \subseteq Key
  /\ Combined \subseteq Key /\ Separate \subseteq Key
  /\ Combined \subseteq Textures
BY DEF Buffers, Textures, Combined, Separate, KeysOf

------------------------------------------------------------------------------
(* Type correctness of the loops: every index stays in the 32-bit range.   *)
THEOREM TypeCorrect == Spec => []TypeOK
<1>1. Init => TypeOK
  <2> SUFFICES ASSUME Init PROVE TypeOK
    OBVIOUS
  <2>1. EmptyMap \in IndexMap
    BY DEF EmptyMap, IndexMap
  <2> QED
    BY <2>1 DEF Init, TypeOK, Phases
<1>2. TypeOK /\ [Next]_vars => TypeOK'
  <2> SUFFICES ASSUME TypeOK, [Next]_vars PROVE TypeOK'
    OBVIOUS
  <2> USE DEF TypeOK, Phases
  <2>0. IndexMod \in Nat /\ IndexMod > 0 /\ buffer_base \in Nat
    BY IndexModPositive, LimitsAssumption
  <2>1. CASE CollectStage
    BY <2>1 DEF CollectStage
  <2>2. CASE BeginBuffers \/ BeginTextures \/ BeginCombined \/ BeginSeparate \/ Finish
    BY <2>2, <2>0, ListsInKey DEF BeginBuffers, BeginTextures, BeginCombined, BeginSeparate, Finish, EnterLoop
  <2>3. CASE AssignBuffer
    <3> PICK k \in todo : /\ Visit("buffers", k)
                          /\ buffer_index' = Emplace(buffer_index, k, Wrap(next))
                          /\ next' = next + 1
                          /\ UNCHANGED <<phase, program, buffer_base, texture_index, sampler_index>>
      BY <2>3 DEF AssignBuffer
    <3>1. buffer_index' \in IndexMap
      BY <2>0, EmplaceMap, WrapRange
    <3> QED
      BY <3>1 DEF Visit
  <2>4. CASE AssignTexture
    <3> PICK k \in todo : /\ Visit("textures", k)
                          /\ texture_index' = Emplace(texture_index, k, Wrap(next))
                          /\ next' = next + 1
                          /\ UNCHANGED <<phase, program, buffer_base, buffer_index, sampler_index>>
      BY <2>4 DEF AssignTexture
    <3>1. texture_index' \in IndexMap
      BY <2>0, EmplaceMap, WrapRange
    <3> QED
      BY <3>1 DEF Visit
  <2>5. CASE PinCombined
    <3> PICK k \in todo : /\ Visit("combined", k)
                          /\ sampler_index' = Emplace(sampler_index, k, Lookup(texture_index, k))
                          /\ UNCHANGED <<phase, program, next, buffer_base, buffer_index, texture_index>>
      BY <2>5 DEF PinCombined
    <3>1. sampler_index' \in IndexMap
      BY <2>0, EmplaceMap, LookupRange
    <3> QED
      BY <3>1 DEF Visit
  <2>6. CASE SkipReserved
    BY <2>6 DEF SkipReserved
  <2>7. CASE AssignSeparate
    <3> PICK k \in todo : /\ Visit("separate", k)
                          /\ sampler_index' = Emplace(sampler_index, k, Wrap(next))
                          /\ next' = next + 1
                          /\ UNCHANGED <<phase, program, buffer_base, buffer_index, texture_index>>
      BY <2>7 DEF AssignSeparate
    <3>1. sampler_index' \in IndexMap
      BY <2>0, EmplaceMap, WrapRange
    <3> QED
      BY <3>1 DEF Visit
  <2>8. CASE UNCHANGED vars
    BY <2>8 DEF vars
  <2> QED
    BY <2>1, <2>2, <2>3, <2>4, <2>5, <2>6, <2>7, <2>8 DEF Next
<1> QED
  BY <1>1, <1>2, PTL DEF Spec

------------------------------------------------------------------------------
(***************************************************************************)
(* The inductive invariant.  Domains says how far each loop has come, the  *)
(* three others what it has written: indices below the counter, and the    *)
(* counter no higher than the work done, so that it never wraps.           *)
(***************************************************************************)
Early == {"collect", "buffers", "textures"}

Domains ==
  /\ phase = "collect" => DOMAIN buffer_index = {}
  /\ phase = "buffers" => todo \subseteq Buffers /\ DOMAIN buffer_index = Buffers \ todo
  /\ phase \notin {"collect", "buffers"} => DOMAIN buffer_index = Buffers
  /\ phase \in {"collect", "buffers"} => DOMAIN texture_index = {}
  /\ phase = "textures" => todo \subseteq Textures /\ DOMAIN texture_index = Textures \ todo
  /\ phase \notin Early => DOMAIN texture_index = Textures
  /\ phase \in Early => DOMAIN sampler_index = {}
  /\ phase = "combined" => todo \subseteq Combined /\ DOMAIN sampler_index = Combined \ todo
  /\ phase = "separate" => /\ todo \subseteq Separate
                           /\ DOMAIN sampler_index = Combined \cup (Separate \ todo)
  /\ phase = "done" => DOMAIN sampler_index = Combined \cup Separate

\* Every index of m is below n.
Below(m, n) == \A k \in DOMAIN m : m[k] < n

\* A base beyond the table shows in the first buffer; any other cannot wrap.
BuffersOK ==
  /\ phase = "buffers" => next = buffer_base + Cardinality(Buffers \ todo)
  /\ buffer_base <= MaxBufferIndex =>
       /\ IsInjectiveMap(buffer_index)
       /\ phase = "buffers" => Below(buffer_index, next)
  /\ buffer_base > MaxBufferIndex =>
       DOMAIN buffer_index = {} \/ \E k \in DOMAIN buffer_index : buffer_index[k] = buffer_base

TexturesOK ==
  /\ IsInjectiveMap(texture_index)
  /\ phase = "textures" => next = Cardinality(Textures \ todo) /\ Below(texture_index, next)

Pins ==
  \A k \in DOMAIN sampler_index : k \in Combined => sampler_index[k] = texture_index[k]

\* The pinned keys the counter has passed.
Passed == {k \in Combined : texture_index[k] < next}

SamplersOK ==
  /\ \A k \in DOMAIN sampler_index \ Combined :
       /\ \A j \in Combined : sampler_index[k] # texture_index[j]
       /\ phase = "separate" => sampler_index[k] < next
       /\ \A j \in DOMAIN sampler_index \ Combined : sampler_index[j] = sampler_index[k] => j = k
  /\ phase = "separate" => next = Cardinality(Separate \ todo) + Cardinality(Passed)

IInv == TypeOK /\ Domains /\ BuffersOK /\ TexturesOK /\ Pins /\ SamplersOK

------------------------------------------------------------------------------
(* Counting the keys a loop has visited. *)

\* Any set of keys is finite, and no larger than Key.
LEMMA KeySubset ==
  ASSUME NEW S, S \subseteq Key
  PROVE  IsFiniteSet(S) /\ Cardinality(S) \in Nat /\ Cardinality(S) <= Cardinality(Key)
BY KeyAssumption, FS_Subset, FS_CardinalityType

\* One visit of a loop adds one key to those it has visited.
LEMMA VisitCount ==
  ASSUME NEW S, NEW T, T \subseteq S, S \subseteq Key, NEW k \in T
  PROVE  /\ Cardinality(S \ (T \ {k})) = Cardinality(S \ T) + 1
         /\ S \ (T \ {k}) = (S \ T) \cup {k}
<1>1. S \ (T \ {k}) = (S \ T) \cup {k}
  OBVIOUS
<1>2. IsFiniteSet(S \ T) /\ k \notin S \ T
  BY KeySubset
<1> QED
  BY <1>1, <1>2, FS_AddElement

\* A loop that starts has visited nothing.
LEMMA NothingVisited ==
  ASSUME NEW S
  PROVE  Cardinality(S \ S) = 0
<1>1. S \ S = {}
  OBVIOUS
<1> QED
  BY <1>1, FS_EmptySet, Zenon

\* A map whose indices are below the counter stays injective, and below it,
\* when the counter's value is added and the counter is stepped.
LEMMA Extend ==
  ASSUME NEW m \in IndexMap, NEW n \in Nat, n < IndexMod, IndexMod > 0,
         Below(m, n), IsInjectiveMap(m), NEW k \in Key, k \notin DOMAIN m
  PROVE  /\ IsInjectiveMap(Emplace(m, k, Wrap(n)))
         /\ Below(Emplace(m, k, Wrap(n)), n + 1)
<1> DEFINE f == Emplace(m, k, Wrap(n))
<1>1. m \in [DOMAIN m -> 0 .. IndexMod - 1]
  BY DEF IndexMap
<1>2. Wrap(n) = n
  BY WrapRange
<1>3. DOMAIN f = DOMAIN m \cup {k} /\ f[k] = n /\ \A j \in DOMAIN m : f[j] = m[j]
  BY <1>2 DEF Emplace
<1>4. \A j \in DOMAIN m : m[j] \in Nat /\ m[j] < n
  BY <1>1, LimitsAssumption DEF Below
<1>5. IsInjectiveMap(f)
  BY <1>3, <1>4 DEF IsInjectiveMap
<1>6. Below(f, n + 1)
  BY <1>3, <1>4 DEF Below
<1> QED
  BY <1>5, <1>6

\* Sums of two counts of keys, or of a legal base and one, do not wrap.
LEMMA WidthFacts ==
  /\ Cardinality(Key) \in Nat
  /\ MaxBufferIndex \in Nat /\ IndexMod \in Nat /\ IndexMod > 0
  /\ \A b, c \in 0 .. Cardinality(Key) : b + c < IndexMod
  /\ \A b \in 0 .. MaxBufferIndex, c \in 0 .. Cardinality(Key) : b + c < IndexMod
BY LimitsAssumption, WidthAssumption, KeySubset

\* Before the first stage every table is empty.
LEMMA InitIInv == Init => IInv
<1> SUFFICES ASSUME Init PROVE IInv
  OBVIOUS
<1>1. EmptyMap \in IndexMap /\ DOMAIN EmptyMap = {}
  BY DEF EmptyMap, IndexMap
<1>2. TypeOK
  BY <1>1 DEF Init, TypeOK, Phases
<1>3. Domains
  BY <1>1 DEF Init, Domains, Early
<1>4. BuffersOK /\ TexturesOK /\ Pins /\ SamplersOK
  BY <1>1 DEF Init, BuffersOK, TexturesOK, Pins, SamplersOK, IsInjectiveMap
<1> QED
  BY <1>2, <1>3, <1>4 DEF IInv

------------------------------------------------------------------------------
(* Every action preserves the invariant. *)

\* The lists only change while stages are collected.
LEMMA ListsStable ==
  ASSUME UNCHANGED program
  PROVE  Buffers' = Buffers /\ Textures' = Textures /\ Combined' = Combined /\ Separate' = Separate
BY DEF Buffers, Textures, Combined, Separate, KeysOf

\* Collecting a stage changes the lists while every table is empty.
LEMMA CollectPreserves == IInv /\ TypeOK' /\ CollectStage => IInv'
<1> SUFFICES ASSUME IInv, TypeOK', CollectStage PROVE IInv'
  OBVIOUS
<1> USE DEF IInv, CollectStage
<1>1. Domains'
  BY DEF Domains, Early
<1>2. BuffersOK'
  <2>1. phase' = "collect" /\ buffer_index' = buffer_index /\ buffer_base' = buffer_base
    OBVIOUS
  <2>2. IsInjectiveMap(buffer_index)' <=> IsInjectiveMap(buffer_index)
    BY <2>1 DEF IsInjectiveMap
  <2> QED
    BY <2>1, <2>2 DEF BuffersOK
<1>3. TexturesOK'
  BY DEF TexturesOK, IsInjectiveMap, Below
<1>4. DOMAIN sampler_index = {}
  BY DEF Domains, Early
<1>5. Pins' /\ SamplersOK'
  BY <1>4 DEF Pins, SamplersOK
<1> QED
  BY <1>1, <1>2, <1>3, <1>5

\* A loop that ends has put its whole list in the table.
LEMMA BeginPreserves ==
  IInv /\ TypeOK' /\ (BeginBuffers \/ BeginTextures \/ BeginCombined \/ BeginSeparate \/ Finish) => IInv'
<1> SUFFICES ASSUME IInv, TypeOK',
                    BeginBuffers \/ BeginTextures \/ BeginCombined \/ BeginSeparate \/ Finish
             PROVE IInv'
  OBVIOUS
<1> USE DEF IInv, EnterLoop, Early
<1>0. UNCHANGED <<program, buffer_base, buffer_index, texture_index, sampler_index>>
  BY DEF BeginBuffers, BeginTextures, BeginCombined, BeginSeparate, Finish
<1>1. Buffers' = Buffers /\ Textures' = Textures /\ Combined' = Combined /\ Separate' = Separate
  BY <1>0, ListsStable
<1>2. Domains'
  BY <1>0, <1>1 DEF Domains, BeginBuffers, BeginTextures, BeginCombined, BeginSeparate, Finish
<1>3. Cardinality({}) = 0
  BY FS_EmptySet, Zenon
<1>4. buffer_base \in Nat
  BY LimitsAssumption DEF TypeOK
<1>5. phase' = "buffers" => DOMAIN buffer_index = {} /\ next' = buffer_base /\ todo' = Buffers
  BY <1>1 DEF BeginBuffers, BeginTextures, BeginCombined, BeginSeparate, Finish, Domains
<1>6. BuffersOK'
  <2>1. phase' = "buffers" => next' = buffer_base' + Cardinality(Buffers' \ todo')
    BY <1>0, <1>1, <1>4, <1>5, NothingVisited
  <2>2. IsInjectiveMap(buffer_index)' <=> IsInjectiveMap(buffer_index)
    BY <1>0 DEF IsInjectiveMap
  <2>3. phase' = "buffers" => Below(buffer_index, next)'
    BY <1>0, <1>5 DEF Below
  <2> QED
    BY <1>0, <2>1, <2>2, <2>3 DEF BuffersOK
<1>7. phase' = "textures" => DOMAIN texture_index = {} /\ next' = 0 /\ todo' = Textures
  BY <1>1 DEF BeginBuffers, BeginTextures, BeginCombined, BeginSeparate, Finish, Domains
<1>8. TexturesOK'
  <2>1. phase' = "textures" => next' = Cardinality(Textures' \ todo')
    BY <1>1, <1>7, NothingVisited
  <2>2. IsInjectiveMap(texture_index)' <=> IsInjectiveMap(texture_index)
    BY <1>0 DEF IsInjectiveMap
  <2>3. phase' = "textures" => Below(texture_index, next)'
    BY <1>0, <1>7 DEF Below
  <2> QED
    BY <2>1, <2>2, <2>3 DEF TexturesOK
<1>9. Pins'
  BY <1>0, <1>1 DEF Pins
<1>10. phase' = "separate" => DOMAIN sampler_index = Combined /\ next' = 0 /\ todo' = Separate
  BY <1>1 DEF BeginBuffers, BeginTextures, BeginCombined, BeginSeparate, Finish, Domains
<1>11. phase' = "separate" => Passed' = {}
  <2> SUFFICES ASSUME phase' = "separate", NEW k \in Combined PROVE ~(texture_index[k] < 0)
    BY <1>0, <1>1, <1>10 DEF Passed
  <2>1. BeginSeparate
    BY DEF BeginBuffers, BeginTextures, BeginCombined, BeginSeparate, Finish
  <2>2. k \in DOMAIN texture_index
    BY <2>1, ListsInKey DEF BeginSeparate, Domains
  <2>3. texture_index \in [DOMAIN texture_index -> 0 .. IndexMod - 1]
    BY DEF TypeOK, IndexMap
  <2> QED
    BY <2>2, <2>3, LimitsAssumption
<1>12. SamplersOK'
  <2>1. phase' = "separate" => next' = Cardinality(Separate' \ todo') + Cardinality(Passed')
    <3> SUFFICES ASSUME phase' = "separate" PROVE next' = Cardinality(Separate' \ todo') + Cardinality(Passed')
      OBVIOUS
    <3>1. Cardinality(Separate' \ todo') = 0
      BY <1>1, <1>10, NothingVisited
    <3>2. Cardinality(Passed') = 0
      BY <1>3, <1>11, Zenon
    <3> QED
      BY <1>10, <3>1, <3>2
  <2>2. phase' = "separate" => DOMAIN sampler_index' \ Combined' = {}
    BY <1>0, <1>1, <1>10
  <2> QED
    BY <1>0, <1>1, <2>1, <2>2 DEF SamplersOK
<1> QED
  BY <1>2, <1>6, <1>8, <1>9, <1>12

\* The buffer loop gives out its counter, starting at buffer_base.
LEMMA AssignBufferPreserves == IInv /\ TypeOK' /\ AssignBuffer => IInv'
<1> SUFFICES ASSUME IInv, TypeOK', AssignBuffer PROVE IInv'
  OBVIOUS
<1> PICK k \in todo : /\ Visit("buffers", k)
                      /\ buffer_index' = Emplace(buffer_index, k, Wrap(next))
                      /\ next' = next + 1
                      /\ UNCHANGED <<phase, program, buffer_base, texture_index, sampler_index>>
  BY DEF AssignBuffer
<1>0. /\ phase = "buffers" /\ phase' = "buffers" /\ todo' = todo \ {k}
      /\ UNCHANGED <<program, buffer_base, texture_index, sampler_index>>
      /\ next' = next + 1
  BY DEF Visit
<1>1. Buffers' = Buffers /\ Textures' = Textures /\ Combined' = Combined /\ Separate' = Separate
  BY <1>0, ListsStable
<1>2. /\ todo \subseteq Buffers /\ DOMAIN buffer_index = Buffers \ todo /\ k \in Key
      /\ DOMAIN sampler_index = {} /\ Buffers \subseteq Key
  BY <1>0, ListsInKey DEF IInv, Domains, Early
<1>3. DOMAIN buffer_index' = Buffers \ todo'
  BY <1>0, <1>2 DEF Emplace
<1>4. Domains'
  BY <1>0, <1>1, <1>2, <1>3 DEF IInv, Domains, Early
<1>5. buffer_base \in Nat /\ next \in Nat /\ next = buffer_base + Cardinality(Buffers \ todo)
  BY <1>0, LimitsAssumption DEF IInv, TypeOK, BuffersOK
<1>6. next' = buffer_base' + Cardinality(Buffers' \ todo')
  <2>1. Cardinality(Buffers \ todo') = Cardinality(Buffers \ todo) + 1
    BY <1>0, <1>2, VisitCount
  <2>2. Cardinality(Buffers \ todo) \in Nat
    BY <1>2, KeySubset
  <2> QED
    BY <1>0, <1>1, <1>5, <2>1, <2>2
<1>7. ASSUME buffer_base <= MaxBufferIndex
      PROVE  IsInjectiveMap(buffer_index') /\ Below(buffer_index', next')
  <2>1. Cardinality(Buffers \ todo) \in 0 .. Cardinality(Key)
    BY <1>2, KeySubset, WidthFacts
  <2>2. buffer_base \in 0 .. MaxBufferIndex
    BY <1>5, <1>7, WidthFacts
  <2>3. next < IndexMod /\ IndexMod > 0
    BY <1>5, <2>1, <2>2, WidthFacts
  <2>4. buffer_index \in IndexMap /\ Below(buffer_index, next) /\ IsInjectiveMap(buffer_index)
    BY <1>0, <1>7 DEF IInv, TypeOK, BuffersOK
  <2>5. k \notin DOMAIN buffer_index
    BY <1>2
  <2> QED
    BY <1>0, <1>2, <1>5, <2>3, <2>4, <2>5, Extend
<1>8. ASSUME buffer_base > MaxBufferIndex
      PROVE  \E j \in DOMAIN buffer_index' : buffer_index'[j] = buffer_base
  <2>1. CASE DOMAIN buffer_index = {}
    <3>1. Cardinality(Buffers \ todo) = 0
      BY <1>2, <2>1, FS_EmptySet, Zenon
    <3>2. next = buffer_base
      BY <1>5, <3>1
    <3>3. Wrap(next) = buffer_base
      BY <3>2, WrapRange, IndexModPositive, LimitsAssumption DEF IInv, TypeOK
    <3> QED
      BY <2>1, <3>3 DEF Emplace
  <2>2. CASE \E j \in DOMAIN buffer_index : buffer_index[j] = buffer_base
    BY <2>2 DEF Emplace
  <2> QED
    BY <1>8, <2>1, <2>2 DEF IInv, BuffersOK
<1>9. BuffersOK'
  <2>1. IsInjectiveMap(buffer_index)' <=> IsInjectiveMap(buffer_index')
    BY DEF IsInjectiveMap
  <2>2. Below(buffer_index, next)' <=> Below(buffer_index', next')
    BY DEF Below
  <2> QED
    BY <1>0, <1>6, <1>7, <1>8, <2>1, <2>2 DEF BuffersOK
<1>10. TexturesOK'
  BY <1>0 DEF IInv, TexturesOK, IsInjectiveMap
<1>11. Pins' /\ SamplersOK'
  BY <1>0, <1>2 DEF Pins, SamplersOK
<1> QED
  BY <1>4, <1>9, <1>10, <1>11 DEF IInv

\* The texture loop gives out its counter, starting at zero.
LEMMA AssignTexturePreserves == IInv /\ TypeOK' /\ AssignTexture => IInv'
<1> SUFFICES ASSUME IInv, TypeOK', AssignTexture PROVE IInv'
  OBVIOUS
<1> PICK k \in todo : /\ Visit("textures", k)
                      /\ texture_index' = Emplace(texture_index, k, Wrap(next))
                      /\ next' = next + 1
                      /\ UNCHANGED <<phase, program, buffer_base, buffer_index, sampler_index>>
  BY DEF AssignTexture
<1>0. /\ phase = "textures" /\ phase' = "textures" /\ todo' = todo \ {k}
      /\ UNCHANGED <<program, buffer_base, buffer_index, sampler_index>>
      /\ next' = next + 1
  BY DEF Visit
<1>1. Buffers' = Buffers /\ Textures' = Textures /\ Combined' = Combined /\ Separate' = Separate
  BY <1>0, ListsStable
<1>2. /\ todo \subseteq Textures /\ DOMAIN texture_index = Textures \ todo /\ k \in Key
      /\ DOMAIN sampler_index = {} /\ Textures \subseteq Key
  BY <1>0, ListsInKey DEF IInv, Domains, Early
<1>3. DOMAIN texture_index' = Textures \ todo'
  BY <1>0, <1>2 DEF Emplace
<1>4. Domains'
  BY <1>0, <1>1, <1>2, <1>3 DEF IInv, Domains, Early
<1>5. next \in Nat /\ next = Cardinality(Textures \ todo)
  BY <1>0 DEF IInv, TypeOK, TexturesOK
<1>6. next' = Cardinality(Textures' \ todo')
  <2>1. Cardinality(Textures \ todo') = Cardinality(Textures \ todo) + 1
    BY <1>0, <1>2, VisitCount
  <2> QED
    BY <1>0, <1>1, <1>5, <2>1
<1>7. IsInjectiveMap(texture_index') /\ Below(texture_index', next')
  <2>1. next \in 0 .. Cardinality(Key) /\ 0 \in 0 .. Cardinality(Key)
    BY <1>2, <1>5, KeySubset, WidthFacts
  <2>2. next < IndexMod /\ IndexMod > 0
    BY <1>5, <2>1, WidthFacts
  <2>3. texture_index \in IndexMap /\ Below(texture_index, next) /\ IsInjectiveMap(texture_index)
    BY <1>0 DEF IInv, TypeOK, TexturesOK
  <2>4. k \notin DOMAIN texture_index
    BY <1>2
  <2> QED
    BY <1>0, <1>2, <1>5, <2>2, <2>3, <2>4, Extend
<1>8. TexturesOK'
  <2>1. IsInjectiveMap(texture_index)' <=> IsInjectiveMap(texture_index')
    BY DEF IsInjectiveMap
  <2>2. Below(texture_index, next)' <=> Below(texture_index', next')
    BY DEF Below
  <2> QED
    BY <1>6, <1>7, <2>1, <2>2 DEF TexturesOK
<1>9. BuffersOK'
  <2>1. IsInjectiveMap(buffer_index)' <=> IsInjectiveMap(buffer_index)
    BY <1>0 DEF IsInjectiveMap
  <2> QED
    BY <1>0, <2>1 DEF IInv, BuffersOK
<1>10. Pins' /\ SamplersOK'
  BY <1>0, <1>2 DEF Pins, SamplersOK
<1> QED
  BY <1>4, <1>8, <1>9, <1>10 DEF IInv

\* The loops over samplers leave the two other tables alone.
LEMMA OtherTablesKept ==
  ASSUME IInv, phase \in {"combined", "separate"},
         UNCHANGED <<phase, program, buffer_base, buffer_index, texture_index>>
  PROVE  BuffersOK' /\ TexturesOK'
<1>1. /\ IsInjectiveMap(buffer_index)' <=> IsInjectiveMap(buffer_index)
      /\ IsInjectiveMap(texture_index)' <=> IsInjectiveMap(texture_index)
  BY DEF IsInjectiveMap
<1> QED
  BY <1>1 DEF IInv, BuffersOK, TexturesOK

\* The combined loop only copies texture indices.
LEMMA PinCombinedPreserves == IInv /\ TypeOK' /\ PinCombined => IInv'
<1> SUFFICES ASSUME IInv, TypeOK', PinCombined PROVE IInv'
  OBVIOUS
<1> PICK k \in todo : /\ Visit("combined", k)
                      /\ sampler_index' = Emplace(sampler_index, k, Lookup(texture_index, k))
                      /\ UNCHANGED <<phase, program, next, buffer_base, buffer_index, texture_index>>
  BY DEF PinCombined
<1>0. /\ phase = "combined" /\ phase' = "combined" /\ todo' = todo \ {k}
      /\ UNCHANGED <<program, buffer_base, buffer_index, texture_index>>
  BY DEF Visit
<1>1. Buffers' = Buffers /\ Textures' = Textures /\ Combined' = Combined /\ Separate' = Separate
  BY <1>0, ListsStable
<1>2. /\ todo \subseteq Combined /\ DOMAIN sampler_index = Combined \ todo
      /\ DOMAIN texture_index = Textures
  BY <1>0 DEF IInv, Domains, Early
<1>3. DOMAIN sampler_index' = Combined \ todo'
  BY <1>0, <1>2 DEF Emplace
<1>4. Domains'
  BY <1>0, <1>1, <1>2, <1>3 DEF IInv, Domains, Early
<1>5. Pins'
  <2>1. Lookup(texture_index, k) = texture_index[k]
    BY <1>2, ListsInKey DEF Lookup
  <2> QED
    BY <1>0, <1>1, <1>2, <2>1 DEF IInv, Pins, Emplace
<1>6. SamplersOK'
  BY <1>0, <1>1, <1>3 DEF SamplersOK
<1> QED
  BY <1>0, <1>4, <1>5, <1>6, OtherTablesKept DEF IInv

\* In the loop over separate samplers the counter has passed one index per
\* visited key and one per pinned index, so it has not wrapped.
LEMMA SamplerCounter ==
  ASSUME IInv, phase = "separate"
  PROVE  /\ next < IndexMod /\ Wrap(next) = next
         /\ IsFiniteSet(Passed) /\ Cardinality(Passed) \in Nat
         /\ Cardinality(Separate \ todo) \in Nat
         /\ Combined \subseteq DOMAIN texture_index
         /\ \A j \in Combined : texture_index[j] \in Nat
<1>1. Passed \subseteq Key /\ Separate \ todo \subseteq Key
  BY ListsInKey DEF Passed
<1>2. /\ IsFiniteSet(Passed)
      /\ Cardinality(Passed) \in 0 .. Cardinality(Key)
      /\ Cardinality(Separate \ todo) \in 0 .. Cardinality(Key)
  BY <1>1, KeySubset, WidthFacts
<1>3. next = Cardinality(Separate \ todo) + Cardinality(Passed)
  BY DEF IInv, SamplersOK
<1>4. next < IndexMod /\ Wrap(next) = next
  BY <1>2, <1>3, WidthFacts, WrapRange DEF IInv, TypeOK
<1>5. Combined \subseteq DOMAIN texture_index
  BY ListsInKey DEF IInv, Domains, Early
<1>6. texture_index \in [DOMAIN texture_index -> 0 .. IndexMod - 1]
  BY DEF IInv, TypeOK, IndexMap
<1> QED
  BY <1>2, <1>4, <1>5, <1>6, WidthFacts

\* Skipping a reserved index passes exactly one pinned key.
LEMMA SkipReservedPreserves == IInv /\ TypeOK' /\ SkipReserved => IInv'
<1> SUFFICES ASSUME IInv, TypeOK', SkipReserved PROVE IInv'
  OBVIOUS
<1>0. /\ phase = "separate" /\ next' = next + 1 /\ IsReserved(Wrap(next))
      /\ UNCHANGED <<phase, program, todo, buffer_base, buffer_index, texture_index, sampler_index>>
  BY DEF SkipReserved
<1>1. Buffers' = Buffers /\ Textures' = Textures /\ Combined' = Combined /\ Separate' = Separate
  BY <1>0, ListsStable
<1>2. /\ Wrap(next) = next /\ IsFiniteSet(Passed) /\ Cardinality(Passed) \in Nat
      /\ Cardinality(Separate \ todo) \in Nat
      /\ Combined \subseteq DOMAIN texture_index
      /\ \A j \in Combined : texture_index[j] \in Nat
      /\ next \in Nat
  BY <1>0, SamplerCounter DEF IInv, TypeOK
<1>3. PICK k \in Combined : texture_index[k] = next
  BY <1>0, <1>2 DEF IsReserved, Lookup
<1>4. Passed' = Passed \cup {k}
  <2>1. \A j \in Combined : texture_index[j] = next => j = k
    BY <1>2, <1>3 DEF IInv, TexturesOK, IsInjectiveMap
  <2>2. \A j \in Combined : texture_index[j] < next + 1 <=> texture_index[j] < next \/ j = k
    BY <1>2, <1>3, <2>1
  <2> QED
    BY <1>0, <1>1, <2>2 DEF Passed
<1>5. k \notin Passed
  BY <1>2, <1>3 DEF Passed
<1>6. Cardinality(Passed') = Cardinality(Passed) + 1
  BY <1>2, <1>4, <1>5, FS_AddElement
<1>7. next' = Cardinality(Separate' \ todo') + Cardinality(Passed')
  <2>1. next = Cardinality(Separate \ todo) + Cardinality(Passed)
    BY <1>0 DEF IInv, SamplersOK
  <2> QED
    BY <1>0, <1>1, <1>2, <1>6, <2>1
<1>8. \A j \in DOMAIN sampler_index : sampler_index[j] \in Nat
  BY WidthFacts DEF IInv, TypeOK, IndexMap
<1>9. SamplersOK'
  BY <1>0, <1>1, <1>2, <1>7, <1>8 DEF IInv, SamplersOK
<1>10. Domains'
  BY <1>0, <1>1 DEF IInv, Domains, Early
<1>11. Pins'
  BY <1>0, <1>1 DEF IInv, Pins
<1> QED
  BY <1>0, <1>9, <1>10, <1>11, OtherTablesKept DEF IInv

\* The index of a separate sampler is free: neither pinned nor given before.
LEMMA AssignSeparatePreserves == IInv /\ TypeOK' /\ AssignSeparate => IInv'
<1> SUFFICES ASSUME IInv, TypeOK', AssignSeparate PROVE IInv'
  OBVIOUS
<1> PICK k \in todo : /\ Visit("separate", k)
                      /\ ~IsReserved(Wrap(next))
                      /\ sampler_index' = Emplace(sampler_index, k, Wrap(next))
                      /\ next' = next + 1
                      /\ UNCHANGED <<phase, program, buffer_base, buffer_index, texture_index>>
  BY DEF AssignSeparate
<1>0. /\ phase = "separate" /\ phase' = "separate" /\ todo' = todo \ {k} /\ next' = next + 1
      /\ UNCHANGED <<program, buffer_base, buffer_index, texture_index>>
  BY DEF Visit
<1>1. Buffers' = Buffers /\ Textures' = Textures /\ Combined' = Combined /\ Separate' = Separate
  BY <1>0, ListsStable
<1>2. /\ Wrap(next) = next /\ IsFiniteSet(Passed) /\ Cardinality(Passed) \in Nat
      /\ Cardinality(Separate \ todo) \in Nat
      /\ Combined \subseteq DOMAIN texture_index
      /\ \A j \in Combined : texture_index[j] \in Nat
      /\ next \in Nat
  BY <1>0, SamplerCounter DEF IInv, TypeOK
<1>3. /\ todo \subseteq Separate /\ Separate \subseteq Key
      /\ DOMAIN sampler_index = Combined \cup (Separate \ todo)
  BY <1>0, ListsInKey DEF IInv, Domains
<1>4. /\ DOMAIN sampler_index' = DOMAIN sampler_index \cup {k}
      /\ \A j \in DOMAIN sampler_index : sampler_index'[j] = sampler_index[j]
      /\ k \notin Combined => sampler_index'[k] = next
  BY <1>2, <1>3 DEF Emplace
<1>5. Domains'
  <2>1. DOMAIN sampler_index' = Combined \cup (Separate \ todo')
    BY <1>0, <1>3, <1>4
  <2> QED
    BY <1>0, <1>1, <1>3, <2>1 DEF IInv, Domains, Early
<1>6. Pins'
  BY <1>0, <1>1, <1>3, <1>4 DEF IInv, Pins
<1>7. \A j \in Combined : texture_index[j] # next
  BY <1>2 DEF IsReserved, Lookup
<1>8. Passed' = Passed
  <2>1. \A j \in Combined : texture_index[j] < next + 1 <=> texture_index[j] < next
    BY <1>2, <1>7
  <2> QED
    BY <1>0, <1>1, <2>1 DEF Passed
<1>9. next' = Cardinality(Separate' \ todo') + Cardinality(Passed')
  <2>1. next = Cardinality(Separate \ todo) + Cardinality(Passed)
    BY <1>0 DEF IInv, SamplersOK
  <2>2. Cardinality(Separate \ todo') = Cardinality(Separate \ todo) + 1
    BY <1>0, <1>3, VisitCount
  <2> QED
    BY <1>0, <1>1, <1>2, <1>8, <2>1, <2>2
<1>10. \A j \in DOMAIN sampler_index \ Combined :
         /\ sampler_index[j] \in Nat /\ sampler_index[j] < next
         /\ \A i \in Combined : sampler_index[j] # texture_index[i]
         /\ \A i \in DOMAIN sampler_index \ Combined : sampler_index[i] = sampler_index[j] => i = j
  <2>1. \A j \in DOMAIN sampler_index : sampler_index[j] \in Nat
    BY WidthFacts DEF IInv, TypeOK, IndexMap
  <2> QED
    BY <1>0, <2>1 DEF IInv, SamplersOK
<1>11. \A j \in DOMAIN sampler_index' \ Combined :
         /\ sampler_index'[j] < next'
         /\ \A i \in Combined : sampler_index'[j] # texture_index[i]
         /\ \A i \in DOMAIN sampler_index' \ Combined : sampler_index'[i] = sampler_index'[j] => i = j
  BY <1>0, <1>2, <1>4, <1>7, <1>10
<1>12. SamplersOK'
  BY <1>0, <1>1, <1>9, <1>11 DEF SamplersOK
<1> QED
  BY <1>0, <1>5, <1>6, <1>12, OtherTablesKept DEF IInv

------------------------------------------------------------------------------
\* The inductive invariant holds of every behaviour of the allocator.
THEOREM Inductive == Spec => []IInv
<1>1. Init => IInv
  BY InitIInv
<1>2. IInv /\ TypeOK' /\ [Next]_vars => IInv'
  <2> SUFFICES ASSUME IInv, TypeOK', [Next]_vars PROVE IInv'
    OBVIOUS
  <2>1. CASE UNCHANGED vars
    <3>1. Buffers' = Buffers /\ Textures' = Textures /\ Combined' = Combined /\ Separate' = Separate
      BY <2>1, ListsStable DEF vars
    <3>2. Passed' = Passed
      BY <2>1, <3>1 DEF vars, Passed
    <3>3. Domains' /\ Pins' /\ TexturesOK'
      BY <2>1, <3>1 DEF vars, IInv, Domains, Early, Pins, TexturesOK, IsInjectiveMap, Below
    <3>4. BuffersOK'
      BY <2>1, <3>1 DEF vars, IInv, BuffersOK, IsInjectiveMap, Below
    <3>5. SamplersOK'
      BY <2>1, <3>1, <3>2 DEF vars, IInv, SamplersOK
    <3> QED
      BY <3>3, <3>4, <3>5 DEF IInv
  <2> QED
    BY <2>1, CollectPreserves, BeginPreserves, AssignBufferPreserves, AssignTexturePreserves,
       PinCombinedPreserves, SkipReservedPreserves, AssignSeparatePreserves DEF Next
<1> QED
  BY <1>1, <1>2, TypeCorrect, PTL DEF Spec

(***************************************************************************)
(* A combined image sampler keeps the sampler index of its texture through *)
(* every step of the assignment, for every set of resources (the emplace   *)
(* at lines 132 and 145 never moves a pinned sampler).                     *)
(***************************************************************************)
THEOREM PinnedAlways == Spec => []SamplerPinned
<1>1. IInv => SamplerPinned
  <2> SUFFICES ASSUME IInv, NEW k \in DOMAIN sampler_index, k \in Combined
               PROVE  k \in DOMAIN texture_index /\ sampler_index[k] = texture_index[k]
    BY DEF SamplerPinned
  <2>1. phase \notin Early
    BY DEF IInv, Domains
  <2>2. k \in DOMAIN texture_index
    BY <2>1, ListsInKey DEF IInv, Domains
  <2> QED
    BY <2>2 DEF IInv, Pins
<1> QED
  BY <1>1, Inductive, PTL

(***************************************************************************)
(* A program overflowError accepts has one slot per resource in each table *)
(* for every buffer_base, every number of resources and every counter      *)
(* width that fits the program (lines 109-147 and 193-210).                *)
(***************************************************************************)
THEOREM AcceptedFits == Spec => []AcceptedProgramFits
<1>1. IInv => AcceptedProgramFits
  <2> SUFFICES ASSUME IInv, phase = "done", OverflowError = "none"
               PROVE  /\ DOMAIN buffer_index = Buffers
                      /\ DOMAIN texture_index = Textures
                      /\ DOMAIN sampler_index = Combined \cup Separate
                      /\ IsInjectiveMap(buffer_index)
                      /\ IsInjectiveMap(texture_index)
                      /\ IsInjectiveMap(sampler_index)
    BY DEF AcceptedProgramFits
  <2>1. /\ DOMAIN buffer_index = Buffers
        /\ DOMAIN texture_index = Textures
        /\ DOMAIN sampler_index = Combined \cup Separate
    BY DEF IInv, Domains, Early
  <2>2. IsInjectiveMap(texture_index)
    BY DEF IInv, TexturesOK
  <2>3. \A k \in DOMAIN buffer_index : ~(buffer_index[k] > MaxBufferIndex)
    BY DEF OverflowError, Exceeds
  <2>4. buffer_base \in Nat
    BY LimitsAssumption DEF IInv, TypeOK
  <2>5. IsInjectiveMap(buffer_index)
    <3>1. CASE buffer_base <= MaxBufferIndex
      BY <3>1 DEF IInv, BuffersOK
    <3>2. CASE buffer_base > MaxBufferIndex
      BY <2>3, <3>2 DEF IInv, BuffersOK, IsInjectiveMap
    <3> QED
      BY <2>4, <3>1, <3>2, WidthFacts
  <2>6. IsInjectiveMap(sampler_index)
    <3> SUFFICES ASSUME NEW i \in DOMAIN sampler_index, NEW j \in DOMAIN sampler_index,
                        sampler_index[i] = sampler_index[j]
                 PROVE  i = j
      BY DEF IsInjectiveMap
    <3>1. CASE i \in Combined /\ j \in Combined
      BY <2>1, <2>2, <3>1, ListsInKey DEF IInv, Pins, IsInjectiveMap
    <3>2. CASE i \notin Combined /\ j \notin Combined
      BY <3>2 DEF IInv, SamplersOK
    <3>3. CASE (i \in Combined) # (j \in Combined)
      BY <3>3 DEF IInv, SamplersOK, Pins
    <3> QED
      BY <3>1, <3>2, <3>3
  <2> QED
    BY <2>1, <2>2, <2>5, <2>6
<1> QED
  BY <1>1, Inductive, PTL

------------------------------------------------------------------------------
(***************************************************************************)
(* The closed form.  A loop has visited exactly the keys that come before  *)
(* those left, so that the counter is the rank of the key it is at; in the *)
(* loop over separate samplers, the free indices below the counter are as  *)
(* many as the keys visited.                                               *)
(***************************************************************************)
InOrder(list) == \A j \in list \ todo : \A k \in todo : KeyLess(j, k)

Pinned == {texture_index[k] : k \in Combined}

Dense ==
  /\ phase = "buffers" => InOrder(Buffers)
  /\ phase = "textures" => InOrder(Textures)
  /\ phase = "separate" => InOrder(Separate)
  /\ phase = "separate" => Cardinality((0 .. next - 1) \ Pinned) = Cardinality(Separate \ todo)
  /\ \A k \in DOMAIN buffer_index : buffer_index[k] = Wrap(buffer_base + Rank(k, Buffers))
  /\ \A k \in DOMAIN texture_index : texture_index[k] = Rank(k, Textures)
  /\ \A k \in DOMAIN sampler_index \ Combined :
       sampler_index[k] = FreeSlot(Rank(k, Separate), Pinned)

DInv == IInv /\ Dense

\* The rank of the least key left is the number of keys visited, and the
\* visited keys still come first.
LEMMA LeastLeft ==
  ASSUME NEW L, NEW T, T \subseteq L, L \subseteq Key, NEW k \in T, IsFirst(k, T),
         \A j \in L \ T : \A i \in T : KeyLess(j, i)
  PROVE  /\ Rank(k, L) = Cardinality(L \ T)
         /\ \A j \in L \ (T \ {k}) : \A i \in T \ {k} : KeyLess(j, i)
<1>1. L \subseteq Nat \X Nat
  BY KeyAssumption
<1>2. ASSUME NEW j \in T PROVE ~KeyLess(j, k)
  <2>1. j \in Nat \X Nat /\ k \in Nat \X Nat
    BY <1>1
  <2>2. j[1] \in Nat /\ j[2] \in Nat /\ k[1] \in Nat /\ k[2] \in Nat
    BY <2>1
  <2>3. CASE j = k
    BY <2>2, <2>3 DEF KeyLess
  <2>4. CASE j # k
    <3>1. KeyLess(k, j)
      BY <2>4 DEF IsFirst
    <3> QED
      BY <2>2, <3>1 DEF KeyLess
  <2> QED
    BY <2>3, <2>4
<1>3. {j \in L : KeyLess(j, k)} = L \ T
  BY <1>2
<1>4. \A j \in L \ (T \ {k}) : \A i \in T \ {k} : KeyLess(j, i)
  BY DEF IsFirst
<1> QED
  BY <1>3, <1>4 DEF Rank

\* A free index has more free indices below it than a lower one.
LEMMA FreeBelowGrows ==
  ASSUME NEW P, NEW m \in Nat, NEW n \in Nat, m < n, m \notin P
  PROVE  Cardinality((0 .. m - 1) \ P) < Cardinality((0 .. n - 1) \ P)
<1> DEFINE A == (0 .. m - 1) \ P
           B == (0 .. n - 1) \ P
<1>1. IsFiniteSet(0 .. m - 1) /\ IsFiniteSet(0 .. n - 1)
  BY FS_Interval
<1>2. IsFiniteSet(A) /\ IsFiniteSet(B) /\ Cardinality(A) \in Nat /\ Cardinality(B) \in Nat
  BY <1>1, FS_Difference, FS_CardinalityType
<1>3. m \notin A /\ A \cup {m} \subseteq B
  OBVIOUS
<1> HIDE DEF A, B
<1>4. Cardinality(A \cup {m}) = Cardinality(A) + 1
  BY <1>2, <1>3, FS_AddElement
<1>5. Cardinality(A \cup {m}) <= Cardinality(B)
  BY <1>2, <1>3, FS_Subset
<1> QED
  BY <1>2, <1>4, <1>5 DEF A, B

\* An index that is not pinned is the free slot of its rank.
LEMMA FreeSlotIs ==
  ASSUME NEW P, P \subseteq Nat, IsFiniteSet(P), NEW n \in Nat, n \notin P
  PROVE  FreeSlot(Cardinality((0 .. n - 1) \ P), P) = n
<1> DEFINE r == Cardinality((0 .. n - 1) \ P)
           Fits(m) == m \notin P /\ Cardinality((0 .. m - 1) \ P) = r
<1>1. IsFiniteSet(0 .. n - 1) /\ Cardinality(0 .. n - 1) = n
  BY FS_Interval
<1>2. /\ r \in Nat /\ Cardinality(P) \in Nat /\ Cardinality((0 .. n - 1) \cap P) \in Nat
      /\ r = Cardinality(0 .. n - 1) - Cardinality((0 .. n - 1) \cap P)
      /\ Cardinality((0 .. n - 1) \cap P) <= Cardinality(P)
  BY <1>1, FS_Difference, FS_Subset, FS_CardinalityType
<1>3. n \in 0 .. r + Cardinality(P) /\ Fits(n)
  BY <1>1, <1>2
<1>4. ASSUME NEW m \in 0 .. r + Cardinality(P), Fits(m)
      PROVE  m = n
  <2>1. m \in Nat
    BY <1>2
  <2>2. ~(m < n) /\ ~(n < m)
    <3>1. ASSUME m < n PROVE FALSE
      <4>1. Cardinality((0 .. m - 1) \ P) < r
        BY <1>4, <2>1, <3>1, FreeBelowGrows
      <4> QED
        BY <1>2, <1>4, <4>1
    <3>2. ASSUME n < m PROVE FALSE
      <4>1. r < Cardinality((0 .. m - 1) \ P)
        BY <1>4, <2>1, <3>2, FreeBelowGrows
      <4> QED
        BY <1>2, <1>4, <4>1
    <3> QED
      BY <3>1, <3>2
  <2> QED
    BY <2>1, <2>2
<1> DEFINE slot == CHOOSE m \in 0 .. r + Cardinality(P) : Fits(m)
<1>5. FreeSlot(r, P) = slot
  BY DEF FreeSlot
<1>6. slot \in 0 .. r + Cardinality(P) /\ Fits(slot)
  BY <1>3
<1> HIDE DEF slot, Fits
<1>7. slot = n
  BY <1>4, <1>6
<1> QED
  BY <1>5, <1>7 DEF r

\* A step that leaves the resources and the tables alone keeps the ranks.
LEMMA RanksKept ==
  ASSUME UNCHANGED <<program, buffer_base, buffer_index, texture_index, sampler_index>>, Dense
  PROVE  /\ \A k \in DOMAIN buffer_index' : buffer_index'[k] = Wrap(buffer_base' + Rank(k, Buffers'))
         /\ \A k \in DOMAIN texture_index' : texture_index'[k] = Rank(k, Textures')
         /\ Pinned' = Pinned
         /\ \A k \in DOMAIN sampler_index' \ Combined' :
              sampler_index'[k] = FreeSlot(Rank(k, Separate'), Pinned')
<1>1. Buffers' = Buffers /\ Textures' = Textures /\ Combined' = Combined /\ Separate' = Separate
  BY ListsStable
<1>2. Pinned' = Pinned
  BY <1>1 DEF Pinned
<1> QED
  BY <1>1, <1>2 DEF Dense

\* Nothing is assigned while stages are collected, and a loop that begins has
\* visited nothing.
LEMMA BeginDense ==
  ASSUME DInv, IInv',
         CollectStage \/ BeginBuffers \/ BeginTextures \/ BeginCombined \/ BeginSeparate \/ Finish
  PROVE  Dense'
<1>1. CASE CollectStage
  <2>1. phase' = "collect"
    BY <1>1 DEF CollectStage
  <2>2. DOMAIN buffer_index' = {} /\ DOMAIN texture_index' = {} /\ DOMAIN sampler_index' = {}
    BY <2>1 DEF IInv, Domains, Early
  <2> QED
    BY <2>1, <2>2 DEF Dense
<1>2. CASE BeginBuffers \/ BeginTextures \/ BeginCombined \/ BeginSeparate \/ Finish
  <2>1. UNCHANGED <<program, buffer_base, buffer_index, texture_index, sampler_index>>
    BY <1>2 DEF BeginBuffers, BeginTextures, BeginCombined, BeginSeparate, Finish, EnterLoop
  <2>2. /\ phase' = "buffers" => todo' = Buffers
        /\ phase' = "textures" => todo' = Textures
        /\ phase' = "separate" => todo' = Separate /\ next' = 0
    BY <1>2 DEF BeginBuffers, BeginTextures, BeginCombined, BeginSeparate, Finish, EnterLoop
  <2>3. Buffers' = Buffers /\ Textures' = Textures /\ Separate' = Separate
    BY <2>1, ListsStable
  <2>4. /\ phase' = "buffers" => InOrder(Buffers)'
        /\ phase' = "textures" => InOrder(Textures)'
        /\ phase' = "separate" => InOrder(Separate)'
    BY <2>2, <2>3 DEF InOrder
  <2>5. phase' = "separate" =>
          Cardinality((0 .. next' - 1) \ Pinned') = Cardinality(Separate' \ todo')
    <3> SUFFICES ASSUME phase' = "separate"
                 PROVE  Cardinality((0 .. next' - 1) \ Pinned') = Cardinality(Separate' \ todo')
      OBVIOUS
    <3>1. (0 .. next' - 1) \ Pinned' = {} /\ Separate' \ todo' = {}
      BY <2>2, <2>3
    <3> QED
      BY <3>1, Zenon
  <2> QED
    BY <2>1, <2>4, <2>5, RanksKept DEF DInv, Dense
<1> QED
  BY <1>1, <1>2

\* A buffer has its rank after the base, modulo the width of an index.
LEMMA BufferDense ==
  ASSUME DInv, AssignBuffer
  PROVE  Dense'
<1> PICK k \in todo : /\ Visit("buffers", k)
                      /\ buffer_index' = Emplace(buffer_index, k, Wrap(next))
                      /\ next' = next + 1
                      /\ UNCHANGED <<phase, program, buffer_base, texture_index, sampler_index>>
  BY DEF AssignBuffer
<1>1. /\ phase = "buffers" /\ phase' = "buffers" /\ todo' = todo \ {k} /\ IsFirst(k, todo)
      /\ UNCHANGED <<program, buffer_base, texture_index, sampler_index>>
  BY DEF Visit
<1>2. Buffers' = Buffers /\ Textures' = Textures
  BY <1>1, ListsStable
<1>3. /\ todo \subseteq Buffers /\ Buffers \subseteq Key /\ DOMAIN buffer_index = Buffers \ todo
      /\ next = buffer_base + Cardinality(Buffers \ todo) /\ DOMAIN sampler_index = {}
  BY <1>1, ListsInKey DEF DInv, IInv, Domains, BuffersOK, Early
<1>4. Rank(k, Buffers) = Cardinality(Buffers \ todo) /\ InOrder(Buffers)'
  <2>1. /\ Rank(k, Buffers) = Cardinality(Buffers \ todo)
        /\ \A j \in Buffers \ (todo \ {k}) : \A i \in todo \ {k} : KeyLess(j, i)
    BY <1>1, <1>3, LeastLeft DEF DInv, Dense, InOrder
  <2> QED
    BY <1>1, <1>2, <2>1 DEF InOrder
<1>5. \A j \in DOMAIN buffer_index' : buffer_index'[j] = Wrap(buffer_base' + Rank(j, Buffers'))
  BY <1>1, <1>2, <1>3, <1>4 DEF Emplace, DInv, Dense
<1> QED
  BY <1>1, <1>2, <1>3, <1>4, <1>5 DEF DInv, Dense

\* A texture has its rank, which is an index.
LEMMA TextureDense ==
  ASSUME DInv, AssignTexture
  PROVE  Dense'
<1> PICK k \in todo : /\ Visit("textures", k)
                      /\ texture_index' = Emplace(texture_index, k, Wrap(next))
                      /\ next' = next + 1
                      /\ UNCHANGED <<phase, program, buffer_base, buffer_index, sampler_index>>
  BY DEF AssignTexture
<1>1. /\ phase = "textures" /\ phase' = "textures" /\ todo' = todo \ {k} /\ IsFirst(k, todo)
      /\ UNCHANGED <<program, buffer_base, buffer_index, sampler_index>>
  BY DEF Visit
<1>2. Buffers' = Buffers /\ Textures' = Textures
  BY <1>1, ListsStable
<1>3. /\ todo \subseteq Textures /\ Textures \subseteq Key /\ DOMAIN texture_index = Textures \ todo
      /\ next = Cardinality(Textures \ todo) /\ DOMAIN sampler_index = {}
  BY <1>1, ListsInKey DEF DInv, IInv, Domains, TexturesOK, Early
<1>4. Wrap(next) = next
  <2>1. next \in 0 .. Cardinality(Key) /\ 0 \in 0 .. Cardinality(Key)
    BY <1>3, KeySubset, WidthFacts
  <2>2. next \in Nat /\ next < IndexMod /\ IndexMod > 0
    BY <1>3, <2>1, WidthFacts, KeySubset
  <2> QED
    BY <2>2, WrapRange
<1>5. Rank(k, Textures) = Cardinality(Textures \ todo) /\ InOrder(Textures)'
  <2>1. /\ Rank(k, Textures) = Cardinality(Textures \ todo)
        /\ \A j \in Textures \ (todo \ {k}) : \A i \in todo \ {k} : KeyLess(j, i)
    BY <1>1, <1>3, LeastLeft DEF DInv, Dense, InOrder
  <2> QED
    BY <1>1, <1>2, <2>1 DEF InOrder
<1>6. \A j \in DOMAIN texture_index' : texture_index'[j] = Rank(j, Textures')
  BY <1>2, <1>3, <1>4, <1>5 DEF Emplace, DInv, Dense
<1> QED
  BY <1>1, <1>2, <1>3, <1>5, <1>6 DEF DInv, Dense

\* A pinned sampler is none of the separate ones.
LEMMA PinDense ==
  ASSUME DInv, IInv', PinCombined
  PROVE  Dense'
<1>1. /\ phase = "combined" /\ phase' = "combined"
      /\ UNCHANGED <<program, buffer_base, buffer_index, texture_index>>
  BY DEF PinCombined, Visit
<1>2. Buffers' = Buffers /\ Textures' = Textures /\ Combined' = Combined
  BY <1>1, ListsStable
<1>3. DOMAIN sampler_index' \ Combined' = {}
  BY <1>1 DEF IInv, Domains
<1> QED
  BY <1>1, <1>2, <1>3 DEF DInv, Dense

\* The pinned indices are some indices.
LEMMA PinnedIndices ==
  ASSUME IInv, phase = "separate"
  PROVE  Pinned \subseteq Nat /\ IsFiniteSet(Pinned)
<1>1. Combined \subseteq DOMAIN texture_index
  BY SamplerCounter
<1>2. texture_index \in [DOMAIN texture_index -> 0 .. IndexMod - 1]
  BY DEF IInv, TypeOK, IndexMap
<1>3. Pinned \subseteq 0 .. IndexMod - 1
  BY <1>1, <1>2 DEF Pinned
<1>4. IsFiniteSet(0 .. IndexMod - 1)
  BY WidthFacts, FS_Interval
<1>5. Pinned \subseteq Nat
  BY <1>3, WidthFacts
<1>6. Pinned \in SUBSET (0 .. IndexMod - 1)
  BY <1>3
<1> QED
  BY <1>4, <1>5, <1>6, FS_Subset

\* The counter is reserved where it is pinned.
LEMMA ReservedIsPinned ==
  ASSUME IInv, phase = "separate"
  PROVE  IsReserved(Wrap(next)) <=> next \in Pinned
<1>1. Wrap(next) = next /\ Combined \subseteq DOMAIN texture_index
  BY SamplerCounter
<1> QED
  BY <1>1 DEF IsReserved, Lookup, Pinned

\* Skipping a pinned index passes no free one.
LEMMA SkipDense ==
  ASSUME DInv, SkipReserved
  PROVE  Dense'
<1>1. /\ phase = "separate" /\ phase' = "separate" /\ next' = next + 1 /\ IsReserved(Wrap(next))
      /\ UNCHANGED <<program, todo, buffer_base, buffer_index, texture_index, sampler_index>>
  BY DEF SkipReserved
<1>2. Separate' = Separate /\ Pinned' = Pinned
  BY <1>1, ListsStable, RanksKept DEF DInv
<1>3. next \in Pinned /\ next \in Nat
  BY <1>1, ReservedIsPinned DEF DInv, IInv, TypeOK
<1>4. (0 .. next' - 1) \ Pinned' = (0 .. next - 1) \ Pinned
  BY <1>1, <1>2, <1>3
<1>5. InOrder(Separate)' <=> InOrder(Separate)
  BY <1>1, <1>2 DEF InOrder
<1> QED
  BY <1>1, <1>2, <1>4, <1>5, RanksKept DEF DInv, Dense

\* A separate sampler has the free index of its rank.
LEMMA SeparateDense ==
  ASSUME DInv, AssignSeparate
  PROVE  Dense'
<1> PICK k \in todo : /\ Visit("separate", k)
                      /\ ~IsReserved(Wrap(next))
                      /\ sampler_index' = Emplace(sampler_index, k, Wrap(next))
                      /\ next' = next + 1
                      /\ UNCHANGED <<phase, program, buffer_base, buffer_index, texture_index>>
  BY DEF AssignSeparate
<1>1. /\ phase = "separate" /\ phase' = "separate" /\ todo' = todo \ {k} /\ IsFirst(k, todo)
      /\ UNCHANGED <<program, buffer_base, buffer_index, texture_index>>
  BY DEF Visit
<1>2. /\ Buffers' = Buffers /\ Textures' = Textures /\ Combined' = Combined /\ Separate' = Separate
      /\ Pinned' = Pinned
  BY <1>1, ListsStable DEF Pinned
<1>3. /\ todo \subseteq Separate /\ Separate \subseteq Key /\ next \in Nat
      /\ DOMAIN sampler_index = Combined \cup (Separate \ todo)
      /\ Cardinality((0 .. next - 1) \ Pinned) = Cardinality(Separate \ todo)
  BY <1>1, ListsInKey DEF DInv, IInv, TypeOK, Domains, Dense
<1>4. Rank(k, Separate) = Cardinality(Separate \ todo) /\ InOrder(Separate)'
  <2>1. /\ Rank(k, Separate) = Cardinality(Separate \ todo)
        /\ \A j \in Separate \ (todo \ {k}) : \A i \in todo \ {k} : KeyLess(j, i)
    BY <1>1, <1>3, LeastLeft DEF DInv, Dense, InOrder
  <2> QED
    BY <1>1, <1>2, <2>1 DEF InOrder
<1>5. Wrap(next) = next /\ next \notin Pinned
  BY <1>1, SamplerCounter, ReservedIsPinned DEF DInv
<1>6. FreeSlot(Rank(k, Separate), Pinned) = next
  BY <1>1, <1>3, <1>4, <1>5, PinnedIndices, FreeSlotIs DEF DInv
<1>7. Cardinality((0 .. next' - 1) \ Pinned') = Cardinality(Separate' \ todo')
  <2> DEFINE free == (0 .. next - 1) \ Pinned
  <2>1. (0 .. next' - 1) \ Pinned' = free \cup {next} /\ next \notin free
    BY <1>2, <1>3, <1>5
  <2>2. IsFiniteSet(free)
    <3>1. IsFiniteSet(0 .. next - 1)
      BY <1>3, FS_Interval
    <3> QED
      BY <3>1, FS_Difference
  <2> HIDE DEF free
  <2>3. Cardinality((0 .. next' - 1) \ Pinned') = Cardinality(free) + 1
    BY <2>1, <2>2, FS_AddElement
  <2>4. Cardinality(Separate \ (todo \ {k})) = Cardinality(Separate \ todo) + 1
    BY <1>3, VisitCount
  <2> QED
    BY <1>1, <1>2, <1>3, <2>3, <2>4 DEF free
<1>8. \A j \in DOMAIN sampler_index' \ Combined' :
        sampler_index'[j] = FreeSlot(Rank(j, Separate'), Pinned')
  BY <1>2, <1>3, <1>5, <1>6 DEF Emplace, DInv, Dense
<1> QED
  BY <1>1, <1>2, <1>4, <1>7, <1>8 DEF DInv, Dense

\* The closed form of what has been assigned so far, always.
THEOREM DenseAlways == Spec => []DInv
<1>1. Init => DInv
  <2> SUFFICES ASSUME Init PROVE DInv
    OBVIOUS
  <2>1. IInv /\ DOMAIN EmptyMap = {}
    BY InitIInv DEF EmptyMap
  <2> QED
    BY <2>1 DEF Init, DInv, Dense
<1>2. DInv /\ IInv' /\ [Next]_vars => DInv'
  <2> SUFFICES ASSUME DInv, IInv', [Next]_vars PROVE Dense'
    BY DEF DInv
  <2>1. CASE UNCHANGED vars
    <3>1. /\ UNCHANGED <<phase, todo, next>>
          /\ UNCHANGED <<program, buffer_base, buffer_index, texture_index, sampler_index>>
      BY <2>1 DEF vars
    <3>2. Buffers' = Buffers /\ Textures' = Textures /\ Separate' = Separate
      BY <3>1, ListsStable
    <3>3. /\ InOrder(Buffers)' <=> InOrder(Buffers)
          /\ InOrder(Textures)' <=> InOrder(Textures)
          /\ InOrder(Separate)' <=> InOrder(Separate)
      BY <3>1, <3>2 DEF InOrder
    <3> QED
      BY <3>1, <3>2, <3>3, RanksKept DEF DInv, Dense
  <2> QED
    BY <2>1, BeginDense, BufferDense, TextureDense, PinDense, SkipDense, SeparateDense DEF Next
<1> QED
  BY <1>1, <1>2, Inductive, PTL DEF Spec

\* The lists of the allocator are those of the closed form.
LEMMA ListsOfResources ==
  ASSUME TypeOK, NEW kinds, kinds \subseteq Kinds
  PROVE  KeysAmong(UNION {program[i] : i \in DOMAIN program}, kinds) = KeysOf(kinds)
<1> DEFINE all == UNION {program[i] : i \in DOMAIN program}
<1>1. \A i \in DOMAIN program : program[i] \subseteq Kinds \X Key
  BY ModulesAssumption DEF TypeOK
<1>2. KeysAmong(all, kinds) \subseteq KeysOf(kinds)
  <2> SUFFICES ASSUME NEW r \in all, r[1] \in kinds PROVE r[2] \in KeysOf(kinds)
    BY DEF KeysAmong
  <2>1. PICK i \in DOMAIN program : r \in program[i]
    OBVIOUS
  <2>2. r = <<r[1], r[2]>> /\ r[2] \in Key
    BY <1>1, <2>1
  <2> QED
    BY <2>1, <2>2 DEF KeysOf
<1>3. KeysOf(kinds) \subseteq KeysAmong(all, kinds)
  <2> SUFFICES ASSUME NEW k \in Key, NEW i \in DOMAIN program, NEW kind \in kinds,
                      <<kind, k>> \in program[i]
               PROVE  k \in KeysAmong(all, kinds)
    BY DEF KeysOf
  <2>1. <<kind, k>> \in all /\ <<kind, k>>[1] \in kinds /\ <<kind, k>>[2] = k
    OBVIOUS
  <2> QED
    BY <2>1 DEF KeysAmong
<1> QED
  BY <1>2, <1>3

(***************************************************************************)
(* The four loops compute the closed form, for every program, every base   *)
(* and every width: the slots depend on the set of resources alone (lines  *)
(* 109-147, header lines 24-30).  Other modules build on the closed form.  *)
(***************************************************************************)
THEOREM LoopsMatchClosedForm == Spec => []MatchesClosedForm
<1>1. DInv => MatchesClosedForm
  <2> DEFINE all == UNION {program[i] : i \in DOMAIN program}
             B == KeysAmong(all, {"buffer"})
             T == KeysAmong(all, {"sampled_image", "image"})
             C == KeysAmong(all, {"sampled_image"})
             S == KeysAmong(all, {"sampler"})
             pinned == {Rank(k, T) : k \in C}
  <2> SUFFICES ASSUME DInv, phase = "done"
               PROVE  [buffer |-> buffer_index, texture |-> texture_index, sampler |-> sampler_index]
                        = MetalMapOf(all, buffer_base, IndexMod)
    BY DEF MatchesClosedForm
  <2>1. B = Buffers /\ T = Textures /\ C = Combined /\ S = Separate
    BY ListsOfResources DEF DInv, IInv, Kinds, Buffers, Textures, Combined, Separate
  <2>2. /\ DOMAIN buffer_index = Buffers /\ DOMAIN texture_index = Textures
        /\ DOMAIN sampler_index = Combined \cup Separate
        /\ buffer_index \in IndexMap /\ texture_index \in IndexMap /\ sampler_index \in IndexMap
    BY DEF DInv, IInv, TypeOK, Domains, Early
  <2>3. pinned = Pinned
    BY <2>1, <2>2, ListsInKey DEF Pinned, DInv, Dense
  <2>4. buffer_index = [k \in B |-> (buffer_base + Rank(k, B)) % IndexMod]
    BY <2>1, <2>2 DEF IndexMap, DInv, Dense, Wrap
  <2>5. texture_index = [k \in T |-> Rank(k, T)]
    BY <2>1, <2>2 DEF IndexMap, DInv, Dense
  <2>6. sampler_index = [k \in C \cup S |-> IF k \in C THEN Rank(k, T)
                                            ELSE FreeSlot(Rank(k, S), pinned)]
    <3>1. \A k \in Combined : sampler_index[k] = Rank(k, Textures)
      BY <2>2, ListsInKey DEF DInv, IInv, Pins, Dense
    <3>2. \A k \in (Combined \cup Separate) \ Combined :
            sampler_index[k] = FreeSlot(Rank(k, Separate), Pinned)
      BY <2>2 DEF DInv, Dense
    <3> HIDE DEF all, B, T, C, S, pinned
    <3> QED
      BY <2>1, <2>2, <2>3, <3>1, <3>2 DEF IndexMap
  <2> QED
    BY <2>4, <2>5, <2>6 DEF MetalMapOf
<1> QED
  BY <1>1, DenseAlways, PTL
==============================================================================
