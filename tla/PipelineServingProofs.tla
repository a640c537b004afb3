------------------------- MODULE PipelineServingProofs -------------------------
(***************************************************************************)
(* More proofs about PipelineBuilder: what entries there are (EntriesLink) *)
(* and what a build returns when entries may be cut short                  *)
(* (ServedComplete), or for Metal (SlotsAgree).  Served says of one        *)
(* builder what its control point tells of the stages it carries.  The     *)
(* last part is about what callers are told: CacheIsUnseen.                *)
(***************************************************************************)
EXTENDS PipelineBuilderProofs, WellFoundedInduction

\* The cross-compiler writes no empty source.
SourcesNotEmpty == \A text, target, all : CrossSource(text, target, all).source # Empty

\* A source for each target.
Ready(a, targets) == SourcesNotEmpty => \A t \in DOMAIN targets : HasSource(a, targets[t])

Linked == {"phaseB", "store", "write", "orphan"}
Storing == {"store", "write", "orphan"}

HitsReady(p) ==
  \A i \in DOMAIN work[p] : work[p][i].hit => Ready(work[p][i].artifact, req[p].targets)

\* Also of hits: an entry of a program is there only when its stages compile.
WorkCompiles(p) ==
  \A i \in DOMAIN work[p] :
    Dense(req[p]) /\ Inline(Key(p, i)) => req[p].stages[i].source \notin CompileErrors

MissesLink(p) ==
  pc[p] \in Linked =>
    \A i \in DOMAIN work[p] : ~work[p][i].hit =>
      /\ req[p].targets # <<>> => backend.cross_compiler
      /\ Dense(req[p]) /\ Inline(Key(p, i)) => ~Overflows(Union(KeyTexts(Key(p, i))))

PendingReady(p) ==
  pc[p] \in Storing => ~work[p][Emitting(p)].hit /\ Ready(Pending(p), req[p].targets)

OutReady(p) ==
  \A i \in DOMAIN out[p] :
    /\ Ready(out[p][i], req[p].targets)
    /\ Inline(Key(p, i)) => out[p][i].spirv = req[p].stages[i].source

Served(p) ==
  HitsReady(p) /\ WorkCompiles(p) /\ MissesLink(p) /\ PendingReady(p) /\ OutReady(p)
------------------------------------------------------------------------------
\* A set of natural numbers that is not empty has a least element.
LEMMA Least ==
  ASSUME NEW T, T \subseteq Nat, T # {}
  PROVE  \E x \in T : \A y \in T : x <= y
PROOF
  <1>1. \E x \in T : \A y \in T : ~(<<y, x>> \in OpToRel(<, Nat))
    BY NatLessThanWellFounded, WFMin, Zenon
  <1>2. PICK x \in T : \A y \in T : ~(<<y, x>> \in OpToRel(<, Nat))  BY <1>1
  <1>3. ASSUME NEW y \in T PROVE x <= y
    <2>1. x \in Nat /\ y \in Nat  OBVIOUS
    <2>2. y < x => <<y, x>> \in {ss \in Nat \X Nat : ss[1] < ss[2]}  BY <2>1
    <2>3. OpToRel(<, Nat) = {ss \in Nat \X Nat : ss[1] < ss[2]}  BY Zenon DEF OpToRel
    <2>4. ~(y < x)  BY <1>2, <2>2, <2>3
    <2> QED  BY <2>1, <2>4
  <1> QED  BY <1>3

\* With a cross-compiler, the back end makes a source for each target.
LEMMA BackendReady ==
  ASSUME NEW b, NEW text, NEW targets, NEW all, IsVector(targets),
         targets # <<>> => b.cross_compiler
  PROVE  Ready(BackendArtifact(b, text, targets, all), targets)
PROOF
  <1> DEFINE a == BackendArtifact(b, text, targets, all)
  <1> SUFFICES ASSUME SourcesNotEmpty, NEW t \in DOMAIN targets
               PROVE  HasSource(a, targets[t])
    BY DEF Ready
  <1>1. Len(targets) \in Nat /\ DOMAIN targets = 1 .. Len(targets)  BY VectorLength
  <1>2. targets # <<>>  BY <1>1, VectorEmpty
  <1>3. a.cross_compiled = [i \in DOMAIN targets |-> CrossSource(text, targets[i], all)]
    BY <1>2 DEF BackendArtifact, StageArtifact
  <1> DEFINE same == {i \in DOMAIN targets : targets[i] = targets[t]}
  <1>4. same \subseteq Nat /\ same # {}  BY <1>1
  <1>5. PICK n \in same : \A y \in same : n <= y
    <2> HIDE DEF same
    <2> QED  BY <1>4, Least
  <1>6. \A g : CrossSource(text, g, all).target = g  BY DEF CrossSource, CrossCompiledSource
  <1>7. /\ n \in DOMAIN a.cross_compiled /\ a.cross_compiled[n].target = targets[t]
        /\ a.cross_compiled[n].source # Empty
    BY <1>3, <1>6 DEF SourcesNotEmpty
  <1>8. ASSUME NEW j \in 1 .. n - 1
        PROVE  a.cross_compiled[j].target # targets[t]
    <2>1. j \in DOMAIN targets /\ j \notin same  BY <1>1, <1>5
    <2> QED  BY <1>3, <1>6, <2>1
  <1> HIDE DEF a
  <1> QED  BY <1>7, <1>8 DEF HasSource

\* A builder that a step passes by, or takes no further than it was.
LEMMA FrameServed ==
  ASSUME NEW p \in Builder, Served(p),
         UNCHANGED backend, work'[p] = work[p], out'[p] = out[p], req'[p] = req[p],
         pc'[p] \in Linked => pc[p] \in Linked, pc'[p] \in Storing => pc[p] \in Storing
  PROVE  Served(p)'
PROOF
  <1>1. \A i : Key(p, i)' = Key(p, i)  BY DEF Key
  <1>2. HitsReady(p)' /\ WorkCompiles(p)'  BY <1>1 DEF Served, HitsReady, WorkCompiles
  <1>3. MissesLink(p)'  BY <1>1 DEF Served, MissesLink
  <1>4. PendingReady(p)'  BY DEF Served, PendingReady, Pending, Emitting
  <1>5. OutReady(p)'  BY <1>1 DEF Served, OutReady
  <1> QED  BY <1>2, <1>3, <1>4, <1>5 DEF Served

\* A build that begins, or dies, carries nothing.
LEMMA ResetServed ==
  ASSUME NEW p \in Builder, work'[p] = <<>>, out'[p] = <<>>, pc'[p] \in {"phaseA", "idle"}
  PROVE  Served(p)'
PROOF
  <1>1. DOMAIN work'[p] = {} /\ DOMAIN out'[p] = {} /\ pc'[p] \notin Linked /\ pc'[p] \notin Storing
    BY VectorEmpty DEF Linked, Storing
  <1> QED  BY <1>1 DEF Served, HitsReady, WorkCompiles, MissesLink, PendingReady, OutReady
------------------------------------------------------------------------------
\* The texts of a program, seen from each of its keys.
LEMMA DenseTexts ==
  ASSUME NEW p \in Builder, Dense(req[p]), req[p].stages # <<>>, NEW i
  PROVE  /\ Key(p, i).program # <<>>
         /\ KeyTexts(Key(p, i)) = {req[p].stages[n].source : n \in DOMAIN req[p].stages}
PROOF
  <1>1. Key(p, i).program = req[p].stages  BY KeyFields
  <1> QED  BY <1>1 DEF KeyTexts

\* A stage in Phase A.
LEMMA CurrentStage ==
  ASSUME Shape, NEW p \in Builder, Len(work[p]) < StageCount(p)
  PROVE  Current(p) \in DOMAIN req[p].stages /\ req[p].stages # <<>>
PROOF
  <1>1. Current(p) \in DOMAIN req[p].stages  BY Lengths DEF Current
  <1> QED  BY <1>1, VectorEmpty

\* Phase A passes a stage.
LEMMA PushServed ==
  ASSUME Shape, NEW p \in Builder, Served(p), NEW a, NEW h,
         work' = [work EXCEPT ![p] = Append(@, [artifact |-> a, hit |-> h])],
         UNCHANGED <<backend, req, out>>, pc'[p] = "phaseA",
         h => Ready(a, req[p].targets),
         Dense(req[p]) /\ Inline(Key(p, Current(p))) => req[p].stages[Current(p)].source \notin CompileErrors
  PROVE  Served(p)'
PROOF
  <1> DEFINE item == [artifact |-> a, hit |-> h]
  <1>1. work'[p] = Append(work[p], item)  BY DEF Shape, Vectors
  <1>2. item.artifact = a /\ item.hit = h  OBVIOUS
  <1> HIDE DEF item
  <1>3. IsVector(work[p])  BY DEF Shape, Vectors
  <1>4. /\ DOMAIN work'[p] = DOMAIN work[p] \cup {Current(p)}
        /\ \A i \in DOMAIN work[p] : work'[p][i] = work[p][i]
        /\ work'[p][Current(p)] = item
    BY <1>1, <1>3, VectorAppend DEF Current
  <1>5. \A i : Key(p, i)' = Key(p, i)  BY DEF Key
  <1>6. HitsReady(p)'  BY <1>2, <1>4 DEF Served, HitsReady
  <1>7. WorkCompiles(p)'  BY <1>4, <1>5 DEF Served, WorkCompiles
  <1>8. MissesLink(p)' /\ PendingReady(p)'  BY DEF MissesLink, PendingReady, Linked, Storing
  <1>9. OutReady(p)'  BY <1>5 DEF Served, OutReady
  <1> QED  BY <1>6, <1>7, <1>8, <1>9 DEF Served

\* A hit has a source for each target; its program is known to compile.
LEMMA LookupHitServed ==
  ASSUME Shape, EntriesLink, NEW p \in Builder, Served(p), LookupHit(p)
  PROVE  Served(p)'
PROOF
  <1>1. PICK a \in Lookup(Key(p, Current(p))) :
          /\ a # Missing /\ CachedArtifactReady(a, req[p].targets)
          /\ work' = [work EXCEPT ![p] = Append(@, [artifact |-> a, hit |-> TRUE])]
    BY DEF LookupHit, Key
  <1>2. Ready(a, req[p].targets)  BY <1>1 DEF CachedArtifactReady, Ready
  <1>3. /\ UNCHANGED <<backend, req, out>> /\ pc'[p] = "phaseA" /\ Len(work[p]) < StageCount(p)
    BY DEF LookupHit, InPhaseA
  <1>4. ASSUME Dense(req[p]), Inline(Key(p, Current(p)))
        PROVE  req[p].stages[Current(p)].source \notin CompileErrors
    <2>1. Key(p, Current(p)) \in DOMAIN cache  BY <1>1 DEF Lookup
    <2>2. Current(p) \in DOMAIN req[p].stages /\ req[p].stages # <<>>  BY <1>3, CurrentStage
    <2>3. /\ Key(p, Current(p)).program # <<>>
          /\ req[p].stages[Current(p)].source \in KeyTexts(Key(p, Current(p)))
      BY <1>4, <2>2, DenseTexts
    <2> QED  BY <1>4, <2>1, <2>3 DEF EntriesLink
  <1> QED  BY <1>1, <1>2, <1>3, <1>4, PushServed

\* A miss has compiled.
LEMMA CompileStageServed ==
  ASSUME Shape, NEW p \in Builder, Served(p), CompileStage(p)
  PROVE  Served(p)'
PROOF
  <1> DEFINE text == Source(p, Current(p))
             a == StageArtifact(text, Empty, <<>>)
  <1>1. work' = [work EXCEPT ![p] = Append(@, [artifact |-> a, hit |-> FALSE])]
    BY DEF CompileStage
  <1>2. UNCHANGED <<backend, req, out>> /\ pc'[p] = "phaseA" /\ Len(work[p]) < StageCount(p)
    BY DEF CompileStage, Shape, TypeOK, Phases
  <1>3. text \notin CompileErrors  BY DEF CompileStage, CompileCode
  <1>4. Inline(Key(p, Current(p))) => text = req[p].stages[Current(p)].source
    BY <1>2, CurrentStage, InlineSource DEF Source
  <1> HIDE DEF a, text
  <1> QED  BY <1>1, <1>2, <1>3, <1>4, PushServed

\* Between the phases, the map of a build with a miss fits and targets have a
\* cross-compiler.
LEMMA LinkServed ==
  ASSUME Shape, Sound, NEW p \in Builder, Served(p), Link(p)
  PROVE  Served(p)'
PROOF
  <1>1. /\ UNCHANGED <<backend, req, work, out>> /\ pc'[p] = "phaseB"
        /\ LinkCode(p) = "eSuccess" /\ Len(work[p]) = StageCount(p)
    BY DEF Link, EndPhaseA, Shape, TypeOK
  <1>2. \A i : Key(p, i)' = Key(p, i)  BY <1>1 DEF Key
  <1>3. HitsReady(p)' /\ WorkCompiles(p)' /\ OutReady(p)'
    BY <1>1, <1>2 DEF Served, HitsReady, WorkCompiles, OutReady
  <1>4. PendingReady(p)'  BY <1>1 DEF PendingReady, Storing
  <1>5. ASSUME NEW i \in DOMAIN work[p], ~work[p][i].hit
        PROVE  /\ req[p].targets # <<>> => backend.cross_compiler
               /\ Dense(req[p]) /\ Inline(Key(p, i)) => ~Overflows(Union(KeyTexts(Key(p, i))))
    <2>1. Misses(p) # {}  BY <1>5 DEF Misses
    <2>2. /\ Dense(req[p]) => ~Overflows(Union(Texts(p)))
          /\ req[p].targets # <<>> => backend.cross_compiler
      BY <1>1, <2>1 DEF LinkCode
    <2>3. ASSUME Dense(req[p]), Inline(Key(p, i))
          PROVE  Union(Texts(p)) = Union(KeyTexts(Key(p, i)))
      BY <1>1, <2>3, MapIsUnion DEF MapOf, Sound
    <2> QED  BY <2>2, <2>3
  <1>6. MissesLink(p)'  BY <1>1, <1>2, <1>5 DEF MissesLink
  <1> QED  BY <1>3, <1>4, <1>6 DEF Served
------------------------------------------------------------------------------
\* Phase B emits a stage that has a source for each target.
LEMMA EmitServed ==
  ASSUME Shape, NEW p \in Builder, NEW a, Emit(p, a), UNCHANGED <<backend, req>>, pc'[p] = "phaseB",
         HitsReady(p)', WorkCompiles(p)', MissesLink(p)', OutReady(p),
         Ready(a, req[p].targets),
         Inline(Key(p, Emitting(p))) => a.spirv = req[p].stages[Emitting(p)].source
  PROVE  Served(p)'
PROOF
  <1>1. out'[p] = Append(out[p], a)  BY DEF Emit, Shape, Vectors
  <1>2. IsVector(out[p])  BY DEF Shape, Vectors
  <1>3. /\ DOMAIN out'[p] = DOMAIN out[p] \cup {Emitting(p)}
        /\ \A i \in DOMAIN out[p] : out'[p][i] = out[p][i]
        /\ out'[p][Emitting(p)] = a
    BY <1>1, <1>2, VectorAppend DEF Emitting
  <1>4. \A i : Key(p, i)' = Key(p, i)  BY DEF Key
  <1>5. OutReady(p)'  BY <1>3, <1>4 DEF OutReady
  <1>6. PendingReady(p)'  BY DEF PendingReady, Storing
  <1> QED  BY <1>5, <1>6 DEF Served

\* A hit, or a stage that was on its way to the cache.
LEMMA EmitStepsServed ==
  ASSUME Shape, Sound, NEW p \in Builder, Served(p),
         TakeHit(p) \/ SkipStore(p) \/ WriteStore(p) \/ WriteRemoved(p)
  PROVE  Served(p)'
PROOF
  <1> DEFINE n == Emitting(p)
             a == work[p][n].artifact
  <1>1. Emit(p, a)  BY DEF TakeHit, SkipStore, WriteStore, WriteRemoved, Pending
  <1>2. UNCHANGED <<backend, req, work>>  BY DEF TakeHit, SkipStore, WriteStore, WriteRemoved
  <1>3. pc[p] \in Linked /\ pc'[p] = "phaseB"
    BY DEF TakeHit, SkipStore, WriteStore, WriteRemoved, InPhaseB, Shape, TypeOK, Linked
  <1>4. n \in DOMAIN work[p]
    BY <1>3, Lengths DEF Linked, TakeHit, SkipStore, WriteStore, WriteRemoved, InPhaseB, Emitting,
                         Shape, Phases
  <1>5. \A i : Key(p, i)' = Key(p, i)  BY <1>2 DEF Key
  <1>6. HitsReady(p)' /\ WorkCompiles(p)'  BY <1>2, <1>5 DEF Served, HitsReady, WorkCompiles
  <1>7. MissesLink(p)'  BY <1>2, <1>3, <1>5 DEF Served, MissesLink
  <1>8. Ready(a, req[p].targets)
    <2>1. CASE TakeHit(p)  BY <1>4, <2>1 DEF TakeHit, Served, HitsReady
    <2>2. CASE pc[p] \in Storing  BY <2>2 DEF Served, PendingReady, Pending
    <2> QED  BY <2>1, <2>2 DEF SkipStore, WriteStore, WriteRemoved, Storing
  <1>9. Inline(Key(p, n)) => a.spirv = req[p].stages[n].source  BY <1>4 DEF Sound, WorkSound
  <1>10. OutReady(p)  BY DEF Served
  <1> HIDE DEF a
  <1> QED  BY <1>1, <1>2, <1>3, <1>6, <1>7, <1>8, <1>9, <1>10, EmitServed

\* The back end makes a source for each target of a miss.
LEMMA BackendServed ==
  ASSUME Shape, Sound, NEW p \in Builder, Served(p), RunBackend(p)
  PROVE  Served(p)'
PROOF
  <1> DEFINE n == Emitting(p)
             text == work[p][n].artifact.spirv
             a == BackendArtifact(backend, text, req[p].targets, MapOf(p, n))
  <1>1. pc[p] = "phaseB" /\ Len(out[p]) < StageCount(p) /\ Len(work[p]) = StageCount(p)
    BY DEF RunBackend, InPhaseB, Shape, Phases
  <1>2. n \in DOMAIN work[p]  BY <1>1, Lengths DEF Emitting
  <1>3. /\ work' = [work EXCEPT ![p][n].artifact = a] /\ ~work[p][n].hit
        /\ UNCHANGED <<backend, cache, req>>
    BY DEF RunBackend
  <1>4. a.spirv = text  BY DEF BackendArtifact, StageArtifact
  <1>5. Ready(a, req[p].targets)
    <2>1. IsVector(req[p].targets)  BY RequestVectors DEF Shape
    <2>2. req[p].targets # <<>> => backend.cross_compiler
      BY <1>1, <1>2, <1>3 DEF Served, MissesLink, Linked
    <2> QED  BY <2>1, <2>2, BackendReady
  <1>6. Inline(Key(p, n)) => a.spirv = req[p].stages[n].source
    BY <1>2, <1>4 DEF Sound, WorkSound
  <1> HIDE DEF a
  <1>7. /\ DOMAIN work'[p] = DOMAIN work[p]
        /\ \A j \in DOMAIN work[p] \ {n} : work'[p][j] = work[p][j]
        /\ work'[p][n].artifact = a /\ work'[p][n].hit = work[p][n].hit
    <2> HIDE DEF n
    <2>1. work' = [work EXCEPT ![p][n].artifact = a]  BY <1>3
    <2>2. /\ DOMAIN work' = DOMAIN work /\ \A q \in Builder \ {p} : work'[q] = work[q]
          /\ DOMAIN work'[p] = DOMAIN work[p]
          /\ IsVector(work'[p]) /\ Len(work'[p]) = Len(work[p])
          /\ \A j \in DOMAIN work[p] \ {n} : work'[p][j] = work[p][j]
          /\ work'[p][n].artifact = a /\ work'[p][n].hit = work[p][n].hit
          /\ \A j \in DOMAIN work'[p] : DOMAIN work'[p][j] = {"artifact", "hit"}
      BY <1>2, <2>1, BackendWork, Zenon
    <2> QED  BY <2>2
  <1>8. \A i : Key(p, i)' = Key(p, i)  BY <1>3 DEF Key
  <1>9. HitsReady(p)'  BY <1>3, <1>7 DEF Served, HitsReady
  <1>10. WorkCompiles(p)'  BY <1>3, <1>7, <1>8 DEF Served, WorkCompiles
  <1>11. \A j \in DOMAIN work[p] : work'[p][j].hit = work[p][j].hit  BY <1>7
  <1>12. MissesLink(p)'
    BY <1>1, <1>3, <1>7, <1>8, <1>11 DEF Served, MissesLink, Linked
  <1>13. CASE UsesCache(p)
    <2>1. out' = out /\ pc'[p] = "store"  BY <1>13 DEF RunBackend, Shape, TypeOK
    <2>2. PendingReady(p)'  BY <1>2, <1>3, <1>5, <1>7, <2>1 DEF PendingReady, Pending, Emitting
    <2>3. OutReady(p)'  BY <1>3, <1>8, <2>1 DEF Served, OutReady
    <2> QED  BY <1>9, <1>10, <1>12, <2>2, <2>3 DEF Served
  <1>14. CASE ~UsesCache(p)
    <2>1. Emit(p, a) /\ pc'[p] = "phaseB"  BY <1>1, <1>14 DEF RunBackend, a
    <2>2. OutReady(p)  BY DEF Served
    <2> QED  BY <1>3, <1>5, <1>6, <1>9, <1>10, <1>12, <2>1, <2>2, EmitServed
  <1> QED  BY <1>13, <1>14

\* The entry a store sets belongs to a program that links.
LEMMA StoreLinks ==
  ASSUME Shape, EntriesLink, NEW p \in Builder, Served(p), pc[p] \in Storing, NEW f,
         Put(StoreKey(p), f)
  PROVE  EntriesLink'
PROOF
  <1> DEFINE n == Emitting(p)
             k == Key(p, n)
  <1>1. StoreKey(p) = k  BY DEF StoreKey, Key
  <1>2. DOMAIN cache' = DOMAIN cache \cup {k}  BY <1>1 DEF Put
  <1>3. n \in DOMAIN req[p].stages /\ n \in DOMAIN work[p] /\ DOMAIN work[p] = DOMAIN req[p].stages
    BY StoreKeyInKeys, Lengths DEF Storing, Shape, Phases
  <1>4. ASSUME k.program # <<>>, Inline(k)
        PROVE  KeyTexts(k) \cap CompileErrors = {} /\ ~Overflows(Union(KeyTexts(k)))
    <2>1. Dense(req[p]) /\ req[p].stages # <<>>  BY <1>4, KeyFields
    <2>2. \A j : KeyTexts(Key(p, j)) = {req[p].stages[i].source : i \in DOMAIN req[p].stages}
      BY <2>1, DenseTexts
    <2>3. \A j : Inline(Key(p, j))  BY <1>4, <2>2 DEF Inline
    <2>4. \A j \in DOMAIN req[p].stages : req[p].stages[j].source \notin CompileErrors
      BY <1>3, <2>1, <2>3 DEF Served, WorkCompiles
    <2>5. ~work[p][n].hit  BY DEF Served, PendingReady
    <2>6. pc[p] \in Linked  BY DEF Storing, Linked
    <2>7. ~Overflows(Union(KeyTexts(k)))
      BY <1>3, <1>4, <2>1, <2>5, <2>6 DEF Served, MissesLink
    <2> QED  BY <2>2, <2>4, <2>7
  <1> HIDE DEF k
  <1> QED  BY <1>2, <1>4 DEF EntriesLink
------------------------------------------------------------------------------
AllServed == \A p \in Builder : Served(p)

\* There are no builds and no entries yet.
LEMMA InitServed == Init => AllServed /\ EntriesLink
PROOF
  <1> SUFFICES ASSUME Init PROVE AllServed /\ EntriesLink  OBVIOUS
  <1>1. \A p \in Builder : work[p] = <<>> /\ out[p] = <<>> /\ pc[p] = "idle"  BY DEF Init
  <1>2. DOMAIN cache = {}  BY DEF Init
  <1>3. EntriesLink  BY <1>2 DEF EntriesLink
  <1>4. AllServed
    BY <1>1, VectorEmpty DEF AllServed, Served, HitsReady, WorkCompiles, MissesLink, PendingReady,
                             OutReady, Linked, Storing
  <1> QED  BY <1>3, <1>4

\* A step of one builder leaves the others and the components alone.
LEMMA OthersStay ==
  ASSUME Shape, NEW p \in Builder, StartBuild(p) \/ BuildStep(p) \/ Crash(p),
         NEW q \in Builder, q # p
  PROVE  /\ UNCHANGED backend
         /\ pc'[q] = pc[q] /\ req'[q] = req[q] /\ work'[q] = work[q] /\ out'[q] = out[q]
         /\ code'[q] = code[q] /\ seen'[q] = seen[q]
PROOF
  <1>1. UNCHANGED backend
    BY DEF StartBuild, BuildStep, Crash, RefuseBuild, LookupHit, LookupMiss, CompileStage, CompileFails,
           Link, LinkFails, TakeHit, RunBackend, BackendFails, OpenStore, SkipStore, WriteStore,
           WriteRemoved, Finish
  <1>2. pc'[q] = pc[q] /\ req'[q] = req[q] /\ code'[q] = code[q] /\ seen'[q] = seen[q]
    BY DEF StartBuild, BuildStep, Crash, RefuseBuild, LookupHit, LookupMiss, CompileStage, CompileFails,
           Link, LinkFails, TakeHit, RunBackend, BackendFails, OpenStore, SkipStore, WriteStore,
           WriteRemoved, Finish, Return, Shape, TypeOK
  <1>3. work'[q] = work[q]
    <2>1. CASE RunBackend(p)
      BY <2>1 DEF RunBackend, Shape, Vectors
    <2>2. CASE StartBuild(p) \/ Crash(p) \/ LookupHit(p) \/ CompileStage(p)
      BY <2>2 DEF StartBuild, Crash, LookupHit, CompileStage, Shape, Vectors
    <2> QED
      BY <2>1, <2>2 DEF BuildStep, RefuseBuild, LookupMiss, CompileFails,
           Link, LinkFails, TakeHit, BackendFails, OpenStore, SkipStore, WriteStore,
           WriteRemoved, Finish, Return
  <1>4. out'[q] = out[q]
    BY DEF StartBuild, BuildStep, Crash, RefuseBuild, LookupHit, LookupMiss, CompileStage, CompileFails,
           Link, LinkFails, TakeHit, RunBackend, BackendFails, OpenStore, SkipStore, WriteStore,
           WriteRemoved, Finish, Return, Emit, Shape, Vectors
  <1> QED  BY <1>1, <1>2, <1>3, <1>4

\* What is said of a builder outlives the steps of the others.
LEMMA OthersServed ==
  ASSUME Shape, AllServed, NEW p \in Builder, StartBuild(p) \/ BuildStep(p) \/ Crash(p),
         NEW q \in Builder, q # p
  PROVE  Served(q)'
PROOF
  <1>1. /\ UNCHANGED backend
        /\ pc'[q] = pc[q] /\ req'[q] = req[q] /\ work'[q] = work[q] /\ out'[q] = out[q]
    BY OthersStay
  <1> QED  BY <1>1, FrameServed DEF AllServed

\* What a step does to the builder that takes it.
LEMMA OwnServed ==
  ASSUME Shape, Sound, EntriesLink, AllServed, NEW p \in Builder,
         StartBuild(p) \/ BuildStep(p) \/ Crash(p)
  PROVE  Served(p)'
PROOF
  <1>1. Served(p)  BY DEF AllServed
  <1>2. CASE StartBuild(p) \/ Crash(p)
    <2>1. work'[p] = <<>> /\ out'[p] = <<>> /\ pc'[p] \in {"phaseA", "idle"}
      BY <1>2 DEF StartBuild, Crash, Shape, TypeOK, Vectors
    <2> QED  BY <2>1, ResetServed
  <1>3. CASE RefuseBuild(p) \/ CompileFails(p) \/ LinkFails(p) \/ BackendFails(p) \/ Finish(p)
    <2>1. UNCHANGED <<backend, req, work, out>> /\ pc'[p] = "done"
      BY <1>3 DEF RefuseBuild, CompileFails, LinkFails, BackendFails, Finish, Return, Shape, TypeOK
    <2> QED  BY <1>1, <2>1, FrameServed DEF Linked, Storing
  <1>4. CASE LookupMiss(p)
    <2>1. UNCHANGED <<backend, req, work, out>> /\ pc'[p] = "compile"
      BY <1>4 DEF LookupMiss, Shape, TypeOK
    <2> QED  BY <1>1, <2>1, FrameServed DEF Linked, Storing
  <1>5. CASE OpenStore(p)
    <2>1. UNCHANGED <<backend, req, work, out>> /\ pc[p] = "store" /\ pc'[p] = "write"
      BY <1>5 DEF OpenStore, Shape, TypeOK
    <2> QED  BY <1>1, <2>1, FrameServed DEF Linked, Storing
  <1>6. CASE LookupHit(p)  BY <1>1, <1>6, LookupHitServed
  <1>7. CASE CompileStage(p)  BY <1>1, <1>7, CompileStageServed
  <1>8. CASE Link(p)  BY <1>1, <1>8, LinkServed
  <1>9. CASE RunBackend(p)  BY <1>1, <1>9, BackendServed
  <1>10. CASE TakeHit(p) \/ SkipStore(p) \/ WriteStore(p) \/ WriteRemoved(p)
    BY <1>1, <1>10, EmitStepsServed
  <1> QED  BY <1>2, <1>3, <1>4, <1>5, <1>6, <1>7, <1>8, <1>9, <1>10 DEF BuildStep

\* Only a store adds an entry.
LEMMA BuilderLinks ==
  ASSUME Shape, EntriesLink, AllServed, NEW p \in Builder, StartBuild(p) \/ BuildStep(p) \/ Crash(p)
  PROVE  EntriesLink'
PROOF
  <1>1. CASE OpenStore(p)
    <2>1. pc[p] \in Storing /\ \E f : Put(StoreKey(p), f)  BY <1>1 DEF OpenStore, Storing
    <2> QED  BY <2>1, StoreLinks DEF AllServed
  <1>2. CASE WriteStore(p)
    <2>1. pc[p] \in Storing /\ \E f : Put(StoreKey(p), f)  BY <1>2 DEF WriteStore, Storing
    <2> QED  BY <2>1, StoreLinks DEF AllServed
  <1>3. CASE ~OpenStore(p) /\ ~WriteStore(p)
    <2>1. UNCHANGED cache
      BY <1>3 DEF StartBuild, BuildStep, Crash, RefuseBuild, LookupHit, LookupMiss, CompileStage,
           CompileFails, Link, LinkFails, TakeHit, RunBackend, BackendFails, SkipStore, WriteRemoved, Finish
    <2> QED  BY <2>1 DEF EntriesLink
  <1> QED  BY <1>1, <1>2, <1>3

\* Every step preserves the invariant, given Shape and Sound.
LEMMA NextServed ==
  ASSUME Shape, Sound, EntriesLink, AllServed, [Next]_vars
  PROVE  AllServed' /\ EntriesLink'
PROOF
  <1>1. ASSUME NEW p \in Builder, StartBuild(p) \/ BuildStep(p) \/ Crash(p)
        PROVE  AllServed' /\ EntriesLink'
    <2>1. ASSUME NEW q \in Builder PROVE Served(q)'
      <3>1. CASE q = p  BY <1>1, <3>1, OwnServed
      <3>2. CASE q # p  BY <1>1, <3>2, OthersServed
      <3> QED  BY <3>1, <3>2
    <2>2. AllServed'  BY <2>1 DEF AllServed
    <2>3. EntriesLink'  BY <1>1, BuilderLinks
    <2> QED  BY <2>2, <2>3
  <1>2. CASE ClearEntry
    <2>1. /\ UNCHANGED <<backend, req, work, out>>
          /\ DOMAIN cache' \subseteq DOMAIN cache
          /\ \A p \in Builder : pc'[p] = pc[p] \/ (pc[p] = "write" /\ pc'[p] = "orphan")
      BY <1>2 DEF ClearEntry
    <2>2. EntriesLink'  BY <2>1 DEF EntriesLink
    <2>3. ASSUME NEW p \in Builder PROVE Served(p)'
      <3>1. Served(p)  BY DEF AllServed
      <3>2. pc'[p] = pc[p] \/ (pc[p] = "write" /\ pc'[p] = "orphan")  BY <2>1
      <3> QED  BY <2>1, <3>1, <3>2, FrameServed DEF Linked, Storing
    <2> QED  BY <2>2, <2>3 DEF AllServed
  <1>3. CASE EditFile \/ UNCHANGED vars
    <2>1. UNCHANGED <<backend, cache, pc, req, work, out>>  BY <1>3 DEF EditFile, vars
    <2>2. EntriesLink'  BY <2>1 DEF EntriesLink
    <2>3. ASSUME NEW p \in Builder PROVE Served(p)'
      <3>1. Served(p)  BY DEF AllServed
      <3> QED  BY <2>1, <3>1, FrameServed
    <2> QED  BY <2>2, <2>3 DEF AllServed
  <1> QED  BY <1>1, <1>2, <1>3 DEF Next

\* What every builder carries, and every entry, at each control point.
THEOREM ServingInvariant == Spec => [](Shape /\ Sound /\ AllServed /\ EntriesLink)
PROOF
  <1>1. Shape /\ Sound /\ AllServed /\ EntriesLink /\ [Next]_vars => AllServed' /\ EntriesLink'
    BY NextServed
  <1> QED  BY <1>1, InitServed, Inductive, PTL DEF Spec

\* Entries are only made of programs that compile and whose Metal map fits,
\* for any number of builders, components, crashes and writes cut short.
THEOREM EntriesAlwaysLink == Spec => []EntriesLink
PROOF BY ServingInvariant, PTL

\* A successful build of texts has their SPIR-V, and any successful build a
\* source for every target, even when entries are cut short, provided that
\* the cross-compiler itself writes no empty source.
THEOREM ServedIsComplete == SourcesNotEmpty => (Spec => []ServedComplete)
PROOF
  <1> SUFFICES ASSUME SourcesNotEmpty PROVE Spec => []ServedComplete  OBVIOUS
  <1>1. AllServed => ServedComplete
    BY DEF AllServed, Served, OutReady, Ready, ServedComplete, Key
  <1> QED  BY <1>1, ServingInvariant, PTL
------------------------------------------------------------------------------
\* No stage is given by a file.
TextsOnly == \A r \in Requests : \A i \in DOMAIN r.stages : r.stages[i].source # NoSource

\* What is emitted belongs to a stage.
LEMMA OutStage ==
  ASSUME Shape, NEW p \in Builder, NEW i \in DOMAIN out[p]
  PROVE  i \in DOMAIN req[p].stages /\ req[p].stages # <<>>
PROOF
  <1>1. IsVector(req[p].stages)  BY RequestsAssumption DEF Shape, TypeOK
  <1>2. /\ Len(out[p]) \in Nat /\ DOMAIN out[p] = 1 .. Len(out[p])
        /\ Len(req[p].stages) \in Nat /\ DOMAIN req[p].stages = 1 .. Len(req[p].stages)
    BY <1>1, VectorLength DEF Shape, Vectors
  <1>3. Len(out[p]) <= Len(req[p].stages)  BY DEF Shape, TypeOK, StageCount
  <1> QED  BY <1>2, <1>3, VectorEmpty

\* The Metal source of a back end's artifact has the slots of the map it was
\* made with.
LEMMA SlotsOfMap ==
  ASSUME NEW b, NEW text, NEW targets, NEW all, NEW a, a = BackendArtifact(b, text, targets, all),
         \E j \in DOMAIN a.cross_compiled : a.cross_compiled[j].target = "eMSL"
  PROVE  MslSlots(a) = Slots(text, all)
PROOF
  <1> DEFINE n == CHOOSE j \in DOMAIN a.cross_compiled : a.cross_compiled[j].target = "eMSL"
  <1>1. n \in DOMAIN a.cross_compiled /\ a.cross_compiled[n].target = "eMSL"  OBVIOUS
  <1>2. b.cross_compiler
    <2>1. CASE ~b.cross_compiler
      <3>1. a.cross_compiled = <<>>  BY <2>1 DEF BackendArtifact, StageArtifact
      <3> QED  BY <1>1, <3>1, VectorEmpty
    <2> QED  BY <2>1
  <1>3. a.cross_compiled = [i \in DOMAIN targets |-> CrossSource(text, targets[i], all)]
    BY <1>2 DEF BackendArtifact, StageArtifact
  <1>4. a.cross_compiled[n] = CrossSource(text, targets[n], all)  BY <1>1, <1>3
  <1>5. targets[n] = "eMSL"  BY <1>1, <1>4 DEF CrossSource, CrossCompiledSource
  <1>6. a.cross_compiled[n].source.slots = Slots(text, all)
    BY <1>4, <1>5 DEF CrossSource, CrossCompiledSource
  <1>7. MslSlots(a) = a.cross_compiled[n].source.slots  BY DEF MslSlots
  <1> QED  BY <1>6, <1>7

\* With whole writes and requests made of texts, the stages of a program have
\* one Metal slot for each binding they share, whichever of them were served
\* from the cache and whoever stored them.
THEOREM SlotsAlwaysAgree ==
  WholeWrites /\ SourcesNotEmpty /\ TextsOnly => (Spec => []SlotsAgree)
PROOF
  <1> SUFFICES ASSUME WholeWrites, SourcesNotEmpty, TextsOnly PROVE Spec => []SlotsAgree
    OBVIOUS
  <1>1. ASSUME Shape, Sound, AllServed, NEW p \in Builder, Dense(req[p])
        PROVE  AgreeOnSlots(p, DOMAIN out[p])
    <2> DEFINE texts == {req[p].stages[n].source : n \in DOMAIN req[p].stages}
               Text(i) == req[p].stages[i].source
    <2>1. ASSUME NEW i \in DOMAIN out[p]
          PROVE  MslSlots(out[p][i]) = Slots(Text(i), Union(texts))
      <3>1. i \in DOMAIN req[p].stages /\ req[p].stages # <<>>  BY <1>1, OutStage
      <3>2. KeyTexts(Key(p, i)) = texts  BY <1>1, <3>1, DenseTexts
      <3>3. Inline(Key(p, i))
        <4>1. req[p] \in Requests  BY <1>1 DEF Shape, TypeOK
        <4> QED  BY <3>2, <4>1 DEF TextsOnly, Inline
      <3>4. out[p][i] = BackendArtifact(backend, Text(i), req[p].targets, Union(texts))
        <4>1. out[p][i] = Fresh(p, i)  BY <1>1, <3>3 DEF Sound, OutSound
        <4>2. Key(p, i).stage = req[p].stages[i] /\ Key(p, i).targets = req[p].targets
          BY KeyFields
        <4> QED  BY <3>2, <4>1, <4>2 DEF Fresh, FreshArtifact
      <3>5. HasSource(out[p][i], "eMSL")
        BY <1>1 DEF AllServed, Served, OutReady, Ready, Dense, WantsMsl
      <3>6. \E j \in DOMAIN out[p][i].cross_compiled : out[p][i].cross_compiled[j].target = "eMSL"
        BY <3>5 DEF HasSource
      <3> HIDE DEF texts, Text
      <3> QED  BY <3>4, <3>6, SlotsOfMap
    <2> HIDE DEF texts, Text
    <2>2. ASSUME NEW i \in DOMAIN out[p], NEW j \in DOMAIN out[p],
                 NEW c \in DOMAIN MslSlots(out[p][i]) \cap DOMAIN MslSlots(out[p][j])
          PROVE  MslSlots(out[p][i])[c] = MslSlots(out[p][j])[c]
      <3>1. ASSUME NEW text, NEW d \in DOMAIN Slots(text, Union(texts))
            PROVE  Slots(text, Union(texts))[d] = Cardinality({a \in Union(texts) : a < d})
        BY DEF Slots
      <3>2. MslSlots(out[p][i])[c] = Cardinality({a \in Union(texts) : a < c})  BY <2>1, <3>1
      <3>3. MslSlots(out[p][j])[c] = Cardinality({a \in Union(texts) : a < c})  BY <2>1, <3>1
      <3> QED  BY <3>2, <3>3
    <2> QED  BY <2>2 DEF AgreeOnSlots
  <1>2. Shape /\ Sound /\ AllServed => SlotsAgree  BY <1>1 DEF SlotsAgree
  <1> QED  BY <1>2, ServingInvariant, PTL
------------------------------------------------------------------------------
\* A build under way has seen each file as it is.
Watched(p) == pc[p] \notin {"idle", "done"} => \A f \in Path : files[f] \in seen[p][f]

\* What Phase A compiled from a file, the file held since the build began.
MissesFresh(p) ==
  \A i \in Misses(p) :
    LET s == req[p].stages[i] IN s.source = NoSource => work[p][i].artifact.spirv \in seen[p][s.path]

\* What the back end makes of the SPIR-V that Phase A left of a stage.
Made(p, i) == BackendArtifact(backend, work[p][i].artifact.spirv, req[p].targets, MapOf(p, i))

OutMade(p) ==
  \A i \in DOMAIN out[p] : ~work[p][i].hit =>
    out[p][i] = Made(p, i) /\ (req[p].targets # <<>> => backend.cross_compiler)

PendingMade(p) == pc[p] \in Storing => Pending(p) = Made(p, Emitting(p))

\* Phase A emits nothing.
Unemitted(p) == pc[p] \in {"phaseA", "compile"} => out[p] = <<>>

Coherent(p) == Watched(p) /\ MissesFresh(p) /\ Unemitted(p) /\ OutMade(p) /\ PendingMade(p)

AllCoherent == \A p \in Builder : Coherent(p)

\* The file of a stage that Phase A has passed.
LEMMA StagePath ==
  ASSUME Shape, NEW p \in Builder, NEW i \in DOMAIN work[p], req[p].stages[i].source = NoSource
  PROVE  req[p].stages[i].path \in Path
PROOF
  <1>1. req[p] \in Requests /\ i \in DOMAIN req[p].stages  BY Lengths DEF Shape, TypeOK
  <1> QED  BY <1>1, PathsAssumption

\* A builder that a step passes by, or takes no further than it was.
LEMMA FrameCoherent ==
  ASSUME Shape, NEW p \in Builder, Coherent(p), Watched(p)',
         UNCHANGED backend, work'[p] = work[p], out'[p] = out[p], req'[p] = req[p],
         \A f \in Path : seen[p][f] \subseteq seen'[p][f],
         pc'[p] \in {"phaseA", "compile"} => pc[p] \in {"phaseA", "compile"},
         pc'[p] \in Storing => pc[p] \in Storing
  PROVE  Coherent(p)'
PROOF
  <1>1. MissesFresh(p)'
    <2>1. ASSUME NEW i \in Misses(p), req[p].stages[i].source = NoSource
          PROVE  work[p][i].artifact.spirv \in seen'[p][req[p].stages[i].path]
      <3>1. req[p].stages[i].path \in Path  BY <2>1, StagePath DEF Misses
      <3> QED  BY <2>1, <3>1 DEF Coherent, MissesFresh
    <2> QED  BY <2>1 DEF MissesFresh, Misses
  <1>2. \A i : Made(p, i)' = Made(p, i)  BY DEF Made, MapOf, Texts
  <1>3. Unemitted(p)'  BY DEF Coherent, Unemitted
  <1>4. OutMade(p)'  BY <1>2 DEF Coherent, OutMade
  <1>5. PendingMade(p)'  BY <1>2 DEF Coherent, PendingMade, Pending, Emitting
  <1> QED  BY <1>1, <1>3, <1>4, <1>5 DEF Coherent

\* A build that begins, or dies, carries nothing.
LEMMA ResetCoherent ==
  ASSUME NEW p \in Builder, work'[p] = <<>>, out'[p] = <<>>, pc'[p] \in {"phaseA", "idle"}, Watched(p)'
  PROVE  Coherent(p)'
PROOF
  <1>1. DOMAIN work'[p] = {} /\ DOMAIN out'[p] = {} /\ pc'[p] \notin Storing
    BY VectorEmpty DEF Storing
  <1> QED  BY <1>1 DEF Coherent, MissesFresh, Misses, Unemitted, OutMade, PendingMade

\* Phase A passes a stage: a miss has a text that its file holds.
LEMMA PushCoherent ==
  ASSUME Shape, NEW p \in Builder, Coherent(p), pc[p] \in {"phaseA", "compile"}, NEW a, NEW h,
         work' = [work EXCEPT ![p] = Append(@, [artifact |-> a, hit |-> h])],
         UNCHANGED <<backend, req, out, files, seen>>, pc'[p] = "phaseA",
         LET s == req[p].stages[Current(p)] IN ~h /\ s.source = NoSource => a.spirv \in seen[p][s.path]
  PROVE  Coherent(p)'
PROOF
  <1> DEFINE item == [artifact |-> a, hit |-> h]
  <1>1. work'[p] = Append(work[p], item)  BY DEF Shape, Vectors
  <1>2. item.artifact = a /\ item.hit = h  OBVIOUS
  <1> HIDE DEF item
  <1>3. IsVector(work[p])  BY DEF Shape, Vectors
  <1>4. /\ DOMAIN work'[p] = DOMAIN work[p] \cup {Current(p)}
        /\ \A i \in DOMAIN work[p] : work'[p][i] = work[p][i]
        /\ work'[p][Current(p)] = item
    BY <1>1, <1>3, VectorAppend DEF Current
  <1>5. Watched(p)'  BY DEF Coherent, Watched
  <1>6. MissesFresh(p)'  BY <1>2, <1>4 DEF Coherent, MissesFresh, Misses
  <1>7. out'[p] = <<>>  BY DEF Coherent, Unemitted
  <1>8. Unemitted(p)' /\ OutMade(p)'  BY <1>7, VectorEmpty DEF Unemitted, OutMade
  <1>9. PendingMade(p)'  BY DEF PendingMade, Storing
  <1> QED  BY <1>5, <1>6, <1>8, <1>9 DEF Coherent

\* Of a miss, the front end reads the text or, now, the file.
LEMMA PushStepsCoherent ==
  ASSUME Shape, NEW p \in Builder, Coherent(p), LookupHit(p) \/ CompileStage(p)
  PROVE  Coherent(p)'
PROOF
  <1>1. CASE LookupHit(p)
    <2>1. /\ \E a : work' = [work EXCEPT ![p] = Append(@, [artifact |-> a, hit |-> TRUE])]
          /\ UNCHANGED <<backend, req, out, files, seen>> /\ pc[p] = "phaseA" /\ pc'[p] = "phaseA"
      BY <1>1 DEF LookupHit, InPhaseA
    <2> QED  BY <2>1, PushCoherent
  <1>2. CASE CompileStage(p)
    <2> DEFINE n == Current(p)
               a == StageArtifact(Source(p, n), Empty, <<>>)
    <2>1. /\ work' = [work EXCEPT ![p] = Append(@, [artifact |-> a, hit |-> FALSE])]
          /\ UNCHANGED <<backend, req, out, files, seen>> /\ pc[p] = "compile" /\ pc'[p] = "phaseA"
      BY <1>2 DEF CompileStage, Shape, TypeOK
    <2>2. a.spirv = Source(p, n)  BY DEF StageArtifact
    <2>3. ASSUME req[p].stages[n].source = NoSource
          PROVE  a.spirv \in seen[p][req[p].stages[n].path]
      <3>1. n \in DOMAIN req[p].stages /\ req[p] \in Requests
        BY <2>1, CurrentStage DEF Shape, Phases, TypeOK
      <3>2. req[p].stages[n].path \in Path  BY <2>3, <3>1, PathsAssumption
      <3>3. Source(p, n) = files[req[p].stages[n].path]  BY <2>3 DEF Source
      <3> QED  BY <2>1, <2>2, <3>2, <3>3 DEF Coherent, Watched
    <2> HIDE DEF a, n
    <2> QED  BY <2>1, <2>3, PushCoherent DEF n
  <1> QED  BY <1>1, <1>2

\* Phase B emits a stage.
LEMMA EmitCoherent ==
  ASSUME Shape, NEW p \in Builder, NEW a, NEW n, n = Emitting(p), Emit(p, a),
         UNCHANGED <<backend, req, files, seen>>, pc[p] \notin {"idle", "done"}, pc'[p] = "phaseB",
         Watched(p), MissesFresh(p)',
         \A i \in DOMAIN out[p] : ~work'[p][i].hit =>
           out[p][i] = Made(p, i)' /\ (req[p].targets # <<>> => backend.cross_compiler),
         ~work'[p][n].hit =>
           a = Made(p, n)' /\ (req[p].targets # <<>> => backend.cross_compiler)
  PROVE  Coherent(p)'
PROOF
  <1>1. out'[p] = Append(out[p], a)  BY DEF Emit, Shape, Vectors
  <1>2. IsVector(out[p])  BY DEF Shape, Vectors
  <1>3. /\ DOMAIN out'[p] = DOMAIN out[p] \cup {n}
        /\ \A i \in DOMAIN out[p] : out'[p][i] = out[p][i]
        /\ out'[p][n] = a
    BY <1>1, <1>2, VectorAppend DEF Emitting
  <1>4. Watched(p)' /\ Unemitted(p)' /\ PendingMade(p)'
    BY DEF Watched, Unemitted, PendingMade, Storing
  <1>5. OutMade(p)'
    <2>1. ASSUME NEW i \in DOMAIN out'[p], ~work'[p][i].hit
          PROVE  out'[p][i] = Made(p, i)' /\ (req[p].targets # <<>> => backend.cross_compiler)
      <3>1. CASE i = n  BY <1>3, <2>1, <3>1
      <3>2. CASE i # n  BY <1>3, <2>1, <3>2
      <3> QED  BY <3>1, <3>2
    <2> QED  BY <2>1 DEF OutMade
  <1> QED  BY <1>4, <1>5 DEF Coherent

\* A hit, or a stage that was on its way to the cache.
LEMMA EmitStepsCoherent ==
  ASSUME Shape, NEW p \in Builder, Served(p), Coherent(p),
         TakeHit(p) \/ SkipStore(p) \/ WriteStore(p) \/ WriteRemoved(p)
  PROVE  Coherent(p)'
PROOF
  <1>1. PICK n : n = Emitting(p)  OBVIOUS
  <1> DEFINE a == work[p][n].artifact
  <1>2. Emit(p, a) /\ UNCHANGED <<backend, req, work, files, seen>>
    BY <1>1 DEF TakeHit, SkipStore, WriteStore, WriteRemoved, Pending
  <1>3. pc[p] \in Linked /\ pc'[p] = "phaseB"
    BY DEF TakeHit, SkipStore, WriteStore, WriteRemoved, InPhaseB, Shape, TypeOK, Linked
  <1>4. \A i : Made(p, i)' = Made(p, i)  BY <1>2 DEF Made, MapOf, Texts
  <1>5. n \in DOMAIN work[p]
    BY <1>1, <1>3, Lengths DEF Linked, TakeHit, SkipStore, WriteStore, WriteRemoved, InPhaseB, Emitting,
                         Shape, Phases
  <1>6. ~work[p][n].hit => a = Made(p, n) /\ (req[p].targets # <<>> => backend.cross_compiler)
    <2>1. ~work[p][n].hit => pc[p] \in Storing
      BY <1>1 DEF TakeHit, SkipStore, WriteStore, WriteRemoved, Storing
    <2>2. ~work[p][n].hit => a = Made(p, n)  BY <1>1, <2>1 DEF Coherent, PendingMade, Pending
    <2>3. ~work[p][n].hit => (req[p].targets # <<>> => backend.cross_compiler)
      BY <1>3, <1>5 DEF Served, MissesLink
    <2> QED  BY <2>2, <2>3
  <1>7. Watched(p) /\ MissesFresh(p)'  BY <1>2 DEF Coherent, MissesFresh, Misses
  <1>8. \A i \in DOMAIN out[p] : ~work'[p][i].hit =>
          out[p][i] = Made(p, i)' /\ (req[p].targets # <<>> => backend.cross_compiler)
    BY <1>2, <1>4 DEF Coherent, OutMade
  <1>9. ~work'[p][n].hit => a = Made(p, n)' /\ (req[p].targets # <<>> => backend.cross_compiler)
    BY <1>2, <1>4, <1>6
  <1>10. pc[p] \notin {"idle", "done"}  BY <1>3 DEF Linked
  <1> HIDE DEF a
  <1> QED  BY <1>1, <1>2, <1>3, <1>7, <1>8, <1>9, <1>10, EmitCoherent

\* The back end keeps the SPIR-V of its stage, and so the map of the program.
LEMMA BackendCoherent ==
  ASSUME Shape, NEW p \in Builder, Served(p), Coherent(p), RunBackend(p)
  PROVE  Coherent(p)'
PROOF
  <1>1. PICK n, a : n = Emitting(p) /\ a = Made(p, n)  OBVIOUS
  <1>2. pc[p] = "phaseB" /\ Len(out[p]) < StageCount(p) /\ Len(work[p]) = StageCount(p)
    BY DEF RunBackend, InPhaseB, Shape, Phases
  <1>3. n \in DOMAIN work[p]  BY <1>1, <1>2, Lengths DEF Emitting
  <1>4. /\ work' = [work EXCEPT ![p][n].artifact = a] /\ ~work[p][n].hit
        /\ UNCHANGED <<backend, req, files, seen>>
    BY <1>1 DEF RunBackend, Made
  <1>5. a.spirv = work[p][n].artifact.spirv  BY <1>1 DEF Made, BackendArtifact, StageArtifact
  <1>6. /\ DOMAIN work'[p] = DOMAIN work[p]
        /\ \A j \in DOMAIN work[p] \ {n} : work'[p][j] = work[p][j]
        /\ work'[p][n].artifact = a /\ work'[p][n].hit = work[p][n].hit
    <2>1. work' = [work EXCEPT ![p][n].artifact = a]  BY <1>4
    <2>2. /\ DOMAIN work' = DOMAIN work /\ \A q \in Builder \ {p} : work'[q] = work[q]
          /\ DOMAIN work'[p] = DOMAIN work[p]
          /\ IsVector(work'[p]) /\ Len(work'[p]) = Len(work[p])
          /\ \A j \in DOMAIN work[p] \ {n} : work'[p][j] = work[p][j]
          /\ work'[p][n].artifact = a /\ work'[p][n].hit = work[p][n].hit
          /\ \A j \in DOMAIN work'[p] : DOMAIN work'[p][j] = {"artifact", "hit"}
      BY <1>3, <2>1, BackendWork, Zenon
    <2> QED  BY <2>2
  <1>7. \A j \in DOMAIN work[p] : /\ work'[p][j].artifact.spirv = work[p][j].artifact.spirv
                                  /\ work'[p][j].hit = work[p][j].hit
    BY <1>5, <1>6
  <1>8. Texts(p)' = Texts(p) /\ Misses(p)' = Misses(p)  BY <1>6, <1>7 DEF Texts, Misses
  <1>9. \A j \in DOMAIN work[p] : Made(p, j)' = Made(p, j)  BY <1>4, <1>7, <1>8 DEF Made, MapOf
  <1>10. MissesFresh(p)'  BY <1>4, <1>7, <1>8 DEF Coherent, MissesFresh, Misses
  <1>11. Watched(p) /\ (req[p].targets # <<>> => backend.cross_compiler)
    BY <1>2, <1>3, <1>4 DEF Coherent, Served, MissesLink, Linked
  <1>12. DOMAIN out[p] \subseteq DOMAIN work[p]  BY Lengths
  <1>13. CASE UsesCache(p)
    <2>1. out' = out /\ pc'[p] = "store"  BY <1>13 DEF RunBackend, Shape, TypeOK
    <2>2. Watched(p)' /\ Unemitted(p)'  BY <1>2, <1>4, <1>11, <2>1 DEF Watched, Unemitted
    <2>3. OutMade(p)'  BY <1>4, <1>7, <1>9, <1>12, <2>1 DEF Coherent, OutMade
    <2>4. PendingMade(p)'
      <3>1. Emitting(p)' = n  BY <1>1, <2>1 DEF Emitting
      <3>2. Made(p, n)' = a  BY <1>1, <1>3, <1>9
      <3> QED  BY <1>6, <3>1, <3>2 DEF PendingMade, Pending
    <2> QED  BY <1>10, <2>2, <2>3, <2>4 DEF Coherent
  <1>14. CASE ~UsesCache(p)
    <2>1. Emit(p, a) /\ pc'[p] = "phaseB"  BY <1>1, <1>2, <1>14 DEF RunBackend, Made
    <2>2. \A i \in DOMAIN out[p] : ~work'[p][i].hit =>
            out[p][i] = Made(p, i)' /\ (req[p].targets # <<>> => backend.cross_compiler)
      BY <1>7, <1>9, <1>12 DEF Coherent, OutMade
    <2>3. a = Made(p, n)'  BY <1>1, <1>3, <1>9
    <2> QED  BY <1>1, <1>2, <1>4, <1>10, <1>11, <2>1, <2>2, <2>3, EmitCoherent
  <1> QED  BY <1>13, <1>14

\* A step of a builder keeps what is said of it.
LEMMA OwnCoherent ==
  ASSUME Shape, NEW p \in Builder, Served(p), Coherent(p), StartBuild(p) \/ BuildStep(p) \/ Crash(p)
  PROVE  Coherent(p)'
PROOF
  <1>1. CASE StartBuild(p) \/ Crash(p)
    <2>1. work'[p] = <<>> /\ out'[p] = <<>> /\ pc'[p] \in {"phaseA", "idle"}
      BY <1>1 DEF StartBuild, Crash, Shape, TypeOK, Vectors
    <2>2. Watched(p)'
      <3>1. CASE StartBuild(p)
        <4>1. files' = files /\ seen'[p] = [f \in Path |-> {files[f]}]
          BY <3>1 DEF StartBuild, Shape, TypeOK
        <4> QED  BY <4>1 DEF Watched
      <3>2. CASE Crash(p)
        <4>1. pc'[p] = "idle"  BY <3>2 DEF Crash, Shape, TypeOK
        <4> QED  BY <4>1 DEF Watched
      <3> QED  BY <1>1, <3>1, <3>2
    <2> QED  BY <2>1, <2>2, ResetCoherent
  <1>2. CASE RefuseBuild(p) \/ CompileFails(p) \/ LinkFails(p) \/ BackendFails(p) \/ Finish(p)
    <2>1. UNCHANGED <<backend, req, work, out, files, seen>> /\ pc'[p] = "done"
      BY <1>2 DEF RefuseBuild, CompileFails, LinkFails, BackendFails, Finish, Return, Shape, TypeOK
    <2>2. Watched(p)'  BY <2>1 DEF Watched
    <2> QED  BY <2>1, <2>2, FrameCoherent DEF Storing
  <1>3. CASE LookupMiss(p) \/ Link(p) \/ OpenStore(p)
    <2>1. /\ UNCHANGED <<backend, req, work, out, files, seen>>
          /\ pc[p] \in {"phaseA", "store"} /\ pc'[p] \in {"compile", "phaseB", "write"}
          /\ pc'[p] = "compile" => pc[p] = "phaseA"
          /\ pc'[p] = "write" => pc[p] = "store"
      BY <1>3 DEF LookupMiss, Link, OpenStore, InPhaseA, EndPhaseA, Shape, TypeOK
    <2>2. Watched(p)'  BY <2>1 DEF Coherent, Watched
    <2> QED  BY <2>1, <2>2, FrameCoherent DEF Storing
  <1> QED
    BY <1>1, <1>2, <1>3, PushStepsCoherent, EmitStepsCoherent, BackendCoherent DEF BuildStep

\* Every step preserves the invariant: an edit is seen by all builds under way.
LEMMA NextCoherent ==
  ASSUME Shape, AllServed, AllCoherent, [Next]_vars
  PROVE  AllCoherent'
PROOF
  <1>1. ASSUME NEW p \in Builder, StartBuild(p) \/ BuildStep(p) \/ Crash(p), NEW q \in Builder
        PROVE  Coherent(q)'
    <2>1. CASE q = p  BY <1>1, <2>1, OwnCoherent DEF AllServed, AllCoherent
    <2>2. CASE q # p
      <3>1. /\ UNCHANGED backend /\ pc'[q] = pc[q] /\ seen'[q] = seen[q]
            /\ req'[q] = req[q] /\ work'[q] = work[q] /\ out'[q] = out[q]
        BY <1>1, <2>2, OthersStay
      <3>2. files' = files
        BY <1>1 DEF StartBuild, BuildStep, Crash, RefuseBuild, LookupHit, LookupMiss, CompileStage,
             CompileFails, Link, LinkFails, TakeHit, RunBackend, BackendFails, OpenStore, SkipStore,
             WriteStore, WriteRemoved, Finish
      <3>3. Coherent(q) /\ Watched(q)'  BY <3>1, <3>2 DEF AllCoherent, Coherent, Watched
      <3> QED  BY <3>1, <3>3, FrameCoherent
    <2> QED  BY <2>1, <2>2
  <1>2. ASSUME ClearEntry \/ UNCHANGED vars, NEW q \in Builder
        PROVE  Coherent(q)'
    <2>1. /\ UNCHANGED <<backend, req, work, out, files, seen>>
          /\ pc'[q] = pc[q] \/ (pc[q] = "write" /\ pc'[q] = "orphan")
      BY <1>2 DEF ClearEntry, vars
    <2>2. Coherent(q) /\ Watched(q)'  BY <2>1 DEF AllCoherent, Coherent, Watched
    <2> QED  BY <2>1, <2>2, FrameCoherent DEF Storing
  <1>3. ASSUME EditFile, NEW q \in Builder
        PROVE  Coherent(q)'
    <2>1. UNCHANGED <<backend, req, work, out, pc>>  BY <1>3 DEF EditFile
    <2>2. PICK f \in Path, c \in Content :
            /\ files' = [files EXCEPT ![f] = c]
            /\ seen' = [p \in Builder |-> IF pc[p] \in {"idle", "done"} THEN seen[p]
                                          ELSE [seen[p] EXCEPT ![f] = @ \cup {c}]]
      BY <1>3 DEF EditFile
    <2>3. DOMAIN files = Path /\ DOMAIN seen[q] = Path  BY DEF Shape, TypeOK
    <2>4. \A g \in Path : seen[q][g] \subseteq seen'[q][g]
      BY <2>2, <2>3
    <2>5. Coherent(q)  BY DEF AllCoherent
    <2>6. Watched(q)'
      <3> SUFFICES ASSUME pc[q] \notin {"idle", "done"}, NEW g \in Path
                   PROVE  files'[g] \in seen'[q][g]
        BY <2>1 DEF Watched
      <3>1. CASE g = f  BY <2>2, <2>3, <3>1
      <3>2. CASE g # f
        <4>1. files'[g] = files[g]  BY <2>2, <2>3, <3>2
        <4>2. files[g] \in seen[q][g]  BY <2>5 DEF Coherent, Watched
        <4> QED  BY <2>4, <4>1, <4>2
      <3> QED  BY <3>1, <3>2
    <2> QED  BY <2>1, <2>4, <2>5, <2>6, FrameCoherent
  <1> QED  BY <1>1, <1>2, <1>3 DEF Next, AllCoherent

\* There are no builds yet.
LEMMA InitCoherent == Init => AllCoherent
PROOF
  <1> SUFFICES ASSUME Init PROVE AllCoherent  OBVIOUS
  <1>1. \A p \in Builder : work[p] = <<>> /\ out[p] = <<>> /\ pc[p] = "idle"  BY DEF Init
  <1> QED
    BY <1>1, VectorEmpty DEF AllCoherent, Coherent, Watched, MissesFresh, Misses, Unemitted, OutMade,
                             PendingMade, Storing

\* The stages that a build compiled have one Metal slot for each binding they
\* share: that of the map over the SPIR-V of all stages, hits and misses.
LEMMA MissesAgree ==
  ASSUME Shape, NEW p \in Builder, Coherent(p), Dense(req[p])
  PROVE  AgreeOnSlots(p, Misses(p) \cap DOMAIN out[p])
PROOF
  <1> DEFINE stages == Misses(p) \cap DOMAIN out[p]
             all == Union(Texts(p))
             Text(i) == work[p][i].artifact.spirv
  <1>1. ASSUME NEW i \in stages PROVE MslSlots(out[p][i]) = Slots(Text(i), all)
    <2>1. PICK t \in DOMAIN req[p].targets : req[p].targets[t] = "eMSL"  BY DEF Dense, WantsMsl
    <2>2. out[p][i] = BackendArtifact(backend, Text(i), req[p].targets, all)
      BY DEF Coherent, OutMade, Made, MapOf, Misses
    <2>3. backend.cross_compiler
      <3>1. req[p].targets # <<>>  BY <2>1, VectorEmpty
      <3> QED  BY <3>1 DEF Coherent, OutMade, Misses
    <2>4. out[p][i].cross_compiled
            = [n \in DOMAIN req[p].targets |-> CrossSource(Text(i), req[p].targets[n], all)]
      BY <2>2, <2>3 DEF BackendArtifact, StageArtifact
    <2>5. t \in DOMAIN out[p][i].cross_compiled /\ out[p][i].cross_compiled[t].target = "eMSL"
      BY <2>1, <2>4 DEF CrossSource, CrossCompiledSource
    <2> HIDE DEF all, Text
    <2> QED  BY <2>2, <2>5, SlotsOfMap
  <1> HIDE DEF all, Text, stages
  <1>2. ASSUME NEW i \in stages, NEW j \in stages,
               NEW c \in DOMAIN MslSlots(out[p][i]) \cap DOMAIN MslSlots(out[p][j])
        PROVE  MslSlots(out[p][i])[c] = MslSlots(out[p][j])[c]
    <2>1. \A text : \A d \in DOMAIN Slots(text, all) : Slots(text, all)[d] = Cardinality({x \in all : x < d})
      BY DEF Slots
    <2>2. MslSlots(out[p][i])[c] = Cardinality({x \in all : x < c})  BY <1>1, <2>1
    <2>3. MslSlots(out[p][j])[c] = Cardinality({x \in all : x < c})  BY <1>1, <2>1
    <2> QED  BY <2>2, <2>3
  <1> QED  BY <1>2 DEF AgreeOnSlots, stages

\* What a build compiles itself is current, and agrees on its slots, whatever
\* the files, the cache and its entries cut short hold: without any hypothesis
\* on writes or requests.
THEOREM CompiledIsCoherent == Spec => []CompiledCoherent
PROOF
  <1>1. ASSUME Shape, AllCoherent, NEW p \in Builder, Succeeded(p)
        PROVE  FreshOn(p, Misses(p)) /\ (Dense(req[p]) => AgreeOnSlots(p, Misses(p)))
    <2>1. Coherent(p)  BY <1>1 DEF AllCoherent
    <2>2. DOMAIN out[p] = DOMAIN work[p]
      <3>1. Len(out[p]) = StageCount(p)  BY <1>1 DEF Shape, Phases
      <3> QED  BY <1>1, <3>1, Lengths
    <2>3. \A i \in Misses(p) : i \in DOMAIN out[p] /\ ~work[p][i].hit  BY <2>2 DEF Misses
    <2>4. \A i \in Misses(p) : out[p][i].spirv = work[p][i].artifact.spirv
      <3>1. \A i : Made(p, i).spirv = work[p][i].artifact.spirv
        BY DEF Made, BackendArtifact, StageArtifact
      <3> QED  BY <2>1, <2>3, <3>1 DEF Coherent, OutMade
    <2>5. FreshOn(p, Misses(p))  BY <2>1, <2>4 DEF Coherent, MissesFresh, FreshOn
    <2>6. Misses(p) \cap DOMAIN out[p] = Misses(p)  BY <2>3
    <2> QED  BY <1>1, <2>1, <2>5, <2>6, MissesAgree
  <1>2. Shape /\ AllCoherent => CompiledCoherent  BY <1>1 DEF CompiledCoherent
  <1>3. Shape /\ AllServed /\ AllCoherent /\ [Next]_vars => AllCoherent'  BY NextCoherent
  <1> QED  BY <1>2, <1>3, InitCoherent, ServingInvariant, PTL DEF Spec
------------------------------------------------------------------------------
(***************************************************************************)
(* The cache is not seen: PipelineBuilder implements UncachedBuild         *)
(* (AnswersAsUncached).  A build that reports success must not have been   *)
(* helped to it by an entry, and one that fails must fail with the code of *)
(* the first thing that is wrong with its request, although hits skip the  *)
(* front end, the validator, the check of the map and the back end.  So    *)
(* the invariant says of each entry that its program compiles and links and *)
(* its stage passes the back end, and of each builder what its control     *)
(* point has shown.                                                        *)
(***************************************************************************)

\* A key stands for texts that compile, link and pass the back end.
KeyCompiles(k, r) == \A text \in KeyTexts(k) : CompileCode(backend, text, r) = "eSuccess"
KeyLinks(k) ==
  /\ k.program # <<>> => ~Overflows(Union(KeyTexts(k)))
  /\ k.targets # <<>> => backend.cross_compiler
KeyEmits(k) == BackendCode(backend, k.stage.source, k, Union(KeyTexts(k))) = "eSuccess"

\* The key does not say whether a build validates (makeKey): requests with one
\* key do so alike.
ValidatesAlike ==
  \A r, q \in Requests : \A i \in DOMAIN r.stages, j \in DOMAIN q.stages :
    MakeKey(r, i) = MakeKey(q, j) => r.validate = q.validate

\* Every entry of texts is of a program, and a stage, that pass all phases.
EntriesAnswer ==
  \A k \in DOMAIN cache : Inline(k) =>
    /\ KeyLinks(k) /\ KeyEmits(k)
    /\ \A r \in Requests : \A i \in DOMAIN r.stages : MakeKey(r, i) = k => KeyCompiles(k, r)

\* What each builder has found out, by its control point.
NotRefused(p) == pc[p] \in {"compile"} \cup Linked => ~Refused(p)

WorkPasses(p) ==
  \A i \in DOMAIN work[p] : Inline(Key(p, i)) =>
    /\ CompileCode(backend, req[p].stages[i].source, req[p]) = "eSuccess"
    /\ work[p][i].hit => KeyLinks(Key(p, i)) /\ KeyEmits(Key(p, i))

PendingEmits(p) == pc[p] \in Storing /\ Inline(StoreKey(p)) => KeyEmits(StoreKey(p))

OutEmits(p) == \A i \in DOMAIN out[p] : Inline(Key(p, i)) => KeyEmits(Key(p, i))

Passes(p) == NotRefused(p) /\ WorkPasses(p) /\ PendingEmits(p) /\ OutEmits(p)

AllPass == \A p \in Builder : Passes(p)
------------------------------------------------------------------------------
\* The codes of a text depend on what the key says of the request, and on
\* whether it validates.
LEMMA CodesByKey ==
  ASSUME NEW b, NEW text, NEW r, NEW q, NEW all
  PROVE  /\ r.validate = q.validate => CompileCode(b, text, r) = CompileCode(b, text, q)
         /\ r.targets = q.targets => BackendCode(b, text, r, all) = BackendCode(b, text, q, all)
PROOF BY DEF CompileCode, BackendCode, WantsMsl

\* The text of a stage is among those of its key.
LEMMA OwnText ==
  ASSUME NEW p, NEW i \in DOMAIN req[p].stages
  PROVE  req[p].stages[i].source \in KeyTexts(Key(p, i))
PROOF BY KeyFields DEF KeyTexts

\* A builder that a step passes by, or takes no further than it was.
LEMMA FramePasses ==
  ASSUME NEW p \in Builder, Passes(p),
         UNCHANGED backend, work'[p] = work[p], out'[p] = out[p], req'[p] = req[p],
         pc'[p] \in {"compile"} \cup Linked => pc[p] \in {"compile"} \cup Linked,
         pc'[p] \in Storing => pc[p] \in Storing
  PROVE  Passes(p)'
PROOF
  <1>1. \A i : Key(p, i)' = Key(p, i)  BY DEF Key
  <1>2. StoreKey(p)' = StoreKey(p)  BY DEF StoreKey, Emitting
  <1>3. NotRefused(p)'  BY DEF Passes, NotRefused, Refused
  <1>4. \A k : KeyLinks(k)' = KeyLinks(k) /\ KeyEmits(k)' = KeyEmits(k)  BY DEF KeyLinks, KeyEmits
  <1>5. WorkPasses(p)'  BY <1>1, <1>4 DEF Passes, WorkPasses
  <1>6. PendingEmits(p)'  BY <1>2, <1>4 DEF Passes, PendingEmits
  <1>7. OutEmits(p)'  BY <1>1, <1>4 DEF Passes, OutEmits
  <1> QED  BY <1>3, <1>5, <1>6, <1>7 DEF Passes

\* A build that begins, or dies, carries nothing.
LEMMA ResetPasses ==
  ASSUME NEW p \in Builder, work'[p] = <<>>, out'[p] = <<>>, pc'[p] \in {"phaseA", "idle"}
  PROVE  Passes(p)'
PROOF
  <1>1. DOMAIN work'[p] = {} /\ DOMAIN out'[p] = {} /\ pc'[p] \notin {"compile"} \cup Linked
        /\ pc'[p] \notin Storing
    BY VectorEmpty DEF Linked, Storing
  <1> QED  BY <1>1 DEF Passes, NotRefused, WorkPasses, PendingEmits, OutEmits

\* Phase A passes a stage.
LEMMA PushPasses ==
  ASSUME Shape, NEW p \in Builder, Passes(p), NEW a, NEW h,
         work' = [work EXCEPT ![p] = Append(@, [artifact |-> a, hit |-> h])],
         UNCHANGED <<backend, req, out>>, pc'[p] = "phaseA",
         Inline(Key(p, Current(p))) =>
           /\ CompileCode(backend, req[p].stages[Current(p)].source, req[p]) = "eSuccess"
           /\ h => KeyLinks(Key(p, Current(p))) /\ KeyEmits(Key(p, Current(p)))
  PROVE  Passes(p)'
PROOF
  <1> DEFINE item == [artifact |-> a, hit |-> h]
  <1>1. work'[p] = Append(work[p], item)  BY DEF Shape, Vectors
  <1>2. item.hit = h  OBVIOUS
  <1> HIDE DEF item
  <1>3. IsVector(work[p])  BY DEF Shape, Vectors
  <1>4. /\ DOMAIN work'[p] = DOMAIN work[p] \cup {Current(p)}
        /\ \A i \in DOMAIN work[p] : work'[p][i] = work[p][i]
        /\ work'[p][Current(p)] = item
    BY <1>1, <1>3, VectorAppend DEF Current
  <1>5. \A i : Key(p, i)' = Key(p, i)  BY DEF Key
  <1>6. \A k : KeyLinks(k)' = KeyLinks(k) /\ KeyEmits(k)' = KeyEmits(k)  BY DEF KeyLinks, KeyEmits
  <1>7. WorkPasses(p)'
    <2>1. ASSUME NEW i \in DOMAIN work'[p], Inline(Key(p, i))
          PROVE  /\ CompileCode(backend, req[p].stages[i].source, req[p]) = "eSuccess"
                 /\ work'[p][i].hit => KeyLinks(Key(p, i)) /\ KeyEmits(Key(p, i))
      <3>1. CASE i \in DOMAIN work[p]  BY <1>4, <2>1, <3>1 DEF Passes, WorkPasses
      <3>2. CASE i = Current(p)  BY <1>2, <1>4, <2>1, <3>2
      <3> QED  BY <1>4, <3>1, <3>2
    <2> QED  BY <1>5, <1>6, <2>1 DEF WorkPasses
  <1>8. NotRefused(p)' /\ PendingEmits(p)'  BY DEF NotRefused, PendingEmits, Linked, Storing
  <1>9. OutEmits(p)'  BY <1>5, <1>6 DEF Passes, OutEmits
  <1> QED  BY <1>7, <1>8, <1>9 DEF Passes

\* A hit has the codes of its entry.
LEMMA LookupHitPasses ==
  ASSUME Shape, EntriesAnswer, NEW p \in Builder, Passes(p), LookupHit(p)
  PROVE  Passes(p)'
PROOF
  <1> DEFINE n == Current(p)
  <1>1. PICK a \in Lookup(Key(p, n)) :
          /\ a # Missing
          /\ work' = [work EXCEPT ![p] = Append(@, [artifact |-> a, hit |-> TRUE])]
    BY DEF LookupHit, Key
  <1>2. /\ UNCHANGED <<backend, req, out>> /\ pc'[p] = "phaseA" /\ Len(work[p]) < StageCount(p)
    BY DEF LookupHit, InPhaseA
  <1>3. ASSUME Inline(Key(p, n))
        PROVE  /\ CompileCode(backend, req[p].stages[n].source, req[p]) = "eSuccess"
               /\ KeyLinks(Key(p, n)) /\ KeyEmits(Key(p, n))
    <2>1. Key(p, n) \in DOMAIN cache  BY <1>1 DEF Lookup
    <2>2. n \in DOMAIN req[p].stages  BY <1>2, CurrentStage
    <2>3. req[p] \in Requests  BY DEF Shape, TypeOK
    <2>4. KeyCompiles(Key(p, n), req[p])  BY <1>3, <2>1, <2>2, <2>3 DEF EntriesAnswer, Key
    <2>5. KeyLinks(Key(p, n)) /\ KeyEmits(Key(p, n))  BY <1>3, <2>1 DEF EntriesAnswer
    <2> QED  BY <2>2, <2>4, <2>5, OwnText DEF KeyCompiles
  <1> QED  BY <1>1, <1>2, <1>3, PushPasses

\* A miss has compiled.
LEMMA CompileStagePasses ==
  ASSUME Shape, NEW p \in Builder, Passes(p), CompileStage(p)
  PROVE  Passes(p)'
PROOF
  <1> DEFINE text == Source(p, Current(p))
             a == StageArtifact(text, Empty, <<>>)
  <1>1. /\ work' = [work EXCEPT ![p] = Append(@, [artifact |-> a, hit |-> FALSE])]
        /\ CompileCode(backend, text, req[p]) = "eSuccess"
    BY DEF CompileStage
  <1>2. UNCHANGED <<backend, req, out>> /\ pc'[p] = "phaseA" /\ Len(work[p]) < StageCount(p)
    BY DEF CompileStage, Shape, TypeOK, Phases
  <1>3. Inline(Key(p, Current(p))) => text = req[p].stages[Current(p)].source
    BY <1>2, CurrentStage, InlineSource DEF Source
  <1> HIDE DEF a, text
  <1> QED  BY <1>1, <1>2, <1>3, PushPasses

\* Phase A was left by a program with stages, in a program with a front end.
LEMMA MovePasses ==
  ASSUME Shape, NEW p \in Builder, Passes(p), LookupMiss(p) \/ Link(p)
  PROVE  Passes(p)'
PROOF
  <1>1. /\ UNCHANGED <<backend, req, work, out>> /\ ~Refused(p)
        /\ pc'[p] \in {"compile", "phaseB"}
    BY DEF LookupMiss, Link, EndPhaseA, Shape, TypeOK
  <1>2. \A i : Key(p, i)' = Key(p, i)  BY <1>1 DEF Key
  <1>3. \A k : KeyLinks(k)' = KeyLinks(k) /\ KeyEmits(k)' = KeyEmits(k)
    BY <1>1 DEF KeyLinks, KeyEmits
  <1>4. NotRefused(p)' /\ PendingEmits(p)'
    BY <1>1 DEF NotRefused, Refused, PendingEmits, Storing
  <1>5. WorkPasses(p)' /\ OutEmits(p)'
    BY <1>1, <1>2, <1>3 DEF Passes, WorkPasses, OutEmits
  <1> QED  BY <1>4, <1>5 DEF Passes
------------------------------------------------------------------------------
\* Phase B emits a stage that the back end passes.
LEMMA EmitPasses ==
  ASSUME Shape, NEW p \in Builder, Passes(p), NEW a, Emit(p, a), UNCHANGED <<backend, req>>,
         pc[p] \in Linked, pc'[p] = "phaseB", WorkPasses(p)',
         Inline(Key(p, Emitting(p))) => KeyEmits(Key(p, Emitting(p)))
  PROVE  Passes(p)'
PROOF
  <1>1. out'[p] = Append(out[p], a)  BY DEF Emit, Shape, Vectors
  <1>2. IsVector(out[p])  BY DEF Shape, Vectors
  <1>3. DOMAIN out'[p] = DOMAIN out[p] \cup {Emitting(p)}
    BY <1>1, <1>2, VectorAppend DEF Emitting
  <1>4. \A i : Key(p, i)' = Key(p, i)  BY DEF Key
  <1>5. \A k : KeyEmits(k)' = KeyEmits(k)  BY DEF KeyEmits
  <1>6. OutEmits(p)'
    <2>1. ASSUME NEW i \in DOMAIN out'[p], Inline(Key(p, i)) PROVE KeyEmits(Key(p, i))
      BY <1>3, <2>1 DEF Passes, OutEmits
    <2> QED  BY <1>4, <1>5, <2>1 DEF OutEmits
  <1>7. NotRefused(p)' /\ PendingEmits(p)'  BY DEF Passes, NotRefused, Refused, PendingEmits, Storing
  <1> QED  BY <1>6, <1>7 DEF Passes

\* A hit, or a stage that was on its way to the cache.
LEMMA EmitStepsPass ==
  ASSUME Shape, NEW p \in Builder, Passes(p),
         TakeHit(p) \/ SkipStore(p) \/ WriteStore(p) \/ WriteRemoved(p)
  PROVE  Passes(p)'
PROOF
  <1> DEFINE n == Emitting(p)
             a == work[p][n].artifact
  <1>1. Emit(p, a) /\ UNCHANGED <<backend, req, work>>
    BY DEF TakeHit, SkipStore, WriteStore, WriteRemoved, Pending
  <1>2. pc[p] \in Linked /\ pc'[p] = "phaseB"
    BY DEF TakeHit, SkipStore, WriteStore, WriteRemoved, InPhaseB, Shape, TypeOK, Linked
  <1>3. \A i : Key(p, i)' = Key(p, i)  BY <1>1 DEF Key
  <1>4. \A k : KeyLinks(k)' = KeyLinks(k) /\ KeyEmits(k)' = KeyEmits(k)
    BY <1>1 DEF KeyLinks, KeyEmits
  <1>5. WorkPasses(p)'  BY <1>1, <1>3, <1>4 DEF Passes, WorkPasses
  <1>6. Inline(Key(p, n)) => KeyEmits(Key(p, n))
    <2>1. CASE TakeHit(p)
      <3>1. n \in DOMAIN work[p] /\ work[p][n].hit
        BY <2>1, Lengths DEF TakeHit, InPhaseB, Emitting, Shape, Phases
      <3> QED  BY <3>1 DEF Passes, WorkPasses
    <2>2. CASE pc[p] \in Storing
      BY <2>2 DEF Passes, PendingEmits, StoreKey, Key
    <2> QED  BY <2>1, <2>2 DEF SkipStore, WriteStore, WriteRemoved, Storing
  <1> HIDE DEF a
  <1> QED  BY <1>1, <1>2, <1>5, <1>6, EmitPasses

\* The back end has passed a miss: of a text, what its key stands for.
LEMMA BackendPasses ==
  ASSUME Shape, Sound, NEW p \in Builder, Passes(p), RunBackend(p)
  PROVE  Passes(p)'
PROOF
  <1> DEFINE n == Emitting(p)
             text == work[p][n].artifact.spirv
             a == BackendArtifact(backend, text, req[p].targets, MapOf(p, n))
  <1>1. pc[p] = "phaseB" /\ Len(out[p]) < StageCount(p) /\ Len(work[p]) = StageCount(p)
    BY DEF RunBackend, InPhaseB, Shape, Phases
  <1>2. n \in DOMAIN work[p]  BY <1>1, Lengths DEF Emitting
  <1>3. /\ work' = [work EXCEPT ![p][n].artifact = a]
        /\ BackendCode(backend, text, req[p], MapOf(p, n)) = "eSuccess"
        /\ UNCHANGED <<backend, cache, req>>
    BY DEF RunBackend
  <1>4. Inline(Key(p, n)) => KeyEmits(Key(p, n))
    <2> SUFFICES ASSUME Inline(Key(p, n)) PROVE KeyEmits(Key(p, n))  OBVIOUS
    <2>1. text = Key(p, n).stage.source  BY <1>2, KeyFields DEF Sound, WorkSound
    <2>2. MapOf(p, n) = Union(KeyTexts(Key(p, n)))  BY <1>1, <1>2, MapIsUnion DEF Sound
    <2>3. Key(p, n).targets = req[p].targets  BY KeyFields
    <2> HIDE DEF text
    <2> QED  BY <1>3, <2>1, <2>2, <2>3, CodesByKey DEF KeyEmits
  <1> HIDE DEF a
  <1>5. /\ DOMAIN work'[p] = DOMAIN work[p]
        /\ \A j \in DOMAIN work[p] : work'[p][j].hit = work[p][j].hit
    <2> HIDE DEF n
    <2>1. work' = [work EXCEPT ![p][n].artifact = a]  BY <1>3
    <2>2. /\ DOMAIN work' = DOMAIN work /\ \A q \in Builder \ {p} : work'[q] = work[q]
          /\ DOMAIN work'[p] = DOMAIN work[p]
          /\ IsVector(work'[p]) /\ Len(work'[p]) = Len(work[p])
          /\ \A j \in DOMAIN work[p] \ {n} : work'[p][j] = work[p][j]
          /\ work'[p][n].artifact = a /\ work'[p][n].hit = work[p][n].hit
          /\ \A j \in DOMAIN work'[p] : DOMAIN work'[p][j] = {"artifact", "hit"}
      BY <1>2, <2>1, BackendWork, Zenon
    <2> QED  BY <2>2
  <1>6. \A i : Key(p, i)' = Key(p, i)  BY <1>3 DEF Key
  <1>7. \A k : KeyLinks(k)' = KeyLinks(k) /\ KeyEmits(k)' = KeyEmits(k)
    BY <1>3 DEF KeyLinks, KeyEmits
  <1>8. WorkPasses(p)'  BY <1>3, <1>5, <1>6, <1>7 DEF Passes, WorkPasses
  <1>9. pc[p] \in Linked  BY <1>1 DEF Linked
  <1>10. CASE UsesCache(p)
    <2>1. out' = out /\ pc'[p] = "store"  BY <1>10 DEF RunBackend, Shape, TypeOK
    <2>2. StoreKey(p)' = Key(p, n)  BY <1>3, <2>1 DEF StoreKey, Emitting, Key
    <2>3. PendingEmits(p)'  BY <1>4, <1>7, <2>2 DEF PendingEmits
    <2>4. NotRefused(p)' /\ OutEmits(p)'
      BY <1>3, <1>6, <1>7, <1>9, <2>1 DEF Passes, NotRefused, Refused, OutEmits
    <2> QED  BY <1>8, <2>3, <2>4 DEF Passes
  <1>11. CASE ~UsesCache(p)
    <2>1. Emit(p, a) /\ pc'[p] = "phaseB"  BY <1>1, <1>11 DEF RunBackend, a
    <2> QED  BY <1>3, <1>4, <1>8, <1>9, <2>1, EmitPasses
  <1> QED  BY <1>10, <1>11

\* The key that a store sets stands for a program that passes every phase.
LEMMA StoreAnswers ==
  ASSUME ValidatesAlike, Shape, Sound, EntriesAnswer, NEW p \in Builder, Served(p), Passes(p),
         pc[p] \in Storing, NEW f, Put(StoreKey(p), f), UNCHANGED backend
  PROVE  EntriesAnswer'
PROOF
  <1> DEFINE n == Emitting(p)
             k == Key(p, n)
  <1>1. StoreKey(p) = k  BY DEF StoreKey, Key
  <1>2. DOMAIN cache' = DOMAIN cache \cup {k}  BY <1>1 DEF Put
  <1>3. /\ n \in DOMAIN req[p].stages /\ n \in DOMAIN work[p] /\ DOMAIN work[p] = DOMAIN req[p].stages
        /\ req[p].stages # <<>> /\ req[p] \in Requests
    BY StoreKeyInKeys, Lengths, VectorEmpty DEF Storing, Shape, Phases, TypeOK
  <1>4. ASSUME Inline(k)
        PROVE  /\ KeyLinks(k) /\ KeyEmits(k)
               /\ \A r \in Requests : \A i \in DOMAIN r.stages : MakeKey(r, i) = k => KeyCompiles(k, r)
    <2>1. KeyEmits(k)  BY <1>1, <1>4 DEF Passes, PendingEmits
    <2>2. ~work[p][n].hit /\ pc[p] \in Linked  BY DEF Served, PendingReady, Storing, Linked
    <2>3. k.targets = req[p].targets /\ (k.program # <<>> => Dense(req[p]))  BY KeyFields
    <2>4. KeyLinks(k)  BY <1>3, <1>4, <2>2, <2>3 DEF Served, MissesLink, KeyLinks
    <2>5. KeyCompiles(k, req[p])
      <3>1. CASE Dense(req[p])
        <4>1. \A j : KeyTexts(Key(p, j)) = {req[p].stages[i].source : i \in DOMAIN req[p].stages}
          BY <1>3, <3>1, DenseTexts
        <4>2. \A j : Inline(Key(p, j))  BY <1>4, <4>1 DEF Inline
        <4> QED  BY <1>3, <4>1, <4>2 DEF Passes, WorkPasses, KeyCompiles
      <3>2. CASE ~Dense(req[p])
        <4>1. KeyTexts(k) = {req[p].stages[n].source}  BY <3>2, KeyFields DEF KeyTexts
        <4> QED  BY <1>3, <1>4, <4>1 DEF Passes, WorkPasses, KeyCompiles
      <3> QED  BY <3>1, <3>2
    <2>6. ASSUME NEW r \in Requests, NEW i \in DOMAIN r.stages, MakeKey(r, i) = k
          PROVE  KeyCompiles(k, r)
      <3>1. r.validate = req[p].validate  BY <1>3, <2>6 DEF ValidatesAlike, Key
      <3> QED  BY <2>5, <3>1, CodesByKey DEF KeyCompiles
    <2> QED  BY <2>1, <2>4, <2>6
  <1> HIDE DEF k
  <1>5. ASSUME NEW j \in DOMAIN cache', Inline(j)
        PROVE  /\ KeyLinks(j) /\ KeyEmits(j)
               /\ \A r \in Requests : \A i \in DOMAIN r.stages : MakeKey(r, i) = j => KeyCompiles(j, r)
    <2>1. CASE j = k  BY <1>4, <1>5, <2>1
    <2>2. CASE j \in DOMAIN cache  BY <1>5, <2>2 DEF EntriesAnswer
    <2> QED  BY <1>2, <2>1, <2>2
  <1> QED  BY <1>5 DEF EntriesAnswer, KeyLinks, KeyEmits, KeyCompiles

\* Entries that stay.
LEMMA FewerEntries ==
  ASSUME EntriesAnswer, DOMAIN cache' \subseteq DOMAIN cache, UNCHANGED backend
  PROVE  EntriesAnswer'
PROOF BY DEF EntriesAnswer, KeyLinks, KeyEmits, KeyCompiles
------------------------------------------------------------------------------
\* There are no builds and no entries yet.
LEMMA InitPasses == Init => AllPass /\ EntriesAnswer
PROOF
  <1> SUFFICES ASSUME Init PROVE AllPass /\ EntriesAnswer  OBVIOUS
  <1>1. \A p \in Builder : work[p] = <<>> /\ out[p] = <<>> /\ pc[p] = "idle"  BY DEF Init
  <1>2. DOMAIN cache = {}  BY DEF Init
  <1> QED
    BY <1>1, <1>2, VectorEmpty DEF AllPass, Passes, NotRefused, WorkPasses, PendingEmits, OutEmits,
                                   EntriesAnswer, Linked, Storing

\* What a step does to the builder that takes it.
LEMMA OwnPasses ==
  ASSUME Shape, Sound, EntriesAnswer, NEW p \in Builder, Passes(p),
         StartBuild(p) \/ BuildStep(p) \/ Crash(p)
  PROVE  Passes(p)'
PROOF
  <1>1. CASE StartBuild(p) \/ Crash(p)
    <2>1. work'[p] = <<>> /\ out'[p] = <<>> /\ pc'[p] \in {"phaseA", "idle"}
      BY <1>1 DEF StartBuild, Crash, Shape, TypeOK, Vectors
    <2> QED  BY <2>1, ResetPasses
  <1>2. CASE RefuseBuild(p) \/ CompileFails(p) \/ LinkFails(p) \/ BackendFails(p) \/ Finish(p)
    <2>1. UNCHANGED <<backend, req, work, out>> /\ pc'[p] = "done"
      BY <1>2 DEF RefuseBuild, CompileFails, LinkFails, BackendFails, Finish, Return, Shape, TypeOK
    <2> QED  BY <2>1, FramePasses DEF Linked, Storing
  <1>3. CASE OpenStore(p)
    <2>1. UNCHANGED <<backend, req, work, out>> /\ pc[p] = "store" /\ pc'[p] = "write"
      BY <1>3 DEF OpenStore, Shape, TypeOK
    <2> QED  BY <2>1, FramePasses DEF Linked, Storing
  <1> QED
    BY <1>1, <1>2, <1>3, LookupHitPasses, CompileStagePasses, MovePasses, BackendPasses, EmitStepsPass
       DEF BuildStep

\* Only a store adds an entry.
LEMMA BuilderAnswers ==
  ASSUME ValidatesAlike, Shape, Sound, EntriesAnswer, NEW p \in Builder, Served(p), Passes(p),
         StartBuild(p) \/ BuildStep(p) \/ Crash(p), UNCHANGED backend
  PROVE  EntriesAnswer'
PROOF
  <1>1. CASE OpenStore(p) \/ WriteStore(p)
    <2>1. pc[p] \in Storing /\ \E f : Put(StoreKey(p), f)
      BY <1>1 DEF OpenStore, WriteStore, Storing
    <2> QED  BY <2>1, StoreAnswers
  <1>2. CASE ~OpenStore(p) /\ ~WriteStore(p)
    <2>1. UNCHANGED cache
      BY <1>2 DEF StartBuild, BuildStep, Crash, RefuseBuild, LookupHit, LookupMiss, CompileStage,
           CompileFails, Link, LinkFails, TakeHit, RunBackend, BackendFails, SkipStore, WriteRemoved, Finish
    <2> QED  BY <2>1, FewerEntries
  <1> QED  BY <1>1, <1>2

\* Every step preserves the invariant, given Shape, Sound and Served.
LEMMA NextPasses ==
  ASSUME ValidatesAlike, Shape, Sound, AllServed, EntriesAnswer, AllPass, [Next]_vars
  PROVE  AllPass' /\ EntriesAnswer'
PROOF
  <1>1. ASSUME NEW p \in Builder, StartBuild(p) \/ BuildStep(p) \/ Crash(p)
        PROVE  AllPass' /\ EntriesAnswer'
    <2>1. ASSUME NEW q \in Builder PROVE Passes(q)'
      <3>1. Passes(q)  BY DEF AllPass
      <3>2. CASE q = p  BY <1>1, <3>1, <3>2, OwnPasses
      <3>3. CASE q # p
        <4>1. /\ UNCHANGED backend
              /\ pc'[q] = pc[q] /\ req'[q] = req[q] /\ work'[q] = work[q] /\ out'[q] = out[q]
          BY <1>1, <3>3, OthersStay
        <4> QED  BY <3>1, <4>1, FramePasses
      <3> QED  BY <3>2, <3>3
    <2>2. UNCHANGED backend
      BY <1>1 DEF StartBuild, BuildStep, Crash, RefuseBuild, LookupHit, LookupMiss, CompileStage,
           CompileFails, Link, LinkFails, TakeHit, RunBackend, BackendFails, OpenStore, SkipStore,
           WriteStore, WriteRemoved, Finish
    <2>3. Served(p) /\ Passes(p)  BY DEF AllServed, AllPass
    <2>4. EntriesAnswer'  BY <1>1, <2>2, <2>3, BuilderAnswers
    <2> QED  BY <2>1, <2>4 DEF AllPass
  <1>2. CASE ClearEntry \/ EditFile \/ UNCHANGED vars
    <2>1. /\ UNCHANGED <<backend, req, work, out>>
          /\ DOMAIN cache' \subseteq DOMAIN cache
          /\ \A p \in Builder : pc'[p] = pc[p] \/ (pc[p] = "write" /\ pc'[p] = "orphan")
      BY <1>2 DEF ClearEntry, EditFile, vars
    <2>2. ASSUME NEW p \in Builder PROVE Passes(p)'
      <3>1. Passes(p)  BY DEF AllPass
      <3>2. pc'[p] = pc[p] \/ (pc[p] = "write" /\ pc'[p] = "orphan")  BY <2>1
      <3> QED  BY <2>1, <3>1, <3>2, FramePasses DEF Linked, Storing
    <2> QED  BY <2>1, <2>2, FewerEntries DEF AllPass
  <1> QED  BY <1>1, <1>2 DEF Next

\* The inductive invariant.
Everything == Shape /\ Sound /\ AllServed /\ EntriesAnswer /\ AllPass

\* What each build has passed at each control point, and each entry's program.
THEOREM AnswerInvariant == ValidatesAlike => (Spec => []Everything)
PROOF
  <1> SUFFICES ASSUME ValidatesAlike PROVE Spec => []Everything  OBVIOUS
  <1>1. Shape /\ Sound /\ AllServed /\ EntriesAnswer /\ AllPass /\ [Next]_vars => AllPass' /\ EntriesAnswer'
    BY NextPasses
  <1>2. Shape /\ Sound /\ AllServed /\ EntriesAnswer /\ AllPass => Everything  BY DEF Everything
  <1> QED  BY <1>1, <1>2, InitPasses, ServingInvariant, PTL DEF Spec
------------------------------------------------------------------------------
\* Of a request of texts, all stages.
OfTexts(r) == NoSource \notin ProgramTexts(r)

\* The first stage that fails decides.
LEMMA FirstFailureAt ==
  ASSUME NEW codes, NEW n \in DOMAIN codes, DOMAIN codes \subseteq Nat, codes[n] # "eSuccess",
         \A i \in DOMAIN codes : i < n => codes[i] = "eSuccess"
  PROVE  FirstFailure(codes) = codes[n]
PROOF
  <1> DEFINE failing == {i \in DOMAIN codes : codes[i] # "eSuccess"}
  <1>1. n \in failing /\ \A j \in failing : n <= j  OBVIOUS
  <1>2. \A i \in failing : (\A j \in failing : i <= j) => i = n  BY <1>1
  <1> HIDE DEF failing
  <1>3. (CHOOSE i \in failing : \A j \in failing : i <= j) = n  BY <1>1, <1>2
  <1>4. failing # {}  BY <1>1
  <1> QED  BY <1>3, <1>4 DEF FirstFailure, failing

\* Without a failing stage there is no failure.
LEMMA NoFailure ==
  ASSUME NEW codes, \A i \in DOMAIN codes : codes[i] = "eSuccess"
  PROVE  FirstFailure(codes) = "eSuccess"
PROOF BY DEF FirstFailure

\* The keys of a request of texts are of texts; its map is that of its keys.
LEMMA TextKeys ==
  ASSUME Shape, NEW p \in Builder, OfTexts(req[p]), NEW i \in DOMAIN req[p].stages
  PROVE  /\ Inline(Key(p, i))
         /\ Union(KeyTexts(Key(p, i))) = ProgramBindings(req[p], i)
         /\ Dense(req[p]) => /\ KeyTexts(Key(p, i)) = ProgramTexts(req[p])
                             /\ Key(p, i).program # <<>>
PROOF
  <1>1. req[p].stages # <<>>  BY VectorEmpty
  <1>2. CASE Dense(req[p])
    <2>1. KeyTexts(Key(p, i)) = ProgramTexts(req[p]) /\ Key(p, i).program # <<>>
      BY <1>1, <1>2, DenseTexts DEF ProgramTexts, TextOf
    <2> QED  BY <1>2, <2>1 DEF Inline, OfTexts, ProgramBindings
  <1>3. CASE ~Dense(req[p])
    <2>1. KeyTexts(Key(p, i)) = {TextOf(req[p], i)}  BY <1>3, KeyFields DEF KeyTexts, TextOf
    <2>2. TextOf(req[p], i) # NoSource  BY DEF OfTexts, ProgramTexts
    <2>3. Union({TextOf(req[p], i)}) = Bindings[TextOf(req[p], i)]  BY DEF Union
    <2> QED  BY <1>3, <2>1, <2>2, <2>3 DEF Inline, ProgramBindings
  <1> QED  BY <1>2, <1>3

\* A vector is the function of its elements.
LEMMA VectorIsFunction ==
  ASSUME NEW s, IsVector(s)
  PROVE  s = [i \in DOMAIN s |-> s[i]]
PROOF
  <1> DEFINE R == {s[i] : i \in DOMAIN s}
  <1>1. s \in Seq(R)  BY DEF IsVector
  <1>2. s \in [1 .. Len(s) -> R]  BY <1>1, LenProperties
  <1> QED  BY <1>2

\* The codes of the stages that Phase A has passed.
LEMMA CompiledCodes ==
  ASSUME Shape, NEW p \in Builder, Passes(p), OfTexts(req[p]), NEW i \in DOMAIN work[p]
  PROVE  i \in DOMAIN req[p].stages /\ CompileCodes(backend, req[p])[i] = "eSuccess"
PROOF
  <1>1. i \in DOMAIN req[p].stages  BY Lengths
  <1> QED  BY <1>1, TextKeys DEF Passes, WorkPasses, CompileCodes, TextOf

\* The code of a stage that Phase B has emitted.
LEMMA EmittedCodes ==
  ASSUME Shape, NEW p \in Builder, Passes(p), OfTexts(req[p]), NEW i \in DOMAIN out[p]
  PROVE  i \in DOMAIN req[p].stages /\ BackendCodes(backend, req[p])[i] = "eSuccess"
PROOF
  <1>1. i \in DOMAIN req[p].stages  BY Lengths
  <1>2. KeyEmits(Key(p, i))  BY <1>1, TextKeys DEF Passes, OutEmits
  <1>3. BackendCode(backend, TextOf(req[p], i), req[p], ProgramBindings(req[p], i)) = "eSuccess"
    BY <1>1, <1>2, TextKeys, KeyFields, CodesByKey DEF KeyEmits, TextOf
  <1> QED  BY <1>1, <1>3 DEF BackendCodes

\* At the end of Phase A, all stages are known to compile.
LEMMA AllCompiled ==
  ASSUME Shape, NEW p \in Builder, Passes(p), OfTexts(req[p]), Len(work[p]) = StageCount(p)
  PROVE  FirstFailure(CompileCodes(backend, req[p])) = "eSuccess"
PROOF
  <1>1. DOMAIN CompileCodes(backend, req[p]) = DOMAIN work[p]  BY Lengths DEF CompileCodes
  <1> QED  BY <1>1, CompiledCodes, NoFailure

\* In Phase B, the program is known to link, from its first stage: a hit whose
\* entry says so, or a miss for which it was checked.
LEMMA AllLinked ==
  ASSUME Shape, NEW p \in Builder, Served(p), Passes(p), OfTexts(req[p]), pc[p] \in Linked
  PROVE  /\ Dense(req[p]) => ~Overflows(Union(ProgramTexts(req[p])))
         /\ req[p].targets # <<>> => backend.cross_compiler
PROOF
  <1>1. 1 \in DOMAIN work[p] /\ DOMAIN work[p] = DOMAIN req[p].stages
    <2>1. ~Refused(p)  BY DEF Passes, NotRefused
    <2>2. Len(work[p]) = StageCount(p)  BY DEF Shape, Phases, Linked
    <2>3. StageCount(p) # 0
      <3>1. IsVector(req[p].stages)  BY RequestsAssumption DEF Shape, TypeOK
      <3> QED  BY <2>1, <3>1, EmptySeq DEF Refused, StageCount, IsVector
    <2> QED  BY <2>2, <2>3, Lengths
  <1>2. Inline(Key(p, 1))  BY <1>1, TextKeys
  <1>3. CASE work[p][1].hit
    <2>1. KeyLinks(Key(p, 1))  BY <1>1, <1>2, <1>3 DEF Passes, WorkPasses
    <2> QED  BY <1>1, <2>1, TextKeys, KeyFields DEF KeyLinks
  <1>4. CASE ~work[p][1].hit
    BY <1>1, <1>2, <1>4, TextKeys DEF Served, MissesLink
  <1> QED  BY <1>3, <1>4
------------------------------------------------------------------------------
\* A build that returns replies, if the answer is right.
LEMMA ReturnReplies ==
  ASSUME Shape, NEW p \in Builder, NEW c, Return(p, c), UNCHANGED backend, pc[p] \notin {"idle", "done"},
         OfTexts(req[p]) =>
           /\ AnswerCode(backend, req[p]) = c
           /\ c = "eSuccess" =>
                out[p] = [i \in DOMAIN req[p].stages |-> FreshArtifact(backend, MakeKey(req[p], i))]
  PROVE  Uncached!Reply(p)
PROOF
  <1>1. /\ pc'[p] = "done" /\ code'[p] = c /\ UNCHANGED <<req, out>>
        /\ \A q \in Builder \ {p} : pc'[q] = pc[q] /\ code'[q] = code[q]
    BY DEF Return, Shape, TypeOK
  <1>2. Status(p) = "busy" /\ Status(p)' = "done" /\ \A q \in Builder \ {p} : Status(q)' = Status(q)
    BY <1>1 DEF Status
  <1>3. \A q \in Builder \ {p} : Answer(q)' = Answer(q)  BY <1>1 DEF Answer
  <1>4. Answer(p)' = [code |-> c, stages |-> IF c = "eSuccess" THEN out[p] ELSE <<>>]
    BY <1>1 DEF Answer
  <1>5. Answered(Answer(p)', backend, req[p])
    BY <1>4 DEF Answered, AnswerTo, OfTexts
  <1>6. [q \in Builder |-> Status(q)]' = [[q \in Builder |-> Status(q)] EXCEPT ![p] = "done"]
    BY <1>2
  <1>7. [q \in Builder |-> Answer(q)]' = [[q \in Builder |-> Answer(q)] EXCEPT ![p] = Answer(p)']
    BY <1>3
  <1> QED  BY <1>1, <1>2, <1>5, <1>6, <1>7 DEF Uncached!Reply

\* No stages, or no front end.
LEMMA RefuseReplies ==
  ASSUME Shape, NEW p \in Builder, RefuseBuild(p)
  PROVE  Uncached!Reply(p)
PROOF
  <1> DEFINE c == IF req[p].stages = <<>> THEN "eCompileFailed" ELSE "eUnavailable"
  <1>1. Return(p, c) /\ UNCHANGED backend /\ Refused(p) /\ pc[p] \notin {"idle", "done"}
    BY DEF RefuseBuild
  <1>2. AnswerCode(backend, req[p]) = c /\ c # "eSuccess"  BY <1>1 DEF Refused, AnswerCode
  <1> HIDE DEF c
  <1> QED  BY <1>1, <1>2, ReturnReplies

\* The first stage that does not compile.
LEMMA CompileReplies ==
  ASSUME Shape, NEW p \in Builder, Passes(p), CompileFails(p)
  PROVE  Uncached!Reply(p)
PROOF
  <1> DEFINE n == Current(p)
             c == CompileCode(backend, Source(p, n), req[p])
  <1>1. /\ Return(p, c) /\ UNCHANGED backend /\ c # "eSuccess" /\ pc[p] = "compile"
        /\ Len(work[p]) < StageCount(p)
    BY DEF CompileFails, Shape, Phases
  <1>2. ~Refused(p)  BY <1>1 DEF Passes, NotRefused
  <1>3. n \in DOMAIN req[p].stages /\ \A i \in DOMAIN req[p].stages : i < n => i \in DOMAIN work[p]
    BY <1>1, Lengths DEF Current
  <1>4. ASSUME OfTexts(req[p]) PROVE AnswerCode(backend, req[p]) = c
    <2> DEFINE codes == CompileCodes(backend, req[p])
    <2>1. DOMAIN codes = DOMAIN req[p].stages /\ DOMAIN codes \subseteq Nat
      BY Lengths DEF CompileCodes
    <2>2. \A i \in DOMAIN codes : i < n => codes[i] = "eSuccess"
      BY <1>3, <1>4, <2>1, CompiledCodes
    <2>3. codes[n] = c
      BY <1>3, <1>4, TextKeys, InlineSource DEF CompileCodes, TextOf, Source
    <2> HIDE DEF codes, n, c
    <2>4. FirstFailure(codes) = c  BY <1>1, <1>3, <2>1, <2>2, <2>3, FirstFailureAt
    <2> QED  BY <1>1, <1>2, <2>4 DEF AnswerCode, Refused, codes
  <1> HIDE DEF c
  <1> QED  BY <1>1, <1>4, ReturnReplies

\* Its Metal map does not fit, or its targets have no cross-compiler.
LEMMA LinkReplies ==
  ASSUME Shape, Sound, NEW p \in Builder, Passes(p), LinkFails(p)
  PROVE  Uncached!Reply(p)
PROOF
  <1> DEFINE c == LinkCode(p)
  <1>1. /\ Return(p, c) /\ UNCHANGED backend /\ c # "eSuccess" /\ pc[p] = "phaseA"
        /\ ~Refused(p) /\ Len(work[p]) = StageCount(p)
    BY DEF LinkFails, EndPhaseA
  <1>2. ASSUME OfTexts(req[p]) PROVE AnswerCode(backend, req[p]) = c
    <2>1. FirstFailure(CompileCodes(backend, req[p])) = "eSuccess"  BY <1>1, <1>2, AllCompiled
    <2>2. ASSUME Dense(req[p]) PROVE Texts(p) = ProgramTexts(req[p])
      <3>1. DOMAIN work[p] = DOMAIN req[p].stages  BY <1>1, Lengths
      <3>2. \A i \in DOMAIN work[p] : work[p][i].artifact.spirv = TextOf(req[p], i)
        BY <1>2, <3>1, TextKeys DEF Sound, WorkSound, TextOf
      <3> QED  BY <3>1, <3>2 DEF Texts, ProgramTexts
    <2> QED  BY <1>1, <2>1, <2>2 DEF LinkCode, AnswerCode, Refused
  <1> HIDE DEF c
  <1> QED  BY <1>1, <1>2, ReturnReplies

\* The first stage that the back end does not pass.
LEMMA BackendReplies ==
  ASSUME Shape, Sound, NEW p \in Builder, Served(p), Passes(p), BackendFails(p)
  PROVE  Uncached!Reply(p)
PROOF
  <1> DEFINE n == Emitting(p)
             c == BackendCode(backend, work[p][n].artifact.spirv, req[p], MapOf(p, n))
  <1>1. /\ Return(p, c) /\ UNCHANGED backend /\ c # "eSuccess" /\ pc[p] = "phaseB" /\ pc[p] \in Linked
        /\ Len(out[p]) < StageCount(p) /\ Len(work[p]) = StageCount(p)
    BY DEF BackendFails, InPhaseB, Linked, Shape, Phases
  <1>2. ~Refused(p)  BY <1>1 DEF Passes, NotRefused
  <1>3. /\ n \in DOMAIN req[p].stages /\ n \in DOMAIN work[p]
        /\ \A i \in DOMAIN req[p].stages : i < n => i \in DOMAIN out[p]
    BY <1>1, Lengths DEF Emitting
  <1>4. ASSUME OfTexts(req[p]) PROVE AnswerCode(backend, req[p]) = c
    <2> DEFINE codes == BackendCodes(backend, req[p])
    <2>1. DOMAIN codes = DOMAIN req[p].stages /\ DOMAIN codes \subseteq Nat
      BY Lengths DEF BackendCodes
    <2>2. \A i \in DOMAIN codes : i < n => codes[i] = "eSuccess"
      BY <1>3, <1>4, <2>1, EmittedCodes
    <2>3. codes[n] = c
      <3>1. Inline(Key(p, n)) /\ Union(KeyTexts(Key(p, n))) = ProgramBindings(req[p], n)
        BY <1>3, <1>4, TextKeys
      <3>2. work[p][n].artifact.spirv = TextOf(req[p], n)
        BY <1>3, <3>1 DEF Sound, WorkSound, TextOf
      <3>3. MapOf(p, n) = ProgramBindings(req[p], n)  BY <1>1, <1>3, <3>1, MapIsUnion DEF Sound
      <3> QED  BY <1>3, <3>2, <3>3 DEF BackendCodes
    <2> HIDE DEF codes, n, c
    <2>4. FirstFailure(codes) = c  BY <1>1, <1>3, <2>1, <2>2, <2>3, FirstFailureAt
    <2>5. FirstFailure(CompileCodes(backend, req[p])) = "eSuccess"  BY <1>1, <1>4, AllCompiled
    <2>6. /\ Dense(req[p]) => ~Overflows(Union(ProgramTexts(req[p])))
          /\ req[p].targets # <<>> => backend.cross_compiler
      BY <1>1, <1>4, AllLinked
    <2> QED  BY <1>2, <2>4, <2>5, <2>6 DEF AnswerCode, Refused, codes
  <1> HIDE DEF c
  <1> QED  BY <1>1, <1>4, ReturnReplies

\* Every stage has been emitted.
LEMMA FinishReplies ==
  ASSUME WholeWrites, Shape, Sound, NEW p \in Builder, Served(p), Passes(p), Finish(p)
  PROVE  Uncached!Reply(p)
PROOF
  <1>1. /\ Return(p, "eSuccess") /\ UNCHANGED backend /\ pc[p] = "phaseB" /\ pc[p] \in Linked
        /\ Len(out[p]) = StageCount(p) /\ Len(work[p]) = StageCount(p)
    BY DEF Finish, Linked, Shape, Phases
  <1>2. ~Refused(p)  BY <1>1 DEF Passes, NotRefused
  <1>3. DOMAIN out[p] = DOMAIN req[p].stages  BY <1>1, Lengths
  <1>4. ASSUME OfTexts(req[p])
        PROVE  /\ AnswerCode(backend, req[p]) = "eSuccess"
               /\ out[p] = [i \in DOMAIN req[p].stages |-> FreshArtifact(backend, MakeKey(req[p], i))]
    <2>1. FirstFailure(BackendCodes(backend, req[p])) = "eSuccess"
      <3>1. DOMAIN BackendCodes(backend, req[p]) = DOMAIN out[p]  BY <1>3 DEF BackendCodes
      <3> QED  BY <1>4, <3>1, EmittedCodes, NoFailure
    <2>2. FirstFailure(CompileCodes(backend, req[p])) = "eSuccess"  BY <1>1, <1>4, AllCompiled
    <2>3. /\ Dense(req[p]) => ~Overflows(Union(ProgramTexts(req[p])))
          /\ req[p].targets # <<>> => backend.cross_compiler
      BY <1>1, <1>4, AllLinked
    <2>4. AnswerCode(backend, req[p]) = "eSuccess"
      BY <1>2, <2>1, <2>2, <2>3 DEF AnswerCode, Refused
    <2>5. \A i \in DOMAIN out[p] : out[p][i] = FreshArtifact(backend, MakeKey(req[p], i))
      BY <1>3, <1>4, TextKeys DEF Sound, OutSound, Fresh, Key
    <2>6. out[p] = [i \in DOMAIN out[p] |-> out[p][i]]
      <3>1. IsVector(out[p])  BY DEF Shape, Vectors
      <3> QED  BY <3>1, VectorIsFunction
    <2> QED  BY <1>3, <2>4, <2>5, <2>6
  <1> QED  BY <1>1, <1>4, ReturnReplies
------------------------------------------------------------------------------
\* A build that begins asks.
LEMMA StartAsks ==
  ASSUME Shape, NEW p \in Builder, StartBuild(p)
  PROVE  Uncached!Ask(p)
PROOF
  <1>1. /\ pc[p] \in {"idle", "done"} /\ pc'[p] = "phaseA" /\ UNCHANGED backend
        /\ \A q \in Builder \ {p} : pc'[q] = pc[q] /\ code'[q] = code[q] /\ out'[q] = out[q]
        /\ \E r \in Requests : req' = [req EXCEPT ![p] = r]
    BY DEF StartBuild, Shape, TypeOK, Vectors
  <1>2. Status(p) # "busy" /\ Status(p)' = "busy" /\ Answer(p)' = "no reply"
    BY <1>1 DEF Status, Answer
  <1>3. \A q \in Builder \ {p} : Status(q)' = Status(q) /\ Answer(q)' = Answer(q)
    BY <1>1 DEF Status, Answer
  <1>4. [q \in Builder |-> Status(q)]' = [[q \in Builder |-> Status(q)] EXCEPT ![p] = "busy"]
    BY <1>2, <1>3
  <1>5. [q \in Builder |-> Answer(q)]' = [[q \in Builder |-> Answer(q)] EXCEPT ![p] = "no reply"]
    BY <1>2, <1>3
  <1> QED  BY <1>1, <1>2, <1>4, <1>5 DEF Uncached!Ask, Uncached!NoReply

\* A process that is killed in a build.
LEMMA CrashDies ==
  ASSUME Shape, NEW p \in Builder, Crash(p)
  PROVE  Uncached!Die(p)
PROOF
  <1>1. /\ pc[p] \notin {"idle", "done"} /\ pc'[p] = "idle" /\ UNCHANGED <<backend, req, code>>
        /\ \A q \in Builder \ {p} : pc'[q] = pc[q] /\ out'[q] = out[q]
    BY DEF Crash, Shape, TypeOK, Vectors
  <1>2. Status(p) = "busy" /\ Status(p)' = "idle" /\ Answer(p)' = Answer(p)
    BY <1>1 DEF Status, Answer
  <1>3. \A q \in Builder \ {p} : Status(q)' = Status(q) /\ Answer(q)' = Answer(q)
    BY <1>1 DEF Status, Answer
  <1>4. [q \in Builder |-> Status(q)]' = [[q \in Builder |-> Status(q)] EXCEPT ![p] = "idle"]
    BY <1>2, <1>3
  <1>5. [q \in Builder |-> Answer(q)]' = [q \in Builder |-> Answer(q)]
    BY <1>2, <1>3
  <1> QED  BY <1>1, <1>2, <1>4, <1>5 DEF Uncached!Die

\* The variables of UncachedBuild.
Seen == <<backend, [p \in Builder |-> Status(p)], req, [p \in Builder |-> Answer(p)]>>

\* What happens inside a build, or to the files, is not seen.
LEMMA Unseen ==
  ASSUME UNCHANGED <<backend, req, code>>,
         \A p \in Builder : Status(p)' = Status(p),
         \A p \in Builder : pc[p] = "done" => out'[p] = out[p]
  PROVE  UNCHANGED Seen
PROOF
  <1>1. \A p \in Builder : pc'[p] = "done" <=> pc[p] = "done"  BY DEF Status
  <1>2. \A p \in Builder : Answer(p)' = Answer(p)  BY <1>1 DEF Answer
  <1>3. [p \in Builder |-> Answer(p)]' = [p \in Builder |-> Answer(p)]  BY <1>2
  <1>4. [p \in Builder |-> Status(p)]' = [p \in Builder |-> Status(p)]  OBVIOUS
  <1> QED  BY <1>3, <1>4 DEF Seen

\* So it is with all steps of build() that do not return.
LEMMA QuietStepsUnseen ==
  ASSUME Shape, NEW p \in Builder,
         LookupHit(p) \/ LookupMiss(p) \/ CompileStage(p) \/ Link(p) \/ TakeHit(p) \/ RunBackend(p)
         \/ OpenStore(p) \/ SkipStore(p) \/ WriteStore(p) \/ WriteRemoved(p)
  PROVE  UNCHANGED Seen
PROOF
  <1>1. /\ UNCHANGED <<backend, req, code>>
        /\ pc[p] \notin {"idle", "done"} /\ pc'[p] \notin {"idle", "done"}
    BY DEF LookupHit, LookupMiss, CompileStage, Link, TakeHit, RunBackend, OpenStore, SkipStore,
           WriteStore, WriteRemoved, InPhaseA, EndPhaseA, InPhaseB, Shape, TypeOK
  <1>2. \A q \in Builder \ {p} : pc'[q] = pc[q] /\ out'[q] = out[q]
    BY OthersStay DEF BuildStep
  <1> QED  BY <1>1, <1>2, Unseen DEF Status

\* Every step of a builder, or around it, is one of the abstract build or none.
LEMMA StepSimulation ==
  ASSUME WholeWrites, Everything, [Next]_vars
  PROVE  [Uncached!Next]_Seen
PROOF
  <1>1. Shape /\ Sound  BY DEF Everything
  <1>2. ASSUME NEW p \in Builder, StartBuild(p) \/ BuildStep(p) \/ Crash(p)
        PROVE  [Uncached!Next]_Seen
    <2>1. Served(p) /\ Passes(p)  BY DEF Everything, AllServed, AllPass
    <2>2. CASE RefuseBuild(p) \/ CompileFails(p) \/ LinkFails(p) \/ BackendFails(p) \/ Finish(p)
      <3>1. Uncached!Reply(p)
        BY <1>1, <2>1, <2>2, RefuseReplies, CompileReplies, LinkReplies, BackendReplies, FinishReplies
      <3> QED  BY <3>1 DEF Uncached!Next
    <2>3. CASE StartBuild(p)  BY <1>1, <2>3, StartAsks DEF Uncached!Next
    <2>4. CASE Crash(p)  BY <1>1, <2>4, CrashDies DEF Uncached!Next
    <2> QED  BY <1>1, <1>2, <2>2, <2>3, <2>4, QuietStepsUnseen DEF BuildStep
  <1>3. CASE ClearEntry
    <2>1. /\ UNCHANGED <<backend, req, code, out>>
          /\ \A p \in Builder : pc'[p] = pc[p] \/ (pc[p] = "write" /\ pc'[p] = "orphan")
      BY <1>3 DEF ClearEntry
    <2>2. \A p \in Builder : Status(p)' = Status(p)  BY <2>1 DEF Status
    <2> QED  BY <2>1, <2>2, Unseen
  <1>4. CASE EditFile \/ UNCHANGED vars
    <2>1. UNCHANGED <<backend, req, code, out, pc>>  BY <1>4 DEF EditFile, vars
    <2>2. \A p \in Builder : Status(p)' = Status(p)  BY <2>1 DEF Status
    <2> QED  BY <2>1, <2>2, Unseen
  <1> QED  BY <1>2, <1>3, <1>4 DEF Next

\* The program starts as the abstract one does.
LEMMA InitSimulation == Init => Uncached!Init
PROOF
  <1> SUFFICES ASSUME Init PROVE Uncached!Init  OBVIOUS
  <1>1. (CHOOSE r \in Requests : TRUE) \in Requests  BY RequestsAssumption
  <1>2. \A p \in Builder : Status(p) = "idle" /\ Answer(p) = "no reply"  BY DEF Init, Status, Answer
  <1> QED  BY <1>1, <1>2 DEF Init, Uncached!Init, Uncached!NoReply

\* Refinement: with whole writes, any number of builders, crashes, clears and
\* edits, a build of texts answers (code and stages) as one without a cache
\* would (lines 60-268), provided that the requests that share a key ask for
\* validation alike: the key does not say whether they do.
THEOREM CacheIsUnseen == WholeWrites /\ ValidatesAlike => (Spec => AnswersAsUncached)
PROOF
  <1> SUFFICES ASSUME WholeWrites, ValidatesAlike PROVE Spec => AnswersAsUncached  OBVIOUS
  <1>1. Everything /\ [Next]_vars => [Uncached!Next]_Seen  BY StepSimulation
  <1>2. Spec => []Everything  BY AnswerInvariant
  <1> QED
    BY <1>1, <1>2, InitSimulation, PTL DEF Spec, AnswersAsUncached, Uncached!Spec, Seen
------------------------------------------------------------------------------
\* What the run PipelineValidate refutes holds of texts as soon as requests
\* with one key validate alike: no build that asks for validation returns
\* SPIR-V that its validator rejects, whoever stored it, and even when writes
\* stop early.
THEOREM OutputIsValidated == ValidatesAlike /\ TextsOnly => (Spec => []OutputValidated)
PROOF
  <1> SUFFICES ASSUME ValidatesAlike, TextsOnly PROVE Spec => []OutputValidated  OBVIOUS
  <1>1. ASSUME Everything, NEW p \in Builder, NEW i \in DOMAIN out[p],
               req[p].validate, backend.validator = "spirv-tools"
        PROVE  out[p][i].spirv \notin InvalidSpirv
    <2>1. Shape /\ Served(p) /\ Passes(p)  BY <1>1 DEF Everything, AllServed, AllPass
    <2>2. i \in DOMAIN work[p] /\ i \in DOMAIN req[p].stages  BY <2>1, Lengths
    <2>3. OfTexts(req[p])
      <3>1. req[p] \in Requests  BY <2>1 DEF Shape, TypeOK
      <3> QED  BY <3>1 DEF TextsOnly, OfTexts, ProgramTexts, TextOf
    <2>4. Inline(Key(p, i))  BY <2>1, <2>2, <2>3, TextKeys
    <2>5. out[p][i].spirv = req[p].stages[i].source  BY <2>1, <2>4 DEF Served, OutReady
    <2>6. CompileCode(backend, req[p].stages[i].source, req[p]) = "eSuccess"
      BY <2>1, <2>2, <2>4 DEF Passes, WorkPasses
    <2> QED  BY <1>1, <2>5, <2>6 DEF CompileCode
  <1>2. Everything => OutputValidated  BY <1>1 DEF OutputValidated
  <1> QED  BY <1>2, AnswerInvariant, PTL

===============================================================================
