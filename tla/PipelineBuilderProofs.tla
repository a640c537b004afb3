------------------------ MODULE PipelineBuilderProofs ------------------------
(***************************************************************************)
(* Proofs about PipelineBuilder, for any number of builders, requests,     *)
(* builds, crashes, edits and clears.  Shape says where a build is in its  *)
(* two phases; Sound says what the artifacts it carries from one phase to  *)
(* the next, and the entries of the cache, stand for.                      *)
(***************************************************************************)
EXTENDS PipelineBuilder, SequenceTheorems, TLAPS

Key(p, i) == MakeKey(req[p], i)

Vectors ==
  /\ DOMAIN work = Builder /\ DOMAIN out = Builder
  /\ \A p \in Builder : IsVector(work[p]) /\ IsVector(out[p])
  /\ \A p \in Builder : \A i \in DOMAIN work[p] : DOMAIN work[p][i] = {"artifact", "hit"}

\* Phase A has passed Len(work) stages, Phase B has emitted Len(out) of them.
Phases ==
  \A p \in Builder :
    /\ Len(out[p]) <= Len(work[p])
    /\ pc[p] = "compile" => Len(work[p]) < StageCount(p)
    /\ pc[p] \in {"phaseB", "store", "write", "orphan"} => Len(work[p]) = StageCount(p)
    /\ pc[p] \in {"store", "write", "orphan"} => Len(out[p]) < StageCount(p)
    /\ Succeeded(p) => Len(out[p]) = StageCount(p)

Shape == TypeOK /\ Vectors /\ Phases
------------------------------------------------------------------------------
\* A vector is a function on an initial segment of the integers.
LEMMA VectorLength ==
  ASSUME NEW s, IsVector(s)
  PROVE  Len(s) \in Nat /\ DOMAIN s = 1 .. Len(s)
PROOF BY LenProperties DEF IsVector

\* The empty vector.
LEMMA VectorEmpty == IsVector(<<>>) /\ Len(<<>>) = 0 /\ DOMAIN <<>> = {}
PROOF BY EmptySeq DEF IsVector

\* A sequence over any set is a vector.
LEMMA SeqIsVector ==
  ASSUME NEW S, NEW s \in Seq(S)
  PROVE  IsVector(s)
PROOF
  <1> DEFINE R == {s[i] : i \in DOMAIN s}
  <1>1. Len(s) \in Nat /\ DOMAIN s = 1 .. Len(s) /\ s \in [1 .. Len(s) -> S]  BY LenProperties
  <1>2. s \in [1 .. Len(s) -> R]  BY <1>1
  <1> QED  BY <1>1, <1>2, SeqDef DEF IsVector

\* push_back.
LEMMA VectorAppend ==
  ASSUME NEW s, IsVector(s), NEW e
  PROVE  /\ IsVector(Append(s, e))
         /\ Len(Append(s, e)) = Len(s) + 1
         /\ DOMAIN Append(s, e) = DOMAIN s \cup {Len(s) + 1}
         /\ \A i \in DOMAIN s : Append(s, e)[i] = s[i]
         /\ Append(s, e)[Len(s) + 1] = e
PROOF
  <1> DEFINE R == {s[i] : i \in DOMAIN s}
             S == R \cup {e}
  <1>1. s \in Seq(R) /\ R \subseteq S  BY DEF IsVector
  <1>2. s \in Seq(S)  BY <1>1, SeqMonotonic, Zenon
  <1>3. e \in S  OBVIOUS
  <1> HIDE DEF S
  <1>4. /\ Append(s, e) \in Seq(S)
        /\ Len(Append(s, e)) = Len(s) + 1
        /\ \A i \in 1 .. Len(s) : Append(s, e)[i] = s[i]
        /\ Append(s, e)[Len(s) + 1] = e
    BY <1>2, <1>3, AppendProperties
  <1>5. IsVector(Append(s, e))  BY <1>4, SeqIsVector
  <1>6. Len(s) \in Nat /\ DOMAIN s = 1 .. Len(s)  BY VectorLength
  <1>7. DOMAIN Append(s, e) = 1 .. Len(s) + 1  BY <1>4, <1>5, VectorLength
  <1> QED  BY <1>4, <1>5, <1>6, <1>7

\* An assignment to one element.
LEMMA VectorExcept ==
  ASSUME NEW s, IsVector(s), NEW t, DOMAIN t = DOMAIN s, t = [i \in DOMAIN t |-> t[i]]
  PROVE  IsVector(t) /\ Len(t) = Len(s)
PROOF
  <1>1. Len(s) \in Nat /\ DOMAIN s = 1 .. Len(s)  BY VectorLength
  <1> DEFINE R == {t[i] : i \in DOMAIN t}
  <1>2. t \in [1 .. Len(s) -> R]  BY <1>1
  <1>3. t \in Seq(R)  BY <1>1, <1>2, SeqDef
  <1>4. Len(t) = Len(s)  BY <1>1, <1>2, <1>3, LenProperties
  <1> QED  BY <1>3, <1>4 DEF IsVector
------------------------------------------------------------------------------
\* The stages and the targets of a request.
LEMMA RequestVectors ==
  ASSUME TypeOK, NEW p \in Builder
  PROVE  /\ req[p] \in Requests
         /\ StageCount(p) \in Nat /\ DOMAIN req[p].stages = 1 .. StageCount(p)
         /\ IsVector(req[p].targets)
PROOF
  <1>1. req[p] \in Requests  BY DEF TypeOK
  <1>2. IsVector(req[p].stages) /\ IsVector(req[p].targets)  BY <1>1, RequestsAssumption
  <1> QED  BY <1>1, <1>2, VectorLength DEF StageCount

\* Where the vectors of a builder end.
LEMMA Lengths ==
  ASSUME Shape, NEW p \in Builder
  PROVE  /\ Len(work[p]) \in Nat /\ DOMAIN work[p] = 1 .. Len(work[p])
         /\ Len(out[p]) \in Nat /\ DOMAIN out[p] = 1 .. Len(out[p])
         /\ StageCount(p) \in Nat /\ DOMAIN req[p].stages = 1 .. StageCount(p)
         /\ Len(out[p]) <= Len(work[p]) /\ Len(work[p]) <= StageCount(p)
PROOF
  <1>1. IsVector(work[p]) /\ IsVector(out[p])  BY DEF Shape, Vectors
  <1> QED  BY <1>1, VectorLength, RequestVectors DEF Shape, TypeOK, Phases
------------------------------------------------------------------------------
\* No build has started.
LEMMA InitShape == Init => Shape
PROOF
  <1> SUFFICES ASSUME Init PROVE Shape  OBVIOUS
  <1>1. \A p \in Builder : work[p] = <<>> /\ out[p] = <<>> /\ pc[p] = "idle"  BY DEF Init
  <1>2. DOMAIN cache = {}  BY DEF Init
  <1>3. (CHOOSE r \in Requests : TRUE) \in Requests  BY RequestsAssumption
  <1>4. \A p \in Builder : StageCount(p) \in Nat
    BY <1>3, RequestsAssumption, VectorLength DEF Init, StageCount
  <1>5. Vectors  BY <1>1, VectorEmpty DEF Vectors, Init
  <1>6. Phases  BY <1>1, <1>4, VectorEmpty DEF Phases, Succeeded
  <1>7. \A p \in Builder : Len(out[p]) <= StageCount(p) /\ Len(work[p]) <= StageCount(p)
    BY <1>1, <1>4, VectorEmpty
  <1>8. TypeOK  BY <1>2, <1>3, <1>7, FilesAssumption DEF Init, TypeOK, Codes
  <1> QED  BY <1>5, <1>6, <1>8 DEF Shape

\* A build begins with empty results.
LEMMA StartShape ==
  ASSUME Shape, NEW p \in Builder, StartBuild(p)
  PROVE  Shape'
PROOF
  <1> USE DEF StartBuild
  <1>1. req' \in [Builder -> Requests]  BY DEF Shape, TypeOK
  <1>2. \A q \in Builder : StageCount(q)' \in Nat
    BY <1>1, RequestsAssumption, VectorLength DEF StageCount
  <1>3. \A q \in Builder \ {p} : /\ work'[q] = work[q] /\ out'[q] = out[q] /\ req'[q] = req[q]
                                 /\ pc'[q] = pc[q] /\ code'[q] = code[q]
    BY DEF Shape, Vectors, TypeOK
  <1>4. work'[p] = <<>> /\ out'[p] = <<>> /\ pc'[p] = "phaseA"  BY DEF Shape, Vectors, TypeOK
  <1>5. Vectors'  BY <1>3, <1>4, VectorEmpty DEF Shape, Vectors
  <1>6. Phases'
    BY <1>2, <1>3, <1>4, VectorEmpty DEF Shape, Phases, Succeeded, StageCount
  <1>7. \A q \in Builder : (Len(out[q]) <= StageCount(q) /\ Len(work[q]) <= StageCount(q))'
    BY <1>2, <1>3, <1>4, VectorEmpty DEF Shape, TypeOK, StageCount
  <1>8. seen' \in [Builder -> [Path -> SUBSET Content]]  BY DEF Shape, TypeOK
  <1>9. TypeOK'  BY <1>1, <1>7, <1>8 DEF Shape, TypeOK, Codes
  <1> QED  BY <1>5, <1>6, <1>9 DEF Shape

\* A return, with success only when every stage is emitted.
LEMMA ReturnShape ==
  ASSUME Shape, NEW p \in Builder, NEW c \in Codes, Return(p, c),
         UNCHANGED <<backend, files, cache, builds, edits, clears>>,
         c = "eSuccess" => Len(out[p]) = StageCount(p)
  PROVE  Shape'
PROOF
  <1> USE DEF Return
  <1>1. \A q \in Builder \ {p} : pc'[q] = pc[q] /\ code'[q] = code[q]  BY DEF Shape, TypeOK
  <1>2. pc'[p] = "done" /\ code'[p] = c  BY DEF Shape, TypeOK
  <1>3. Vectors'  BY DEF Shape, Vectors
  <1>4. Phases'  BY <1>1, <1>2 DEF Shape, Phases, Succeeded, StageCount
  <1>5. TypeOK'  BY DEF Shape, TypeOK, StageCount
  <1> QED  BY <1>3, <1>4, <1>5 DEF Shape

\* Phase A passes a stage, from the cache or from the front end.
LEMMA PushShape ==
  ASSUME Shape, NEW p \in Builder, LookupHit(p) \/ CompileStage(p)
  PROVE  Shape'
PROOF
  <1>1. PICK item : /\ work' = [work EXCEPT ![p] = Append(@, item)]
                    /\ DOMAIN item = {"artifact", "hit"}
    <2> DEFINE Item(a, h) == [artifact |-> a, hit |-> h]
    <2>1. \A a, h : DOMAIN Item(a, h) = {"artifact", "hit"}  OBVIOUS
    <2>2. PICK a, h : work' = [work EXCEPT ![p] = Append(@, Item(a, h))]
      BY DEF LookupHit, CompileStage
    <2> HIDE DEF Item
    <2> QED  BY <2>1, <2>2
  <1>2. /\ Len(work[p]) < StageCount(p)
        /\ pc' \in [Builder -> {"phaseA"} \cup {pc[q] : q \in Builder}]
        /\ pc'[p] = "phaseA" /\ \A q \in Builder \ {p} : pc'[q] = pc[q]
        /\ UNCHANGED <<backend, files, cache, req, out, code, seen, builds, edits, clears>>
    BY DEF LookupHit, CompileStage, InPhaseA, Shape, Phases, TypeOK
  <1>3. work'[p] = Append(work[p], item) /\ \A q \in Builder \ {p} : work'[q] = work[q]
    BY <1>1 DEF Shape, Vectors
  <1>4. IsVector(work[p])  BY DEF Shape, Vectors
  <1>5. /\ IsVector(work'[p])
        /\ Len(work'[p]) = Len(work[p]) + 1
        /\ \A i \in DOMAIN work'[p] : DOMAIN work'[p][i] = {"artifact", "hit"}
    BY <1>1, <1>3, <1>4, VectorAppend DEF Shape, Vectors
  <1>6. Vectors'  BY <1>1, <1>2, <1>3, <1>5 DEF Shape, Vectors
  <1>7. StageCount(p)' = StageCount(p) /\ Len(work'[p]) <= StageCount(p)
    BY <1>2, <1>5, Lengths DEF StageCount
  <1>8. Len(out[p]) <= Len(work'[p])  BY <1>5, Lengths
  <1>9. Phases'  BY <1>2, <1>3, <1>7, <1>8 DEF Shape, Phases, Succeeded, StageCount
  <1>10. TypeOK'  BY <1>2, <1>3, <1>7 DEF Shape, TypeOK, StageCount
  <1> QED  BY <1>6, <1>9, <1>10 DEF Shape

\* A step to another control point.
LEMMA MoveShape ==
  ASSUME Shape, NEW p \in Builder, LookupMiss(p) \/ Link(p)
  PROVE  Shape'
PROOF
  <1>1. /\ UNCHANGED <<backend, files, cache, req, work, out, code, seen, builds, edits, clears>>
        /\ \A q \in Builder \ {p} : pc'[q] = pc[q]
        /\ pc' \in [Builder -> {"compile", "phaseB"} \cup {pc[q] : q \in Builder}]
    BY DEF LookupMiss, Link, Shape, TypeOK
  <1>2. \/ pc'[p] = "compile" /\ Len(work[p]) < StageCount(p)
        \/ pc'[p] = "phaseB" /\ Len(work[p]) = StageCount(p)
    BY DEF LookupMiss, Link, Shape, TypeOK, InPhaseA, EndPhaseA
  <1>3. Vectors'  BY <1>1 DEF Shape, Vectors
  <1>4. Phases'  BY <1>1, <1>2 DEF Shape, Phases, Succeeded, StageCount
  <1>5. TypeOK'  BY <1>1 DEF Shape, TypeOK, StageCount
  <1> QED  BY <1>3, <1>4, <1>5 DEF Shape

\* The keys a builder stores under belong to requests.
LEMMA StoreKeyInKeys ==
  ASSUME Shape, NEW p \in Builder, pc[p] \in {"store", "write", "orphan"}
  PROVE  Emitting(p) \in DOMAIN req[p].stages /\ Emitting(p) \in DOMAIN work[p] /\ StoreKey(p) \in Keys
PROOF
  <1>1. Len(out[p]) < StageCount(p) /\ Len(work[p]) = StageCount(p)  BY DEF Shape, Phases
  <1>2. Emitting(p) \in DOMAIN req[p].stages /\ Emitting(p) \in DOMAIN work[p]
    BY <1>1, Lengths DEF Emitting
  <1>3. req[p] \in Requests  BY DEF Shape, TypeOK
  <1> QED  BY <1>2, <1>3 DEF StoreKey, Keys

\* Phase B emits a stage.
LEMMA EmitShape ==
  ASSUME Shape, NEW p \in Builder, NEW a, Emit(p, a),
         Len(out[p]) < Len(work[p]),
         pc' = [pc EXCEPT ![p] = "phaseB"],
         pc[p] \in {"phaseB", "store", "write", "orphan"},
         DOMAIN cache' \subseteq Keys,
         UNCHANGED <<backend, files, req, code, seen, builds, edits, clears>>,
         DOMAIN work' = DOMAIN work, \A q \in Builder \ {p} : work'[q] = work[q],
         IsVector(work'[p]), Len(work'[p]) = Len(work[p]),
         \A i \in DOMAIN work'[p] : DOMAIN work'[p][i] = {"artifact", "hit"}
  PROVE  Shape'
PROOF
  <1>1. out'[p] = Append(out[p], a) /\ \A q \in Builder \ {p} : out'[q] = out[q]
    BY DEF Emit, Shape, Vectors
  <1>2. IsVector(out[p])  BY DEF Shape, Vectors
  <1>3. IsVector(out'[p]) /\ Len(out'[p]) = Len(out[p]) + 1  BY <1>1, <1>2, VectorAppend
  <1>4. DOMAIN out' = Builder  BY DEF Emit, Shape, Vectors
  <1>5. Vectors'
    <2>1. DOMAIN work' = Builder /\ DOMAIN out' = Builder  BY <1>4 DEF Shape, Vectors
    <2>2. ASSUME NEW q \in Builder
          PROVE  /\ IsVector(work'[q]) /\ IsVector(out'[q])
                 /\ \A i \in DOMAIN work'[q] : DOMAIN work'[q][i] = {"artifact", "hit"}
      <3>1. CASE q = p  BY <1>3, <3>1
      <3>2. CASE q # p
        <4>1. work'[q] = work[q] /\ out'[q] = out[q]  BY <1>1, <3>2
        <4>2. /\ IsVector(work[q]) /\ IsVector(out[q])
              /\ \A i \in DOMAIN work[q] : DOMAIN work[q][i] = {"artifact", "hit"}
          BY DEF Shape, Vectors
        <4> QED  BY <4>1, <4>2
      <3> QED  BY <3>1, <3>2
    <2> QED  BY <2>1, <2>2 DEF Vectors
  <1>6. Len(out'[p]) <= Len(work'[p]) /\ Len(work'[p]) <= StageCount(p)  BY <1>3, Lengths
  <1>7. pc' \in [Builder -> {"idle", "phaseA", "compile", "phaseB", "store", "write", "orphan", "done"}]
    BY DEF Shape, TypeOK
  <1>8. pc'[p] = "phaseB" /\ \A q \in Builder \ {p} : pc'[q] = pc[q]  BY DEF Shape, TypeOK
  <1>9. Phases'  BY <1>1, <1>6, <1>8 DEF Shape, Phases, Succeeded, StageCount
  <1>10. \A q \in Builder : (Len(out[q]) <= StageCount(q) /\ Len(work[q]) <= StageCount(q))'
    BY <1>1, <1>6, Lengths DEF Shape, TypeOK, StageCount
  <1>11. TypeOK'  BY <1>7, <1>10 DEF Shape, TypeOK
  <1> QED  BY <1>5, <1>9, <1>11 DEF Shape

\* The four ways to emit a stage that is complete.
LEMMA EmitStepsShape ==
  ASSUME Shape, NEW p \in Builder, TakeHit(p) \/ SkipStore(p) \/ WriteStore(p) \/ WriteRemoved(p)
  PROVE  Shape'
PROOF
  <1>1. Len(out[p]) < Len(work[p]) /\ pc[p] \in {"phaseB", "store", "write", "orphan"}
    BY Lengths DEF TakeHit, SkipStore, WriteStore, WriteRemoved, InPhaseB, Shape, Phases
  <1>2. pc' = [pc EXCEPT ![p] = "phaseB"]
    BY DEF TakeHit, SkipStore, WriteStore, WriteRemoved, InPhaseB, Shape, TypeOK
  <1>3. PICK a : Emit(p, a)  BY DEF TakeHit, SkipStore, WriteStore, WriteRemoved
  <1>4. DOMAIN cache' \subseteq Keys
    BY StoreKeyInKeys DEF TakeHit, SkipStore, WriteStore, WriteRemoved, Put, Shape, TypeOK
  <1>5. UNCHANGED <<backend, files, req, work, code, seen, builds, edits, clears>>
    BY DEF TakeHit, SkipStore, WriteStore, WriteRemoved
  <1>6. IsVector(work[p]) /\ \A i \in DOMAIN work[p] : DOMAIN work[p][i] = {"artifact", "hit"}
    BY DEF Shape, Vectors
  <1> QED  BY <1>1, <1>2, <1>3, <1>4, <1>5, <1>6, EmitShape

\* What RunBackend leaves of the work of its builder.
LEMMA BackendWork ==
  ASSUME Shape, NEW p \in Builder, NEW i \in DOMAIN work[p], NEW a,
         work' = [work EXCEPT ![p][i].artifact = a]
  PROVE  /\ DOMAIN work' = DOMAIN work /\ \A q \in Builder \ {p} : work'[q] = work[q]
         /\ DOMAIN work'[p] = DOMAIN work[p]
         /\ IsVector(work'[p]) /\ Len(work'[p]) = Len(work[p])
         /\ \A j \in DOMAIN work[p] \ {i} : work'[p][j] = work[p][j]
         /\ work'[p][i].artifact = a /\ work'[p][i].hit = work[p][i].hit
         /\ \A j \in DOMAIN work'[p] : DOMAIN work'[p][j] = {"artifact", "hit"}
PROOF
  <1> DEFINE t == [work[p] EXCEPT ![i] = [@ EXCEPT !.artifact = a]]
  <1>1. DOMAIN work = Builder /\ IsVector(work[p]) /\ DOMAIN work[p][i] = {"artifact", "hit"}
    BY DEF Shape, Vectors
  <1>2. work' = [work EXCEPT ![p] = t]  OBVIOUS
  <1>3. DOMAIN work' = DOMAIN work /\ work'[p] = t /\ \A q \in Builder \ {p} : work'[q] = work[q]
    BY <1>1, <1>2
  <1>4. DOMAIN t = DOMAIN work[p] /\ t = [j \in DOMAIN t |-> t[j]]  OBVIOUS
  <1>5. IsVector(t) /\ Len(t) = Len(work[p])
    <2> HIDE DEF t
    <2> QED  BY <1>1, <1>4, VectorExcept
  <1>6. /\ \A j \in DOMAIN work[p] \ {i} : t[j] = work[p][j]
        /\ t[i].artifact = a /\ t[i].hit = work[p][i].hit /\ DOMAIN t[i] = {"artifact", "hit"}
    BY <1>1
  <1>7. \A j \in DOMAIN t : DOMAIN t[j] = {"artifact", "hit"}
    BY <1>4, <1>6 DEF Shape, Vectors
  <1> HIDE DEF t
  <1> QED  BY <1>3, <1>4, <1>5, <1>6, <1>7

\* RunBackend completes a stage: it is emitted, or goes to the cache first.
LEMMA BackendShape ==
  ASSUME Shape, NEW p \in Builder, RunBackend(p)
  PROVE  Shape'
PROOF
  <1>1. pc[p] = "phaseB" /\ Len(out[p]) < StageCount(p) /\ Len(work[p]) = StageCount(p)
    BY DEF RunBackend, InPhaseB, Shape, Phases
  <1>2. Emitting(p) \in DOMAIN work[p]  BY <1>1, Lengths DEF Emitting
  <1>3. PICK a : work' = [work EXCEPT ![p][Emitting(p)].artifact = a] /\ (~UsesCache(p) => Emit(p, a))
    BY DEF RunBackend
  <1>4. /\ DOMAIN work' = DOMAIN work /\ \A q \in Builder \ {p} : work'[q] = work[q]
        /\ IsVector(work'[p]) /\ Len(work'[p]) = Len(work[p])
        /\ \A j \in DOMAIN work'[p] : DOMAIN work'[p][j] = {"artifact", "hit"}
    BY <1>2, <1>3, BackendWork
  <1>5. UNCHANGED <<backend, files, cache, req, code, seen, builds, edits, clears>>
    BY DEF RunBackend
  <1>6. CASE UsesCache(p)
    <2>1. out' = out /\ pc' = [pc EXCEPT ![p] = "store"]  BY <1>6 DEF RunBackend
    <2>2. pc'[p] = "store" /\ \A q \in Builder \ {p} : pc'[q] = pc[q]  BY <2>1 DEF Shape, TypeOK
    <2>3. Vectors'  BY <1>4, <2>1 DEF Shape, Vectors
    <2>4. Phases'
      BY <1>1, <1>4, <1>5, <2>1, <2>2 DEF Shape, Phases, Succeeded, StageCount
    <2>5. \A q \in Builder : (Len(out[q]) <= StageCount(q) /\ Len(work[q]) <= StageCount(q))'
      BY <1>4, <1>5, <2>1, Lengths DEF StageCount
    <2>6. pc' \in [Builder -> {"idle", "phaseA", "compile", "phaseB", "store", "write", "orphan", "done"}]
      BY <2>1 DEF Shape, TypeOK
    <2>7. TypeOK'  BY <1>5, <2>5, <2>6 DEF Shape, TypeOK
    <2> QED  BY <2>3, <2>4, <2>7 DEF Shape
  <1>7. CASE ~UsesCache(p)
    <2>1. Emit(p, a) /\ pc' = [pc EXCEPT ![p] = "phaseB"]
      BY <1>1, <1>3, <1>7 DEF RunBackend, Shape, TypeOK
    <2>2. Len(out[p]) < Len(work[p])  BY <1>1
    <2>3. DOMAIN cache' \subseteq Keys  BY <1>5 DEF Shape, TypeOK
    <2> QED  BY <1>1, <1>4, <1>5, <2>1, <2>2, <2>3, EmitShape
  <1> QED  BY <1>6, <1>7

\* The entry of a stage is opened.
LEMMA OpenShape ==
  ASSUME Shape, NEW p \in Builder, OpenStore(p)
  PROVE  Shape'
PROOF
  <1> USE DEF OpenStore
  <1>1. pc'[p] = "write" /\ \A q \in Builder \ {p} : pc'[q] = pc[q]  BY DEF Shape, TypeOK
  <1>2. Vectors'  BY DEF Shape, Vectors
  <1>3. Phases'  BY <1>1 DEF Shape, Phases, Succeeded, StageCount
  <1>4. DOMAIN cache' \subseteq Keys  BY StoreKeyInKeys DEF Put, Shape, TypeOK
  <1>5. TypeOK'  BY <1>4 DEF Shape, TypeOK, StageCount
  <1> QED  BY <1>2, <1>3, <1>5 DEF Shape

\* A process that dies forgets its work.
LEMMA CrashShape ==
  ASSUME Shape, NEW p \in Builder, Crash(p)
  PROVE  Shape'
PROOF
  <1> USE DEF Crash
  <1>1. \A q \in Builder \ {p} : pc'[q] = pc[q] /\ work'[q] = work[q] /\ out'[q] = out[q]
    BY DEF Shape, TypeOK, Vectors
  <1>2. pc'[p] = "idle" /\ work'[p] = <<>> /\ out'[p] = <<>>  BY DEF Shape, TypeOK, Vectors
  <1>3. Vectors'  BY <1>1, <1>2, VectorEmpty DEF Shape, Vectors
  <1>4. Phases'  BY <1>1, <1>2, VectorEmpty DEF Shape, Phases, Succeeded, StageCount
  <1>5. \A q \in Builder : (Len(out[q]) <= StageCount(q) /\ Len(work[q]) <= StageCount(q))'
    BY <1>1, <1>2, VectorEmpty, Lengths DEF StageCount
  <1>6. TypeOK'  BY <1>5 DEF Shape, TypeOK
  <1> QED  BY <1>3, <1>4, <1>6 DEF Shape

\* Neither a clear nor an edit touches what a builder has computed.
LEMMA EnvironmentShape ==
  ASSUME Shape, ClearEntry \/ EditFile
  PROVE  Shape'
PROOF
  <1>1. UNCHANGED <<backend, req, work, out, code>>  BY DEF ClearEntry, EditFile
  <1>2. pc' \in [Builder -> {"idle", "phaseA", "compile", "phaseB", "store", "write", "orphan", "done"}]
    BY DEF ClearEntry, EditFile, Shape, TypeOK
  <1>3. \A q \in Builder : pc'[q] = pc[q] \/ (pc[q] = "write" /\ pc'[q] = "orphan")
    BY DEF ClearEntry, EditFile, Shape, TypeOK
  <1>4. DOMAIN cache' \subseteq Keys  BY DEF ClearEntry, EditFile, Shape, TypeOK
  <1>5. files' \in [Path -> Content] /\ seen' \in [Builder -> [Path -> SUBSET Content]]
    <2>1. CASE ClearEntry  BY <2>1 DEF ClearEntry, Shape, TypeOK
    <2>2. CASE EditFile
      <3>1. PICK f \in Path, c \in Content :
              /\ files' = [files EXCEPT ![f] = c]
              /\ seen' = [p \in Builder |-> IF pc[p] \in {"idle", "done"} THEN seen[p]
                                            ELSE [seen[p] EXCEPT ![f] = @ \cup {c}]]
        BY <2>2 DEF EditFile
      <3>2. files' \in [Path -> Content]  BY <3>1 DEF Shape, TypeOK
      <3>3. \A p \in Builder : [seen[p] EXCEPT ![f] = @ \cup {c}] \in [Path -> SUBSET Content]
        BY DEF Shape, TypeOK
      <3>4. seen' \in [Builder -> [Path -> SUBSET Content]]  BY <3>1, <3>3 DEF Shape, TypeOK
      <3> QED  BY <3>2, <3>4
    <2> QED  BY <2>1, <2>2
  <1>6. Vectors'  BY <1>1 DEF Shape, Vectors
  <1>7. Phases'  BY <1>1, <1>3 DEF Shape, Phases, Succeeded, StageCount
  <1>8. TypeOK'  BY <1>1, <1>2, <1>4, <1>5 DEF Shape, TypeOK, StageCount
  <1> QED  BY <1>6, <1>7, <1>8 DEF Shape

\* The five returns of build().
LEMMA ReturnStepsShape ==
  ASSUME Shape, NEW p \in Builder,
         RefuseBuild(p) \/ CompileFails(p) \/ LinkFails(p) \/ BackendFails(p) \/ Finish(p)
  PROVE  Shape'
PROOF
  <1>1. CASE RefuseBuild(p)
    BY <1>1, ReturnShape, "eCompileFailed" \in Codes, "eUnavailable" \in Codes DEF RefuseBuild, Codes
  <1>2. CASE CompileFails(p)
    <2> DEFINE c == CompileCode(backend, Source(p, Current(p)), req[p])
    <2>1. c \in Codes  BY DEF CompileCode, Codes
    <2>2. /\ Return(p, c) /\ c # "eSuccess"
          /\ UNCHANGED <<backend, files, cache, builds, edits, clears>>
      BY <1>2 DEF CompileFails
    <2> HIDE DEF c
    <2> QED  BY <2>1, <2>2, ReturnShape
  <1>3. CASE LinkFails(p)
    <2>1. LinkCode(p) \in Codes  BY DEF LinkCode, Codes
    <2> QED  BY <1>3, <2>1, ReturnShape DEF LinkFails
  <1>4. CASE BackendFails(p)
    <2> DEFINE c == BackendCode(backend, work[p][Emitting(p)].artifact.spirv, req[p], MapOf(p, Emitting(p)))
    <2>1. c \in Codes  BY DEF BackendCode, Codes
    <2>2. /\ Return(p, c) /\ c # "eSuccess"
          /\ UNCHANGED <<backend, files, cache, builds, edits, clears>>
      BY <1>4 DEF BackendFails
    <2> HIDE DEF c
    <2> QED  BY <2>1, <2>2, ReturnShape
  <1>5. CASE Finish(p)
    BY <1>5, ReturnShape, "eSuccess" \in Codes DEF Finish, Codes
  <1> QED  BY <1>1, <1>2, <1>3, <1>4, <1>5

\* Shape is inductive.
LEMMA NextShape == Shape /\ [Next]_vars => Shape'
PROOF
  <1> SUFFICES ASSUME Shape, [Next]_vars PROVE Shape'  OBVIOUS
  <1>1. CASE UNCHANGED vars
    BY <1>1 DEF vars, Shape, TypeOK, Vectors, Phases, Succeeded, StageCount
  <1>2. ASSUME NEW p \in Builder, StartBuild(p) \/ BuildStep(p) \/ Crash(p) PROVE Shape'
    BY <1>2, StartShape, PushShape, MoveShape, EmitStepsShape, BackendShape, OpenShape, CrashShape,
       ReturnStepsShape DEF BuildStep
  <1> QED  BY <1>1, <1>2, EnvironmentShape DEF Next

\* Types: no build ever passes, or emits, more stages than it was given, and
\* every entry of the cache has the key of a request.
THEOREM TypeCorrect == Spec => []TypeOK
PROOF
  <1>1. Spec => []Shape  BY InitShape, NextShape, PTL DEF Spec
  <1>2. Shape => TypeOK  BY DEF Shape
  <1> QED  BY <1>1, <1>2, PTL
------------------------------------------------------------------------------
(***************************************************************************)
(* What the artifacts of a build stand for.  A stage of texts carries its  *)
(* own SPIR-V from Phase A on, a hit what a fresh build makes; so does     *)
(* whatever waits to be written, was written, or was returned.             *)
(***************************************************************************)
Fresh(p, i) == FreshArtifact(backend, Key(p, i))

WorkSound ==
  \A p \in Builder : \A i \in DOMAIN work[p] : Inline(Key(p, i)) =>
    /\ work[p][i].artifact.spirv = req[p].stages[i].source
    /\ WholeWrites /\ work[p][i].hit => work[p][i].artifact = Fresh(p, i)

PendingSound ==
  \A p \in Builder : pc[p] \in {"store", "write", "orphan"} /\ Inline(StoreKey(p)) =>
    Pending(p) = FreshArtifact(backend, StoreKey(p))

OutSound ==
  WholeWrites =>
    \A p \in Builder : \A i \in DOMAIN out[p] : Inline(Key(p, i)) => out[p][i] = Fresh(p, i)

\* A write that is not cut short leaves a whole entry or none of it.
WholeEntries ==
  WholeWrites =>
    \A k \in DOMAIN cache : Inline(k) =>
      cache[k] \in {Whole(FreshArtifact(backend, k)), Truncated(FreshArtifact(backend, k))}

Sound == WorkSound /\ PendingSound /\ OutSound /\ CacheSound /\ WholeEntries
------------------------------------------------------------------------------
\* A decoded artifact has the SPIR-V that was stored, however short the file.
LEMMA DecodeSpirv ==
  ASSUME NEW f, NEW spirv, NEW reflection, NEW cross_compiled,
         f.artifact = StageArtifact(spirv, reflection, cross_compiled),
         NEW a \in Decode(f), a # Missing
  PROVE  a.spirv = spirv
PROOF
  <1>1. \A x : [f.artifact EXCEPT !.cross_compiled = x].spirv = spirv  BY DEF StageArtifact
  <1>2. \A x, y : StageArtifact(spirv, x, y).spirv = spirv  BY DEF StageArtifact
  <1>3. f.artifact.spirv = spirv  BY <1>2
  <1> DEFINE art == f.artifact
             Bare(r) == StageArtifact(art.spirv, r, <<>>)
  <1>4. \/ a = Missing \/ a = art \/ a = Bare(Padding) \/ a = Bare(art.reflection)
        \/ \E x : a = [art EXCEPT !.cross_compiled = x]
    BY DEF Decode
  <1>5. Bare(Padding).spirv = spirv /\ Bare(art.reflection).spirv = spirv  BY <1>2, <1>3
  <1>6. ASSUME NEW x, a = [art EXCEPT !.cross_compiled = x] PROVE a.spirv = spirv  BY <1>1, <1>6
  <1> HIDE DEF art, Bare
  <1>7. art.spirv = spirv  BY <1>3 DEF art
  <1> QED  BY <1>4, <1>5, <1>6, <1>7

\* A whole file decodes to its artifact, an empty one to nothing.
LEMMA DecodeWhole ==
  ASSUME NEW art, Len(art.cross_compiled) \in Nat
  PROVE  Decode(Whole(art)) = {art} /\ Decode(Truncated(art)) = {Missing}
PROOF
  <1> DEFINE w == Whole(art)
             t == Truncated(art)
  <1>1. w.artifact = art /\ w.len = FieldCount(art) /\ FieldCount(art) \in Nat /\ FieldCount(art) >= 5
    BY DEF Whole, File, FieldCount, HeadFields
  <1>2. ~Torn(w)  BY <1>1 DEF Torn
  <1>3. t.len = 0  BY DEF Truncated, File
  <1> HIDE DEF w, t
  <1>4. Decode(w) = {art}  BY <1>1, <1>2 DEF Decode
  <1>5. Decode(t) = {Missing}  BY <1>3 DEF Decode
  <1> QED  BY <1>4, <1>5 DEF w, t

\* The sources of a fresh artifact are as many as the targets, or none.
LEMMA FreshLength ==
  ASSUME NEW k, IsVector(k.targets)
  PROVE  Len(FreshArtifact(backend, k).cross_compiled) \in Nat
PROOF
  <1> DEFINE all == Union(KeyTexts(k))
             cc == [i \in DOMAIN k.targets |-> CrossSource(k.stage.source, k.targets[i], all)]
  <1>1. FreshArtifact(backend, k).cross_compiled = IF backend.cross_compiler THEN cc ELSE <<>>
    BY DEF FreshArtifact, BackendArtifact, StageArtifact
  <1>2. DOMAIN cc = DOMAIN k.targets /\ cc = [i \in DOMAIN cc |-> cc[i]]  OBVIOUS
  <1> HIDE DEF cc
  <1>3. Len(cc) = Len(k.targets)  BY <1>2, VectorExcept
  <1> QED  BY <1>1, <1>3, VectorLength, VectorEmpty

\* The fields of a key, and of the fresh artifact of its stage.
LEMMA KeyFields ==
  ASSUME NEW p, NEW i
  PROVE  /\ Key(p, i).stage = req[p].stages[i]
         /\ Key(p, i).targets = req[p].targets
         /\ Key(p, i).program = IF Dense(req[p]) THEN req[p].stages ELSE <<>>
         /\ Fresh(p, i).spirv = req[p].stages[i].source
PROOF BY DEF Key, MakeKey, Fresh, FreshArtifact, BackendArtifact, StageArtifact

\* What a lookup that hits adds to the work of a build of texts.
LEMMA HitSound ==
  ASSUME Shape, Sound, NEW p \in Builder, NEW i, Inline(Key(p, i)),
         NEW a \in Lookup(Key(p, i)), a # Missing
  PROVE  a.spirv = req[p].stages[i].source /\ (WholeWrites => a = Fresh(p, i))
PROOF
  <1> DEFINE k == Key(p, i)
             art == Fresh(p, i)
  <1>1. k \in DOMAIN cache /\ a \in Decode(cache[k])  BY DEF Lookup
  <1>2. cache[k].artifact = art  BY <1>1 DEF Sound, CacheSound, Fresh
  <1>3. PICK r, c : art = StageArtifact(req[p].stages[i].source, r, c)
    BY KeyFields DEF Fresh, FreshArtifact, BackendArtifact
  <1>4. a.spirv = req[p].stages[i].source  BY <1>1, <1>2, <1>3, DecodeSpirv
  <1>5. ASSUME WholeWrites PROVE a = art
    <2>1. IsVector(k.targets)  BY KeyFields, RequestVectors DEF Shape
    <2>2. Len(art.cross_compiled) \in Nat  BY <2>1, FreshLength DEF Fresh
    <2>3. cache[k] \in {Whole(art), Truncated(art)}
      BY <1>1, <1>5 DEF Sound, WholeEntries, Fresh
    <2> QED  BY <1>1, <2>2, <2>3, DecodeWhole
  <1> QED  BY <1>4, <1>5

\* The map that Phase B uses for a stage of texts is the one of its key.
LEMMA MapIsUnion ==
  ASSUME Shape, WorkSound, NEW p \in Builder, Len(work[p]) = StageCount(p),
         NEW i \in DOMAIN work[p], Inline(Key(p, i))
  PROVE  MapOf(p, i) = Union(KeyTexts(Key(p, i)))
PROOF
  <1>1. work[p][i].artifact.spirv = req[p].stages[i].source  BY DEF WorkSound
  <1>2. CASE ~Dense(req[p])
    <2>1. KeyTexts(Key(p, i)) = {req[p].stages[i].source}  BY <1>2, KeyFields DEF KeyTexts
    <2>2. Union({req[p].stages[i].source}) = Bindings[req[p].stages[i].source]  BY DEF Union
    <2> QED  BY <1>1, <1>2, <2>1, <2>2 DEF MapOf
  <1>3. CASE Dense(req[p])
    <2>1. DOMAIN work[p] = DOMAIN req[p].stages  BY Lengths
    <2>2. \A j : Key(p, j).program = req[p].stages /\ req[p].stages # <<>>
      BY <1>3, <2>1, KeyFields, VectorEmpty
    <2>3. \A j : KeyTexts(Key(p, j)) = {req[p].stages[n].source : n \in DOMAIN req[p].stages}
      BY <2>2 DEF KeyTexts
    <2>4. \A j \in DOMAIN work[p] : work[p][j].artifact.spirv = req[p].stages[j].source
      BY <2>3 DEF WorkSound, Inline
    <2>5. Texts(p) = KeyTexts(Key(p, i))  BY <2>1, <2>3, <2>4 DEF Texts
    <2> QED  BY <1>3, <2>5 DEF MapOf
  <1> QED  BY <1>2, <1>3
------------------------------------------------------------------------------
\* Every prefix of a serialized artifact is one of that artifact.
LEMMA PrefixesOf == \A a : \A f \in Prefixes(a) \cup {Whole(a), Truncated(a)} : f.artifact = a
PROOF BY DEF Prefixes, Whole, Truncated, File

\* An entry is set to a file that its key describes.
LEMMA PutSound ==
  ASSUME CacheSound, WholeEntries, NEW k, NEW f, Put(k, f), backend' = backend,
         Inline(k) => /\ f.artifact = FreshArtifact(backend, k)
                      /\ WholeWrites => f \in {Whole(FreshArtifact(backend, k)), Truncated(FreshArtifact(backend, k))}
  PROVE  (CacheSound /\ WholeEntries)'
PROOF
  <1>1. /\ DOMAIN cache' = DOMAIN cache \cup {k} /\ cache'[k] = f
        /\ \A j \in DOMAIN cache \ {k} : cache'[j] = cache[j]
    BY DEF Put
  <1>2. CacheSound'  BY <1>1 DEF CacheSound
  <1>3. WholeEntries'  BY <1>1 DEF WholeEntries
  <1> QED  BY <1>2, <1>3

\* A step that leaves artifacts and entries alone, and starts no store.
LEMMA QuietSound ==
  ASSUME Sound, UNCHANGED <<backend, cache, req, work, out>>,
         \A p \in Builder : pc'[p] \in {"store", "write", "orphan"} => pc[p] \in {"store", "write", "orphan"}
  PROVE  Sound'
PROOF
  <1>1. WorkSound'  BY DEF Sound, WorkSound, Key, Fresh
  <1>2. PendingSound'  BY DEF Sound, PendingSound, StoreKey, Pending, Emitting
  <1>3. OutSound'  BY DEF Sound, OutSound, Key, Fresh
  <1>4. CacheSound' /\ WholeEntries'  BY DEF Sound, CacheSound, WholeEntries
  <1> QED  BY <1>1, <1>2, <1>3, <1>4 DEF Sound

\* A build that begins, or dies, carries nothing.
LEMMA ResetSound ==
  ASSUME Shape, Sound, NEW p \in Builder, UNCHANGED <<backend, cache>>,
         work'[p] = <<>>, out'[p] = <<>>, pc'[p] \in {"phaseA", "idle"},
         \A q \in Builder \ {p} : /\ work'[q] = work[q] /\ out'[q] = out[q]
                                  /\ req'[q] = req[q] /\ pc'[q] = pc[q]
  PROVE  Sound'
PROOF
  <1>1. WorkSound'
    <2> SUFFICES ASSUME NEW q \in Builder, NEW i \in DOMAIN work'[q], Inline(Key(q, i))'
                 PROVE  (/\ work[q][i].artifact.spirv = req[q].stages[i].source
                         /\ WholeWrites /\ work[q][i].hit => work[q][i].artifact = Fresh(q, i))'
      BY DEF WorkSound
    <2>1. q # p  BY VectorEmpty
    <2> QED  BY <2>1 DEF Sound, WorkSound, Key, Fresh
  <1>2. PendingSound'  BY DEF Sound, PendingSound, StoreKey, Pending, Emitting
  <1>3. OutSound'
    <2> SUFFICES ASSUME WholeWrites, NEW q \in Builder, NEW i \in DOMAIN out'[q], Inline(Key(q, i))'
                 PROVE  (out[q][i] = Fresh(q, i))'
      BY DEF OutSound
    <2>1. q # p  BY VectorEmpty
    <2> QED  BY <2>1 DEF Sound, OutSound, Key, Fresh
  <1>4. CacheSound' /\ WholeEntries'  BY DEF Sound, CacheSound, WholeEntries
  <1> QED  BY <1>1, <1>2, <1>3, <1>4 DEF Sound

\* Phase A: a hit and a compiled stage have the SPIR-V of their text.
LEMMA PushSound ==
  ASSUME Shape, Sound, NEW p \in Builder, NEW a, NEW h,
         work' = [work EXCEPT ![p] = Append(@, [artifact |-> a, hit |-> h])],
         UNCHANGED <<backend, cache, req, out>>, pc'[p] = "phaseA",
         \A q \in Builder \ {p} : pc'[q] = pc[q],
         Inline(Key(p, Current(p))) =>
           /\ a.spirv = req[p].stages[Current(p)].source
           /\ WholeWrites /\ h => a = Fresh(p, Current(p))
  PROVE  Sound'
PROOF
  <1> DEFINE item == [artifact |-> a, hit |-> h]
  <1>1. work'[p] = Append(work[p], item) /\ \A q \in Builder \ {p} : work'[q] = work[q]
    BY DEF Shape, Vectors
  <1>2. item.artifact = a /\ item.hit = h  OBVIOUS
  <1> HIDE DEF item
  <1>3. IsVector(work[p])  BY DEF Shape, Vectors
  <1>4. /\ DOMAIN work'[p] = DOMAIN work[p] \cup {Current(p)}
        /\ \A i \in DOMAIN work[p] : work'[p][i] = work[p][i]
        /\ work'[p][Current(p)] = item
    BY <1>1, <1>3, VectorAppend DEF Current
  <1>5. \A q, i : Key(q, i)' = Key(q, i) /\ Fresh(q, i)' = Fresh(q, i)  BY DEF Key, Fresh
  <1>6. WorkSound'
    <2> SUFFICES ASSUME NEW q \in Builder, NEW i \in DOMAIN work'[q], Inline(Key(q, i))
                 PROVE  /\ work'[q][i].artifact.spirv = req[q].stages[i].source
                        /\ WholeWrites /\ work'[q][i].hit => work'[q][i].artifact = Fresh(q, i)
      BY <1>5 DEF WorkSound
    <2>1. CASE q = p /\ i = Current(p)  BY <2>1, <1>2, <1>4
    <2>2. CASE ~(q = p /\ i = Current(p))
      <3>1. i \in DOMAIN work[q] /\ work'[q][i] = work[q][i]  BY <2>2, <1>1, <1>4
      <3> QED  BY <3>1 DEF Sound, WorkSound
    <2> QED  BY <2>1, <2>2
  <1>7. PendingSound'
    BY <1>1 DEF Sound, PendingSound, StoreKey, Pending, Emitting
  <1>8. OutSound'  BY <1>5 DEF Sound, OutSound
  <1>9. CacheSound' /\ WholeEntries'  BY DEF Sound, CacheSound, WholeEntries
  <1> QED  BY <1>6, <1>7, <1>8, <1>9 DEF Sound

\* Phase B: an emitted artifact is the fresh one.
LEMMA EmitSound ==
  ASSUME Shape, Sound, NEW p \in Builder, NEW a, Emit(p, a),
         UNCHANGED <<backend, req>>, WorkSound', CacheSound', WholeEntries',
         pc'[p] = "phaseB", \A q \in Builder \ {p} : pc'[q] = pc[q] /\ work'[q] = work[q],
         WholeWrites /\ Inline(Key(p, Emitting(p))) => a = Fresh(p, Emitting(p))
  PROVE  Sound'
PROOF
  <1>1. out'[p] = Append(out[p], a) /\ \A q \in Builder \ {p} : out'[q] = out[q]
    BY DEF Emit, Shape, Vectors
  <1>2. IsVector(out[p])  BY DEF Shape, Vectors
  <1>3. /\ DOMAIN out'[p] = DOMAIN out[p] \cup {Emitting(p)}
        /\ \A i \in DOMAIN out[p] : out'[p][i] = out[p][i]
        /\ out'[p][Emitting(p)] = a
    BY <1>1, <1>2, VectorAppend DEF Emitting
  <1>4. \A q, i : Key(q, i)' = Key(q, i) /\ Fresh(q, i)' = Fresh(q, i)  BY DEF Key, Fresh
  <1>5. OutSound'
    <2> SUFFICES ASSUME WholeWrites, NEW q \in Builder, NEW i \in DOMAIN out'[q], Inline(Key(q, i))
                 PROVE  out'[q][i] = Fresh(q, i)
      BY <1>4 DEF OutSound
    <2>1. CASE q = p /\ i = Emitting(p)  BY <2>1, <1>3
    <2>2. CASE ~(q = p /\ i = Emitting(p))
      <3>1. i \in DOMAIN out[q] /\ out'[q][i] = out[q][i]  BY <2>2, <1>1, <1>3
      <3> QED  BY <3>1 DEF Sound, OutSound
    <2> QED  BY <2>1, <2>2
  <1>6. PendingSound'
    BY <1>1 DEF Sound, PendingSound, StoreKey, Pending, Emitting
  <1> QED  BY <1>5, <1>6 DEF Sound
------------------------------------------------------------------------------
\* The text of a stage that its key stands for.
LEMMA InlineSource ==
  ASSUME NEW p \in Builder, NEW i \in DOMAIN req[p].stages, Inline(Key(p, i))
  PROVE  req[p].stages[i].source # NoSource
PROOF
  <1>1. req[p].stages[i].source \in KeyTexts(Key(p, i))
    BY KeyFields DEF KeyTexts
  <1> QED  BY <1>1 DEF Inline

\* A hit has the SPIR-V of its text, and is the fresh artifact.
LEMMA LookupHitSound ==
  ASSUME Shape, Sound, NEW p \in Builder, LookupHit(p)
  PROVE  Sound'
PROOF
  <1>1. PICK a \in Lookup(Key(p, Current(p))) :
          a # Missing /\ work' = [work EXCEPT ![p] = Append(@, [artifact |-> a, hit |-> TRUE])]
    BY DEF LookupHit, Key
  <1>2. Inline(Key(p, Current(p))) =>
          /\ a.spirv = req[p].stages[Current(p)].source
          /\ WholeWrites => a = Fresh(p, Current(p))
    BY <1>1, HitSound
  <1>3. /\ UNCHANGED <<backend, cache, req, out>>
        /\ pc'[p] = "phaseA" /\ \A q \in Builder \ {p} : pc'[q] = pc[q]
    BY DEF LookupHit, InPhaseA
  <1> QED  BY <1>1, <1>2, <1>3, PushSound

\* A miss has the SPIR-V of its text.
LEMMA CompileStageSound ==
  ASSUME Shape, Sound, NEW p \in Builder, CompileStage(p)
  PROVE  Sound'
PROOF
  <1> DEFINE a == StageArtifact(Source(p, Current(p)), Empty, <<>>)
  <1>1. work' = [work EXCEPT ![p] = Append(@, [artifact |-> a, hit |-> FALSE])]
    BY DEF CompileStage
  <1>2. Current(p) \in DOMAIN req[p].stages
    BY Lengths DEF CompileStage, Current, Shape, Phases
  <1>3. a.spirv = Source(p, Current(p))  BY DEF StageArtifact
  <1>4. Inline(Key(p, Current(p))) => a.spirv = req[p].stages[Current(p)].source
    BY <1>2, <1>3, InlineSource DEF Source
  <1>5. /\ UNCHANGED <<backend, cache, req, out>>
        /\ pc'[p] = "phaseA" /\ \A q \in Builder \ {p} : pc'[q] = pc[q]
    BY DEF CompileStage, Shape, TypeOK
  <1> HIDE DEF a
  <1> QED  BY <1>1, <1>4, <1>5, PushSound

\* The key and the artifact of a store.
LEMMA StoreIsFresh ==
  ASSUME Sound, NEW p \in Builder, pc[p] \in {"store", "write", "orphan"}
  PROVE  /\ StoreKey(p) = Key(p, Emitting(p))
         /\ Inline(StoreKey(p)) => Pending(p) = FreshArtifact(backend, StoreKey(p))
         /\ FreshArtifact(backend, StoreKey(p)) = Fresh(p, Emitting(p))
PROOF BY DEF Sound, PendingSound, StoreKey, Key, Fresh

\* What a hit, or a stage that was stored, hands to the result.
LEMMA EmitStepsSound ==
  ASSUME Shape, Sound, NEW p \in Builder, TakeHit(p) \/ SkipStore(p) \/ WriteStore(p) \/ WriteRemoved(p)
  PROVE  Sound'
PROOF
  <1> DEFINE a == work[p][Emitting(p)].artifact
  <1>1. Emit(p, a)  BY DEF TakeHit, SkipStore, WriteStore, WriteRemoved, Pending
  <1>2. pc'[p] = "phaseB" /\ \A q \in Builder \ {p} : pc'[q] = pc[q]
    BY DEF TakeHit, SkipStore, WriteStore, WriteRemoved, InPhaseB, Shape, TypeOK
  <1>3. UNCHANGED <<backend, req, work>>  BY DEF TakeHit, SkipStore, WriteStore, WriteRemoved
  <1>4. WorkSound'  BY <1>3 DEF Sound, WorkSound, Key, Fresh
  <1>5. (CacheSound /\ WholeEntries)'
    <2>1. CASE cache' = cache  BY <1>3, <2>1 DEF Sound, CacheSound, WholeEntries
    <2>2. CASE WriteStore(p)
      <3>1. PICK f \in Prefixes(Pending(p)) \cup {Whole(Pending(p))} :
              Put(StoreKey(p), f) /\ (WholeWrites => f = Whole(Pending(p)))
        BY <2>2 DEF WriteStore
      <3>2. Inline(StoreKey(p)) => Pending(p) = FreshArtifact(backend, StoreKey(p))
        BY <2>2, StoreIsFresh DEF WriteStore
      <3> QED  BY <1>3, <3>1, <3>2, PrefixesOf, PutSound DEF Sound
    <2> QED  BY <2>1, <2>2 DEF TakeHit, SkipStore, WriteRemoved
  <1>6. WholeWrites /\ Inline(Key(p, Emitting(p))) => a = Fresh(p, Emitting(p))
    <2>1. CASE TakeHit(p)
      <3>1. Emitting(p) \in DOMAIN work[p]
        BY <2>1, Lengths DEF TakeHit, InPhaseB, Emitting, Shape, Phases
      <3> QED  BY <2>1, <3>1 DEF TakeHit, Sound, WorkSound
    <2>2. CASE pc[p] \in {"store", "write", "orphan"}
      BY <2>2, StoreIsFresh DEF Pending
    <2> QED  BY <2>1, <2>2 DEF SkipStore, WriteStore, WriteRemoved
  <1> HIDE DEF a
  <1> QED  BY <1>1, <1>2, <1>3, <1>4, <1>5, <1>6, EmitSound

\* The entry is truncated for what is about to be written.
LEMMA OpenSound ==
  ASSUME Shape, Sound, NEW p \in Builder, OpenStore(p)
  PROVE  Sound'
PROOF
  <1>1. /\ UNCHANGED <<backend, req, work, out>> /\ Put(StoreKey(p), Truncated(Pending(p)))
        /\ pc[p] = "store" /\ pc'[p] = "write" /\ \A q \in Builder \ {p} : pc'[q] = pc[q]
    BY DEF OpenStore, Shape, TypeOK
  <1>2. Inline(StoreKey(p)) => Pending(p) = FreshArtifact(backend, StoreKey(p))
    BY <1>1, StoreIsFresh
  <1>3. (CacheSound /\ WholeEntries)'  BY <1>1, <1>2, PrefixesOf, PutSound DEF Sound
  <1>4. WorkSound'  BY <1>1 DEF Sound, WorkSound, Key, Fresh
  <1>5. PendingSound'  BY <1>1 DEF Sound, PendingSound, StoreKey, Pending, Emitting
  <1>6. OutSound'  BY <1>1 DEF Sound, OutSound, Key, Fresh
  <1> QED  BY <1>3, <1>4, <1>5, <1>6 DEF Sound

\* reflect and crossCompile make the fresh artifact of a stage of texts: the
\* map they are given is the one over the texts of the key.
LEMMA BackendSound ==
  ASSUME Shape, Sound, NEW p \in Builder, RunBackend(p)
  PROVE  Sound'
PROOF
  <1> DEFINE n == Emitting(p)
             text == work[p][n].artifact.spirv
             a == BackendArtifact(backend, text, req[p].targets, MapOf(p, n))
  <1>1. pc[p] = "phaseB" /\ Len(out[p]) < StageCount(p) /\ Len(work[p]) = StageCount(p)
    BY DEF RunBackend, InPhaseB, Shape, Phases
  <1>2. n \in DOMAIN work[p]  BY <1>1, Lengths DEF Emitting
  <1>3. /\ work' = [work EXCEPT ![p][n].artifact = a] /\ ~work[p][n].hit
        /\ UNCHANGED <<backend, cache, req>>
    BY DEF RunBackend
  <1>4. a.spirv = text  BY DEF BackendArtifact, StageArtifact
  <1>5. Inline(Key(p, n)) => a = Fresh(p, n)
    <2> SUFFICES ASSUME Inline(Key(p, n)) PROVE a = Fresh(p, n)  OBVIOUS
    <2>1. text = req[p].stages[n].source  BY <1>2 DEF Sound, WorkSound
    <2>2. MapOf(p, n) = Union(KeyTexts(Key(p, n)))  BY <1>1, <1>2, MapIsUnion DEF Sound
    <2> QED  BY <2>1, <2>2, KeyFields DEF Fresh, FreshArtifact
  <1> HIDE DEF a
  <1>6. /\ \A q \in Builder \ {p} : work'[q] = work[q]
        /\ DOMAIN work'[p] = DOMAIN work[p]
        /\ \A j \in DOMAIN work[p] \ {n} : work'[p][j] = work[p][j]
        /\ work'[p][n].artifact = a /\ work'[p][n].hit = work[p][n].hit
    <2> HIDE DEF n
    <2>1. work' = [work EXCEPT ![p][n].artifact = a]  BY <1>3
    <2>2. /\ DOMAIN work' = DOMAIN work /\ \A q \in Builder \ {p} : work'[q] = work[q]
          /\ DOMAIN work'[p] = DOMAIN work[p]
          /\ IsVector(work'[p]) /\ Len(work'[p]) = Len(work[p])
          /\ \A j \in DOMAIN work[p] \ {n} : work'[p][j] = work[p][j]
          /\ work'[p][n].artifact = a /\ work'[p][n].hit = work[p][n].hit
          /\ \A j \in DOMAIN work'[p] : DOMAIN work'[p][j] = {"artifact", "hit"}
      BY <1>2, <2>1, BackendWork, Zenon
    <2> QED  BY <2>2
  <1>7. \A q, i : Key(q, i)' = Key(q, i) /\ Fresh(q, i)' = Fresh(q, i)  BY <1>3 DEF Key, Fresh
  <1>8. WorkSound'
    <2> SUFFICES ASSUME NEW q \in Builder, NEW i \in DOMAIN work'[q], Inline(Key(q, i))
                 PROVE  /\ work'[q][i].artifact.spirv = req[q].stages[i].source
                        /\ WholeWrites /\ work'[q][i].hit => work'[q][i].artifact = Fresh(q, i)
      BY <1>3, <1>7 DEF WorkSound
    <2>1. CASE q = p /\ i = n
      BY <2>1, <1>2, <1>3, <1>4, <1>6 DEF Sound, WorkSound
    <2>2. CASE ~(q = p /\ i = n)
      <3>1. i \in DOMAIN work[q] /\ work'[q][i] = work[q][i]  BY <2>2, <1>6
      <3> QED  BY <3>1 DEF Sound, WorkSound
    <2> QED  BY <2>1, <2>2
  <1>9. (CacheSound /\ WholeEntries)'  BY <1>3 DEF Sound, CacheSound, WholeEntries
  <1>10. CASE UsesCache(p)
    <2>1. out' = out /\ pc'[p] = "store" /\ \A q \in Builder \ {p} : pc'[q] = pc[q]
      BY <1>10 DEF RunBackend, Shape, TypeOK
    <2>2. PendingSound'
      BY <1>3, <1>5, <1>6, <2>1 DEF Sound, PendingSound, StoreKey, Pending, Emitting, Key, Fresh
    <2>3. OutSound'  BY <1>7, <2>1 DEF Sound, OutSound
    <2> QED  BY <1>8, <1>9, <2>2, <2>3 DEF Sound
  <1>11. CASE ~UsesCache(p)
    <2>1. Emit(p, a) /\ pc' = pc  BY <1>11 DEF RunBackend, a
    <2> HIDE DEF n
    <2>2. WholeWrites /\ Inline(Key(p, Emitting(p))) => a = Fresh(p, Emitting(p))  BY <1>5 DEF n
    <2> QED  BY <1>1, <1>3, <1>6, <1>8, <1>9, <2>1, <2>2, EmitSound
  <1> QED  BY <1>10, <1>11

\* A clear only takes entries away.
LEMMA ClearSound ==
  ASSUME Shape, Sound, ClearEntry
  PROVE  Sound'
PROOF
  <1>1. UNCHANGED <<backend, req, work, out>>  BY DEF ClearEntry
  <1>2. DOMAIN cache' \subseteq DOMAIN cache /\ \A k \in DOMAIN cache' : cache'[k] = cache[k]
    BY DEF ClearEntry
  <1>3. \A p \in Builder : pc'[p] \in {"store", "write", "orphan"} => pc[p] \in {"store", "write", "orphan"}
    BY DEF ClearEntry
  <1>4. WorkSound'  BY <1>1 DEF Sound, WorkSound, Key, Fresh
  <1>5. PendingSound'  BY <1>1, <1>3 DEF Sound, PendingSound, StoreKey, Pending, Emitting
  <1>6. OutSound'  BY <1>1 DEF Sound, OutSound, Key, Fresh
  <1>7. CacheSound' /\ WholeEntries'  BY <1>1, <1>2 DEF Sound, CacheSound, WholeEntries
  <1> QED  BY <1>4, <1>5, <1>6, <1>7 DEF Sound

\* The steps that leave artifacts and entries alone.
LEMMA QuietStepsSound ==
  ASSUME Shape, Sound,
         \/ EditFile
         \/ \E p \in Builder : \/ RefuseBuild(p) \/ CompileFails(p) \/ LinkFails(p) \/ BackendFails(p)
                               \/ Finish(p) \/ LookupMiss(p) \/ Link(p)
  PROVE  Sound'
PROOF
  <1>1. CASE EditFile  BY <1>1, QuietSound DEF EditFile
  <1>2. ASSUME NEW p \in Builder, LookupMiss(p) \/ Link(p) PROVE Sound'
    <2>1. /\ UNCHANGED <<backend, cache, req, work, out>>
          /\ pc' = [pc EXCEPT ![p] = "compile"] \/ pc' = [pc EXCEPT ![p] = "phaseB"]
      BY <1>2 DEF LookupMiss, Link
    <2> QED  BY <2>1, QuietSound DEF Shape, TypeOK
  <1>3. ASSUME NEW p \in Builder,
               RefuseBuild(p) \/ CompileFails(p) \/ LinkFails(p) \/ BackendFails(p) \/ Finish(p)
        PROVE  Sound'
    <2>1. UNCHANGED <<backend, cache, req, work, out>> /\ pc' = [pc EXCEPT ![p] = "done"]
      BY <1>3 DEF RefuseBuild, CompileFails, LinkFails, BackendFails, Finish, Return
    <2> QED  BY <2>1, QuietSound DEF Shape, TypeOK
  <1> QED  BY <1>1, <1>2, <1>3

\* The start of a build and the death of its process.
LEMMA ResetStepsSound ==
  ASSUME Shape, Sound, NEW p \in Builder, StartBuild(p) \/ Crash(p)
  PROVE  Sound'
PROOF
  <1>1. /\ UNCHANGED <<backend, cache>>
        /\ work'[p] = <<>> /\ out'[p] = <<>> /\ pc'[p] \in {"phaseA", "idle"}
        /\ \A q \in Builder \ {p} : /\ work'[q] = work[q] /\ out'[q] = out[q]
                                    /\ req'[q] = req[q] /\ pc'[q] = pc[q]
    <2>1. CASE StartBuild(p)  BY <2>1 DEF StartBuild, Shape, TypeOK, Vectors
    <2>2. CASE Crash(p)  BY <2>2 DEF Crash, Shape, TypeOK, Vectors
    <2> QED  BY <2>1, <2>2
  <1> QED  BY <1>1, ResetSound

\* No artifact and no entry exists yet.
LEMMA InitSound == Init => Sound
PROOF
  <1> SUFFICES ASSUME Init PROVE Sound  OBVIOUS
  <1>1. \A p \in Builder : work[p] = <<>> /\ out[p] = <<>> /\ pc[p] = "idle"  BY DEF Init
  <1>2. DOMAIN cache = {}  BY DEF Init
  <1> QED  BY <1>1, <1>2, VectorEmpty
           DEF Sound, WorkSound, PendingSound, OutSound, CacheSound, WholeEntries

\* Every step preserves Sound, given Shape.
LEMMA NextSound == Shape /\ Sound /\ [Next]_vars => Sound'
PROOF
  <1> SUFFICES ASSUME Shape, Sound, [Next]_vars PROVE Sound'  OBVIOUS
  <1>1. CASE UNCHANGED vars  BY <1>1, QuietSound DEF vars
  <1>2. ASSUME NEW p \in Builder, StartBuild(p) \/ BuildStep(p) \/ Crash(p) PROVE Sound'
    BY <1>2, LookupHitSound, CompileStageSound, EmitStepsSound, OpenSound, BackendSound,
       QuietStepsSound, ResetStepsSound DEF BuildStep
  <1> QED  BY <1>1, <1>2, ClearSound, QuietStepsSound DEF Next

\* Shape and Sound hold of every behaviour.
THEOREM Inductive == Spec => [](Shape /\ Sound)
PROOF BY InitShape, NextShape, InitSound, NextSound, PTL DEF Spec
------------------------------------------------------------------------------
\* Every entry of texts is a prefix of the artifact a fresh build makes, for
\* any number of builders that share the directory and however their writes
\* are cut short.
THEOREM CacheIsSound == Spec => []CacheSound
PROOF
  <1>1. Sound => CacheSound  BY DEF Sound
  <1> QED  BY <1>1, Inductive, PTL

\* When writes complete, no build of texts can tell that there is a cache.
THEOREM CacheIsTransparent == WholeWrites => (Spec => []Transparent)
PROOF
  <1> SUFFICES ASSUME WholeWrites PROVE Spec => []Transparent  OBVIOUS
  <1>1. Shape /\ Sound => Transparent
    BY DEF Shape, Phases, Sound, OutSound, Transparent, Key, Fresh
  <1> QED  BY <1>1, Inductive, PTL
==============================================================================
