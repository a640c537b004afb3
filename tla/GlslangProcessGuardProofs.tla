---------------------- MODULE GlslangProcessGuardProofs ----------------------
(***************************************************************************)
(* Proofs about GlslangProcessGuard, for any number of front ends and of   *)
(* constructions.  The invariant adds to the properties what holds while a *)
(* front end is inside the critical section: who holds the mutex, what the *)
(* count stands for, and that process_ok follows the library's state.      *)
(***************************************************************************)
EXTENDS GlslangProcessGuard, FiniteSetTheorems, TLAPS

\* The front ends that refs counts: a releasing one until its decrement.
Counted == {f \in FrontEnd : pc[f] \in {"available", "compiling", "release"}}

Typed ==
  /\ mutex \in FrontEnd \cup {NoOne}
  /\ refs \in Nat
  /\ process_ok \in BOOLEAN
  /\ glslang \in {"on", "off"}
  /\ pc \in [FrontEnd -> PCs]
  /\ constructions \in 0 .. MaxConstructions

Exclusive == \A f \in FrontEnd : f \in Holders <=> mutex = f
RefsCount == refs = Cardinality(Counted)
ProcessFollows == process_ok <=> glslang = "on"
CountedInitialized == Counted # {} => process_ok

\* Between the two halves of acquire, or of release, nobody is counted; else
\* the process is initialized exactly when somebody is.
Settled ==
  /\ \A f \in FrontEnd : pc[f] \in {"count", "finalize"} => Counted = {}
  /\ \A f \in FrontEnd : pc[f] = "finalize" => process_ok
  /\ (\A f \in FrontEnd : pc[f] \notin {"count", "finalize"}) => (process_ok => Counted # {})

IInv == Typed /\ Exclusive /\ RefsCount /\ ProcessFollows /\ CountedInitialized /\ Settled
------------------------------------------------------------------------------
\* The counted front ends are finitely many.
LEMMA CountedFinite ==
  /\ IsFiniteSet(Counted)
  /\ Cardinality(Counted) \in Nat
  /\ Cardinality(Counted) <= Cardinality(FrontEnd)
  /\ Cardinality(FrontEnd) \in Nat
  /\ Cardinality(Counted) = 0 <=> Counted = {}
PROOF
  <1>1. Counted \subseteq FrontEnd  BY DEF Counted
  <1> QED  BY <1>1, FrontEndAssumption, FS_Subset, FS_CardinalityType, FS_EmptySet

\* The initial state: nobody is counted.
LEMMA InitIInv == Init => IInv
PROOF
  <1> SUFFICES ASSUME Init PROVE IInv  OBVIOUS
  <1>1. Counted = {}  BY DEF Init, Counted
  <1>2. Typed
    <2>1. constructions \in 0 .. MaxConstructions  BY BoundAssumption DEF Init
    <2>2. pc \in [FrontEnd -> PCs]  BY DEF Init, PCs
    <2> QED  BY <2>1, <2>2 DEF Init, Typed
  <1>3. Exclusive  BY FrontEndAssumption DEF Init, Exclusive, Holders
  <1>4. RefsCount  BY <1>1, FS_EmptySet DEF Init, RefsCount
  <1>5. ProcessFollows /\ CountedInitialized /\ Settled
    BY <1>1 DEF Init, ProcessFollows, CountedInitialized, Settled
  <1> QED  BY <1>2, <1>3, <1>4, <1>5 DEF IInv
------------------------------------------------------------------------------
\* A step that moves one front end without touching the count.
LEMMA SameCount ==
  ASSUME Typed, NEW f \in FrontEnd, NEW to \in PCs, Goto(f, to),
         f \in Counted <=> to \in {"available", "compiling", "release"}
  PROVE  Counted' = Counted
PROOF BY DEF Typed, Goto, Counted

\* acquire takes a free mutex: nobody else is inside it.
LEMMA ConstructPreserves ==
  ASSUME IInv, NEW f \in FrontEnd, Construct(f)
  PROVE  IInv'
PROOF
  <1> USE DEF IInv, Construct, Lock
  <1>1. Counted' = Counted  BY SameCount DEF PCs, Typed, Counted
  <1>2. Typed'  BY BoundAssumption DEF Typed, Goto, PCs
  <1>3. Exclusive'  BY FrontEndAssumption DEF Exclusive, Typed, Holders, Goto
  <1>4. RefsCount'  BY <1>1 DEF RefsCount
  <1>5. (ProcessFollows /\ CountedInitialized)'  BY <1>1 DEF ProcessFollows, CountedInitialized
  <1>6. Settled'  BY <1>1 DEF Settled, Typed, Goto
  <1> QED  BY <1>2, <1>3, <1>4, <1>5, <1>6

\* The library is initialized when nobody is counted, by the mutex's holder.
LEMMA InitializeProcessPreserves ==
  ASSUME IInv, NEW f \in FrontEnd, InitializeProcess(f)
  PROVE  IInv'
PROOF
  <1> USE DEF IInv, InitializeProcess
  <1>1. Counted' = Counted  BY SameCount DEF PCs, Typed, Counted
  <1>2. Counted = {}  BY CountedFinite DEF RefsCount
  <1>3. Typed'  BY DEF Typed, Goto, PCs
  <1>4. Exclusive'  BY DEF Exclusive, Typed, Holders, Goto
  <1>5. RefsCount'  BY <1>1 DEF RefsCount
  <1>6. ~process_ok
    <2>1. \A g \in FrontEnd : pc[g] \notin {"count", "finalize"}  BY DEF Exclusive, Holders
    <2> QED  BY <2>1, <1>2 DEF Settled
  <1>7. (ProcessFollows /\ CountedInitialized)'
    BY <1>1, <1>2, <1>6 DEF ProcessFollows, CountedInitialized
  <1>8. Settled'
    <2>1. \A g \in FrontEnd \ {f} : pc'[g] \notin {"count", "finalize"}
      BY DEF Exclusive, Holders, Typed, Goto
    <2>2. pc'[f] = "count"  BY DEF Typed, Goto
    <2> QED  BY <1>1, <1>2, <2>1, <2>2 DEF Settled
  <1> QED  BY <1>3, <1>4, <1>5, <1>7, <1>8

\* The count grows by one together with the counted front ends.
LEMMA CountPreserves ==
  ASSUME IInv, NEW f \in FrontEnd, Count(f)
  PROVE  IInv'
PROOF
  <1> USE DEF IInv, Count
  <1>1. Typed'  BY DEF Typed, Goto, PCs, Unlock
  <1>2. Exclusive'  BY FrontEndAssumption DEF Exclusive, Typed, Holders, Goto, Unlock
  <1>3. f \notin Counted  BY DEF Counted
  <1>4. \A g \in FrontEnd \ {f} : pc[g] \notin {"count", "finalize"}  BY DEF Exclusive, Holders
  <1>5. \A g \in FrontEnd : pc'[g] \notin {"count", "finalize"}  BY <1>4 DEF Typed, Goto
  <1>6. CASE process_ok
    <2>1. Counted' = Counted \cup {f}  BY <1>6 DEF Counted, Typed, Goto
    <2>2. Cardinality(Counted') = Cardinality(Counted) + 1
      BY <2>1, <1>3, CountedFinite, FS_AddElement
    <2>3. RefsCount'  BY <1>6, <2>2 DEF RefsCount
    <2>4. (ProcessFollows /\ CountedInitialized)'  BY <1>6 DEF ProcessFollows, CountedInitialized
    <2>5. Settled'  BY <1>5, <2>1 DEF Settled
    <2> QED  BY <1>1, <1>2, <2>3, <2>4, <2>5
  <1>7. CASE ~process_ok
    <2>1. Counted' = Counted  BY <1>7, SameCount, <1>3 DEF PCs
    <2>2. RefsCount'  BY <1>7, <2>1 DEF RefsCount
    <2>3. (ProcessFollows /\ CountedInitialized)'
      BY <1>7, <2>1 DEF ProcessFollows, CountedInitialized
    <2>4. Settled'  BY <1>5, <1>7 DEF Settled
    <2> QED  BY <1>1, <1>2, <2>2, <2>3, <2>4
  <1> QED  BY <1>6, <1>7

\* compile and the destructor of a front end that was never counted.
LEMMA UncountedStepPreserves ==
  ASSUME IInv, NEW f \in FrontEnd, Compile(f) \/ Compiled(f) \/ DestroyUnavailable(f)
  PROVE  IInv'
PROOF
  <1> USE DEF IInv, Compile, Compiled, DestroyUnavailable
  <1>1. Counted' = Counted  BY SameCount DEF PCs, Counted
  <1>2. Typed'  BY DEF Typed, Goto, PCs
  <1>3. Exclusive'  BY DEF Exclusive, Typed, Holders, Goto
  <1>4. RefsCount'  BY <1>1 DEF RefsCount
  <1>5. (ProcessFollows /\ CountedInitialized)'  BY <1>1 DEF ProcessFollows, CountedInitialized
  <1>6. Settled'  BY <1>1 DEF Settled, Typed, Goto
  <1> QED  BY <1>2, <1>3, <1>4, <1>5, <1>6

\* A front end that waits for the mutex to release is still counted.
LEMMA DestroyPreserves ==
  ASSUME IInv, NEW f \in FrontEnd, Destroy(f)
  PROVE  IInv'
PROOF
  <1> USE DEF IInv, Destroy, Lock
  <1>1. Counted' = Counted  BY SameCount DEF PCs, Counted
  <1>2. Typed'  BY DEF Typed, Goto, PCs
  <1>3. Exclusive'  BY FrontEndAssumption DEF Exclusive, Typed, Holders, Goto
  <1>4. RefsCount'  BY <1>1 DEF RefsCount
  <1>5. (ProcessFollows /\ CountedInitialized)'  BY <1>1 DEF ProcessFollows, CountedInitialized
  <1>6. Settled'  BY <1>1 DEF Settled, Typed, Goto
  <1> QED  BY <1>2, <1>3, <1>4, <1>5, <1>6

\* The last release alone goes on to finalize, the mutex still held.
LEMMA ReleasePreserves ==
  ASSUME IInv, NEW f \in FrontEnd, Release(f)
  PROVE  IInv'
PROOF
  <1> USE DEF IInv, Release
  <1>1. f \in Counted  BY DEF Counted
  <1>2. refs \in Nat /\ refs # 0 /\ process_ok
    BY <1>1, CountedFinite DEF RefsCount, CountedInitialized
  <1>3. Counted' = Counted \ {f}  BY DEF Counted, Typed, Goto
  <1>4. Cardinality(Counted') = Cardinality(Counted) - 1
    BY <1>1, <1>3, CountedFinite, FS_RemoveElement
  <1>5. refs' = refs - 1  BY <1>2
  <1>6. Typed'  BY <1>2, <1>5 DEF Typed, Goto, PCs, Unlock
  <1>7. RefsCount'  BY <1>4, <1>5 DEF RefsCount
  <1>8. Exclusive'  BY FrontEndAssumption DEF Exclusive, Typed, Holders, Goto, Unlock
  <1>9. (ProcessFollows /\ CountedInitialized)'  BY <1>2 DEF ProcessFollows, CountedInitialized
  <1>10. \A g \in FrontEnd \ {f} : pc'[g] \notin {"count", "finalize"}
    BY DEF Exclusive, Holders, Typed, Goto
  <1>11. IsFiniteSet(Counted')  BY <1>3, CountedFinite, FS_RemoveElement
  <1>12. CASE refs = 1
    <2>1. Cardinality(Counted') = 0  BY <1>12, <1>5, <1>7 DEF RefsCount
    <2>2. Counted' = {}  BY <2>1, <1>11, FS_EmptySet
    <2>3. pc'[f] = "finalize"  BY <1>2, <1>12 DEF Typed, Goto
    <2>4. Settled'  BY <1>2, <1>10, <2>2, <2>3 DEF Settled
    <2> QED  BY <1>6, <1>7, <1>8, <1>9, <2>4
  <1>13. CASE refs # 1
    <2>1. Cardinality(Counted') # 0  BY <1>13, <1>4 DEF RefsCount
    <2>2. Counted' # {}  BY <2>1, FS_EmptySet
    <2>3. pc'[f] = "none"  BY <1>13 DEF Typed, Goto
    <2>4. Settled'  BY <1>10, <2>2, <2>3 DEF Settled
    <2> QED  BY <1>6, <1>7, <1>8, <1>9, <2>4
  <1> QED  BY <1>12, <1>13

\* The library is finalized when nobody is counted any more.
LEMMA FinalizeProcessPreserves ==
  ASSUME IInv, NEW f \in FrontEnd, FinalizeProcess(f)
  PROVE  IInv'
PROOF
  <1> USE DEF IInv, FinalizeProcess
  <1>1. Counted' = Counted  BY SameCount DEF PCs, Counted
  <1>2. Counted = {}  BY DEF Settled
  <1>3. Typed'  BY DEF Typed, Goto, PCs, Unlock
  <1>4. Exclusive'  BY FrontEndAssumption DEF Exclusive, Typed, Holders, Goto, Unlock
  <1>5. RefsCount'  BY <1>1 DEF RefsCount
  <1>6. (ProcessFollows /\ CountedInitialized)'
    BY <1>1, <1>2 DEF ProcessFollows, CountedInitialized
  <1>7. Settled'  BY <1>1, <1>2 DEF Settled, Typed, Goto, Exclusive, Holders
  <1> QED  BY <1>3, <1>4, <1>5, <1>6, <1>7

\* The invariant is inductive.
LEMMA NextIInv == IInv /\ [Next]_vars => IInv'
PROOF
  <1> SUFFICES ASSUME IInv, [Next]_vars PROVE IInv'  OBVIOUS
  <1>1. CASE UNCHANGED vars
    <2>1. Counted' = Counted /\ Holders' = Holders  BY <1>1 DEF vars, Counted, Holders
    <2> QED  BY <1>1, <2>1 DEF IInv, vars, Typed, Exclusive, RefsCount, ProcessFollows,
                               CountedInitialized, Settled
  <1>2. ASSUME NEW f \in FrontEnd, Construct(f) \/ Step(f) PROVE IInv'
    BY <1>2, ConstructPreserves, InitializeProcessPreserves, CountPreserves, UncountedStepPreserves,
       DestroyPreserves, ReleasePreserves, FinalizeProcessPreserves DEF Step
  <1> QED  BY <1>1, <1>2 DEF Next
------------------------------------------------------------------------------
\* The inductive invariant holds of every behaviour of the guard.
THEOREM Inductive == Spec => []IInv
PROOF BY InitIInv, NextIInv, PTL DEF Spec

\* Types: the count never exceeds the number of front ends, failed
\* initializations included.
THEOREM TypeCorrect == Spec => []TypeOK
PROOF
  <1>1. IInv => TypeOK  BY CountedFinite DEF IInv, Typed, RefsCount, TypeOK
  <1> QED  BY <1>1, Inductive, PTL

\* No front end compiles while the library is not initialized.
THEOREM NeverCompilesFinalized == Spec => []CompilesInitialized
PROOF
  <1>1. Users \subseteq Counted  BY DEF Users, Counted
  <1>2. IInv => CompilesInitialized
    BY <1>1 DEF IInv, CountedInitialized, ProcessFollows, CompilesInitialized
  <1> QED  BY <1>2, Inductive, PTL

\* With the mutex free, the count and the library's state follow the
\* available front ends.
THEOREM CountIsUsers == Spec => []CountsUsers
PROOF
  <1>1. IInv => CountsUsers
    <2> SUFFICES ASSUME IInv, mutex = NoOne
                 PROVE  refs = Cardinality(Users) /\ (process_ok <=> Users # {}) /\ (glslang = "on" <=> Users # {})
      BY DEF CountsUsers
    <2>1. \A f \in FrontEnd : pc[f] \notin {"acquire", "count", "release", "finalize"}
      BY FrontEndAssumption DEF IInv, Exclusive, Holders
    <2>2. Users = Counted  BY <2>1 DEF Users, Counted
    <2> QED  BY <2>1, <2>2 DEF IInv, RefsCount, CountedInitialized, ProcessFollows, Settled
  <1> QED  BY <1>1, Inductive, PTL

\* The library is initialized and finalized in turn, and finalized only when
\* no front end is available.
THEOREM Alternating == Spec => Alternate
PROOF
  <1>1. IInv /\ [Next]_vars =>
          [ /\ \A f \in FrontEnd : InitializeProcess(f) => glslang = "off"
            /\ \A f \in FrontEnd : FinalizeProcess(f) => glslang = "on" /\ Users = {} ]_vars
    <2> SUFFICES ASSUME IInv, NEW f \in FrontEnd
                 PROVE  /\ InitializeProcess(f) => glslang = "off"
                        /\ FinalizeProcess(f) => glslang = "on" /\ Users = {}
      OBVIOUS
    <2>1. InitializeProcess(f) => glslang = "off"
      <3> SUFFICES ASSUME InitializeProcess(f) PROVE glslang = "off"  OBVIOUS
      <3>1. Counted = {}  BY CountedFinite DEF IInv, RefsCount, InitializeProcess
      <3>2. \A g \in FrontEnd : pc[g] \notin {"count", "finalize"}
        BY DEF IInv, Exclusive, Holders, InitializeProcess
      <3> QED  BY <3>1, <3>2 DEF IInv, Settled, ProcessFollows, Typed
    <2>2. FinalizeProcess(f) => glslang = "on" /\ Users = {}
      BY DEF IInv, Settled, ProcessFollows, Users, Counted, FinalizeProcess
    <2> QED  BY <2>1, <2>2
  <1> QED  BY <1>1, Inductive, PTL DEF Spec, Alternate
------------------------------------------------------------------------------
(* The refinement of LibraryLifetime.  Each step takes effect for the      *)
(* owners or changes nothing they see.                                     *)

OwnersVars == <<glslang, Life>>
OwnersStep == [Owners!Next]_OwnersVars

\* Where one front end alone moves, no life but its own changes.
LEMMA LifeMoves ==
  ASSUME Typed, NEW f \in FrontEnd, NEW to \in PCs, Goto(f, to),
         \A g \in FrontEnd \ {f} : pc[g] = "count" => process_ok' = process_ok
  PROVE  Life' = [Life EXCEPT ![f] = Life'[f]]
PROOF
  <1>1. pc' = [pc EXCEPT ![f] = to] /\ DOMAIN pc = FrontEnd  BY DEF Goto, Typed
  <1>2. \A g \in FrontEnd \ {f} : Life'[g] = Life[g]  BY <1>1 DEF Life
  <1>3. Life = [g \in FrontEnd |-> Life[g]] /\ Life' = [g \in FrontEnd |-> Life'[g]]  BY DEF Life
  <1> QED  BY <1>2, <1>3

\* A front end is in use, for the others, while it is counted, and while the
\* mutex's holder initializes or finalizes the library for it.
LEMMA InUseIs ==
  ASSUME Typed, NEW f \in FrontEnd
  PROVE  Owners!InUse(f) <=>
           \/ f \in Counted
           \/ pc[f] = "count" /\ process_ok
           \/ pc[f] = "finalize"
PROOF BY DEF Typed, PCs, Owners!InUse, Life, Counted

\* The initial state is the one without front ends.
LEMMA OwnersInit == Init => Owners!Init
PROOF BY DEF Init, Owners!Init, Life

\* Waiting for the mutex, to construct or to destroy, shows nothing.
LEMMA LockIsUnseen ==
  ASSUME IInv, NEW f \in FrontEnd, Construct(f) \/ Destroy(f)
  PROVE  UNCHANGED OwnersVars
PROOF
  <1> USE DEF IInv, Construct, Destroy
  <1>1. \E to \in PCs : Goto(f, to)  BY DEF PCs
  <1>2. Life' = [Life EXCEPT ![f] = Life'[f]]  BY <1>1, LifeMoves
  <1>3. Life'[f] = Life[f]  BY DEF Life, Typed, Goto
  <1>4. Life' = Life  BY <1>2, <1>3 DEF Life
  <1> QED  BY <1>4 DEF OwnersVars

\* The first front end is there when the library is initialized, or is not
\* available: nobody else is in use.
LEMMA InitializeCreates ==
  ASSUME IInv, NEW f \in FrontEnd, InitializeProcess(f)
  PROVE  Owners!CreateAvailable(f) \/ Owners!CreateUnavailable(f)
PROOF
  <1> USE DEF IInv, InitializeProcess
  <1>1. Counted = {}  BY CountedFinite DEF RefsCount
  <1>2. \A g \in FrontEnd : pc[g] \notin {"count", "finalize"}  BY DEF Exclusive, Holders
  <1>3. \A g \in FrontEnd : ~Owners!InUse(g)  BY <1>1, <1>2, InUseIs
  <1>4. Life' = [Life EXCEPT ![f] = Life'[f]]  BY <1>2, LifeMoves DEF PCs
  <1>5. Life[f] = "none"  BY DEF Life
  <1>6. Life'[f] = IF process_ok' THEN "available" ELSE "unavailable"  BY DEF Life, Typed, Goto
  <1>7. CASE process_ok'
    BY <1>4, <1>5, <1>6, <1>7 DEF Owners!CreateAvailable, Owners!Becomes
  <1>8. CASE ~process_ok'
    BY <1>3, <1>4, <1>5, <1>6, <1>8 DEF Owners!CreateUnavailable, Owners!Becomes
  <1> QED  BY <1>7, <1>8

\* The count is what the holder of the mutex sees of the others: where there
\* is one, the library is on, and the front end is available at once.
LEMMA CountCreates ==
  ASSUME IInv, NEW f \in FrontEnd, Count(f)
  PROVE  OwnersStep
PROOF
  <1> USE DEF IInv, Count
  <1>1. \E to \in PCs : Goto(f, to)  BY DEF PCs
  <1>2. Life' = [Life EXCEPT ![f] = Life'[f]]  BY <1>1, LifeMoves
  <1>3. CASE pc[f] = "count"
    <2>1. Life'[f] = Life[f]  BY <1>3 DEF Life, Typed, Goto
    <2>2. Life' = Life  BY <1>2, <2>1 DEF Life
    <2> QED  BY <2>2 DEF OwnersVars, OwnersStep
  <1>4. CASE pc[f] = "acquire" /\ refs # 0
    <2>1. Counted # {}  BY <1>4, CountedFinite DEF RefsCount
    <2>2. process_ok /\ glslang = "on"  BY <2>1 DEF CountedInitialized, ProcessFollows
    <2>3. Life[f] = "none" /\ Life'[f] = "available"  BY <1>4, <2>2 DEF Life, Typed, Goto
    <2>4. Owners!CreateAvailable(f)
      BY <1>2, <2>2, <2>3 DEF Owners!CreateAvailable, Owners!Becomes
    <2> QED  BY <2>4 DEF OwnersStep, Owners!Next
  <1> QED  BY <1>3, <1>4

\* compile, and the destructor of a front end that was never counted.
LEMMA UncountedSteps ==
  ASSUME IInv, NEW f \in FrontEnd, Compile(f) \/ Compiled(f) \/ DestroyUnavailable(f)
  PROVE  Owners!Compile(f) \/ Owners!Compiled(f) \/ Owners!DestroyUnavailable(f)
PROOF
  <1> USE DEF IInv, Compile, Compiled, DestroyUnavailable
  <1>1. \E to \in PCs : Goto(f, to)  BY DEF PCs
  <1>2. Life' = [Life EXCEPT ![f] = Life'[f]]  BY <1>1, LifeMoves
  <1>3. Life[f] = pc[f] /\ Life'[f] = pc'[f]  BY DEF Life, Typed, Goto
  <1>4. pc'[f] = IF Compile(f) THEN "compiling" ELSE IF Compiled(f) THEN "available" ELSE "none"
    BY DEF Typed, Goto
  <1> QED
    BY <1>2, <1>3, <1>4 DEF Owners!Compile, Owners!Compiled, Owners!DestroyUnavailable, Owners!Becomes

\* A release that is not the last destroys a front end while another is in
\* use; the last one still has to finalize the library.
LEMMA ReleaseDestroys ==
  ASSUME IInv, NEW f \in FrontEnd, Release(f)
  PROVE  OwnersStep
PROOF
  <1> USE DEF IInv, Release
  <1>1. \E to \in PCs : Goto(f, to)  BY DEF PCs
  <1>2. Life' = [Life EXCEPT ![f] = Life'[f]]  BY <1>1, LifeMoves
  <1>3. Life[f] = "available"  BY DEF Life
  <1>4. f \in Counted  BY DEF Counted
  <1>5. process_ok  BY <1>4 DEF CountedInitialized
  <1>6. CASE refs = 1
    <2>1. Life'[f] = Life[f]  BY <1>3, <1>5, <1>6 DEF Life, Typed, Goto
    <2>2. Life' = Life  BY <1>2, <2>1 DEF Life
    <2> QED  BY <2>2 DEF OwnersVars, OwnersStep
  <1>7. CASE refs # 1
    <2>1. Counted # {f}  BY <1>7, FS_Singleton DEF RefsCount
    <2>2. PICK g \in FrontEnd \ {f} : g \in Counted  BY <1>4, <2>1 DEF Counted
    <2>3. Owners!InUse(g)  BY <2>2, InUseIs
    <2>4. Life'[f] = "none"  BY <1>7 DEF Life, Typed, Goto
    <2>5. Owners!Destroy(f)
      BY <1>2, <1>3, <2>2, <2>3, <2>4 DEF Owners!Destroy, Owners!Becomes
    <2> QED  BY <2>5 DEF OwnersStep, Owners!Next
  <1> QED  BY <1>6, <1>7

\* The last front end is gone when the library is finalized.
LEMMA FinalizeDestroys ==
  ASSUME IInv, NEW f \in FrontEnd, FinalizeProcess(f)
  PROVE  Owners!Destroy(f)
PROOF
  <1> USE DEF IInv, FinalizeProcess
  <1>1. Counted = {}  BY DEF Settled
  <1>2. \A g \in FrontEnd \ {f} : pc[g] \notin {"count", "finalize"}  BY DEF Exclusive, Holders
  <1>3. \A g \in FrontEnd \ {f} : ~Owners!InUse(g)  BY <1>1, <1>2, InUseIs
  <1>4. Life' = [Life EXCEPT ![f] = Life'[f]]  BY <1>2, LifeMoves DEF PCs
  <1>5. Life[f] = "available" /\ Life'[f] = "none"  BY DEF Life, Typed, Goto
  <1> QED  BY <1>3, <1>4, <1>5 DEF Owners!Destroy, Owners!Becomes

\* For their owners, any number of front ends share one library that is on
\* while one of them is available (glslang_frontend.cpp, lines 31-58): the
\* count and the mutex implement LibraryLifetime.
THEOREM LibraryIsShared == Spec => LibraryShared
PROOF
  <1>1. IInv /\ [Next]_vars => OwnersStep
    <2> SUFFICES ASSUME IInv, [Next]_vars PROVE OwnersStep  OBVIOUS
    <2>1. CASE UNCHANGED vars  BY <2>1 DEF vars, OwnersStep, OwnersVars, Life
    <2>2. ASSUME NEW f \in FrontEnd, Construct(f) \/ Step(f) PROVE OwnersStep
      <3>1. CASE Construct(f) \/ Destroy(f)  BY <3>1, LockIsUnseen DEF OwnersStep
      <3>2. CASE InitializeProcess(f)  BY <3>2, InitializeCreates DEF OwnersStep, Owners!Next
      <3>3. CASE Count(f)  BY <3>3, CountCreates
      <3>4. CASE Compile(f) \/ Compiled(f) \/ DestroyUnavailable(f)
        BY <3>4, UncountedSteps DEF OwnersStep, Owners!Next
      <3>5. CASE Release(f)  BY <3>5, ReleaseDestroys
      <3>6. CASE FinalizeProcess(f)  BY <3>6, FinalizeDestroys DEF OwnersStep, Owners!Next
      <3> QED  BY <2>2, <3>1, <3>2, <3>3, <3>4, <3>5, <3>6 DEF Step
    <2> QED  BY <2>1, <2>2 DEF Next
  <1>2. [][Next]_vars /\ []IInv => [][Owners!Next]_<<glslang, Life>>
    BY <1>1, PTL DEF OwnersStep, OwnersVars
  <1> QED  BY <1>2, OwnersInit, Inductive, PTL DEF Spec, LibraryShared, Owners!Spec
==============================================================================
