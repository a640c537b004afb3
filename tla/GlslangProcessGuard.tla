------------------------- MODULE GlslangProcessGuard -------------------------
(***************************************************************************)
(* The process-wide reference count of the GLSL front end                  *)
(* (frontend/glslang_frontend.cpp).  Front ends are constructed, used and  *)
(* destroyed by threads of their own; acquire and release hold a mutex,    *)
(* compile does not.  The calls to glslang are steps of their own.         *)
(***************************************************************************)
EXTENDS Naturals, FiniteSets

CONSTANTS
  FrontEnd,          \* GlslangFrontEnd objects, each with its thread
  NoOne,             \* the mutex is free
  MaxConstructions   \* bound: front ends ever constructed

ASSUME FrontEndAssumption == IsFiniteSet(FrontEnd) /\ NoOne \notin FrontEnd
ASSUME BoundAssumption == MaxConstructions \in Nat

VARIABLES
  mutex, refs, process_ok,  \* GlslangProcessGuard
  glslang,                  \* external: the library's process state
  pc,                       \* where each front end is in its life
  constructions             \* counter of the bound

vars == <<mutex, refs, process_ok, glslang, pc, constructions>>

PCs == {"none", "acquire", "count", "available", "unavailable", "compiling", "release", "finalize"}

Init ==
  /\ mutex = NoOne
  /\ refs = 0
  /\ process_ok = FALSE
  /\ glslang = "off"
  /\ pc = [f \in FrontEnd |-> "none"]
  /\ constructions = 0

Goto(f, there) == pc' = [pc EXCEPT ![f] = there]

Lock(f) == mutex = NoOne /\ mutex' = f
Unlock == mutex' = NoOne

\* GlslangFrontEnd(): acquire takes the mutex.
Construct(f) ==
  /\ pc[f] = "none"
  /\ constructions < MaxConstructions
  /\ constructions' = constructions + 1
  /\ Lock(f)
  /\ Goto(f, "acquire")
  /\ UNCHANGED <<refs, process_ok, glslang>>

\* if (refs == 0) process_ok = glslang::InitializeProcess(), which may fail.
InitializeProcess(f) ==
  /\ pc[f] = "acquire"
  /\ refs = 0
  /\ process_ok' \in BOOLEAN
  /\ glslang' = IF process_ok' THEN "on" ELSE glslang
  /\ Goto(f, "count")
  /\ UNCHANGED <<mutex, refs, constructions>>

\* Mutant: a failed initialization is counted too.
CountAlways(f) ==
  /\ (pc[f] = "acquire" /\ refs # 0) \/ pc[f] = "count"
  /\ refs' = refs + 1
  /\ Goto(f, IF process_ok THEN "available" ELSE "unavailable")
  /\ Unlock
  /\ UNCHANGED <<process_ok, glslang, constructions>>

\* The rest of acquire; its result is initialized_.
Count(f) ==
  /\ (pc[f] = "acquire" /\ refs # 0) \/ pc[f] = "count"
  /\ IF process_ok
     THEN refs' = refs + 1 /\ Goto(f, "available")
     ELSE UNCHANGED refs /\ Goto(f, "unavailable")
  /\ Unlock
  /\ UNCHANGED <<process_ok, glslang, constructions>>

\* compile(), which returns eUnavailable when not initialized_.
Compile(f) ==
  /\ pc[f] = "available"
  /\ Goto(f, "compiling")
  /\ UNCHANGED <<mutex, refs, process_ok, glslang, constructions>>

Compiled(f) ==
  /\ pc[f] = "compiling"
  /\ Goto(f, "available")
  /\ UNCHANGED <<mutex, refs, process_ok, glslang, constructions>>

\* ~GlslangFrontEnd(): only an initialized one releases.
DestroyUnavailable(f) ==
  /\ pc[f] = "unavailable"
  /\ Goto(f, "none")
  /\ UNCHANGED <<mutex, refs, process_ok, glslang, constructions>>

\* Mutant: the destructor does not ask for initialized_.
DestroyAny(f) ==
  /\ pc[f] \in {"available", "unavailable"}
  /\ Lock(f)
  /\ Goto(f, "release")
  /\ UNCHANGED <<refs, process_ok, glslang, constructions>>

Destroy(f) ==
  /\ pc[f] = "available"
  /\ Lock(f)
  /\ Goto(f, "release")
  /\ UNCHANGED <<refs, process_ok, glslang, constructions>>

\* Mutant: the process is finalized by every release.
FinalizeAlways(f) ==
  /\ pc[f] = "release"
  /\ refs' = refs - 1
  /\ Goto(f, "finalize") /\ UNCHANGED mutex
  /\ UNCHANGED <<process_ok, glslang, constructions>>

\* Mutant: the last release leaves the process initialized.
NeverFinalize(f) ==
  /\ pc[f] = "release"
  /\ refs' = refs - 1
  /\ Goto(f, "none") /\ Unlock
  /\ UNCHANGED <<process_ok, glslang, constructions>>

\* Mutant: the early return of an unbalanced release, taken one call too early.
ReturnsEarly(f) ==
  /\ pc[f] = "release"
  /\ IF refs <= 1 THEN UNCHANGED refs ELSE refs' = refs - 1
  /\ Goto(f, "none") /\ Unlock
  /\ UNCHANGED <<process_ok, glslang, constructions>>

\* release() up to the call of FinalizeProcess.
Release(f) ==
  /\ pc[f] = "release"
  /\ refs' = IF refs <= 0 THEN refs ELSE refs - 1
  /\ IF refs = 1 /\ process_ok
     THEN Goto(f, "finalize") /\ UNCHANGED mutex
     ELSE Goto(f, "none") /\ Unlock
  /\ UNCHANGED <<process_ok, glslang, constructions>>

FinalizeProcess(f) ==
  /\ pc[f] = "finalize"
  /\ glslang' = "off"
  /\ process_ok' = FALSE
  /\ Unlock
  /\ Goto(f, "none")
  /\ UNCHANGED <<refs, constructions>>

Step(f) ==
  \/ InitializeProcess(f) \/ Count(f) \/ Compile(f) \/ Compiled(f)
  \/ DestroyUnavailable(f) \/ Destroy(f) \/ Release(f) \/ FinalizeProcess(f)

Next == \E f \in FrontEnd : Construct(f) \/ Step(f)

Spec == Init /\ [][Next]_vars

\* Threads run, a mutex that becomes free again and again is acquired, and a
\* front end does not live for ever, though it may compile any number of times.
FairSpec ==
  /\ Spec
  /\ \A f \in FrontEnd :
       /\ WF_vars(InitializeProcess(f) \/ Count(f) \/ Release(f) \/ FinalizeProcess(f))
       /\ WF_vars(Compiled(f))
       /\ SF_vars(Destroy(f)) /\ WF_vars(DestroyUnavailable(f))
------------------------------------------------------------------------------
TypeOK ==
  /\ mutex \in FrontEnd \cup {NoOne}
  /\ refs \in 0 .. Cardinality(FrontEnd)
  /\ process_ok \in BOOLEAN
  /\ glslang \in {"on", "off"}
  /\ pc \in [FrontEnd -> PCs]
  /\ constructions \in 0 .. MaxConstructions

Holders == {f \in FrontEnd : pc[f] \in {"acquire", "count", "release", "finalize"}}
Users == {f \in FrontEnd : pc[f] \in {"available", "compiling"}}

(***************************************************************************)
(* No thread is inside glslang while the process is not initialized: the   *)
(* last release of another front end does not finalize it under a compile, *)
(* which takes no lock (header of glslang_frontend.h: instances coexist).  *)
(***************************************************************************)
CompilesInitialized == \A f \in Users : glslang = "on"

(***************************************************************************)
(* With the mutex free the count is the number of available front ends,    *)
(* and the library is initialized exactly when there is one: a failed      *)
(* initialization is not counted, not released, and tried again by the     *)
(* next front end.                                                         *)
(***************************************************************************)
CountsUsers ==
  mutex = NoOne =>
    /\ refs = Cardinality(Users)
    /\ process_ok <=> Users # {}
    /\ glslang = "on" <=> Users # {}

(***************************************************************************)
(* The library is initialized and finalized in turn, never twice in a row  *)
(* and never from under a front end.                                       *)
(***************************************************************************)
Alternate ==
  [][ /\ \A f \in FrontEnd : InitializeProcess(f) => glslang = "off"
      /\ \A f \in FrontEnd : FinalizeProcess(f) => glslang = "on" /\ Users = {} ]_vars

(***************************************************************************)
(* To their owners, acquire and release are one step each, although the    *)
(* library's own calls lie between theirs and compile takes no lock: a     *)
(* front end becomes available at once while another is, the first one     *)
(* turns the library on and the last one turns it off (glslang_frontend.h  *)
(* says that instances share the library's state).  An acquire that has to *)
(* initialize takes effect with InitializeProcess, any other with the      *)
(* count; the last release takes effect with FinalizeProcess.              *)
(***************************************************************************)
Life ==
  [f \in FrontEnd |->
     IF pc[f] = "acquire" THEN "none"
     ELSE IF pc[f] = "count" /\ ~process_ok THEN "unavailable"
     ELSE IF pc[f] \in {"count", "release", "finalize"} THEN "available"
     ELSE pc[f]]

Owners == INSTANCE LibraryLifetime WITH Owner <- FrontEnd, library <- glslang, life <- Life
LibraryShared == Owners!Spec

\* Every front end is destroyed in the end, and the library is finalized.
FinallyOff == <>[](glslang = "off" /\ refs = 0)
==============================================================================
