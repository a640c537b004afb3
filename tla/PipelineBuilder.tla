--------------------------- MODULE PipelineBuilder ---------------------------
(***************************************************************************)
(* ShaderPipelineBuilder::build and the file-based artifact cache          *)
(* (shader_pipeline_builder.cpp, shader_artifact_cache.cpp).  Builders are *)
(* processes that share one cache directory, as parallel runs of the       *)
(* command-line compiler do.  A step ends where a file is read or written: *)
(* the lookup of a stage, its compilation, the opening of the entry and    *)
(* its write; what lies between is local to a builder.                     *)
(***************************************************************************)
EXTENDS ArtifactCodec, FiniteSets

CONSTANTS
  Builder,      \* build() calls that run concurrently
  Requests,     \* PipelineBuildDesc values
  Backends,     \* sets of injected components a program may be built with
  Path,         \* shader files
  Content,      \* shader texts
  NoSource,     \* a request that gives a path in place of a text
  InitialFiles, \* contents the files may start with
  Bindings,     \* descriptor bindings each text declares
  CompileErrors, InvalidSpirv,  \* texts the front end, spirv-val rejects
  CrossErrors,  \* <<text, target>> pairs the cross-compiler rejects
  MetalSlots,   \* indices in Metal's table
  WholeWrites,  \* FALSE: a write may stop early (disk full, killed process)
  MaxBuilds, MaxEdits, MaxClears  \* bounds on the run

ASSUME WholeWritesAssumption == WholeWrites \in BOOLEAN
ASSUME BindingsAssumption == Bindings \in [Content -> SUBSET Nat]
ASSUME ContentAssumption == {Empty, Padding} \cap Content = {} /\ NoSource \notin Content
\* Stages and targets of a request are vectors.
IsVector(s) == s \in Seq({s[i] : i \in DOMAIN s})
ASSUME RequestsAssumption ==
  Requests # {} /\ \A r \in Requests : IsVector(r.stages) /\ IsVector(r.targets)
\* A stage without a text names a shader file.
ASSUME PathsAssumption ==
  \A r \in Requests : \A i \in DOMAIN r.stages :
    r.stages[i].source = NoSource => r.stages[i].path \in Path
ASSUME FilesAssumption == InitialFiles \subseteq [Path -> Content]
ASSUME BoundsAssumption == {MetalSlots, MaxBuilds, MaxEdits, MaxClears} \subseteq Nat

VARIABLES
  backend,   \* the components of the program: chosen once
  files,     \* contents of the shader files
  cache,     \* the cache directory: a File for each key that has an entry
  pc, req,   \* control point and request of each builder
  work,      \* StageWork of the stages that Phase A has passed
  out,       \* result.artifact.stages
  code,      \* result.code
  seen,      \* history: contents each file had since the build began
  builds, edits, clears  \* counters of the bounds

vars == <<backend, files, cache, pc, req, work, out, code, seen, builds, edits, clears>>

Codes == {"none", "eSuccess", "eCompileFailed", "eUnavailable", "eValidationFailed",
          "eReflectionFailed", "eCrossCompileFailed"}
------------------------------------------------------------------------------
(* What a build computes from texts alone.                                 *)

WantsMsl(r) == \E i \in DOMAIN r.targets : r.targets[i] = "eMSL"

\* metal_dense_program_map applies to requests that want MSL.
Dense(r) == WantsMsl(r) /\ r.dense

\* Mutant: the key has no program fingerprint.
StageKey(r, i) == [stage |-> r.stages[i], targets |-> r.targets, program |-> <<>>]

\* makeKey and makeProgramFingerprint: hashes are taken as injective.  They
\* cover the request, not the files it names, and neither validate nor the
\* components.
MakeKey(r, i) ==
  [stage |-> r.stages[i], targets |-> r.targets, program |-> IF Dense(r) THEN r.stages ELSE <<>>]

\* Dense Metal index of each binding of a text, in a map over `all' bindings.
Slots(text, all) == [b \in Bindings[text] |-> Cardinality({a \in all : a < b})]
NoSlots == <<>>

Reflection(text, targets, all) ==
  [of |-> text, slots |-> IF \E i \in DOMAIN targets : targets[i] = "eMSL" THEN Slots(text, all) ELSE NoSlots]

CrossSource(text, target, all) ==
  CrossCompiledSource(target,
                      [of |-> text, slots |-> IF target = "eMSL" THEN Slots(text, all) ELSE NoSlots],
                      "main")

\* The bindings of a program: the union over its stages' SPIR-V.
Union(texts) == UNION {Bindings[t] : t \in texts}

\* The artifact that reflect and crossCompile make of a stage.
BackendArtifact(b, text, targets, all) ==
  StageArtifact(text,
                IF b.reflector THEN Reflection(text, targets, all) ELSE Empty,
                IF b.cross_compiler
                THEN [i \in DOMAIN targets |-> CrossSource(text, targets[i], all)] ELSE <<>>)

Overflows(all) == Cardinality(all) > MetalSlots

\* Where reflect or crossCompile fail: a stage-local map that overflows, or
\* the first target that cannot be compiled.
BackendCode(b, text, r, all) ==
  IF WantsMsl(r) /\ Overflows(all) /\ b.reflector THEN "eReflectionFailed"
  ELSE IF b.cross_compiler
          /\ \E i \in DOMAIN r.targets : \/ <<text, r.targets[i]>> \in CrossErrors
                                         \/ r.targets[i] = "eMSL" /\ Overflows(all)
       THEN "eCrossCompileFailed"
  ELSE "eSuccess"

\* Mutant: the front end's errors are taken for warnings.
ErrorsAsWarnings(b, text, r) ==
  IF r.validate /\ b.validator = "none" THEN "eUnavailable"
  ELSE IF r.validate /\ b.validator = "spirv-tools" /\ text \in InvalidSpirv THEN "eValidationFailed"
  ELSE "eSuccess"

\* Front end, then validator: the order of lines 131-159.
CompileCode(b, text, r) ==
  IF text \in CompileErrors THEN "eCompileFailed"
  ELSE IF r.validate /\ b.validator = "none" THEN "eUnavailable"
  ELSE IF r.validate /\ b.validator = "spirv-tools" /\ text \in InvalidSpirv THEN "eValidationFailed"
  ELSE "eSuccess"
------------------------------------------------------------------------------
StageCount(p) == Len(req[p].stages)
InPhaseA(p) == pc[p] = "phaseA" /\ Len(work[p]) < StageCount(p)
Current(p) == Len(work[p]) + 1           \* the stage Phase A is at
Emitting(p) == Len(out[p]) + 1           \* the stage Phase B is at
UsesCache(p) == req[p].use_cache

\* The text the front end compiles: request.source first, else the file.
Source(p, i) ==
  LET s == req[p].stages[i] IN IF s.source # NoSource THEN s.source ELSE files[s.path]

Texts(p) == {work[p][i].artifact.spirv : i \in DOMAIN work[p]}

Misses(p) == {i \in DOMAIN work[p] : ~work[p][i].hit}

\* Mutant: the map is built from the stages that missed.
MapOfMisses(p, i) == Union({work[p][j].artifact.spirv : j \in Misses(p)})

\* Mutant: the program's map is not passed on.
StageMap(p, i) == Bindings[work[p][i].artifact.spirv]

\* Mutant: the map is built from the sources, read again.
MapOfSources(p, i) == Union({Source(p, j) : j \in DOMAIN req[p].stages})

\* The map of stage i: the program's, or the stage's own.
MapOf(p, i) == IF Dense(req[p]) THEN Union(Texts(p)) ELSE Bindings[work[p][i].artifact.spirv]

Refused(p) == req[p].stages = <<>> \/ ~backend.front_end

Return(p, c) ==
  /\ pc' = [pc EXCEPT ![p] = "done"]
  /\ code' = [code EXCEPT ![p] = c]
  /\ UNCHANGED <<req, work, out, seen>>

Init ==
  /\ backend \in Backends
  /\ files \in InitialFiles
  /\ cache = [k \in {} |-> Empty]
  /\ pc = [p \in Builder |-> "idle"]
  /\ req \in [Builder -> {CHOOSE r \in Requests : TRUE}]
  /\ work = [p \in Builder |-> <<>>]
  /\ out = [p \in Builder |-> <<>>]
  /\ code = [p \in Builder |-> "none"]
  /\ seen = [p \in Builder |-> [f \in Path |-> {}]]
  /\ builds = 0 /\ edits = 0 /\ clears = 0

StartBuild(p) ==
  /\ pc[p] \in {"idle", "done"}
  /\ builds < MaxBuilds
  /\ \E r \in Requests : req' = [req EXCEPT ![p] = r]
  /\ pc' = [pc EXCEPT ![p] = "phaseA"]
  /\ work' = [work EXCEPT ![p] = <<>>]
  /\ out' = [out EXCEPT ![p] = <<>>]
  /\ code' = [code EXCEPT ![p] = "none"]
  /\ seen' = [seen EXCEPT ![p] = [f \in Path |-> {files[f]}]]
  /\ builds' = builds + 1
  /\ UNCHANGED <<backend, files, cache, edits, clears>>

\* No stages, or no front end.
RefuseBuild(p) ==
  /\ pc[p] = "phaseA" /\ Refused(p)
  /\ Return(p, IF req[p].stages = <<>> THEN "eCompileFailed" ELSE "eUnavailable")
  /\ UNCHANGED <<backend, files, cache, builds, edits, clears>>

\* Mutant: a lookup waits for an entry that is being written.
LookupWhenWritten(k) ==
  IF k \notin DOMAIN cache THEN {Missing} ELSE IF Torn(cache[k]) THEN {} ELSE Decode(cache[k])

\* ShaderArtifactCache::lookup.
Lookup(k) == IF k \in DOMAIN cache THEN Decode(cache[k]) ELSE {Missing}

LookupHit(p) ==
  /\ InPhaseA(p) /\ ~Refused(p) /\ UsesCache(p)
  /\ \E a \in Lookup(MakeKey(req[p], Current(p))) :
       /\ a # Missing
       /\ CachedArtifactReady(a, req[p].targets)
       /\ work' = [work EXCEPT ![p] = Append(@, [artifact |-> a, hit |-> TRUE])]
  /\ UNCHANGED <<backend, files, cache, pc, req, out, code, seen, builds, edits, clears>>

\* No entry, an entry that does not decode, or one that is incomplete.
LookupMiss(p) ==
  /\ InPhaseA(p) /\ ~Refused(p)
  /\ UsesCache(p) =>
       \E a \in Lookup(MakeKey(req[p], Current(p))) :
         a # Missing => ~CachedArtifactReady(a, req[p].targets)
  /\ pc' = [pc EXCEPT ![p] = "compile"]
  /\ UNCHANGED <<backend, files, cache, req, work, out, code, seen, builds, edits, clears>>

\* The front end reads the text; the SPIR-V is validated.
CompileStage(p) ==
  LET text == Source(p, Current(p)) IN
  /\ pc[p] = "compile"
  /\ CompileCode(backend, text, req[p]) = "eSuccess"
  /\ work' = [work EXCEPT ![p] = Append(@, [artifact |-> StageArtifact(text, Empty, <<>>), hit |-> FALSE])]
  /\ pc' = [pc EXCEPT ![p] = "phaseA"]
  /\ UNCHANGED <<backend, files, cache, req, out, code, seen, builds, edits, clears>>

CompileFails(p) ==
  /\ pc[p] = "compile"
  /\ CompileCode(backend, Source(p, Current(p)), req[p]) # "eSuccess"
  /\ Return(p, CompileCode(backend, Source(p, Current(p)), req[p]))
  /\ UNCHANGED <<backend, files, cache, builds, edits, clears>>

\* Mutant: the cross-compiler is looked for before the map is checked.
CrossCompilerFirst(p) ==
  IF Misses(p) # {} /\ req[p].targets # <<>> /\ ~backend.cross_compiler THEN "eUnavailable"
  ELSE IF Misses(p) # {} /\ Dense(req[p]) /\ Overflows(Union(Texts(p))) THEN "eCrossCompileFailed"
  ELSE "eSuccess"

\* Between the phases: the program map of a build with a miss must fit, and
\* targets need a cross-compiler.
LinkCode(p) ==
  IF Misses(p) # {} /\ Dense(req[p]) /\ Overflows(Union(Texts(p))) THEN "eCrossCompileFailed"
  ELSE IF Misses(p) # {} /\ req[p].targets # <<>> /\ ~backend.cross_compiler THEN "eUnavailable"
  ELSE "eSuccess"

EndPhaseA(p) == pc[p] = "phaseA" /\ ~Refused(p) /\ Len(work[p]) = StageCount(p)

Link(p) ==
  /\ EndPhaseA(p) /\ LinkCode(p) = "eSuccess"
  /\ pc' = [pc EXCEPT ![p] = "phaseB"]
  /\ UNCHANGED <<backend, files, cache, req, work, out, code, seen, builds, edits, clears>>

LinkFails(p) ==
  /\ EndPhaseA(p) /\ LinkCode(p) # "eSuccess"
  /\ Return(p, LinkCode(p))
  /\ UNCHANGED <<backend, files, cache, builds, edits, clears>>

InPhaseB(p) == pc[p] = "phaseB" /\ Len(out[p]) < StageCount(p)

\* Mutant: the result was resized, not reserved.
EmitAfterResize(p, a) ==
  out' = [out EXCEPT ![p] = (IF @ = <<>> THEN [i \in DOMAIN req[p].stages |-> a] ELSE @) \o <<a>>]

Emit(p, a) == out' = [out EXCEPT ![p] = Append(@, a)]

TakeHit(p) ==
  /\ InPhaseB(p) /\ work[p][Emitting(p)].hit
  /\ Emit(p, work[p][Emitting(p)].artifact)
  /\ UNCHANGED <<backend, files, cache, pc, req, work, code, seen, builds, edits, clears>>

\* reflect and crossCompile of a miss; the artifact then goes to the cache.
RunBackend(p) ==
  LET i == Emitting(p)
      text == work[p][i].artifact.spirv
      all == MapOf(p, i)
  IN
  /\ InPhaseB(p) /\ ~work[p][i].hit
  /\ BackendCode(backend, text, req[p], all) = "eSuccess"
  /\ work' = [work EXCEPT ![p][i].artifact = BackendArtifact(backend, text, req[p].targets, all)]
  /\ IF UsesCache(p)
     THEN pc' = [pc EXCEPT ![p] = "store"] /\ UNCHANGED out
     ELSE Emit(p, BackendArtifact(backend, text, req[p].targets, all)) /\ UNCHANGED pc
  /\ UNCHANGED <<backend, files, cache, req, code, seen, builds, edits, clears>>

BackendFails(p) ==
  LET i == Emitting(p)
      c == BackendCode(backend, work[p][i].artifact.spirv, req[p], MapOf(p, i))
  IN
  /\ InPhaseB(p) /\ ~work[p][i].hit /\ c # "eSuccess"
  /\ Return(p, c)
  /\ UNCHANGED <<backend, files, cache, builds, edits, clears>>

\* The entry of a key is set to a file.
Put(k, f) == cache' = [j \in DOMAIN cache \cup {k} |-> IF j = k THEN f ELSE cache[j]]

StoreKey(p) == MakeKey(req[p], Emitting(p))
Pending(p) == work[p][Emitting(p)].artifact

\* ofstream with trunc: the old entry is gone before the new one is written.
OpenStore(p) ==
  /\ pc[p] = "store"
  /\ Put(StoreKey(p), Truncated(Pending(p)))
  /\ pc' = [pc EXCEPT ![p] = "write"]
  /\ UNCHANGED <<backend, files, req, work, out, code, seen, builds, edits, clears>>

\* The entry cannot be opened: a warning, and the build goes on.
SkipStore(p) ==
  /\ pc[p] = "store"
  /\ pc' = [pc EXCEPT ![p] = "phaseB"]
  /\ Emit(p, Pending(p))
  /\ UNCHANGED <<backend, files, cache, req, work, code, seen, builds, edits, clears>>

\* One write of the serialized artifact, its outcome not looked at.
WriteStore(p) ==
  /\ pc[p] = "write"
  /\ \E f \in IF WholeWrites THEN {Whole(Pending(p))} ELSE Prefixes(Pending(p)) : Put(StoreKey(p), f)
  /\ pc' = [pc EXCEPT ![p] = "phaseB"]
  /\ Emit(p, Pending(p))
  /\ UNCHANGED <<backend, files, req, work, code, seen, builds, edits, clears>>

\* The write to an entry that was removed after it was opened.
WriteRemoved(p) ==
  /\ pc[p] = "orphan"
  /\ pc' = [pc EXCEPT ![p] = "phaseB"]
  /\ Emit(p, Pending(p))
  /\ UNCHANGED <<backend, files, cache, req, work, code, seen, builds, edits, clears>>

Finish(p) ==
  /\ pc[p] = "phaseB" /\ Len(out[p]) = StageCount(p)
  /\ Return(p, "eSuccess")
  /\ UNCHANGED <<backend, files, cache, builds, edits, clears>>

\* The process dies: what it had in memory is lost, the cache stays.
Crash(p) ==
  /\ pc[p] \notin {"idle", "done"}
  /\ pc' = [pc EXCEPT ![p] = "idle"]
  /\ work' = [work EXCEPT ![p] = <<>>]
  /\ out' = [out EXCEPT ![p] = <<>>]
  /\ UNCHANGED <<backend, files, cache, req, code, seen, builds, edits, clears>>

\* ShaderArtifactCache::clear removes one entry after the other.
ClearEntry ==
  /\ clears < MaxClears
  /\ \E k \in DOMAIN cache :
       /\ cache' = [j \in DOMAIN cache \ {k} |-> cache[j]]
       /\ pc' = [p \in Builder |-> IF pc[p] = "write" /\ StoreKey(p) = k THEN "orphan" ELSE pc[p]]
  /\ clears' = clears + 1
  /\ UNCHANGED <<backend, files, req, work, out, code, seen, builds, edits>>

\* The author of a shader saves a new text.
EditFile ==
  /\ edits < MaxEdits
  /\ \E f \in Path, c \in Content :
       /\ files[f] # c
       /\ files' = [files EXCEPT ![f] = c]
       /\ seen' = [p \in Builder |-> IF pc[p] \in {"idle", "done"} THEN seen[p]
                                     ELSE [seen[p] EXCEPT ![f] = @ \cup {c}]]
  /\ edits' = edits + 1
  /\ UNCHANGED <<backend, cache, pc, req, work, out, code, builds, clears>>

\* A step of build() itself.
BuildStep(p) ==
  \/ RefuseBuild(p) \/ LookupHit(p) \/ LookupMiss(p) \/ CompileStage(p) \/ CompileFails(p)
  \/ Link(p) \/ LinkFails(p) \/ TakeHit(p) \/ RunBackend(p) \/ BackendFails(p)
  \/ OpenStore(p) \/ SkipStore(p) \/ WriteStore(p) \/ WriteRemoved(p) \/ Finish(p)

Next ==
  \/ \E p \in Builder : StartBuild(p) \/ BuildStep(p) \/ Crash(p)
  \/ ClearEntry \/ EditFile

Spec == Init /\ [][Next]_vars

\* Every builder runs on: it waits for no other.
FairSpec == Spec /\ \A p \in Builder : WF_vars(BuildStep(p))
------------------------------------------------------------------------------
Stages == UNION {{r.stages[i] : i \in DOMAIN r.stages} : r \in Requests}
Keys == UNION {{MakeKey(r, i) : i \in DOMAIN r.stages} : r \in Requests}

TypeOK ==
  /\ backend \in Backends
  /\ files \in [Path -> Content]
  /\ DOMAIN cache \subseteq Keys
  /\ pc \in [Builder -> {"idle", "phaseA", "compile", "phaseB", "store", "write", "orphan", "done"}]
  /\ req \in [Builder -> Requests]
  /\ \A p \in Builder : Len(out[p]) <= StageCount(p) /\ Len(work[p]) <= StageCount(p)
  /\ code \in [Builder -> Codes]
  /\ seen \in [Builder -> [Path -> SUBSET Content]]

Succeeded(p) == pc[p] = "done" /\ code[p] = "eSuccess"

\* The texts a key stands for, and the artifact a build without a cache makes
\* of its stage: its slots come from the map over the whole program.
KeyTexts(k) ==
  IF k.program = <<>> THEN {k.stage.source} ELSE {k.program[i].source : i \in DOMAIN k.program}

FreshArtifact(b, k) == BackendArtifact(b, k.stage.source, k.targets, Union(KeyTexts(k)))

Inline(k) == NoSource \notin KeyTexts(k)

(***************************************************************************)
(* Whoever wrote it and however far the write came, an entry of texts      *)
(* holds (the beginning of) the artifact that a build from scratch would   *)
(* make for its key, slots included: the program fingerprint in the key    *)
(* keeps stages of different programs apart (lines 87-92).                 *)
(***************************************************************************)
CacheSound == \A k \in DOMAIN cache : Inline(k) => cache[k].artifact = FreshArtifact(backend, k)

(***************************************************************************)
(* A build of texts that succeeds returns what it would without a cache,   *)
(* whatever other builders, crashes and clears did to the directory.       *)
(***************************************************************************)
Transparent ==
  \A p \in Builder : Succeeded(p) =>
    /\ Len(out[p]) = StageCount(p)
    /\ \A i \in DOMAIN out[p] :
         Inline(MakeKey(req[p], i)) => out[p][i] = FreshArtifact(backend, MakeKey(req[p], i))

(***************************************************************************)
(* Nothing is stored before every stage of a program has compiled and its  *)
(* Metal map fits (Phase A ends before Phase B): no entry belongs to a     *)
(* program that cannot be built.                                           *)
(***************************************************************************)
EntriesLink ==
  \A k \in DOMAIN cache : k.program # <<>> /\ Inline(k) =>
    /\ KeyTexts(k) \cap CompileErrors = {}
    /\ ~Overflows(Union(KeyTexts(k)))

(***************************************************************************)
(* The stages of a successful MSL build agree on the Metal slot of every   *)
(* binding they share (metal_binding_allocator.h:27-30), hits and misses   *)
(* mixed.                                                                  *)
(***************************************************************************)
MslSlots(a) ==
  LET i == CHOOSE j \in DOMAIN a.cross_compiled : a.cross_compiled[j].target = "eMSL"
  IN  a.cross_compiled[i].source.slots

AgreeOnSlots(p, stages) ==
  \A i, j \in stages :
    \A b \in DOMAIN MslSlots(out[p][i]) \cap DOMAIN MslSlots(out[p][j]) :
      MslSlots(out[p][i])[b] = MslSlots(out[p][j])[b]

SlotsAgree == \A p \in Builder : Succeeded(p) /\ Dense(req[p]) => AgreeOnSlots(p, DOMAIN out[p])

(***************************************************************************)
(* Even when entries are cut short, a successful build has the SPIR-V of   *)
(* its texts and a source that is not empty for every requested target     *)
(* (comment of cachedArtifactReady, lines 33-35).                          *)
(***************************************************************************)
ServedComplete ==
  \A p \in Builder : Succeeded(p) =>
    \A i \in DOMAIN out[p] :
      /\ Inline(MakeKey(req[p], i)) => out[p][i].spirv = req[p].stages[i].source
      /\ \A t \in DOMAIN req[p].targets : HasSource(out[p][i], req[p].targets[t])

(***************************************************************************)
(* No artifact decoded from a torn entry is served: a source or an entry   *)
(* point completed with zero bytes is not what a build produced.           *)
(***************************************************************************)
TornNeverServed ==
  \A p \in Builder : Succeeded(p) =>
    \A i \in DOMAIN out[p] : \A t \in DOMAIN out[p][i].cross_compiled :
      LET cc == out[p][i].cross_compiled[t] IN cc.source # Padding /\ cc.entry \notin {Empty, Padding}

(***************************************************************************)
(* A stage given by a file is compiled from a text the file had since the  *)
(* build began.                                                            *)
(***************************************************************************)
FreshOn(p, stages) ==
  \A i \in stages :
    LET s == req[p].stages[i] IN s.source = NoSource => out[p][i].spirv \in seen[p][s.path]

FreshSources == \A p \in Builder : Succeeded(p) => FreshOn(p, DOMAIN out[p])

(***************************************************************************)
(* The stages that a build compiles itself are current and agree on their  *)
(* slots, even when files are saved between the phases and other stages    *)
(* are served stale: reflection, MSL and map all come from the SPIR-V that *)
(* Phase A kept (lines 168-178).                                           *)
(***************************************************************************)
CompiledCoherent ==
  \A p \in Builder : Succeeded(p) =>
    FreshOn(p, Misses(p)) /\ (Dense(req[p]) => AgreeOnSlots(p, Misses(p)))

(***************************************************************************)
(* A build that asks for validation and has a validator returns no SPIR-V  *)
(* that it rejects (shader_pipeline_builder.h:42).                         *)
(***************************************************************************)
OutputValidated ==
  \A p \in Builder : Succeeded(p) /\ req[p].validate /\ backend.validator = "spirv-tools" =>
    \A i \in DOMAIN out[p] : out[p][i].spirv \notin InvalidSpirv

\* Every build returns unless its process dies.
BuildsReturn == \A p \in Builder : pc[p] = "phaseA" ~> pc[p] \in {"done", "idle"}
------------------------------------------------------------------------------
(***************************************************************************)
(* Refinement: seen from outside, a build of texts answers like one that   *)
(* runs the stages of lines 60-268 without a cache.                        *)
(***************************************************************************)
TextOf(r, i) == r.stages[i].source
ProgramTexts(r) == {TextOf(r, i) : i \in DOMAIN r.stages}

\* The code of the first stage that fails.
FirstFailure(codes) ==
  LET failing == {i \in DOMAIN codes : codes[i] # "eSuccess"} IN
  IF failing = {} THEN "eSuccess"
  ELSE codes[CHOOSE i \in failing : \A j \in failing : i <= j]

\* The bindings among which stage i has its slots.
ProgramBindings(r, i) == IF Dense(r) THEN Union(ProgramTexts(r)) ELSE Bindings[TextOf(r, i)]

CompileCodes(b, r) == [i \in DOMAIN r.stages |-> CompileCode(b, TextOf(r, i), r)]
BackendCodes(b, r) ==
  [i \in DOMAIN r.stages |-> BackendCode(b, TextOf(r, i), r, ProgramBindings(r, i))]

AnswerCode(b, r) ==
  IF r.stages = <<>> THEN "eCompileFailed"
  ELSE IF ~b.front_end THEN "eUnavailable"
  ELSE IF FirstFailure(CompileCodes(b, r)) # "eSuccess" THEN FirstFailure(CompileCodes(b, r))
  ELSE IF Dense(r) /\ Overflows(Union(ProgramTexts(r))) THEN "eCrossCompileFailed"
  ELSE IF r.targets # <<>> /\ ~b.cross_compiler THEN "eUnavailable"
  ELSE FirstFailure(BackendCodes(b, r))

AnswerTo(b, r) ==
  [code |-> AnswerCode(b, r),
   stages |-> IF AnswerCode(b, r) = "eSuccess"
              THEN [i \in DOMAIN r.stages |-> FreshArtifact(b, MakeKey(r, i))] ELSE <<>>]

\* Of a request that names files nothing is promised here: see CompiledCoherent.
Answered(answer, b, r) == NoSource \notin ProgramTexts(r) => answer = AnswerTo(b, r)

\* What a caller sees of a build.
Status(p) == IF pc[p] \in {"idle", "done"} THEN pc[p] ELSE "busy"
Answer(p) ==
  IF pc[p] # "done" THEN "no reply"
  ELSE [code |-> code[p], stages |-> IF code[p] = "eSuccess" THEN out[p] ELSE <<>>]

Uncached == INSTANCE UncachedBuild WITH
  Answers <- Answered,
  status <- [p \in Builder |-> Status(p)],
  request <- req,
  reply <- [p \in Builder |-> Answer(p)]

AnswersAsUncached == Uncached!Spec
==============================================================================
