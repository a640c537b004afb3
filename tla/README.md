# Formal models of vneshaderc

vneshaderc compiles GLSL shaders to SPIR-V, reflects them, cross-compiles them to
MSL, WGSL and ESSL, keeps the results in a file cache and writes `.vneshader`
bundles. What is hard to get right is of two kinds. One is what the pipeline keeps
between its steps: a cache directory that several processes share, index tables
with limits, a process-wide library with a use count, and directories of files that
are rewritten in place. The other is that its pure functions must agree with each
other over long distances: what the parser drops with what the exit status says,
what a cache key covers with what an artifact depends on, the indices in a
reflection with those in the sources, a writer with its reader. These modules model
both.

Paths below are relative to the repository root. Every definition that stands for
code is mapped to its lines in `PROJECT.json`; operators under a comment "Mutant"
are wrong versions of the definition next to them, used to see that a property
notices the difference.

## The system

| Component | State it keeps | Operations | Modelled by |
|---|---|---|---|
| Pipeline builder (`shader_pipeline_builder.cpp`) | the work items and the result of one `build()` | Phase A (lookup or compile each stage), the program map, Phase B (reflect, cross-compile, store) | `PipelineBuilder`, abstractly `UncachedBuild`; its results in `ShaderCompiler` |
| Artifact cache (`shader_artifact_cache.cpp`) | a directory of `.vnca` entries | `makeKey`, `lookup`, `store`, `clear` | `PipelineBuilder`, `ArtifactCodec`; what the hash covers in `ShaderCompiler` |
| Metal binding allocator (`crosscompiler/metal_binding_allocator.cpp`) | maps from (set, binding) to buffer, texture and sampler indices | construction, `overflowError`, lookups, `applyMslResourceBindings` | `MetalBindingAllocator`; in closed form `MetalMap` |
| glslang front end (`frontend/glslang_frontend.cpp`) | a mutex, a use count, "initialized", in the process | constructor, `compile`, destructor | `GlslangProcessGuard`, to its owners `LibraryLifetime`; its outcome in `PipelineBuilder` |
| Pipeline spec parser (`shader_pipeline_spec.cpp`) | none | `parseShaderPipelineSpecJson`, `toBuildDesc` | `PipelineSpec` |
| SPIRV-Cross reflector, cross-compilers | none | `reflect`, `crossCompile` for each target | `Reflector`; their outcomes in `PipelineBuilder` |
| Reflection codec (`shader_reflection_binary.cpp`) | none | serialize, deserialize | `ReflectionCodec`; a cut blob in an entry, `ArtifactCodec` |
| GPU layout tools (`gpu_layout_tools.cpp`) | none | merge registries, compare sizes, print declarations | `GpuLayouts` |
| Bundle writer and reader (`shader_bundle.cpp`) | the files of a bundle directory | `writeShaderBundle`, `readShaderBundleHeader` | `BundleFormat`, `CompileShaders`; to its readers `PublishedBundles` |
| Command-line compiler (`tools/shader_compiler_cli/main.cpp`) | position in the list of variants | parse, then build, check, write and announce each variant | `ShaderCompiler`; its files in `CompileShaders` |
| `tools/compile_shaders.py` | a pool of jobs, one per manifest | run the compiler, convert with naga, patch `bundle.header` | `CompileShaders` |
| Component factory, validators, Slang and DXC stubs | none | which components a program has | the sets of components in `PipelineBuilder` and `ShaderCompiler` |

How they interact. A `build()` calls the front end, the validator, the reflector
and the cross-compiler that were injected into its program; it calls the allocator
for the map of the whole program (`metal_dense_program_map`) or of a stage; it reads
and writes the cache directory, which parallel runs of the compiler share. The
compiler builds each variant of a manifest and writes one bundle per variant. The
script runs one compiler per manifest, in parallel, then reads the headers that the
compiler wrote and patches them.

What each part owes its users:

- builder and cache: the cache cannot be told from no cache, except by time; stages
  of one program agree on Metal slots; what is returned is complete and validated
  when it was asked to be; a failing program leaves nothing wrong behind;
- allocator: what passes `overflowError` gets one slot per resource within Metal's
  tables, a combined image sampler the same index in both;
- front end: glslang is initialized while any front end may be inside it, and
  finalized after the last;
- parser, compiler: success means that each variant of the manifest has a bundle with
  each of its stages and targets, compiled with its own macros; a size that was
  registered holds in every bundle; the declarations are the schema owner's;
- reflector, cross-compilers, codec: the indices of a reflection are those of the
  sources in the same bundle, and they can be read back;
- bundle, script: a bundle that can be read is whole; success means that every bundle
  is there.

## Modules

### `MetalBindingAllocator`

One action per iteration of each loop of `fromProgram` and `assignFromResourceLists`:
`CollectStage` (the resources of one module), `AssignBuffer`, `AssignTexture`,
`PinCombined`, `SkipReserved` and `AssignSeparate`, and the `Begin...` steps that start
a loop. The code sorts each list of keys and drops repetitions; a loop of the model
visits its set of keys in that order (`IsFirst`). Indices are `uint32_t` in the code and
taken modulo `IndexMod` here. `Lookup` gives 0 for a key that has no index, as the code
does when its assertion is compiled out. `OverflowError` is the check that follows the
loops, one maximum per table.

The hard part is that a `buffer_base` close to 2^32 wraps the counter: indices then
restart at zero. `AcceptedProgramFits` says that such a program never passes the
check: if the counter can wrap, the first buffer already has an index above the limit.

### `PipelineBuilder`, `ArtifactCodec`, `UncachedBuild`

`Builder` is a set of `build()` calls on one cache directory. A step ends where a
file is read or written, since that is where processes can see each other:
`StartBuild`, `RefuseBuild`, `LookupHit`, `LookupMiss`, `CompileStage`,
`CompileFails`, `Link` and `LinkFails` (the checks between the two phases),
`TakeHit`, `RunBackend`, `BackendFails`, `OpenStore` (the `ofstream` truncates the
entry), `WriteStore`, `SkipStore` (the entry cannot be opened), `Finish`. Around
them: `Crash` of a process anywhere, `ClearEntry` (one removal of
`ShaderArtifactCache::clear`; the builder that has the entry open goes on writing to
a file nobody sees, `WriteRemoved`) and `EditFile` (a shader file is saved).

Data are abstracted to what the properties tell apart. A text stands for a source
with its includes, and for its SPIR-V; it has a set of bindings. A reflection and a
cross-compiled source are records of the text and of the slots they were made
with, so that an artifact made with the map of another program is a different value.
A key is a record of what the hash covers: hashes are taken to be injective over
that, and over no more (a path is hashed, the text behind it is not; `validate` is
not).

`ArtifactCodec` has what `lookup` returns for a file that holds only a beginning of
an artifact. `Reader::ok` accepts an offset past the end, so a cut file may decode,
with zeros in place of what is missing; `Decode` gives the values possible for a
cut at each field, and `CachedArtifactReady` is the check that the builder makes.

`UncachedBuild` is the abstract specification: a call is answered, at some time, with
`Answer(backend, request)`, a function that knows no cache. `AnswersAsUncached`
instantiates it with a refinement mapping under which the two phases are steps from
"busy" to "busy", and with `AnswerTo`, which says in one expression which code a
program must get: the first failing stage in Phase A, then the program map, then the
missing cross-compiler, then the first failing stage in Phase B.

### `ShaderCompiler` and the modules it is built from

`ShaderCompiler` is `main` from the manifest to the bundles, invoked again and again on
one cache: `Load`, `LoadFails`, then for each variant `Build` (or `BuildFailsEarly`,
which stores nothing, or `BuildFailsLate`, which leaves the earlier stages in the
cache), `CheckLayouts` or `LayoutsRejected`, `WriteBundle`, `EmitDecls` or `SkipDecls`.
A build and the writing of a bundle are one step each, because their interleavings and
losses are the subject of the modules above and below; what is in them is
looked at here:

- `PipelineSpec`: a document is a record in which each key may be absent or of a wrong
  type. `ParseSpec` says what it becomes, and `Errors` which keys were given and not
  taken. Strings that the code concatenates (a path in the manifest's directory, a
  variant's name) are tuples of their parts.
- `GpuLayouts`: registries merged in order, the comparison of sizes (modulo `SizeMod`,
  2^32 in the code) and the declarations, as records of what their text says.
- `Reflector`: a SPIR-V module is what SPIRV-Cross finds in it. `Reflect` gives the
  reflection, with the Metal indices that `CompilerMSL` has after
  `applyMslResourceBindings` (`Registration`: the last list that has a key wins) or, for
  what is not active, the allocator's; `EmittedSlot` those in the MSL after
  `fixCombinedSamplerIndices`; `Remaps` the table that is scanned from the WGSL, and
  `Remapped` the builder's patch.
- `MetalMap`: the allocator's map in closed form. `MatchesClosedForm` in
  `MetalBindingAllocator` shows that the loops compute it.
- `ReflectionCodec`: writer and reader field by field. A blob is a sequence of values;
  a string and its length are one.

The key of a stage has what `hashCompileRequest` hashes: names and values of macros and
include directories as one sequence, without counts (`Hashed`). A macro takes two places
in the sequence, so two directories can pass for a macro and its value, and different
requests can have one key (`HashedAlike`). What the cache may then give a stage is what
a build makes of a program with the one request in the place of the other (`BuiltAs`),
and `BundlesFresh` says that it gives nothing else. The run has two such requests.

### `GlslangProcessGuard`

Threads construct, use and destroy front ends. `acquire()` and `release()` hold a
mutex across their calls into glslang, so each is two steps where it calls
`InitializeProcess` or `FinalizeProcess`; `Compile` and `Compiled` hold no lock.
`glslang` is the state of the library itself, which the guard keeps in step with its
count. An initialization may fail.

`LibraryLifetime` is what the owners of front ends see: a constructor and a destructor
are one step each, and the library is on while some front end is available.
`LibraryShared` says that the guard implements it. The mapping (`Life`) shows a front
end as soon as `InitializeProcess` has answered, or else with the count, and keeps
it until the count is decremented or, for the last one, until `FinalizeProcess` returns.

### `BundleFormat`, `CompileShaders`

`BundleFormat` says which files an artifact is written to and in which order
(`Writes`), what `bundle.header` says of them, and how its two readers take it: the
C++ one, which bounds the number of stages, and the Python one, which does not.

`CompileShaders` is one call of `compile_one` per job. The compiler's part:
`BuildVariant`, then for each file of `writeShaderBundle` an open that truncates and a
write (or `SkipFile`, where a stage has no source for a target), each of which may fail as
the code handles it (`OpenFails`, `WriteFails`), or fail without being noticed when the stream is closed (`WriteUnflushed`, allowed by
`FlushFails`). The script's part: for each bundle, the stages without WGSL are
converted one by one (`Convert`, `ConvertFails`), and the header is patched (`PatchOpen`,
`PatchWrite`). The script reads the header four times, and another job may write
it in between: to see whether anything is missing (`NagaNeeded`, `NagaSkip`), for the list of
what is missing (`FindMissing`), for the stages (`NagaStart`, `NagaRefused` where it cannot be
read by then), and for the patch (`PatchRead`). The list may so have an index that the
stages have not; the conversion then fails. Either process may be killed
(`Crash`). A later run, of an edited manifest, finds the directories as they are.

Jobs of the model are those whose manifests have the same stem: the script derives
the output directory from the stem alone, so they share it. Manifests with
different stems touch nothing in common.

`PublishedBundles` is what a reader of the directories sees of a first run: of each
variant nothing or a whole bundle, with the contents that its files have. The
compiler publishes the bundles in their order (`Publish`); the script takes each bundle
that lacks WGSL for a stage away (`Withdraw`, the truncation of its header) and brings
it back complete (`Complete`). `Fail` leaves what is published, and success is reported
when all bundles are complete. `FirstRunPublishes` says that `CompileShaders` implements
it until a second run starts, which overwrites what it finds. The mapping reads the header as `readShaderBundleHeader`
does and takes the contents of the files it names (`Seen`); `Status` forgets the file
that is being written. Builds, opens, writes of files other than the header, naga's
conversions and every failure or kill but its report are steps that show nothing.

## What the runs check

| Run | Instance | Shows |
|---|---|---|
| `MCMetalBindingAllocator` | 3 keys in 2 sets, every program of 2 stages with at most 2 resources each, bases 1, 2 and 15, a 4-bit counter, limits 3, 2, 2 | `AcceptedProgramFits`, `SamplerPinned`; `MatchesClosedForm`: the loops compute what a definition by ranks says; `Terminates` |
| `PipelineSharing` | 2 builders, 3 builds, a clear, crashes; programs that share a vertex shader | `CacheSound`, `Transparent`, `SlotsAgree` |
| `PipelineFailures` | 1 builder, 2 builds, a clear, an edit, 6 sets of components, requests that end in every way, some of files | `AnswersAsUncached` (refinement), `EntriesLink`, `CompiledCoherent`, `BuildsReturn` |
| `PipelineTorn` | 2 builders, writes that stop anywhere | `ServedComplete` |
| `ShaderCompiler` | 2 invocations on one cache (or without), 39 invocations of 37 manifests, 10 shader modules with every kind of resource, Tint or not, limits of 5 bindings, 2 members, 2 stages | `BundlesFresh`, `PublishedAsWritten`, `LayoutsHold`, `DeclsOfSchemaOwner`, `ReflectionLoads`, `SlotsAsEmitted` |
| `MCGlslangProcessGuard` | 3 front ends, 5 constructions | `CompilesInitialized`, `CountsUsers`, `Alternate`, `FinallyOff`, `LibraryShared` |
| `BundleRebuilds` | 3 runs of one job over 3 manifests, kills and failures, naga | `FirstBundleConsistent`, `ReportedComplete`, `FirstRunPublishes` |
| `BundleRaces` | 2 jobs on one directory, lost writes | `NamedFilesExist` |

Four runs end in a counterexample; each is a disagreement between what the repository
says and what its code does, listed under "findings" in `PROJECT.json`:

| Run | Property | What happens |
|---|---|---|
| `PipelineStaleFiles` | `FreshSources` | a stage given by a file is served from the cache after the file was edited: the key has its path only |
| `PipelineValidate` | `OutputValidated` | SPIR-V cached by a build without validation is returned, unvalidated, to a build that asked for it |
| `PipelineTornServed` | `TornNeverServed` | an entry cut in its last source decodes with zero bytes in place of text, and is complete for the check the builder makes |
| `BundleTwins` | `StageFilesOwn` | two stages of one kind are written to one file |

Two consequences have no run of their own and can be seen by changing one line of a
configuration. With `INVARIANT SlotsAgree` in `PipelineStaleFiles.cfg`: a build dies
after its first stage was stored, the second stage's file is edited, and the next
build takes the first stage from the cache with its old slots and gives the second
slots of the new program. With `FlushFails = TRUE` in `BundleRebuilds.cfg`: the write
helpers look at the stream before it is closed, so a header that fails to reach the
disk is reported as written, and neither `FirstBundleConsistent` nor `ReportedComplete`
holds.

### Bounds

`MaxBuilds`, `MaxEdits`, `MaxClears`, `MaxConstructions` and `MaxRuns` bound how often
something new is started, not how far it goes: what has begun may take all its
steps. They are enough for the cases in question. A wrong entry needs a build that
writes it and one that reads it, and a third that does either between the two steps
of a write; a stale hit needs an edit between two builds; slots of two programs need
two programs that share a stage. In `MCGlslangProcessGuard`, a fifth construction can
follow a finalization while two other front ends exist. In `BundleRebuilds`, the third
run overwrites what a second one left over a first, of other targets and other
variants. The 4-bit counter with base 15 wraps at its second buffer, as 2^32 - 1 does;
limits of 2 and 3 are exceeded by programs of the instance, and by less than the
width of the counter, as Metal's are.

`PipelineSharing` and the other runs of several builders use one set of components, and
`PipelineFailures`, which uses all of them, one builder: components never change while
a program runs, so the two questions are separate. `PipelineFailures` has
`WholeWrites = TRUE`; the refinement is false without it, as `PipelineTornServed` shows.

In `ShaderCompiler`, half of the manifests are good and half fail, each in its own
place: what the parser refuses or reports, a language without a front end, a shader that
does not compile or is not valid, a Metal map that overflows, a storage image whose
format is not supported, registries that are missing, empty, malformed or that repeat a
block, a size that differs. A second invocation finds the entries and the bundles of any
first one, failed ones included. Modules have more bindings, and longer strings, than the
reader's limits of this instance take, so that both outcomes of reading occur.
Where the code goes by names or without counts, the instance has the case that goes
wrong: a manifest with the include path of another one's macro, so that its fragment shader is served
compiled as the other's (or the reverse, whichever is built first); and `fs_alias`, a shader with a
separate sampler named after a texture, a combined and a separate image at one (set, binding),
and a declaration that the scan of the WGSL enters under another resource's name.

No symmetry is used. Deadlock is not checked in these runs because each system stops
when what was asked for has ended; `BuildsReturn`, `Terminates` and `FinallyOff` say
that it does not stop before.

### Fairness

- `MetalBindingAllocator`: `WF(Next)`, one thread that runs loops.
- `PipelineBuilder`: `WF(BuildStep(p))` for each builder. A builder takes no lock and
  waits for no other; each of its steps is a call that returns. Starting, crashing,
  clearing and editing are not fair.
- `GlslangProcessGuard`: weak fairness for a thread that holds the mutex, and for a
  compile, which returns. `Destroy` has strong fairness, because two things disable
  it again and again without stopping it: another thread's hold on the mutex, and
  another `compile()` of the same front end. It says that a mutex is not kept from one
  thread for ever and that a front end does not live for ever.
- `ShaderCompiler` and `CompileShaders` have safety properties only. A run ends because it goes through a
  finite list of files.

## What is proved

The theorems hold for every value of the constants that satisfies the named
assumptions in the modules; TLC evaluates these on every run.

- `MetalBindingAllocatorProofs`: `TypeCorrect`, `Inductive`, `PinnedAlways`,
  `AcceptedFits`, `DenseAlways`, `LoopsMatchClosedForm`, for any finite set of keys, any program, any limits and any width that
  leaves room for the limit and two indices per key (`WidthAssumption`: with 2^32 indices,
  only a large base can wrap). `AcceptedProgramFits` speaks of the end of the loops, so
  the invariant `IInv` says what holds in the middle of each: the maps have exactly the keys visited
  so far (`Domains`); a buffer table whose base is within the limit is injective, and one
  whose base is not has an entry equal to its base (`BuffersOK`); textures are injective
  and below the counter (`TexturesOK`); pinned samplers have their texture's index
  (`Pins`); separate samplers are injective, avoid every pinned index, and their counter
  is the number of keys visited plus that of the pins it has passed (`SamplersOK`).
  `MatchesClosedForm`, on which `Reflector` relies, needs the exact indices and not only
  their order: `DInv` adds to `IInv` that each loop visits the keys in order (`InOrder`),
  that a key's index is the base plus the number of keys before it, and for separate
  samplers that the free indices below the counter are as many as the separate samplers
  visited (`Dense`).
- `GlslangProcessGuardProofs`: `Inductive`, `TypeCorrect`, `NeverCompilesFinalized`,
  `CountIsUsers`, `Alternating`, for any finite set of threads. `CountsUsers` is about a
  free mutex and says nothing while a thread is between two steps under it. `IInv`
  adds: at most one thread holds the mutex (`Exclusive`); the count is that of the
  threads that are available, compiling or about to release (`RefsCount`); the library
  follows `process_ok` (`ProcessFollows`), which is true while anyone is counted
  (`CountedInitialized`); and when no thread is between the two halves of `acquire()` or
  `release()`, it is true only while someone is counted (`Settled`).
  The same invariant proves the refinement, `LibraryIsShared`, step by step: waiting for the
  mutex shows nothing (`LockIsUnseen`); who finds a count takes effect with its own
  increment and finds the library on (`CountCreates`); a release that leaves a count leaves
  somebody in use (`ReleaseDestroys`), and one that does not is alone with the
  library until it is finalized (`FinalizeDestroys`).
- `PipelineBuilderProofs`: `TypeCorrect`, `Inductive`, `CacheIsSound`, `CacheIsTransparent`
  for any number of builders, requests, components, crashes, clears and edits.
  `CacheSound` holds whether writes are whole or not. `Transparent` is proved where they
  are. Neither property is inductive: what is written to the cache was in a builder's
  memory before. The invariant has two parts, `Shape` (at each
  control point, how many stages each phase has done) and `Sound` (of texts, a stage in
  work has the SPIR-V of its source; what is about to be stored, what is in the cache and,
  with whole writes, what was read back or emitted is the artifact determined by the key). It rests on the fact that a dense key contains the texts of all
  stages, so the map built from the stages in memory equals the map built from the key.

- `PipelineServingProofs`: `ServingInvariant`, `EntriesAlwaysLink`, `ServedIsComplete`,
  `SlotsAlwaysAgree`, on top of the invariant above. Its own invariant says what a builder
  may conclude at each control point: a hit passed `CachedArtifactReady`, so it has a
  source for every target, however short its entry was (`HitsReady`); each text in work
  compiles, of a hit because its entry exists only if its program compiled
  (`WorkCompiles`, which needs `EntriesLink`, so the two are proved together); past `Link`,
  a miss has a cross-compiler and a map that fits (`MissesLink`); hence what is about to be
  stored, and what is emitted, has its sources (`PendingReady`, `OutReady`).
  `ServedIsComplete` and `SlotsAlwaysAgree` suppose that the cross-compiler itself
  writes no empty source (`SourcesNotEmpty`); the latter also whole writes and
  programs of texts (`TextsOnly`), without which `PipelineTornServed` and
  `PipelineStaleFiles` are counterexamples. `CompiledIsCoherent` has no such hypothesis: the
  stages that a build compiles itself are current and agree on their slots, whatever the
  cache holds.
  In the same module, on top of these: `AnswerInvariant`, `CacheIsUnseen`,
  `OutputIsValidated`. `CacheIsUnseen` is the refinement: for builds of texts, every behaviour of `PipelineBuilder`
  is one of `UncachedBuild` under the mapping, step by step. A step maps to a stutter until
  the code that a builder gets is known; that it is then `AnswerTo` needs an invariant
  which says what each control point has ruled out (`Everything`): an entry exists only
  for a request that would be answered with success (`EntriesAnswer`); past the program map
  no earlier code applies (`NotRefused`); each stage of the work so far passes each phase,
  hits by their entry and misses by what was run (`WorkPasses`); and the same for what is
  to be stored and what is returned (`PendingEmits`, `OutEmits`). Its hypotheses are
  that writes are whole and that two builders of one program agree on validation
  (`ValidatesAlike`), since the key does not say whether a build validates.
  `OutputIsValidated` shows that `PipelineValidate`, the counterexample to
  `OutputValidated`, is the only kind: with `ValidatesAlike`, and for programs of texts,
  no torn write or crash lets SPIR-V past the validator.
- `CompileShadersProofs`: `TypesAlwaysOK`, `Inductive`, `NamedFilesAlwaysExist`, for any number of jobs, any
  manifests and any number of stages, with lost writes and kills. A header that can be
  read was written after the files it names, but `NamedFilesExist` says nothing of a
  header yet to be written. `IInv` adds that what `writeShaderBundle` has gone past is in
  the directory (`WrittenIn`, `OpenIn`), and so is what the script has read of a header
  and what it has added to it (`ParsedIn`); `MissingIn` says that the list of missing stages is
  never empty while it is worked on. That no step removes a file is what lets it
  survive the other jobs.
- `FirstBundleProofs`: `FirstBundleAlwaysConsistent`, `ReportedAlwaysComplete` and
  `FirstRunIsPublication` (with `OneRunIsPublication`), on top of it. The invariant
  `FInv` of the first is about the one run there has been: each directory has no header
  that can be read or the whole bundle (`Good`); those ahead have none (`NoneAhead`,
  `NotYet`); what has been written is the artifact's (`Wrote`), because no file that a
  header needs is written twice (`WrittenOnce`); what the script has read and converted
  is too (`Converted`), and the three reads of a header before it is converted agree, as no
  other job is there. It supposes that the stages of a program are of different kinds
  (`OwnFiles`; `BundleTwins` is the counterexample) and that closing a stream succeeds
  (`FlushFails = FALSE`).
  `ReportedAlwaysComplete` is about any run of a single job over what its earlier runs
  left, of other manifests, failed or killed. `OnlyRun` says of each point of the run that
  the bundles the compiler is done with are whole (`Compiled`), and so are those the script
  has found or made, with WGSL for every stage of those it is past (`Scripted`).
  It supposes one job (`OneJob`: jobs of one stem overwrite each other's directories),
  `OwnFiles`, no failure on close, programs within the header's 16 stages (`FewStages`),
  and that a header is neither of the marks for a cut file and for one that cannot be
  read (`MarkersDiffer`).
  `FirstRunIsPublication` is the refinement, under the same hypotheses without `OneJob`:
  any number of manifests may be waiting, and one of them is run first.
  `OneRunIsPublication` says that with `MaxRuns = 1` it is all of `Readers!Spec`.
  A bundle that is whole before and after a step looks the same if its header does
  (`SightStays`), so only the three writes of a header show anything. That they show what
  the abstract step says needs one invariant more, `Unpatched`: the headers of a run
  that is still compiling, and of the bundles the script has not come to, are exactly those
  that the compiler wrote (`HeaderOf`), and a bundle that is converted lacks WGSL.
  Both modules rest on `ManifestsAssumption` (a manifest has a variant) and
  `NoFileAssumption` (no file has the empty name).
- `ShaderCompilerProofs`: `TypeCorrect`, `BundlesAlwaysFresh`, `BundlesAreOwn`, `ProgressInvariance`,
  `DeclsAlwaysOfOwner`, `LayoutsAlwaysHold`, `AlwaysPublishedAsWritten`,
  `SlotsAlwaysAsEmitted`, for any manifests, any
  front end, any SPIR-V modules and any number of invocations. The heart is what
  equal keys say of two stages. With Metal among the targets, the key holds the program's
  requests and so its map, up to requests hashed alike: programs that agree in the key of a stage
  exchange what their stages may have been compiled as (`HashTellsAlike`, `Exchanged`), and a
  stage made for the one is a stage made for the other (`KeyTransfers`). The invariant
  `IInv` carries this through the cache (`CacheRight`: an entry is, for each stage that has
  its key, what a build of some program hashed alike makes) and the artifact in memory
  (`ArtifactRight`). Nothing is assumed of the requests that share a cache. `BundlesAreOwn` says when a
  bundle is exactly its own: a sequence of macros' names and values followed by
  directories is cut at one place only if the numbers of macros and of directories of the
  requests are not `Confusable` (`OptionsDetermined`), which is when one has two
  directories more for each macro less. The invariant needs of the values of a manifest that
  names of macros are strings and lists of them are sequences (`VectorsAssumption`), as
  the C++ types have it. `DeclsOfSchemaOwner`, `LayoutsHold` and `PublishedAsWritten` are about the end of a run, so `PInv`
  says what a run has done for each variant it has gone past: its checks passed,
  its bundle is in the directory, its declarations are those of the variant that owns the
  schema. They rest on lemmas about the folds of the community modules: a filter as
  long as its sequence keeps it whole (`Only`), so a document that is parsed without a
  loss is the pipeline that was written. `DocumentsAssumption` says that what a document
  gives for variants, stages and targets are arrays.
  `SlotsAlwaysAsEmitted` follows from `BundlesFresh` and lemmas about one stage
  (`StageSlots`): each binding of a reflection is of a resource (`ReflectedBindings`); the repair
  of samplers gives a combined image the index it had, as its texture and its sampler have one
  index in the map (`CombinedInMap`, `CombinedEmitted`); and the entry by which a binding is
  patched is that of a declaration which the scan took for it (`PatchedAsEntered`). It
  supposes nothing of names and of what Tint does; `SlotsAsEmitted` itself says what becomes
  of each resource. A sampler has the index of one of the textures that its name in the source is made of
  (`Lenders`), if there are such; a combined image has its own unless another
  list has its set and binding and the later registration takes it over (`OwnKey`);
  the WebGPU indices are those of a declaration entered under the name
  (`WebGpuIndices`), or the shader's where the scan entered none. Of resources that share a
  name it says nothing, as a reader of a reflection cannot tell them apart.
  `ModulesAssumption` gives modules the types that SPIRV-Cross has.
  `ReflectionAlwaysLoads` needs of a reflection only that it has its fields and that its
  lists are sequences: that of each stage comes from the reflector and the two patches,
  and each of them makes such a record (`ReflectionIsStage`; `MembersAssumption`
  gives a block's members their fields, and `OptionalsAssumption` writes an absent slot
  and an absent value alike). `BlobWritten` says that the blob of a bundle is that of its
  artifact; the rest is `ProgramRoundTrip`.
- `ReflectionCodecProofs`: `ProgramRoundTrip`, for any reflections, any limits and any
  length at which the blob is cut. A reader is described by what it makes of a blob that
  has, from some position on, the values of one written record as far as the blob goes
  (`Out`): it fails if a field is outside the limits or the values are not all there, else
  it has the record and is behind it. Each reader is proved from those it calls, in the
  order in which it calls them (`BindingRead`, `StageRead`). For the three counted lists the
  position of an element in the blob is the sum of the lengths before it, and what was
  read of the list follows by induction over the number of its elements, which here is
  induction along one given function of the numbers and needs no theorem with an operator
  as parameter.

Only model-checked:

- Liveness (`Terminates`, `BuildsReturn`, `FinallyOff`), which the prover cannot treat.

Induction over the elements of one set, or along one given fold, is within reach where an
instance of the library's theorem without an operator parameter will do (`SetInduction`);
what needs the theorems that take an operator is not. Filters that a proof looks into are
given by sets (`Filters`), since the provers know no definition of `SelectSeq`.

## What is assumed or not modelled

- Hash keys are injective over the sequence of values they are given. `PipelineBuilder`
  takes a request as one value; `ShaderCompiler` has the sequence itself, without counts of macros
  and directories. Targets and the stages of a program are hashed without counts
  as well; the former are few fixed numbers, and the latter follow their own number. They
  are taken as told apart.
- That two requests hashed alike are served each other's artifacts, that a separate sampler
  named after a texture takes its index, and that a WGSL declaration may be entered under a word
  that follows it, is what the code does and what `BundlesFresh` and `SlotsAsEmitted` say of
  it. No line of the repository says otherwise, so none of them is a finding.
- Includes: a text stands for a source with everything it includes. The resolver reads
  files and keeps no state.
- The result codes `eFileNotFound` and `eInvalidArgument` end a build in Phase A like
  `eCompileFailed` and are not told apart from it.
- What SPIRV-Cross and Tint say of a module is an input: its resources, which are active,
  the text of the WGSL. A back end fails on formats and targets it does not support; its
  other exceptions are in `PipelineBuilder` (`CrossErrors`). The renaming of combined
  samplers in GLSL and the repair of `stage_in` in MSL, which no code calls, are text.
- The layout check looks at the first block of a name; a later stage's block of that name may
  differ. `LayoutsHold` says what the code does, not that all of them agree. It compares sizes as
  the parser gives them, which are reduced modulo 2^32 already.
- `PublishedAsWritten` takes include paths and targets of a document that are strings; others, which
  the parser drops without a word, are not what it lists.
- A run that stops over an older bundle leaves files of two generations under the old
  header. No property speaks of it: `ReportedComplete` is about runs that report success.
- A bundle's directory cannot be created (`WriteBundleFails`), or all its files are written:
  what happens between is in `CompileShaders`. A document of `ShaderCompiler` gives its
  shaders as files whose contents do not change; edits are in `PipelineBuilder`.
- The programs of the passing bundle runs have stages of distinct kinds, at most two of
  them. The header's bound of 16 stages is in the model and no run exceeds it: there are
  fewer kinds, so such a program would need two stages of one kind, which is
  what `BundleTwins` is about.
- A header is smaller than a stream buffer, so its write cannot fail before the stream
  is closed. `BundleRebuilds` assumes that closing succeeds (`FlushFails = FALSE`);
  `BundleRaces` does not.
- Entry points in the headers, argument parsing, and the part of `compile_shaders.py` that
  finds tools and expands globs are left out; see `PROJECT.json` for each component.

## Plan

Done, in this order: the allocator with its proofs, the builder with its cache, abstract
specification and proofs, the process guard with its proofs, the bundles and the script,
the compiler with the parser, the layout tools, the reflector and the codec, its proof,
the second set of proofs about the builder, the proofs about bundles, the refinement of
`UncachedBuild`, those of `LibraryLifetime` and `PublishedBundles`, the closed form of
the allocator, and the proofs about the end of a run of the compiler and of the script.

To come, most important first:

1. Model: components per builder, so that programs built differently share a cache (an
   entry without a reflection is served to a builder that has a reflector).
