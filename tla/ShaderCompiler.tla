---------------------------- MODULE ShaderCompiler ----------------------------
(***************************************************************************)
(* The command-line compiler (tools/shader_compiler_cli/main.cpp) from the *)
(* manifest to the bundles on disk: parsing, one build per variant on a    *)
(* cache that later invocations find again, the check of layouts, the      *)
(* bundle and the binding declarations.  One action is one step of main    *)
(* that can fail on its own.                                               *)
(*                                                                         *)
(* PipelineBuilder has the interleaving of builds and the loss of writes,  *)
(* CompileShaders the files of a bundle; here a build and the writing of a *)
(* bundle are one step, and what is in them is looked at.                  *)
(***************************************************************************)
EXTENDS GpuLayouts, ReflectionCodec, Reflector

CONSTANTS
  Invocations,    \* [doc, spec_dir, cache, output]: the manifest, the arguments
  FrontEnd(_),    \* SPIR-V of a CompileRequest, Missing where it does not compile
  Modules,        \* what SPIRV-Cross finds in each SPIR-V
  InvalidSpirv,   \* SPIR-V that spirv-val rejects
  TintEnabled,    \* values of VNE_SC_TINT_ENABLED
  MaxInvocations  \* bound

ASSUME InvocationsAssumption == Invocations # {} /\ MaxInvocations \in Nat

\* Resources, declarations and the members of a block are vectors.
ASSUME ModulesAssumption ==
  \A id \in DOMAIN Modules : LET m == Modules[id] IN
    /\ m.resources \in Seq(Range(m.resources)) /\ m.wgsl \in Seq(Range(m.wgsl))
    /\ \A r \in Range(m.resources) : r.list \in Range(Lists) /\ r.members \in Seq(Range(r.members))

\* The fields of ReflectedStructMember.
ASSUME MembersAssumption ==
  \A id \in DOMAIN Modules : \A r \in Range(Modules[id].resources) : \A m \in Range(r.members) :
    m = [f \in {"name", "offset", "size", "array_count", "array_stride", "is_matrix", "matrix_columns",
                "matrix_rows", "type_name"} |-> m[f]]

\* Both are std::nullopt.
ASSUME OptionalsAssumption == NoSlot = NoReflection

VARIABLES
  tint,         \* Tint is compiled in
  pc, args,     \* control point and invocation
  manifest,     \* ShaderPipelineSpec
  variant_index,
  artifact,     \* result.artifact.stages of the last build
  cache,        \* the entries of the cache directory
  bundles,      \* bundle directories by path
  decls,        \* files of binding declarations by path
  status,       \* exit status
  invocations   \* counter of the bound

vars == <<tint, pc, args, manifest, variant_index, artifact, cache, bundles, decls, status, invocations>>

Locations == {"idle", "load", "build", "check", "write", "emit", "exit"}
------------------------------------------------------------------------------
(* Builds.                                                                 *)

\* No "variants": one without a name and without defines.
VariantsOf(spec) ==
  IF spec.variants = <<>> THEN <<[name |-> "", defines |-> <<>>]>> ELSE spec.variants

\* Lines 90-100: defines count for a variant that has a name.
DescOf(a, v) ==
  LET spec == ParseSpec(a.doc)
      desc == ToBuildDesc(spec, a.spec_dir)
  IN  IF v.name = "" THEN desc
      ELSE [desc EXCEPT !.name = <<spec.name, v.name>>,
                        !.stages = Map(LAMBDA s : [s EXCEPT !.macros = @ \o v.defines], desc.stages)]

Descs ==
  UNION {{DescOf(a, v) : v \in Range(VariantsOf(ParseSpec(a.doc)))} :
           a \in {b \in Invocations : ParseSpec(b.doc) # Missing}}

Requests == UNION {Range(d.stages) : d \in Descs}

Macros == Seq([name : STRING, value : STRING])

RequestType ==
  [file_path : Seq(STRING), entry_point : STRING, stage : STRING, lang : STRING,
   include_dirs : Seq(Seq(STRING)), macros : Macros]

\* The types of CompileRequest, of what compile() returns and of
\* ShaderPipelineSpec::variants.
ASSUME VectorsAssumption ==
  /\ Requests \subseteq RequestType
  /\ \A r \in Requests : FrontEnd(r) \in DOMAIN Modules \cup {Missing}
  /\ \A a \in Invocations :
       ParseSpec(a.doc) # Missing => ParseSpec(a.doc).variants \in Seq([name : STRING, defines : Macros])

\* A key that is looked for as an array has one, or is ignored.
IsArray(v) == Or(v, <<>>) \in Seq(Range(Or(v, <<>>)))
ASSUME DocumentsAssumption ==
  \A a \in Invocations :
    ParseSpec(a.doc) # Missing =>
      IsArray(a.doc.variants) /\ IsArray(a.doc.stages) /\ IsArray(a.doc.targets)

WantsMsl(desc) == "eMSL" \in Range(desc.targets)

\* hashCompileRequest: names and values, then directories, without a count.
Hashed(req) ==
  [n \in 1 .. 2 * Len(req.macros) |->
     IF n % 2 = 1 THEN <<req.macros[(n + 1) \div 2].name>> ELSE <<req.macros[n \div 2].value>>]
    \o req.include_dirs

\* Mutant: macros and directories are not hashed.
RequestHashWithoutOptions(req) ==
  [file |-> req.file_path, entry |-> req.entry_point, stage |-> req.stage, lang |-> req.lang,
   options |-> <<>>]

RequestHash(req) ==
  [file |-> req.file_path, entry |-> req.entry_point, stage |-> req.stage, lang |-> req.lang,
   options |-> Hashed(req)]

\* makeProgramFingerprint and makeKey, taken as injective over what they hash.
ProgramFingerprint(desc) ==
  [stages |-> Map(RequestHash, desc.stages), layout |-> desc.metal_layout]

KeyAt(desc, i) ==
  [request |-> RequestHash(desc.stages[i]), targets |-> desc.targets,
   metal |-> IF WantsMsl(desc) THEN ProgramFingerprint(desc) ELSE Missing]

\* The dense map of a program, where Metal is a target.
ProgramMap(desc, spirv) ==
  IF WantsMsl(desc) THEN MapOf({Modules[spirv[i]] : i \in DOMAIN desc.stages}, desc.metal_layout)
  ELSE Missing

StageArtifact(req, spirv, map, targets) ==
  LET made == BackEnd(Modules[spirv], map, targets, req.stage)
  IN  [stage |-> req.stage, entry_point |-> req.entry_point, spirv |-> spirv,
       reflection |-> made.reflection, cross_compiled |-> made.cross_compiled]

\* What stage i of a program is when its stages are compiled as `reqs'.
BuiltAs(desc, reqs, i) ==
  LET spirv == Map(FrontEnd, reqs)
  IN  StageArtifact(desc.stages[i], spirv[i], ProgramMap(desc, spirv), desc.targets)

\* What it is without a cache.
FreshStage(desc, i) == BuiltAs(desc, desc.stages, i)

\* ShaderArtifactCache::lookup: an entry whose reflection cannot be read is none.
Hit(a, desc, i) ==
  /\ a.cache
  /\ KeyAt(desc, i) \in DOMAIN cache
  /\ ReadableStage(cache[KeyAt(desc, i)].reflection)

Misses(a, desc) == {i \in DOMAIN desc.stages : ~Hit(a, desc, i)}

\* Phase A.
SpirvOf(a, desc) ==
  [i \in DOMAIN desc.stages |->
     IF Hit(a, desc, i) THEN cache[KeyAt(desc, i)].spirv ELSE FrontEnd(desc.stages[i])]

\* A front end exists for HLSL and Slang too, but is not available.
CompileFails(a, desc) ==
  \/ manifest.source_lang # "eGLSL"
  \/ \E i \in Misses(a, desc) :
       LET spirv == FrontEnd(desc.stages[i])
       IN  spirv = Missing \/ (desc.validate /\ spirv \in InvalidSpirv)

LinkFails(a, desc) ==
  /\ ~CompileFails(a, desc)
  /\ Misses(a, desc) # {} /\ WantsMsl(desc)
  /\ Overflows(ProgramMap(desc, SpirvOf(a, desc)))

\* Phase B: the stages that missed and whose back end fails.
BackEndFailures(a, desc) ==
  {i \in Misses(a, desc) : BackEndFails(Modules[SpirvOf(a, desc)[i]], desc.targets, tint)}

Built(a, desc) ==
  LET spirv == SpirvOf(a, desc)
      map   == ProgramMap(desc, spirv)
  IN  [i \in DOMAIN desc.stages |->
         IF Hit(a, desc, i) THEN cache[KeyAt(desc, i)]
         ELSE StageArtifact(desc.stages[i], spirv[i], map, desc.targets)]

\* store of the stages `done' that missed, in order.
Stored(a, desc, done) ==
  LET keys == {KeyAt(desc, i) : i \in done \cap Misses(a, desc)}
  IN  IF ~a.cache THEN cache
      ELSE [k \in DOMAIN cache \cup keys |->
              IF k \in keys
              THEN Built(a, desc)[CHOOSE i \in done \cap Misses(a, desc) : KeyAt(desc, i) = k]
              ELSE cache[k]]
------------------------------------------------------------------------------
VariantList == VariantsOf(manifest)
Variant == VariantList[variant_index]
Desc == DescOf(args, Variant)

\* Lines 131-135: the variant's name is put before the extension.
BundlePath(output, v) == IF v.name = "" THEN <<output>> ELSE <<output, v.name>>

Options(spec) ==
  [skip_blocks      |-> spec.emit_binding_decls_skip,
   include_blocks   |-> spec.emit_binding_decls_include,
   compose_includes |-> spec.emit_binding_decls_compose,
   bindings_stage   |-> spec.emit_bindings_stage]

Init ==
  /\ tint \in TintEnabled
  /\ pc = "idle"
  /\ args \in {CHOOSE a \in Invocations : TRUE}
  /\ manifest = Missing
  /\ variant_index = 1
  /\ artifact = <<>>
  /\ cache = [k \in {} |-> Missing]
  /\ bundles = [p \in {} |-> Missing]
  /\ decls = [p \in {} |-> Missing]
  /\ status = 0
  /\ invocations = 0

Exit(code) ==
  /\ pc' = "exit"
  /\ status' = code

\* A new process.
Invoke ==
  /\ pc \in {"idle", "exit"}
  /\ invocations < MaxInvocations
  /\ \E a \in Invocations : args' = a
  /\ pc' = "load"
  /\ manifest' = Missing
  /\ variant_index' = 1
  /\ artifact' = <<>>
  /\ status' = 0
  /\ invocations' = invocations + 1
  /\ UNCHANGED <<tint, cache, bundles, decls>>

\* Lines 57-75: errors are fatal here, and so is a language that has no front
\* end at all.
Usable(spec) == spec # Missing /\ spec.errors = {} /\ spec.source_lang \notin {"eMSL", "eWGSL"}

Load ==
  /\ pc = "load"
  /\ Usable(ParseSpec(args.doc))
  /\ manifest' = ParseSpec(args.doc)
  /\ pc' = "build"
  /\ UNCHANGED <<tint, args, variant_index, artifact, cache, bundles, decls, status, invocations>>

LoadFails ==
  /\ pc = "load"
  /\ ~Usable(ParseSpec(args.doc))
  /\ Exit(1)
  /\ UNCHANGED <<tint, args, manifest, variant_index, artifact, cache, bundles, decls, invocations>>

Build ==
  /\ pc = "build"
  /\ ~CompileFails(args, Desc) /\ ~LinkFails(args, Desc) /\ BackEndFailures(args, Desc) = {}
  /\ artifact' = Built(args, Desc)
  /\ cache' = Stored(args, Desc, DOMAIN Desc.stages)
  /\ pc' = IF manifest.validate_layout THEN "check" ELSE "write"
  /\ UNCHANGED <<tint, args, manifest, variant_index, bundles, decls, status, invocations>>

\* Nothing is stored.
BuildFailsEarly ==
  /\ pc = "build"
  /\ CompileFails(args, Desc) \/ LinkFails(args, Desc)
  /\ Exit(1)
  /\ UNCHANGED <<tint, args, manifest, variant_index, artifact, cache, bundles, decls, invocations>>

\* The stages before the one that fails stay in the cache.
BuildFailsLate ==
  /\ pc = "build"
  /\ ~CompileFails(args, Desc) /\ ~LinkFails(args, Desc)
  /\ BackEndFailures(args, Desc) # {}
  /\ cache' = Stored(args, Desc, {i \in DOMAIN Desc.stages :
                                    \A j \in BackEndFailures(args, Desc) : i < j})
  /\ Exit(1)
  /\ UNCHANGED <<tint, args, manifest, variant_index, artifact, bundles, decls, invocations>>

\* Registries are loaded for each variant.
Registry ==
  MergeRegistries(Map(LAMBDA p : InSpecDir(args.spec_dir, p), manifest.layout_registries),
                  manifest.uniform_buffers)

LayoutsOk == Registry \notin {Missing, {}} /\ ValidLayouts(artifact, Registry)

CheckLayouts ==
  /\ pc = "check" /\ LayoutsOk
  /\ pc' = "write"
  /\ UNCHANGED <<tint, args, manifest, variant_index, artifact, cache, bundles, decls, status, invocations>>

LayoutsRejected ==
  /\ pc = "check" /\ ~LayoutsOk
  /\ Exit(1)
  /\ UNCHANGED <<tint, args, manifest, variant_index, artifact, cache, bundles, decls, invocations>>

Update(f, k, v) == [j \in DOMAIN f \cup {k} |-> IF j = k THEN v ELSE f[j]]

\* `desc' is history: what was asked for.
WriteBundle ==
  /\ pc = "write"
  /\ bundles' = Update(bundles, BundlePath(args.output, Variant),
                       [stages     |-> artifact,
                        reflection |-> SerializeProgram(Map(LAMBDA s : s.reflection, artifact)),
                        desc       |-> Desc])
  /\ pc' = "emit"
  /\ UNCHANGED <<tint, args, manifest, variant_index, artifact, cache, decls, status, invocations>>

\* The directory cannot be created.
WriteBundleFails ==
  /\ pc = "write"
  /\ Exit(1)
  /\ UNCHANGED <<tint, args, manifest, variant_index, artifact, cache, bundles, decls, invocations>>

\* Mutant: every variant writes the declarations.
EveryVariantEmits == manifest.emit_binding_decls # ""

\* Line 144: the first variant owns the schema.
Emits == variant_index = 1 /\ manifest.emit_binding_decls # ""

\* Mutant: the index runs past the last variant.
NextVariantOrOneMore ==
  IF variant_index <= Len(VariantList)
  THEN pc' = "build" /\ variant_index' = variant_index + 1 /\ UNCHANGED status
  ELSE Exit(0) /\ UNCHANGED variant_index

\* The loop goes on, or main returns 0.
NextVariant ==
  IF variant_index < Len(VariantList)
  THEN pc' = "build" /\ variant_index' = variant_index + 1 /\ UNCHANGED status
  ELSE Exit(0) /\ UNCHANGED variant_index

EmitDecls ==
  /\ pc = "emit" /\ Emits
  /\ decls' = Update(decls, InSpecDir(args.spec_dir, manifest.emit_binding_decls),
                     BindingDecls(artifact, Options(manifest)))
  /\ NextVariant
  /\ UNCHANGED <<tint, args, manifest, artifact, cache, bundles, invocations>>

SkipDecls ==
  /\ pc = "emit" /\ ~Emits
  /\ NextVariant
  /\ UNCHANGED <<tint, args, manifest, artifact, cache, bundles, decls, invocations>>

\* The file cannot be opened.
EmitDeclsFails ==
  /\ pc = "emit" /\ Emits
  /\ Exit(1)
  /\ UNCHANGED <<tint, args, manifest, variant_index, artifact, cache, bundles, decls, invocations>>

Next ==
  \/ Invoke \/ Load \/ LoadFails
  \/ Build \/ BuildFailsEarly \/ BuildFailsLate
  \/ CheckLayouts \/ LayoutsRejected
  \/ WriteBundle \/ WriteBundleFails
  \/ EmitDecls \/ SkipDecls \/ EmitDeclsFails

Spec == Init /\ [][Next]_vars
------------------------------------------------------------------------------
TypeOK ==
  /\ tint \in TintEnabled
  /\ pc \in Locations
  /\ args \in Invocations
  /\ pc \in {"idle", "load"} => manifest = Missing /\ variant_index = 1
  /\ pc \in {"build", "check", "write", "emit"} =>
       /\ manifest = ParseSpec(args.doc) /\ Usable(manifest)
       /\ variant_index \in DOMAIN VariantList
  /\ DOMAIN cache \subseteq UNION {{KeyAt(d, i) : i \in DOMAIN d.stages} : d \in Descs}
  /\ \A p \in DOMAIN bundles : bundles[p].desc \in Descs
  /\ status \in {0, 1}
  /\ invocations \in 0 .. MaxInvocations

\* The requests that are hashed as this one: macros and directories are hashed
\* without their counts, so two directories can pass for a macro and its value.
HashedAlike(r) ==
  {q \in Requests : /\ q = [r EXCEPT !.macros = q.macros, !.include_dirs = q.include_dirs]
                    /\ Hashed(q) = Hashed(r)}

\* What a program's stages may have been compiled as.
Programs(desc) ==
  {reqs \in [DOMAIN desc.stages -> UNION {HashedAlike(r) : r \in Range(desc.stages)}] :
     \A i \in DOMAIN reqs : reqs[i] \in HashedAlike(desc.stages[i])}

(***************************************************************************)
(* A bundle holds what a build without a cache makes of its own shaders,   *)
(* with the indices of its own program, whatever other variants, other     *)
(* manifests and failed builds have left in the cache.  The exception is   *)
(* exact: where a request of another options list is hashed alike, a stage *)
(* may be what a build of that one makes, and no other (builder lines      *)
(* 88-92 and 113-123, cache lines 170-230).                                *)
(***************************************************************************)
BundlesFresh ==
  \A p \in DOMAIN bundles :
    LET b == bundles[p] IN
    \E made \in [DOMAIN b.desc.stages -> Programs(b.desc)] :
      b.stages = [i \in DOMAIN b.desc.stages |-> BuiltAs(b.desc, made[i], i)]

\* The document's own words: each variant, each stage, each target.
WrittenVariants(doc) ==
  IF Or(doc.variants, <<>>) = <<>> THEN {[name |-> "", defines |-> <<>>]} ELSE Range(doc.variants)

WrittenRequest(a, s, v) ==
  [file_path    |-> InSpecDir(a.spec_dir, s.file),
   entry_point  |-> Or(s.entry_point, Or(s.entry, "main")),
   stage        |-> StageNames[s.stage],
   lang         |-> "eGLSL",
   include_dirs |-> Map(LAMBDA p : InSpecDir(a.spec_dir, p), Strings(a.doc.include_paths)),
   macros       |-> IF v.name = "" THEN <<>> ELSE Or(v.defines, <<>>)]

(***************************************************************************)
(* Success means that every variant the document lists has its bundle,     *)
(* with every stage and every target the document lists, compiled with     *)
(* that entry's defines or as a request hashed alike: no stage, variant or *)
(* target the parser drops goes unreported.  Include paths and targets     *)
(* that are not strings, and options of another type, are dropped silently *)
(* by the code and are not what the document lists here (parser lines      *)
(* 144-154, 258-312, main lines 62-67, 87-139).                            *)
(***************************************************************************)
PublishedAsWritten ==
  pc = "exit" /\ status = 0 =>
    \A v \in WrittenVariants(args.doc) :
      /\ BundlePath(args.output, v) \in DOMAIN bundles
      /\ LET stages  == bundles[BundlePath(args.output, v)].stages
             written == args.doc.stages
         IN  /\ Len(stages) = Len(written)
             /\ \A i \in DOMAIN written :
                  /\ \E q \in HashedAlike(WrittenRequest(args, written[i], v)) :
                       stages[i].spirv = FrontEnd(q)
                  /\ Map(LAMBDA c : c.target, stages[i].cross_compiled)
                       = Map(LAMBDA t : TargetNames[t], Strings(args.doc.targets))

\* Every entry of the registries and of the manifest.
Expected ==
  FlattenSeq(Map(LAMBDA p : LoadRegistry(InSpecDir(args.spec_dir, p)), manifest.layout_registries))
    \o manifest.uniform_buffers

(***************************************************************************)
(* With validate_layout, success means that each registered size holds in  *)
(* the bundle of each variant: for every entry of every file, the first    *)
(* uniform buffer of the name is there and has that size (layout tools     *)
(* lines 327-401, main lines 108-129).                                     *)
(***************************************************************************)
LayoutsHold ==
  pc = "exit" /\ status = 0 /\ manifest.validate_layout =>
    \A v \in Range(VariantList), e \in Range(Expected) :
      e.block_name # "" =>
        LET ubos == UbosNamed(bundles[BundlePath(args.output, v)].stages, e.block_name)
        IN  ubos # <<>> /\ UboSize(Head(ubos)) = e.total_size

(***************************************************************************)
(* The declarations that other shaders include are those of the bundle of  *)
(* the first variant, the schema owner, although later variants are built  *)
(* after them and may have more resources (main lines 141-159).            *)
(***************************************************************************)
DeclsOfSchemaOwner ==
  pc = "exit" /\ status = 0 /\ manifest.emit_binding_decls # "" =>
    decls[InSpecDir(args.spec_dir, manifest.emit_binding_decls)]
      = BindingDecls(bundles[BundlePath(args.output, Head(VariantList))].stages, Options(manifest))

(***************************************************************************)
(* The reflection.bin of the bundle that was just written reads back as    *)
(* what was reflected, field by field, exactly when it is within the       *)
(* reader's limits; cut anywhere it is refused (codec lines 46-362).       *)
(***************************************************************************)
ReflectionLoads ==
  pc = "emit" =>
    LET blob    == bundles[BundlePath(args.output, Variant)].reflection
        written == Map(LAMBDA s : s.reflection, artifact)
    IN  /\ DeserializeProgram(blob) = IF ReadableProgram(written) THEN written ELSE NoReflection
        /\ \A n \in 0 .. Len(blob) - 1 : DeserializeProgram(SubSeq(blob, 1, n)) = NoReflection

Alone(module, r) == \A q \in Range(module.resources) : q.name = r.name => q = r

\* No resource of another list has its set and binding.
OwnKey(module, r) == \A q \in Range(module.resources) : KeyOf(q) = KeyOf(r) => q.list = r.list

\* In a fragment shader, the reflection of the textures that lend their index
\* to the sampler of a resource: a combined image's own, or those whose name
\* the sampler's name is made of.
Lenders(s, r) ==
  LET textures == TexturesNamed(Modules[s.spirv], IF r.list = "sampled_images" THEN r.name ELSE r.smplr_of)
  IN  IF s.stage = "eFragment" /\ "sampler" \in TablesOf(r.list)
      THEN {b \in Range(s.reflection.bindings) : \E t \in textures : b.name = t.name}
      ELSE {}

\* The Metal indices an engine must bind to reach it.
MetalIndices(s, r, b) ==
  IF Lenders(s, r) = {} THEN {b.slots.metal}
  ELSE {[b.slots.metal EXCEPT !.sampler = t.slots.metal.texture] : t \in Lenders(s, r)}

\* The WebGPU indices the builder may give it: those of the declarations that
\* the scan enters under its name, or what the shader says where there is none.
WebGpuIndices(c, r) ==
  LET entered == {d \in c.wgsl : ScanName(d) = r.name /\ r.name # NoText}
  IN  IF entered = {} THEN {[group |-> r.set, binding |-> r.binding]}
      ELSE {[group |-> d.group, binding |-> d.binding] : d \in entered}

(***************************************************************************)
(* The indices an engine reads from a bundle's reflection are those in the *)
(* bundle's Metal and WebGPU sources, as far as the code makes them agree: *)
(* the former come from the reflector's own compilation and from the       *)
(* allocator, the latter from another compilation, corrected in its text.  *)
(* For a resource that is the only one of its name:                        *)
(*  - its Metal indices are its own, but that of a sampler whose texture   *)
(*    the source names, which is the texture's; the two are one for a      *)
(*    combined image, unless another list has its set and binding and so   *)
(*    takes its registration over;                                         *)
(*  - its WebGPU indices are those of a declaration the scan of the WGSL   *)
(*    took for it, which is its own or one followed by its name, or its    *)
(*    set and binding where the scan took none, wherever Tint put it       *)
(* (reflector lines 204-247, cross-compiler lines 35-55, 229-265, Tint     *)
(* lines 101-122, builder lines 233-242).                                  *)
(***************************************************************************)
SlotsAsEmitted ==
  \A p \in DOMAIN bundles : \A s \in Range(bundles[p].stages) :
    LET m == Modules[s.spirv] IN
    \A r \in Range(m.resources), b \in Range(s.reflection.bindings), c \in Range(s.cross_compiled) :
      Alone(m, r) /\ b.name = r.name =>
        /\ \A x \in c.msl : x.name = r.name =>
             /\ x.slot \in MetalIndices(s, r, b)
             /\ r.list = "sampled_images" /\ OwnKey(m, r) => x.slot = b.slots.metal
        /\ c.target = "eWGSL" => b.slots.webgpu \in WebGpuIndices(c, r)
==============================================================================
