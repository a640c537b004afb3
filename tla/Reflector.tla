------------------------------ MODULE Reflector ------------------------------
(***************************************************************************)
(* What the back end makes of the SPIR-V of one stage: the reflection      *)
(* (reflector/spirvcross_reflector.cpp), the Metal and WebGPU indices in   *)
(* the cross-compiled sources (crosscompiler/*.cpp) and how the builder    *)
(* corrects the reflection by the WGSL (shader_pipeline_builder.cpp).      *)
(*                                                                         *)
(* A SPIR-V module is a record: its resources, each with the list          *)
(* SPIRV-Cross puts it in (`list'), the sizes of its push constant blocks, *)
(* its local size, and the declarations Tint writes for it (`wgsl').       *)
(***************************************************************************)
EXTENDS MetalMap, Filters

CONSTANTS
  NoSlot,       \* an optional without a value
  IndexLimits,  \* MetalIndexLimits: the highest index of each table
  IndexMod,     \* 2^32
  FormatNames   \* imageFormatName: a function on the supported formats

Lists == <<"uniform_buffers", "storage_buffers", "separate_images", "storage_images",
           "separate_samplers", "sampled_images">>

KeyOf(r) == <<r.set, r.binding>>

NoText == ""

KindOf ==
  [uniform_buffers |-> "buffer", storage_buffers |-> "buffer",
   separate_images |-> "image", storage_images |-> "image",
   sampled_images |-> "sampled_image", separate_samplers |-> "sampler"]

\* What the allocator collects of a module.
AllocatorKeys(module) ==
  {<<KindOf[module.resources[i].list], KeyOf(module.resources[i])>> : i \in DOMAIN module.resources}

\* The map of a program, or of one stage.
MapOf(modules, layout) ==
  MetalMapOf(UNION {AllocatorKeys(m) : m \in modules}, layout.buffer_base, IndexMod)

\* overflowError.
Overflows(map) ==
  \E table \in DOMAIN map : \E k \in DOMAIN map[table] : map[table][k] > IndexLimits[table]

\* The allocator's lookups: 0 where a key has no index.
Slot(map, table, key) == IF key \in DOMAIN map[table] THEN map[table][key] ELSE 0

\* The tables a resource of a list has an index in.
TablesOf(list) ==
  [buffer |-> {"buffer"}, image |-> {"texture"}, sampler |-> {"sampler"},
   sampled_image |-> {"texture", "sampler"}][KindOf[list]]

\* The resources of one list, in the module's order.
Of(module, list) == Only(module.resources, {r \in Range(module.resources) : r.list = list})

MetalSlot(map, r, tables) ==
  [table \in {"buffer", "texture", "sampler"} |->
     IF table \in tables THEN Slot(map, table, KeyOf(r)) ELSE 0]

(***************************************************************************)
(* applyMslResourceBindings: each registration replaces what SPIRV-Cross   *)
(* has for the key, with 0 in the tables it does not mention; the last     *)
(* list that has the key wins.                                             *)
(***************************************************************************)
RegistrationOrder == <<"sampled_images", "uniform_buffers", "storage_buffers", "separate_images",
                       "storage_images", "separate_samplers">>

Registration(module, map, r) ==
  LET lists == {q.list : q \in {p \in Range(module.resources) : KeyOf(p) = KeyOf(r)}}
      last  == Max({i \in DOMAIN RegistrationOrder : RegistrationOrder[i] \in lists})
  IN  MetalSlot(map, r, TablesOf(RegistrationOrder[last]))

\* What CompilerMSL gives an active resource.
Compiled(module, map, r) ==
  [table \in {"buffer", "texture", "sampler"} |->
     IF table \in TablesOf(r.list) THEN Registration(module, map, r)[table] ELSE 0]
------------------------------------------------------------------------------
(* SpirvCrossReflector::reflect.                                           *)

ImageType(r) ==
  IF r.dim = "Cube" THEN IF r.arrayed THEN "eSampledCubeArray" ELSE "eSampledCubemap"
  ELSE IF r.dim = "3D" THEN "eSampledImage3D"
  ELSE IF r.dim = "2D" /\ r.arrayed THEN "eSampled2DArray"
  ELSE IF r.list = "sampled_images" THEN "eCombinedImageSampler" ELSE "eSampledImage"

TypeOf(r) ==
  CASE r.list = "uniform_buffers"   -> "eUniformBuffer"
    [] r.list = "storage_buffers"   -> IF r.non_writable THEN "eReadOnlyStorageBuffer" ELSE "eStorageBuffer"
    [] r.list = "storage_images"    -> "eStorageImage"
    [] r.list = "separate_samplers" -> "eSampler"
    [] OTHER                        -> ImageType(r)

Access(r) ==
  IF r.non_writable /\ ~r.non_readable THEN "read"
  ELSE IF r.non_readable /\ ~r.non_writable THEN "write" ELSE "read_write"

IsTexture(r) == KindOf[r.list] \in {"image", "sampled_image"}

\* appendBinding: a resource that is not active has the allocator's index.
Binding(module, map, targets, stage, r) ==
  [name       |-> r.name,
   type       |-> TypeOf(r),
   set        |-> r.set,
   binding    |-> r.binding,
   array_size |-> r.array_size,
   stages     |-> {stage},
   slots      |-> [metal  |-> IF "eMSL" \notin targets THEN NoSlot
                              ELSE IF r.active THEN Compiled(module, map, r)
                              ELSE MetalSlot(map, r, TablesOf(r.list)),
                   webgpu |-> IF "eWGSL" \in targets THEN [group |-> r.set, binding |-> r.binding]
                              ELSE NoSlot],
   struct_members      |-> IF KindOf[r.list] = "buffer" THEN r.members ELSE <<>>,
   storage_format_hint |-> IF r.list = "storage_images" THEN FormatNames[r.format] ELSE NoText,
   storage_access_hint |-> IF r.list = "storage_images" THEN Access(r) ELSE NoText,
   multisampled        |-> IsTexture(r) /\ r.ms,
   depth_texture       |-> IsTexture(r) /\ r.list # "storage_images" /\ r.depth,
   dynamic_offset      |-> FALSE]

\* imageFormatName throws.
Unsupported(module) ==
  \E i \in DOMAIN module.resources :
    /\ module.resources[i].list = "storage_images"
    /\ module.resources[i].format \notin DOMAIN FormatNames

\* A local size of which nothing is given stays at one; a part that is 0 too.
WorkgroupSize(module, stage) ==
  [i \in 1 .. 3 |-> IF stage = "eCompute" /\ module.local_size[i] > 0 THEN module.local_size[i] ELSE 1]

\* The last push constant block counts.
Reflect(module, map, targets, stage) ==
  [stage              |-> stage,
   bindings           |-> FlattenSeq([i \in DOMAIN Lists |->
                            LET rs == Of(module, Lists[i])
                            IN  [j \in DOMAIN rs |-> Binding(module, map, targets, stage, rs[j])]]),
   push_constant_size |-> Last(<<0>> \o module.push_constants),
   workgroup_size     |-> WorkgroupSize(module, stage)]
------------------------------------------------------------------------------
(* Cross-compiled sources: the indices they declare.                       *)

Active(module) == {r \in Range(module.resources) : r.active}

(***************************************************************************)
(* fixCombinedSamplerIndices: in a fragment shader, the sampler of a       *)
(* combined image, and a separate one that is named after a texture        *)
(* ("<texture>Smplr", here in smplr_of), gets the index of the texture.    *)
(* Declarations of arrays do not match the expression.                     *)
(***************************************************************************)
TexturesNamed(module, name) ==
  {t \in Active(module) : IsTexture(t) /\ t.array_size = 1 /\ t.name = name}

EmittedSlot(module, map, stage, r) ==
  LET named == TexturesNamed(module, IF r.list = "sampled_images" THEN r.name ELSE r.smplr_of)
      slot  == Compiled(module, map, r)
  IN  IF stage = "eFragment" /\ "sampler" \in TablesOf(r.list) /\ named # {}
      THEN [slot EXCEPT !.sampler = Compiled(module, map, CHOOSE t \in named : TRUE).texture]
      ELSE slot

MslIndices(module, map, stage) ==
  {[name |-> r.name, slot |-> EmittedSlot(module, map, stage, r)] : r \in Active(module)}

CrossCompiled(module, map, target, stage) ==
  [target |-> target,
   msl    |-> IF target = "eMSL" THEN MslIndices(module, map, stage) ELSE {},
   wgsl   |-> IF target = "eWGSL" THEN Range(module.wgsl) ELSE {}]

\* ShaderCrossCompiler: WGSL needs Tint, and no back end writes HLSL.
Unavailable(target, tint) == target = "eHLSL" \/ (target = "eWGSL" /\ ~tint)

(***************************************************************************)
(* The table TintCrossCompiler makes of the WGSL.  Its expression names a  *)
(* declaration after the word that follows it, where one does (`fn'), or   *)
(* else by its name, where it has no address space; the declarations of    *)
(* buffers have one and are not in the table.                              *)
(***************************************************************************)
ScanName(d) ==
  IF d.followed_by # NoText THEN d.followed_by ELSE IF d.address_space THEN NoText ELSE d.name

Remaps(module) == {i \in DOMAIN module.wgsl : ScanName(module.wgsl[i]) # NoText}

EntriesNamed(module, name) == {i \in Remaps(module) : ScanName(module.wgsl[i]) = name}

\* The builder: the first entry that has the binding's name.
Remapped(module, targets, b) ==
  LET first == module.wgsl[Min(EntriesNamed(module, b.name))]
  IN  IF "eWGSL" \notin targets \/ EntriesNamed(module, b.name) = {} THEN b
      ELSE [b EXCEPT !.slots.webgpu = [group |-> first.group, binding |-> first.binding]]

\* reflect, then crossCompile for each target.
BackEnd(module, map, targets, stage) ==
  LET reflection == Reflect(module, map, Range(targets), stage)
  IN  [reflection     |-> [reflection EXCEPT !.bindings =
                             [i \in DOMAIN @ |-> Remapped(module, Range(targets), @[i])]],
       cross_compiled |-> [i \in DOMAIN targets |-> CrossCompiled(module, map, targets[i], stage)]]

BackEndFails(module, targets, tint) ==
  Unsupported(module) \/ \E i \in DOMAIN targets : Unavailable(targets[i], tint)
==============================================================================
