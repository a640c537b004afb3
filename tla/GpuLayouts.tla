------------------------------ MODULE GpuLayouts ------------------------------
(***************************************************************************)
(* Layout registries and binding declarations (gpu_layout_tools.cpp): the  *)
(* uniform buffers a program is expected to have, merged from files and    *)
(* from the manifest and compared with what was reflected, and the GLSL    *)
(* declarations written for other shaders to include.                      *)
(*                                                                         *)
(* A stage is [stage, reflection, ...] and a reflection has `bindings', a  *)
(* sequence of ReflectedBindingInfo records.  The text of a declaration is *)
(* abstracted to a record of what it says.                                 *)
(***************************************************************************)
EXTENDS PipelineSpec

CONSTANTS
  RegistryFiles,  \* layout registry files by path: a document, Invalid or Missing
  InstanceName    \* blockNameToInstance of each block name: "MyBlock" to "my_block"

------------------------------------------------------------------------------
(* Registries.                                                             *)

\* parseUniformBuffersArray falls back to total_size where "size" is no
\* unsigned number; the manifest's parser does not.
RegisteredSize(entry) == IF Given(entry.size) THEN entry.size ELSE entry.total_size

ValidEntry(entry) == Given(entry.name) /\ Given(RegisteredSize(entry))

\* loadGpuLayoutRegistry: one entry that is not valid fails the file.
Loadable(path) ==
  /\ RegistryFiles[path] \notin {Missing, Invalid}
  /\ Given(RegistryFiles[path].uniform_buffers)
  /\ \A i \in DOMAIN RegistryFiles[path].uniform_buffers :
       ValidEntry(RegistryFiles[path].uniform_buffers[i])

LoadRegistry(path) ==
  Map(LAMBDA e : [block_name |-> e.name, total_size |-> RegisteredSize(e) % SizeMod],
      RegistryFiles[path].uniform_buffers)

\* The entries of the files and of the manifest, in order; those without a
\* name are not merged.
Entries(paths, inline) == FlattenSeq(Map(LoadRegistry, paths)) \o inline
Named(entries) == {i \in DOMAIN entries : entries[i].block_name # ""}

\* Mutant: the first registry that has a block wins.
FirstWins(paths, inline) ==
  IF \E i \in DOMAIN paths : ~Loadable(paths[i]) THEN Missing
  ELSE LET all == Entries(paths, inline)
       IN  {all[i] : i \in {j \in Named(all) :
                           \A k \in 1 .. j - 1 : all[k].block_name # all[j].block_name}}

\* mergeGpuLayoutRegistries: a block that is registered twice is an error,
\* even with one size.
MergeRegistries(paths, inline) ==
  IF \E i \in DOMAIN paths : ~Loadable(paths[i]) THEN Missing
  ELSE LET all == Entries(paths, inline)
       IN  IF \E i, j \in Named(all) : i # j /\ all[i].block_name = all[j].block_name
           THEN Missing ELSE {all[i] : i \in Named(all)}

\* reflectedUboSize: the end of the member that ends last, modulo 2^32.
UboSize(binding) ==
  Max({0} \cup {(binding.struct_members[i].offset + binding.struct_members[i].size) % SizeMod :
                  i \in DOMAIN binding.struct_members})

AllBindings(stages) == FlattenSeq(Map(LAMBDA s : s.reflection.bindings, stages))

\* The uniform buffers of a name, the first stage's first.
UbosNamed(stages, name) ==
  SelectSeq(AllBindings(stages), LAMBDA b : b.type = "eUniformBuffer" /\ b.name = name)

\* validateGpuLayouts looks at the first buffer of the name only.
ValidLayouts(stages, registry) ==
  /\ stages # <<>>
  /\ \A e \in registry :
       LET ubos == UbosNamed(stages, e.block_name)
       IN  ubos # <<>> /\ UboSize(Head(ubos)) = e.total_size
------------------------------------------------------------------------------
(* Binding declarations.                                                   *)

Reflecting(stages, kind) ==
  SelectSeq(stages, LAMBDA s : s.stage = kind /\ s.reflection.bindings # <<>>)

\* pickReflectionStage: the mode's stage, else the first (vertex) or the last.
PickStage(stages, mode) ==
  IF mode = "vertex"
  THEN Head(Reflecting(stages, "eVertex") \o stages)
  ELSE Head(Reflecting(stages, "eFragment") \o <<Last(stages)>>)

\* collectBindings: with "all", a binding that an earlier stage has under the
\* same set, binding and name is left out.
Collected(stages, mode) ==
  IF mode # "all" THEN Range(PickStage(stages, mode).reflection.bindings)
  ELSE LET all == AllBindings(stages)
           SameKey(a, b) == a.set = b.set /\ a.binding = b.binding /\ a.name = b.name
       IN  {all[i] : i \in {j \in DOMAIN all : \A k \in 1 .. j - 1 : ~SameKey(all[k], all[j])}}

\* shouldSkipBlock: include_blocks, where there are any, decide alone.
SkipsBlock(name, options) ==
  IF options.include_blocks # <<>> THEN name \notin Range(options.include_blocks)
  ELSE name \in Range(options.skip_blocks)

Matches(name, list) == \E entry \in Range(list) : name \in {entry, InstanceName[entry]}

\* shouldSkipResource: an entry also stands for its instance name.
SkipsResource(name, options) ==
  IF options.include_blocks # <<>> THEN ~Matches(name, options.include_blocks)
  ELSE Matches(name, options.skip_blocks)

\* A read-only storage buffer is skipped by the rule for resources.
Skipped(b, options) ==
  IF b.type \in {"eUniformBuffer", "eStorageBuffer"} THEN SkipsBlock(b.name, options)
  ELSE SkipsResource(b.name, options)

\* emitSingleBinding has no case for storage images.
Emitted(b) == b.type # "eStorageImage"

\* A uniform block of one member with a named type has no instance name.
Instance(b) ==
  IF b.type \notin {"eUniformBuffer", "eStorageBuffer", "eReadOnlyStorageBuffer"} THEN b.name
  ELSE IF /\ b.type = "eUniformBuffer" /\ Len(b.struct_members) = 1
          /\ b.struct_members[1].type_name # ""
       THEN "" ELSE InstanceName[b.name]

\* memberGlslType: what is no 4x4 matrix is guessed from its size.
MemberType(m) ==
  IF m.type_name # "" THEN m.type_name
  ELSE IF m.is_matrix /\ m.matrix_columns = 4 /\ m.matrix_rows = 4 THEN "mat4"
  ELSE IF m.size = 16 THEN "vec4" ELSE IF m.size = 8 THEN "vec2" ELSE "float"

\* A storage block without reflected members is an array of floats.
Members(b) ==
  IF b.type \in {"eStorageBuffer", "eReadOnlyStorageBuffer"} /\ b.struct_members = <<>>
  THEN <<[name |-> "data", type |-> "float", array_count |-> 0]>>
  ELSE Map(LAMBDA m : [name |-> m.name, type |-> MemberType(m), array_count |-> m.array_count],
           b.struct_members)

\* buildBindingDeclsGlsl; the declarations are sorted by set and binding.
BindingDecls(stages, options) ==
  [includes |-> options.compose_includes,
   decls    |-> {[type |-> b.type, set |-> b.set, binding |-> b.binding, name |-> b.name,
                  instance |-> Instance(b), members |-> Members(b)] :
                   b \in {c \in Collected(stages, options.bindings_stage) :
                            ~Skipped(c, options) /\ Emitted(c)}}]
==============================================================================
