--------------------------- MODULE MCShaderCompiler ---------------------------
(***************************************************************************)
(* An instance of ShaderCompiler: a few shaders whose SPIR-V has every     *)
(* kind of resource, and manifests that end in every way main can end.     *)
(***************************************************************************)
EXTENDS ShaderCompiler

CONSTANT LongName  \* a string of 4097 characters

MCFormatNames == [Rgba8 |-> "rgba8unorm"]
MCIndexLimits == [buffer |-> 30, texture |-> 6, sampler |-> 6]
MCInstanceName ==
  [Camera |-> "camera", Light |-> "light", Lamp |-> "lamp", Cells |-> "cells", albedo |-> "albedo"]

Member(offset, size, name) ==
  [name |-> name, offset |-> offset, size |-> size, array_count |-> 1, array_stride |-> 0,
   is_matrix |-> size = 64, matrix_columns |-> IF size = 64 THEN 4 ELSE 0,
   matrix_rows |-> IF size = 64 THEN 4 ELSE 0, type_name |-> ""]

Resource(list, name, set, binding) ==
  [list |-> list, name |-> name, set |-> set, binding |-> binding, array_size |-> 1, active |-> TRUE,
   dim |-> "2D", arrayed |-> FALSE, ms |-> FALSE, depth |-> FALSE, format |-> "Rgba8",
   non_writable |-> FALSE, non_readable |-> TRUE, smplr_of |-> "", members |-> <<>>]

Camera(size) ==
  [Resource("uniform_buffers", "Camera", 0, 0) EXCEPT !.members = <<Member(0, size, "view")>>]
Light ==
  [Resource("uniform_buffers", "Light", 0, 3) EXCEPT !.members = <<Member(0, 16, "a"), Member(16, 4, "b")>>]
Lamp == [Resource("storage_buffers", "Lamp", 1, 1) EXCEPT !.non_writable = TRUE]
Albedo == Resource("sampled_images", "albedo", 0, 2)
Shadow == [Resource("separate_images", "shadow", 0, 1) EXCEPT !.depth = TRUE, !.arrayed = TRUE]
Unused == [Resource("separate_images", "unused", 1, 2) EXCEPT !.active = FALSE, !.dim = "Cube"]
Smp == Resource("separate_samplers", "smp", 0, 4)
Image(format) == [Resource("storage_images", "image", 1, 0) EXCEPT !.format = format, !.dim = "3D"]
Cells == Resource("storage_buffers", "Cells", 0, 0)
\* One (set, binding) in two lists, a sampler named after a texture, and one
\* named like the word in the declaration of a storage image.
Overlaid == [Shadow EXCEPT !.binding = 2]
ShadowSmplr == [Smp EXCEPT !.name = "shadowSmplr", !.smplr_of = "shadow"]
WriteSmp == [Smp EXCEPT !.name = "write", !.binding = 5]
Target == [Image("Rgba8") EXCEPT !.set = 0, !.binding = 1]

Wgsl(r, group, binding, word) ==
  [name |-> r.name, group |-> group, binding |-> binding, followed_by |-> word,
   address_space |-> r.list \in {"uniform_buffers", "storage_buffers"}]

Module(resources, wgsl) ==
  [resources |-> resources, push_constants |-> <<>>, local_size |-> <<0, 0, 0>>, wgsl |-> wgsl]

MCModules ==
  [vs      |-> [Module(<<Camera(64)>>, <<Wgsl(Camera(64), 0, 0, "fn")>>) EXCEPT !.push_constants = <<16>>],
   fs      |-> Module(<<Camera(64), Albedo, Shadow, Unused, Smp>>,
                      <<Wgsl(Camera(64), 0, 0, ""), Wgsl(Shadow, 0, 6, ""), Wgsl(Smp, 0, 4, "fn")>>),
   fs_lit  |-> Module(<<Camera(64), Light, Lamp, Albedo, Smp>>, <<Wgsl(Light, 0, 3, "fn")>>),
   fs_wide |-> Module(<<Camera(80)>>, <<>>),
   fs_many |-> Module(<<Light, Lamp, Albedo, Shadow, Unused, Smp>>, <<>>),
   fs_alias |-> Module(<<Target, Albedo, Overlaid, ShadowSmplr, WriteSmp>>,
                       <<Wgsl(Target, 0, 1, "write"), Wgsl(WriteSmp, 0, 5, ""), Wgsl(ShadowSmplr, 0, 7, "fn")>>),
   fs_long |-> Module(<<[Smp EXCEPT !.name = LongName]>>, <<>>),
   fs_odd  |-> Module(<<Image("R64ui")>>, <<>>),
   invalid |-> Module(<<>>, <<>>),
   cs      |-> [Module(<<Cells, Image("Rgba8")>>, <<Wgsl(Cells, 0, 0, "")>>) EXCEPT !.local_size = <<8, 0, 1>>]]

\* What each file compiles to, by the macro it is compiled with.
MCFrontEnd(req) ==
  LET file == Last(req.file_path)
      lit  == \E i \in DOMAIN req.macros : req.macros[i].name = "LIT"
      wide == \E i \in DOMAIN req.macros : req.macros[i].name = "WIDE"
  IN  IF file = "broken.frag" THEN Missing
      ELSE IF file # "a.frag" THEN file
      ELSE IF lit THEN "fs_lit" ELSE IF wide THEN "fs_wide" ELSE "fs"
------------------------------------------------------------------------------
(* Documents.                                                              *)

StageEntry(stage, file) == [stage |-> stage, file |-> file, entry_point |-> Absent, entry |-> Absent]
BufferEntry(name, size) == [name |-> name, size |-> size, total_size |-> Absent]
Define(name) == <<[name |-> name, value |-> "1"]>>
VariantEntry(name, defines) == [name |-> name, defines |-> defines]

Plain ==
  [name |-> "prog", source_lang |-> "GLSL", validate |-> Absent, targets |-> <<"MSL">>,
   include_paths |-> Absent, metal_layout |-> Absent, validate_layout |-> Absent,
   layout_registries |-> Absent, layout_registry |-> Absent, uniform_buffers |-> Absent,
   emit_binding_decls |-> Absent, emit_binding_decls_skip |-> Absent,
   emit_binding_decls_include |-> Absent, emit_binding_decls_compose |-> Absent,
   emit_bindings_stage |-> Absent, variants |-> Absent,
   stages |-> <<StageEntry("vertex", "vs"), StageEntry("fragment", "a.frag")>>]

TwoVariants ==
  [Plain EXCEPT !.variants = <<VariantEntry("base", Absent), VariantEntry("lit", Define("LIT"))>>]
Fragment(file) == [Plain EXCEPT !.stages = <<@[1], StageEntry("fragment", file)>>]
Layouts(registries) ==
  [Plain EXCEPT !.validate_layout = TRUE, !.layout_registries = registries]
Emitting(stage) ==
  [TwoVariants EXCEPT !.emit_binding_decls = "decls.glsl", !.emit_bindings_stage = stage]

MCRegistryFiles ==
  [p \in {<<"dir", f>> : f \in {"camera", "again", "bad", "none", "empty"}} |->
     CASE p[2] = "camera" -> [uniform_buffers |-> <<BufferEntry("Camera", 64)>>]
       [] p[2] = "again"  -> [uniform_buffers |-> <<[BufferEntry("Camera", Invalid) EXCEPT !.total_size = 80]>>]
       [] p[2] = "bad"    -> [uniform_buffers |-> <<BufferEntry("Camera", Absent)>>]
       [] p[2] = "empty"  -> [uniform_buffers |-> <<>>]
       [] OTHER           -> Missing]

GoodDocuments ==
  { Plain, TwoVariants,
    [TwoVariants EXCEPT !.targets = <<"wgsl", "GLSL">>],
    [Plain EXCEPT !.variants = <<VariantEntry("", Define("LIT"))>>],
    [Plain EXCEPT !.include_paths = <<"inc", Invalid>>],
    [Plain EXCEPT !.targets = <<"GLSL">>, !.stages = <<StageEntry("compute", "cs")>>],
    Fragment("fs_many"), Fragment("fs_long"),
    [Fragment("fs_alias") EXCEPT !.targets = <<"MSL", "WGSL">>],
    Layouts(<<"camera">>),
    [Layouts(<<"empty">>) EXCEPT !.uniform_buffers =
       <<BufferEntry("Camera", 64 + SizeMod), BufferEntry(Invalid, 1), BufferEntry("", 0)>>],
    [Emitting("all") EXCEPT !.emit_binding_decls_skip = <<"Camera", "Lamp">>],
    [Emitting("vertex") EXCEPT !.emit_binding_decls_compose = <<"common.glsl">>],
    [Emitting(Absent) EXCEPT !.emit_binding_decls_include = <<"Camera", "albedo">>,
                             !.variants = <<@[2], @[1]>>] }

BadDocuments ==
  { Invalid, [Plain EXCEPT !.name = Invalid], [Plain EXCEPT !.stages = <<>>],
    [Plain EXCEPT !.source_lang = "Cg"], [Plain EXCEPT !.source_lang = "wgsl"],
    [Plain EXCEPT !.source_lang = "hlsl"], [Plain EXCEPT !.targets = <<"MSL", "DXIL">>],
    [Plain EXCEPT !.stages = Append(@, StageEntry("mesh", "vs"))],
    [TwoVariants EXCEPT !.variants = Append(@, VariantEntry("base", Define("LIT")))],
    [Layouts(Absent) EXCEPT !.layout_registry = "camera"],
    [Plain EXCEPT !.uniform_buffers = <<[BufferEntry("Camera", Invalid) EXCEPT !.total_size = 64]>>],
    [Emitting("compute") EXCEPT !.variants = Absent],
    [Plain EXCEPT !.targets = <<"HLSL">>], Fragment("broken.frag"), Fragment("invalid"), Fragment("fs_odd"),
    [Plain EXCEPT !.variants = <<VariantEntry("lit", Define("LIT"))>>,
                  !.metal_layout = [buffer_base |-> 29, flatten_stride |-> Invalid]],
    Layouts(<<"camera", "again">>), Layouts(<<"none">>), Layouts(<<"bad">>), Layouts(<<"empty">>),
    [Layouts(<<"camera">>) EXCEPT !.uniform_buffers = <<BufferEntry("Light", 20)>>,
                                  !.variants = <<VariantEntry("lit", Define("LIT")), VariantEntry("base", Absent)>>] }

MCInvocations ==
  {[doc |-> d, spec_dir |-> "dir", cache |-> TRUE, output |-> "out"] : d \in GoodDocuments \cup BadDocuments}
    \cup {[doc |-> TwoVariants, spec_dir |-> "", cache |-> FALSE, output |-> "out"]}
    \cup {[doc |-> d, spec_dir |-> "", cache |-> TRUE, output |-> "out"] :
             d \in {TwoVariants, [Plain EXCEPT !.include_paths = <<"LIT", "1">>]}}
==============================================================================
