----------------------------- MODULE PipelineSpec -----------------------------
(***************************************************************************)
(* The pipeline specification, or manifest, of a shader program            *)
(* (shader_pipeline_spec.cpp): which JSON documents are refused, which     *)
(* parts of a document are dropped with an error, which without one, and   *)
(* which PipelineBuildDesc the rest becomes.                               *)
(*                                                                         *)
(* A document is a record with a field for each key the parser looks for.  *)
(* A key that is not there is Absent; a value of the wrong type, or an     *)
(* element of an array of the wrong type, is Invalid.                      *)
(***************************************************************************)
EXTENDS Naturals, Filters

CONSTANTS
  Absent, Invalid,  \* no value, a value of another type
  Missing,          \* std::nullopt
  SizeMod           \* 2^32: get<uint32_t> of a larger number

ASSUME SizeModAssumption == SizeMod \in Nat \ {0}

Given(v) == v \notin {Absent, Invalid}
Or(v, default) == IF Given(v) THEN v ELSE default

\* The strings of an array: other elements are skipped.
Strings(v) == Only(Or(v, <<>>), Range(Or(v, <<>>)) \ {Absent, Invalid})

Map(F(_), s) == [i \in DOMAIN s |-> F(s[i])]

LangNames ==
  [GLSL |-> "eGLSL", glsl |-> "eGLSL", HLSL |-> "eHLSL", hlsl |-> "eHLSL", MSL |-> "eMSL",
   msl |-> "eMSL", WGSL |-> "eWGSL", wgsl |-> "eWGSL", Slang |-> "eSlang", slang |-> "eSlang"]
TargetNames ==
  [MSL |-> "eMSL", msl |-> "eMSL", WGSL |-> "eWGSL", wgsl |-> "eWGSL", GLSL |-> "eGLSL",
   glsl |-> "eGLSL", GLSLES |-> "eGLSLES", glsles |-> "eGLSLES", HLSL |-> "eHLSL", hlsl |-> "eHLSL"]
StageNames ==
  [vertex |-> "eVertex", fragment |-> "eFragment", compute |-> "eCompute", geometry |-> "eGeometry",
   tessellation_control |-> "eTessellationControl", tess_control |-> "eTessellationControl",
   tessellation_evaluation |-> "eTessellationEvaluation", tess_eval |-> "eTessellationEvaluation"]
BindingsStages == {"fragment", "vertex", "all"}

UnknownName(v, names) == Given(v) /\ v \notin names

Targets(doc) ==
  Map(LAMBDA t : TargetNames[t], Only(Strings(doc.targets), DOMAIN TargetNames))
------------------------------------------------------------------------------
(* uniform_buffers: an entry without a name is skipped in silence, one with *)
(* a size that is no unsigned number with an error, one with no size is 0.  *)

SizeOf(entry) ==
  IF entry.size # Absent THEN entry.size ELSE IF entry.total_size # Absent THEN entry.total_size ELSE 0

NamedBuffers(doc) == SelectSeq(Or(doc.uniform_buffers, <<>>), LAMBDA e : Given(e.name))

UniformBuffers(doc) ==
  Map(LAMBDA e : [block_name |-> e.name, total_size |-> SizeOf(e) % SizeMod],
      SelectSeq(NamedBuffers(doc), LAMBDA e : SizeOf(e) # Invalid))

MetalLayout(doc) ==
  LET ml == Or(doc.metal_layout, [buffer_base |-> Absent, flatten_stride |-> Absent])
  IN  [buffer_base    |-> Or(ml.buffer_base, 16) % SizeMod,
       flatten_stride |-> Or(ml.flatten_stride, 32) % SizeMod]

\* Mutant: a second variant of a name is kept.
AddEveryVariant(variants, v) ==
  IF ~Given(v.name) THEN variants
  ELSE Append(variants, [name |-> v.name, defines |-> Or(v.defines, <<>>)])

\* A variant without a name, or with the name of an earlier one, is dropped.
AddVariant(variants, v) ==
  IF ~Given(v.name) \/ \E i \in DOMAIN variants : variants[i].name = v.name THEN variants
  ELSE Append(variants, [name |-> v.name, defines |-> Or(v.defines, <<>>)])

Variants(doc) == FoldLeft(AddVariant, <<>>, Or(doc.variants, <<>>))

\* A stage without a file, or of no known kind, is dropped.
ValidStages(doc) ==
  {s \in Range(Or(doc.stages, <<>>)) : Given(s.file) /\ s.stage \in DOMAIN StageNames}

\* "entry" is the legacy key of "entry_point".
Stages(doc) ==
  Map(LAMBDA s : [stage |-> StageNames[s.stage], file |-> s.file,
                  entry_point |-> Or(s.entry_point, Or(s.entry, "main"))],
      Only(Or(doc.stages, <<>>), ValidStages(doc)))

\* The deprecated key counts when the list that replaces it is empty.
LayoutRegistries(doc) ==
  LET paths == Strings(doc.layout_registries)
  IN  IF paths = <<>> /\ Given(doc.layout_registry) THEN <<doc.layout_registry>> ELSE paths

\* spec.errors, by the keys they are about: what was given and not taken.
Errors(doc) ==
  {key \in {"source_lang", "targets", "emit_bindings_stage", "layout_registry", "uniform_buffers",
            "variants", "stages"} :
    \/ key = "source_lang" /\ UnknownName(doc.source_lang, DOMAIN LangNames)
    \/ key = "targets" /\ Len(Targets(doc)) < Len(Strings(doc.targets))
    \/ key = "emit_bindings_stage" /\ UnknownName(doc.emit_bindings_stage, BindingsStages)
    \/ key = "layout_registry" /\ Given(doc.layout_registry)
    \/ key = "uniform_buffers" /\ Len(UniformBuffers(doc)) < Len(NamedBuffers(doc))
    \/ key = "variants" /\ Len(Variants(doc)) < Len(Or(doc.variants, <<>>))
    \/ key = "stages" /\ Len(Stages(doc)) < Len(Or(doc.stages, <<>>))}

(***************************************************************************)
(* parseShaderPipelineSpecJson.  A document that is no JSON is Invalid.    *)
(***************************************************************************)
ParseSpec(doc) ==
  IF doc = Invalid \/ ~Given(doc.name) \/ Stages(doc) = <<>> THEN Missing
  ELSE [name                       |-> doc.name,
        source_lang                |-> IF doc.source_lang \in DOMAIN LangNames
                                       THEN LangNames[doc.source_lang] ELSE "eGLSL",
        validate                   |-> Or(doc.validate, TRUE),
        targets                    |-> Targets(doc),
        include_paths              |-> Strings(doc.include_paths),
        metal_layout               |-> MetalLayout(doc),
        validate_layout            |-> Or(doc.validate_layout, FALSE),
        layout_registries          |-> LayoutRegistries(doc),
        uniform_buffers            |-> UniformBuffers(doc),
        emit_binding_decls         |-> Or(doc.emit_binding_decls, ""),
        emit_binding_decls_skip    |-> Strings(doc.emit_binding_decls_skip),
        emit_binding_decls_include |-> Strings(doc.emit_binding_decls_include),
        emit_binding_decls_compose |-> Strings(doc.emit_binding_decls_compose),
        emit_bindings_stage        |-> IF doc.emit_bindings_stage \in BindingsStages
                                       THEN doc.emit_bindings_stage ELSE "fragment",
        variants                   |-> Variants(doc),
        stages                     |-> Stages(doc),
        errors                     |-> Errors(doc)]

\* Strings are compared as tuples of their parts: a path of the document, and
\* the same path in the document's directory, where that is given.
InSpecDir(spec_dir, path) == IF spec_dir = "" THEN <<path>> ELSE <<spec_dir, path>>

\* ShaderPipelineSpec::toBuildDesc, macros still to be added.
ToBuildDesc(spec, spec_dir) ==
  [name         |-> <<spec.name>>,
   validate     |-> spec.validate,
   targets      |-> spec.targets,
   metal_layout |-> spec.metal_layout,
   stages       |-> Map(LAMBDA s :
                          [file_path    |-> InSpecDir(spec_dir, s.file),
                           entry_point  |-> s.entry_point,
                           stage        |-> s.stage,
                           lang         |-> spec.source_lang,
                           include_dirs |-> Map(LAMBDA p : InSpecDir(spec_dir, p), spec.include_paths),
                           macros       |-> <<>>], spec.stages)]
==============================================================================
