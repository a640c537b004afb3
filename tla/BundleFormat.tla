----------------------------- MODULE BundleFormat -----------------------------
(***************************************************************************)
(* The .vneshader bundle (shader_bundle.cpp, compile_shaders.py): which    *)
(* files an artifact is written to and in which order, what bundle.header  *)
(* says of them, how the readers take it.  A directory is a function from  *)
(* the names of its files to their contents.                               *)
(***************************************************************************)
EXTENDS Naturals, Sequences, SequencesExt

CONSTANTS
  Truncated,  \* contents of a file that was opened for writing
  Cut,        \* contents of a file of which a write reached the disk in part
  NoFile,     \* the empty file name
  Unreadable  \* a header that no reader takes

\* A stage: its kind, its SPIR-V and the targets it was cross-compiled to.
BundleStage(kind, spirv, targets) == [kind |-> kind, spirv |-> spirv, targets |-> targets]

\* kMaxStages of readShaderBundleHeader.
MaxStages == 16

StageFile(a, s, ext) == <<a.name, s.kind, ext>>
HeaderFile == <<"bundle", "header">>
ReflectionFile == <<"reflection", "bin">>
JsonFiles == {<<"manifest", "json">>, <<"reflection", "json">>}

\* A file of the stage for a target, if the target was compiled.
TargetFile(a, s, target, ext) == IF target \in s.targets THEN StageFile(a, s, ext) ELSE NoFile

\* BundleStageFiles.
StageFiles(a, s) ==
  [stage |-> s.kind,
   spirv_file |-> StageFile(a, s, "spv"),
   msl_file |-> TargetFile(a, s, "eMSL", "msl"),
   wgsl_file |-> TargetFile(a, s, "eWGSL", "wgsl")]

HeaderOf(a) == [name |-> a.name, stages |-> [i \in DOMAIN a.stages |-> StageFiles(a, a.stages[i])]]

\* assembleReflection.
ReflectionOf(a) == [i \in DOMAIN a.stages |-> <<a.stages[i].kind, a.stages[i].spirv>>]

WriteOf(file, content) == [file |-> file, content |-> content]

\* Every file of a stage is named by what it holds: the SPIR-V or its
\* translation.  One that is named NoFile is not written.
StageWrites(a, s) ==
  LET names == StageFiles(a, s)
  IN  << WriteOf(names.spirv_file, s.spirv), WriteOf(names.msl_file, s.spirv),
         WriteOf(names.wgsl_file, s.spirv) >>

\* Stage after stage, three files each.
StagesWrites(a) ==
  [p \in 1 .. 3 * Len(a.stages) |-> StageWrites(a, a.stages[(p + 2) \div 3])[1 + ((p + 2) % 3)]]

JsonWrites(a) == << WriteOf(<<"manifest", "json">>, HeaderOf(a)), WriteOf(<<"reflection", "json">>, ReflectionOf(a)) >>

\* Mutant: the header comes before what it names.
HeaderFirst(a) ==
  <<WriteOf(HeaderFile, HeaderOf(a))>> \o StagesWrites(a) \o
  <<WriteOf(ReflectionFile, ReflectionOf(a))>> \o JsonWrites(a)

\* The writes of writeShaderBundle, in their order.
Writes(a) ==
  StagesWrites(a) \o <<WriteOf(ReflectionFile, ReflectionOf(a)), WriteOf(HeaderFile, HeaderOf(a))>>
  \o JsonWrites(a)

\* Mutant: the result of a write is looked at for SPIR-V only.
OnlySpirv(file) == file[Len(file)] = "spv"

\* writeShaderBundle returns false when one of these is not written.
Required(file) == file \notin JsonFiles

\* A file larger than the stream's buffer fails while it is written; the others
\* are written when the stream is closed, after its state was read.
Large(file) == Required(file) /\ file # HeaderFile

\* readShaderBundleHeader.
ReadHeader(d) ==
  IF HeaderFile \notin DOMAIN d THEN Unreadable
  ELSE IF d[HeaderFile] = Truncated THEN Unreadable
  ELSE IF Len(d[HeaderFile].stages) > MaxStages THEN Unreadable
  ELSE d[HeaderFile]

\* _parse_bundle_header: the number of stages is not bounded.
ParseHeader(d) ==
  IF HeaderFile \notin DOMAIN d THEN Unreadable
  ELSE IF d[HeaderFile] = Truncated THEN Unreadable
  ELSE d[HeaderFile]

\* Mutant: one stage with WGSL is taken for a bundle with WGSL.
AnyStageHasWgsl(h) ==
  IF h = Unreadable \/ \E i \in DOMAIN h.stages : h.stages[i].wgsl_file # NoFile THEN {} ELSE DOMAIN h.stages

StagesWithoutWgsl(h) == IF h = Unreadable THEN {} ELSE {i \in DOMAIN h.stages : h.stages[i].wgsl_file = NoFile}

\* foo.vert.spv -> foo.vert.wgsl
WgslName(file) == <<file[1], file[2], "wgsl">>

\* Mutant: a stage whose WGSL file is in the directory already is skipped.
MissingOnDisk(d) ==
  {i \in StagesWithoutWgsl(ParseHeader(d)) : WgslName(ParseHeader(d).stages[i].spirv_file) \notin DOMAIN d}

\* _bundle_missing_wgsl: an unreadable header has none missing.
BundleMissingWgsl(d) == StagesWithoutWgsl(ParseHeader(d))

\* The header that patch_bundle_with_wgsl writes.
Patched(h, wgsl_map) ==
  [h EXCEPT !.stages =
     [i \in DOMAIN @ |-> IF i \in DOMAIN wgsl_map THEN [@[i] EXCEPT !.wgsl_file = wgsl_map[i]] ELSE @[i]]]
===============================================================================
