---------------------------- MODULE CompileShaders ----------------------------
(***************************************************************************)
(* compile_one of compile_shaders.py: a run of the command-line compiler,  *)
(* which builds and writes one bundle per variant of a manifest, then the  *)
(* naga fallback, which adds WGSL to the bundles that have none.  Jobs are *)
(* calls of compile_one for manifests with the same stem, which have the   *)
(* same output directories; other jobs touch none of these.  A step ends   *)
(* where a file is opened, written or read.                                *)
(***************************************************************************)
EXTENDS BundleFormat

CONSTANTS
  Job,        \* calls of compile_one that run in parallel
  Manifests,  \* contents a manifest may have: an artifact per variant
  Naga,       \* naga is installed
  FlushFails, \* a write may fail when the stream is closed (disk full)
  MaxRuns     \* bound on the calls

\* A manifest has a variant at least; variants, and stages, are in sequences.
ASSUME ManifestsAssumption ==
  /\ Manifests # {}
  /\ \A m \in Manifests :
       /\ Len(m) \in Nat \ {0} /\ DOMAIN m = 1 .. Len(m)
       /\ \A v \in DOMAIN m : Len(m[v].stages) \in Nat /\ DOMAIN m[v].stages = 1 .. Len(m[v].stages)

\* No file has the empty name.
ASSUME NoFileAssumption ==
  /\ NoFile \notin {HeaderFile, ReflectionFile}
  /\ \A m \in Manifests : \A v \in DOMAIN m : \A i \in DOMAIN m[v].stages :
       \A ext \in {"spv", "msl", "wgsl"} : StageFile(m[v], m[v].stages[i], ext) # NoFile

ASSUME RunsAssumption == MaxRuns \in Nat /\ {Naga, FlushFails} \subseteq BOOLEAN

VARIABLES
  dirs,       \* the output directory of each variant
  pc,
  manifest,   \* the artifacts that the job is to write
  variant,    \* variant_index; the bundle that naga is at
  step,       \* the write that writeShaderBundle is at
  missing,    \* the stages that naga's loop is over
  parsed,     \* the header that naga's loop read, then the one to write back
  wgsl_map,   \* stages converted so far
  runs        \* counter of the bound

vars == <<dirs, pc, manifest, variant, step, missing, parsed, wgsl_map, runs>>
job == <<manifest, variant, step, missing, parsed, wgsl_map, runs>>

Variant == UNION {DOMAIN m : m \in Manifests}

Init ==
  /\ dirs = [v \in Variant |-> [f \in {} |-> Truncated]]
  /\ pc = [j \in Job |-> "idle"]
  /\ manifest \in [Job -> {CHOOSE m \in Manifests : TRUE}]
  /\ variant = [j \in Job |-> 1]
  /\ step = [j \in Job |-> 1]
  /\ missing = [j \in Job |-> {}]
  /\ parsed = [j \in Job |-> Unreadable]
  /\ wgsl_map = [j \in Job |-> <<>>]
  /\ runs = 0

Goto(j, there) == pc' = [pc EXCEPT ![j] = there]

Dir(j) == dirs[variant[j]]
Artifact(j) == manifest[j][variant[j]]
Write(j) == Writes(Artifact(j))[step[j]]

\* A file of the job's directory gets new contents, and exists from now on.
Put(j, file, content) ==
  dirs' = [dirs EXCEPT ![variant[j]] = [f \in DOMAIN @ \cup {file} |-> IF f = file THEN content ELSE @[f]]]

Fail(j) == Goto(j, "failed") /\ UNCHANGED job
------------------------------------------------------------------------------
StartRun(j) ==
  /\ pc[j] \in {"idle", "done", "failed"}
  /\ runs < MaxRuns
  /\ runs' = runs + 1
  /\ \E m \in Manifests : manifest' = [manifest EXCEPT ![j] = m]
  /\ variant' = [variant EXCEPT ![j] = 1]
  /\ step' = [step EXCEPT ![j] = 1]
  /\ missing' = [missing EXCEPT ![j] = {}]
  /\ parsed' = [parsed EXCEPT ![j] = Unreadable]
  /\ wgsl_map' = [wgsl_map EXCEPT ![j] = <<>>]
  /\ Goto(j, "build")
  /\ UNCHANGED dirs

\* build, validateGpuLayouts, and writeShaderBundle up to its first file.
BuildVariant(j) ==
  /\ pc[j] = "build"
  /\ Goto(j, "open")
  /\ UNCHANGED dirs /\ UNCHANGED job

\* One of them fails, or the directory cannot be made: the later variants are
\* not built, the earlier ones stay.
BuildFails(j) == pc[j] = "build" /\ Fail(j) /\ UNCHANGED dirs

\* Mutant: one write more than there are files.
AdvancePast(j) ==
  /\ step' = [step EXCEPT ![j] = @ + 1]
  /\ Goto(j, IF step[j] < Len(Writes(Artifact(j))) THEN "open" ELSE "written")

\* On to the next file, or to the end of writeShaderBundle.
Advance(j) ==
  IF step[j] < Len(Writes(Artifact(j)))
  THEN step' = [step EXCEPT ![j] = @ + 1] /\ Goto(j, "open")
  ELSE UNCHANGED step /\ Goto(j, "written")

\* The stage has no source for this target.
SkipFile(j) ==
  /\ pc[j] = "open" /\ Write(j).file = NoFile
  /\ Advance(j)
  /\ UNCHANGED <<dirs, manifest, variant, missing, parsed, wgsl_map, runs>>

\* ofstream with trunc.
OpenFile(j) ==
  /\ pc[j] = "open" /\ Write(j).file # NoFile
  /\ Put(j, Write(j).file, Truncated)
  /\ Goto(j, "write")
  /\ UNCHANGED job

OpenFails(j) ==
  /\ pc[j] = "open" /\ Write(j).file # NoFile
  /\ UNCHANGED dirs
  /\ IF Required(Write(j).file)
     THEN Fail(j)
     ELSE Advance(j) /\ UNCHANGED <<manifest, variant, missing, parsed, wgsl_map, runs>>

WriteFile(j) ==
  /\ pc[j] = "write"
  /\ Put(j, Write(j).file, Write(j).content)
  /\ Advance(j)
  /\ UNCHANGED <<manifest, variant, missing, parsed, wgsl_map, runs>>

\* The stream turns bad while it is written.
WriteFails(j) ==
  /\ pc[j] = "write"
  /\ Large(Write(j).file)
  /\ Put(j, Write(j).file, Cut)
  /\ Fail(j)

\* The bytes in the stream's buffer do not reach the disk; the state of the
\* stream was good when it was looked at.
WriteUnflushed(j) ==
  /\ pc[j] = "write"
  /\ FlushFails
  /\ Put(j, Write(j).file, Truncated)
  /\ Advance(j)
  /\ UNCHANGED <<manifest, variant, missing, parsed, wgsl_map, runs>>

\* The first variant's binding declarations cannot be written.
EmitDeclsFails(j) == pc[j] = "written" /\ variant[j] = 1 /\ Fail(j) /\ UNCHANGED dirs

\* The next variant; after the last the compiler exits and naga's turn comes.
BundleWritten(j) ==
  /\ pc[j] = "written"
  /\ IF variant[j] < Len(manifest[j])
     THEN variant' = [variant EXCEPT ![j] = @ + 1] /\ Goto(j, "build")
     ELSE variant' = [variant EXCEPT ![j] = 1] /\ Goto(j, IF Naga THEN "naga" ELSE "done")
  /\ step' = [step EXCEPT ![j] = 1]
  /\ UNCHANGED <<dirs, manifest, missing, parsed, wgsl_map, runs>>
------------------------------------------------------------------------------
(* generate_wgsl_for_bundle for each bundle that was reported.             *)

NextBundle(j) ==
  /\ IF variant[j] < Len(manifest[j])
     THEN variant' = [variant EXCEPT ![j] = @ + 1] /\ Goto(j, "naga")
     ELSE UNCHANGED variant /\ Goto(j, "done")
  /\ UNCHANGED <<manifest, step, missing, parsed, wgsl_map, runs>>

\* Nothing is missing, or the header cannot be read: to compile_one, or to
\* generate_wgsl_for_bundle, which asks again.
NagaSkip(j) ==
  /\ pc[j] \in {"naga", "find"} /\ BundleMissingWgsl(Dir(j)) = {}
  /\ NextBundle(j) /\ UNCHANGED dirs

NagaNeeded(j) ==
  /\ pc[j] = "naga" /\ BundleMissingWgsl(Dir(j)) # {}
  /\ Goto(j, "find")
  /\ UNCHANGED dirs /\ UNCHANGED job

FindMissing(j) ==
  /\ pc[j] = "find" /\ BundleMissingWgsl(Dir(j)) # {}
  /\ missing' = [missing EXCEPT ![j] = BundleMissingWgsl(Dir(j))]
  /\ Goto(j, "parse")
  /\ UNCHANGED <<dirs, manifest, variant, step, parsed, wgsl_map, runs>>

\* The header is read a third time, for the stages.
NagaStart(j) ==
  /\ pc[j] = "parse" /\ ParseHeader(Dir(j)) # Unreadable
  /\ parsed' = [parsed EXCEPT ![j] = ParseHeader(Dir(j))]
  /\ wgsl_map' = [wgsl_map EXCEPT ![j] = <<>>]
  /\ Goto(j, "convert")
  /\ UNCHANGED <<dirs, manifest, variant, step, missing, runs>>

NagaRefused(j) == pc[j] = "parse" /\ ParseHeader(Dir(j)) = Unreadable /\ Fail(j) /\ UNCHANGED dirs

\* The stages that the loop has still to convert.
ToConvert(j) == missing[j] \ DOMAIN wgsl_map[j]
Converting(j, i) == pc[j] = "convert" /\ i \in ToConvert(j) /\ \A k \in ToConvert(j) : i <= k
SpirvFile(j, i) == parsed[j].stages[i].spirv_file

\* naga translates what the SPIR-V file holds.
Convert(j) == \E i \in ToConvert(j) :
  /\ Converting(j, i) /\ i \in DOMAIN parsed[j].stages
  /\ SpirvFile(j, i) \in DOMAIN Dir(j)
  /\ Dir(j)[SpirvFile(j, i)] \notin {Truncated, Cut}
  /\ Put(j, WgslName(SpirvFile(j, i)), Dir(j)[SpirvFile(j, i)])
  /\ wgsl_map' = [wgsl_map EXCEPT ![j] =
       [k \in DOMAIN @ \cup {i} |-> IF k = i THEN WgslName(SpirvFile(j, i)) ELSE @[k]]]
  /\ UNCHANGED <<pc, manifest, variant, step, missing, parsed, runs>>

\* No such stage in the header read last, no SPIR-V file, or naga fails and may
\* leave part of its output.
ConvertFails(j) == \E i \in ToConvert(j) :
  /\ Converting(j, i)
  /\ \/ UNCHANGED dirs
     \/ i \in DOMAIN parsed[j].stages /\ Put(j, WgslName(SpirvFile(j, i)), Cut)
  /\ Fail(j)

Patchable(j) ==
  LET h == ParseHeader(Dir(j)) IN h # Unreadable /\ DOMAIN wgsl_map[j] \subseteq DOMAIN h.stages

\* patch_bundle_with_wgsl reads the header again.
PatchRead(j) ==
  /\ pc[j] = "convert" /\ ToConvert(j) = {}
  /\ Patchable(j)
  /\ parsed' = [parsed EXCEPT ![j] = Patched(ParseHeader(Dir(j)), wgsl_map[j])]
  /\ Goto(j, "patch")
  /\ UNCHANGED <<dirs, manifest, variant, step, missing, wgsl_map, runs>>

\* The header was replaced by one that cannot be read or has fewer stages.
PatchRefused(j) ==
  /\ pc[j] = "convert" /\ ToConvert(j) = {}
  /\ ~Patchable(j)
  /\ Fail(j) /\ UNCHANGED dirs

\* write_bytes truncates the header, then writes it; what fails is raised.
PatchOpen(j) ==
  /\ pc[j] = "patch"
  /\ Put(j, HeaderFile, Truncated)
  /\ Goto(j, "patching")
  /\ UNCHANGED job

PatchWrite(j) ==
  /\ pc[j] = "patching"
  /\ Put(j, HeaderFile, parsed[j])
  /\ NextBundle(j)

PatchFails(j) == pc[j] \in {"patch", "patching"} /\ Fail(j) /\ UNCHANGED dirs

\* The compiler or the script is killed; the directories stay as they are.
Crash(j) ==
  /\ pc[j] \notin {"idle", "done", "failed"}
  /\ Fail(j) /\ UNCHANGED dirs

Next == \E j \in Job :
  \/ StartRun(j) \/ BuildVariant(j) \/ BuildFails(j)
  \/ SkipFile(j) \/ OpenFile(j) \/ OpenFails(j) \/ WriteFile(j) \/ WriteFails(j) \/ WriteUnflushed(j)
  \/ EmitDeclsFails(j) \/ BundleWritten(j)
  \/ NagaSkip(j) \/ NagaNeeded(j) \/ FindMissing(j) \/ NagaStart(j) \/ NagaRefused(j)
  \/ Convert(j) \/ ConvertFails(j)
  \/ PatchRead(j) \/ PatchRefused(j) \/ PatchOpen(j) \/ PatchWrite(j) \/ PatchFails(j)
  \/ Crash(j)

Spec == Init /\ [][Next]_vars
------------------------------------------------------------------------------
PCs == {"idle", "build", "open", "write", "written", "naga", "find", "parse", "convert", "patch",
        "patching", "done", "failed"}

TypeOK ==
  /\ \A v \in Variant : NoFile \notin DOMAIN dirs[v]
  /\ pc \in [Job -> PCs]
  /\ manifest \in [Job -> Manifests]
  /\ \A j \in Job : variant[j] \in 1 .. Len(manifest[j]) /\ step[j] \in DOMAIN Writes(Artifact(j))
  /\ \A j \in Job : pc[j] \in {"parse", "convert"} => missing[j] # {}
  /\ \A j \in Job : parsed[j] # Unreadable => DOMAIN wgsl_map[j] \subseteq DOMAIN parsed[j].stages
  /\ runs \in 0 .. MaxRuns

NamedFiles(f) == {f.spirv_file, f.msl_file, f.wgsl_file} \ {NoFile}

\* The header of d and what it names are the artifact's.
HoldsArtifact(d, a) ==
  LET h == ReadHeader(d) IN
  /\ h # Unreadable
  /\ h.name = a.name /\ DOMAIN h.stages = DOMAIN a.stages
  /\ \A i \in DOMAIN h.stages :
       /\ h.stages[i].msl_file = StageFiles(a, a.stages[i]).msl_file
       /\ \A file \in NamedFiles(h.stages[i]) : file \in DOMAIN d /\ d[file] = a.stages[i].spirv
  /\ ReflectionFile \in DOMAIN d /\ d[ReflectionFile] = ReflectionOf(a)

(***************************************************************************)
(* A file named by a header that can be read is in the directory, with     *)
(* jobs that overwrite each other's bundles, failed writes and kills: the  *)
(* header is written last, and naga's files before its patch.              *)
(***************************************************************************)
NamedFilesExist ==
  \A v \in Variant : ReadHeader(dirs[v]) # Unreadable =>
    \A i \in DOMAIN ReadHeader(dirs[v]).stages :
      NamedFiles(ReadHeader(dirs[v]).stages[i]) \subseteq DOMAIN dirs[v]

(***************************************************************************)
(* In a directory that one run has written to, a header that can be read   *)
(* comes with the whole bundle, wherever the run stopped: its files and    *)
(* reflection.bin are those of its artifact (order of lines 133-186, and   *)
(* naga's patch, which only adds files that are whole).                    *)
(***************************************************************************)
FirstBundleConsistent ==
  runs = 1 =>
    \A v \in Variant : ReadHeader(dirs[v]) # Unreadable =>
      \E j \in Job : v \in DOMAIN manifest[j] /\ HoldsArtifact(dirs[v], manifest[j][v])

(***************************************************************************)
(* A run that reports success has left the bundle of every variant, and    *)
(* with naga a WGSL file per stage, over whatever earlier runs, failed or  *)
(* killed, of other texts and targets, left in the directories.            *)
(***************************************************************************)
ReportedComplete ==
  \A j \in Job : pc[j] = "done" =>
    \A v \in DOMAIN manifest[j] :
      /\ HoldsArtifact(dirs[v], manifest[j][v])
      /\ \A i \in DOMAIN ReadHeader(dirs[v]).stages :
           Naga \/ "eWGSL" \in manifest[j][v].stages[i].targets =>
             ReadHeader(dirs[v]).stages[i].wgsl_file # NoFile

(***************************************************************************)
(* A bundle has the SPIR-V of every stage in a file of its own             *)
(* (shader_bundle.h:56), as soon as writeShaderBundle has returned.        *)
(***************************************************************************)
StageFilesOwn ==
  \A j \in Job : pc[j] = "written" =>
    \A i \in DOMAIN Artifact(j).stages :
      Dir(j)[StageFiles(Artifact(j), Artifact(j).stages[i]).spirv_file] = Artifact(j).stages[i].spirv

\* What a reader of the directories can tell of a job, and of a bundle.
Status ==
  [j \in Job |->
     IF pc[j] = "idle" THEN "waiting"
     ELSE IF pc[j] \in {"build", "open", "write", "written"} THEN "compiling"
     ELSE IF pc[j] \in {"naga", "find", "parse", "convert", "patch", "patching"} THEN "completing"
     ELSE pc[j]]

Contents(d, file) == IF file \in DOMAIN d THEN d[file] ELSE NoFile

\* A reader takes the header and opens the files it names.
Seen(d) ==
  LET h == ReadHeader(d) IN
  IF h = Unreadable THEN Unreadable
  ELSE [name |-> h.name,
        stages |-> [i \in DOMAIN h.stages |->
                      [kind  |-> h.stages[i].stage,
                       spirv |-> Contents(d, h.stages[i].spirv_file),
                       msl   |-> Contents(d, h.stages[i].msl_file),
                       wgsl  |-> Contents(d, h.stages[i].wgsl_file)]],
        reflection |-> Contents(d, ReflectionFile)]

Readers == INSTANCE PublishedBundles
             WITH Absent <- Unreadable, None <- NoFile,
                  status <- Status, program <- manifest, published <- [v \in Variant |-> Seen(dirs[v])]

(***************************************************************************)
(* To a reader, a first run publishes whole bundles, in their order, and   *)
(* takes each that lacks WGSL away once, to bring it back complete: no     *)
(* failure, and no kill between two writes, shows anything else, and       *)
(* success is reported when all are complete (lines 133-186 of             *)
(* writeShaderBundle, generate_wgsl_for_bundle).  The header decides when: *)
(* a bundle appears with its last byte and goes with its truncation.  A    *)
(* second run overwrites what the first has left, and may show both.       *)
(***************************************************************************)
FirstRunPublishes == Readers!Init /\ [][runs' <= 1 => Readers!Next]_(Readers!vars)
==============================================================================
