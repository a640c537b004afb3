--------------------------- MODULE MCCompileShaders ---------------------------
(***************************************************************************)
(* Instances of CompileShaders.  A manifest is edited between runs: its    *)
(* texts, its targets, and how many variants and stages it has.            *)
(***************************************************************************)
EXTENDS CompileShaders

Bundle(name, stages) == [name |-> name, stages |-> stages]
Vertex(text, targets) == BundleStage("vertex", text, targets)
Fragment(text, targets) == BundleStage("fragment", text, targets)

\* A program with MSL, its next version with WGSL as well, two variants.
MCManifests ==
  { <<Bundle("scene", <<Vertex("vs1", {"eMSL"}), Fragment("fs1", {"eMSL"})>>)>>,
    <<Bundle("scene", <<Vertex("vs2", {"eMSL", "eWGSL"}), Fragment("fs2", {})>>)>>,
    <<Bundle("scene", <<Vertex("vs3", {})>>), Bundle("scene_skinned", <<Vertex("vs4", {"eWGSL"})>>)>> }

\* Programs of one and two stages that overwrite each other.
RacingManifests ==
  { <<Bundle("scene", <<Vertex("vs1", {}), Fragment("fs1", {})>>)>>,
    <<Bundle("scene", <<Vertex("vs2", {"eMSL"})>>)>> }

\* Two kernels.
TwinManifests == {<<Bundle("sort", <<BundleStage("compute", "count", {}), BundleStage("compute", "scan", {})>>)>>}
===============================================================================
