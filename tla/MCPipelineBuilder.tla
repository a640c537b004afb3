-------------------------- MODULE MCPipelineBuilder --------------------------
(***************************************************************************)
(* Instances of PipelineBuilder.  Two programs share their vertex shader;  *)
(* the fragment shader of the second declares a lower binding, so that the *)
(* slots of the vertex shader differ between the two programs.             *)
(***************************************************************************)
EXTENDS PipelineBuilder

MCContent == {"vs", "fs", "fs_low", "broken", "invalid", "huge"}
MCBindings ==
  [c \in MCContent |-> CASE c = "vs" -> {2} [] c = "fs" -> {2} [] c = "fs_low" -> {1, 2}
                         [] c = "huge" -> {3, 4, 5} [] OTHER -> {}]
MCCompileErrors == {"broken"}
MCInvalidSpirv == {"invalid"}
MCCrossErrors == {<<"fs_low", "eWGSL">>}
NoCrossErrors == {}

Text(kind, text) == [stage |-> kind, source |-> text, path |-> "none"]
OnFile(kind, file) == [stage |-> kind, source |-> NoSource, path |-> file]

Desc(stages, targets) ==
  [stages |-> stages, targets |-> targets, validate |-> TRUE, use_cache |-> TRUE, dense |-> TRUE]

Program(vertex, fragment) == <<Text("vertex", vertex), Text("fragment", fragment)>>
Msl == <<"eMSL">>

\* Two programs, one of them with stage-local maps too.
SharingRequests ==
  { Desc(Program("vs", "fs"), Msl), Desc(Program("vs", "fs_low"), Msl),
    [Desc(Program("vs", "fs_low"), Msl) EXCEPT !.dense = FALSE] }

\* Every way a build can end, with and without a cache.
FailingRequests ==
  { Desc(<<>>, Msl), Desc(Program("vs", "broken"), Msl), Desc(Program("vs", "invalid"), Msl),
    Desc(Program("vs", "huge"), Msl), Desc(Program("vs", "fs_low"), <<"eMSL", "eWGSL">>),
    Desc(Program("vs", "fs"), <<>>), Desc(Program("vs", "fs"), Msl),
    [Desc(Program("vs", "fs"), Msl) EXCEPT !.use_cache = FALSE],
    [Desc(<<Text("compute", "huge"), Text("compute", "huge")>>, Msl) EXCEPT !.dense = FALSE] }

\* One and two targets, with Metal first and last.
TornRequests ==
  { Desc(<<Text("vertex", "vs")>>, Msl), Desc(Program("vs", "fs"), <<"eMSL", "eWGSL">>),
    Desc(<<Text("vertex", "vs")>>, <<"eWGSL", "eMSL">>) }

\* Files in place of texts; validation asked for or not.
FileProgram == <<OnFile("vertex", "a.vert"), OnFile("fragment", "a.frag")>>
FileRequests == {Desc(FileProgram, Msl)}
EveryRequest ==
  FailingRequests \cup FileRequests \cup {[Desc(FileProgram, Msl) EXCEPT !.use_cache = FALSE]}
ValidationRequests ==
  {[Desc(<<Text("vertex", "invalid")>>, Msl) EXCEPT !.validate = v] : v \in BOOLEAN}

Full == [front_end |-> TRUE, cross_compiler |-> TRUE, reflector |-> TRUE, validator |-> "spirv-tools"]
FullBackend == {Full}
AllBackends ==
  { Full, [Full EXCEPT !.front_end = FALSE], [Full EXCEPT !.cross_compiler = FALSE],
    [Full EXCEPT !.reflector = FALSE], [Full EXCEPT !.validator = "none"],
    [Full EXCEPT !.validator = "noop"] }

NoPath == {}
NoFiles == {[f \in {} |-> "vs"]}
MCPath == {"a.vert", "a.frag"}
MCFiles == {[f \in MCPath |-> IF f = "a.vert" THEN "vs" ELSE "fs"]}
==============================================================================
