---------------------------- MODULE ArtifactCodec ----------------------------
(***************************************************************************)
(* The .vnca entry of the artifact cache (shader_artifact_cache.cpp): what *)
(* lookup decodes from a file that holds a prefix of a serialized          *)
(* artifact.  A file ends after `len' complete fields; `mid' says that it  *)
(* also has some, not all, bytes of the next field.  Reader::ok accepts    *)
(* the end of the data, so what is missing reads as zero.                  *)
(***************************************************************************)
EXTENDS Naturals, Sequences

CONSTANTS
  Empty,     \* the empty string
  Padding,   \* a non-empty value completed or made up of zero bytes
  Missing    \* std::nullopt

\* StageArtifact: its SPIR-V, its reflection and its cross-compiled sources.
\* The stage and entry point, in the header, are part of the cache key.
StageArtifact(spirv, reflection, cross_compiled) ==
  [spirv |-> spirv, reflection |-> reflection, cross_compiled |-> cross_compiled]

CrossCompiledSource(target, source, entry) ==
  [target |-> target, source |-> source, entry |-> entry]

\* Fields: header, SPIR-V, reflection size, reflection, source count, then a
\* target, a source size, a source and an entry point per target.
HeadFields == 5
FieldCount(a) == HeadFields + 4 * Len(a.cross_compiled)

File(a, len, mid) == [artifact |-> a, len |-> len, mid |-> mid]
Whole(a) == File(a, FieldCount(a), FALSE)
\* What opening the file for a new store leaves of it.
Truncated(a) == File(a, 0, FALSE)
Torn(f) == f.len < FieldCount(f.artifact)

Prefixes(a) == {Whole(a)} \cup {File(a, n, mid) : n \in 0 .. FieldCount(a) - 1, mid \in BOOLEAN}

\* Target 0 is eMSL.
ZeroSource == CrossCompiledSource("eMSL", Empty, Empty)

\* A source of which n of the four fields are in the file.  A size cut short
\* gives its low bytes, zero or not, as the length of a run of zero bytes.
CutSources(cc, n, mid) ==
  CASE n = 0 -> {ZeroSource}
    [] n = 1 -> {CrossCompiledSource(cc.target, s, Empty) :
                   s \in IF mid THEN {Empty, Padding} ELSE {Empty}}
    [] n = 2 -> {CrossCompiledSource(cc.target, Padding, Empty)}
    [] n = 3 -> {CrossCompiledSource(cc.target, cc.source, IF mid THEN Padding ELSE Empty)}

\* The sources of a file cut in the i-th of them: the ones before are intact,
\* the ones after read as zero.
CutLists(a, i, n, mid) ==
  {[j \in 1 .. Len(a.cross_compiled) |->
      IF j < i THEN a.cross_compiled[j] ELSE IF j = i THEN cc ELSE ZeroSource] :
     cc \in CutSources(a.cross_compiled[i], n, mid)}

(***************************************************************************)
(* deserializeArtifact: the values lookup may return.  Without the         *)
(* reflection's size its blob is empty and does not parse; a low byte of   *)
(* the size gives a blob of zeros, which parses when it is long enough; a  *)
(* blob completed with zeros parses.                                       *)
(***************************************************************************)
Decode(f) ==
  LET a == f.artifact
      Bare(r) == StageArtifact(a.spirv, r, <<>>)
  IN  IF f.len < 2 THEN {Missing}
      ELSE IF f.len = 2 THEN IF f.mid THEN {Missing, Bare(Padding)} ELSE {Missing}
      ELSE IF f.len = 3 THEN {Bare(Padding)}
      ELSE IF f.len = 4 /\ ~f.mid THEN {Bare(a.reflection)}
      ELSE IF f.len = 4 THEN {[a EXCEPT !.cross_compiled = [j \in DOMAIN @ |-> ZeroSource]]}
      ELSE IF Torn(f)
      THEN {[a EXCEPT !.cross_compiled = l] :
              l \in CutLists(a, 1 + (f.len - HeadFields) \div 4, (f.len - HeadFields) % 4, f.mid)}
      ELSE {a}

\* findCrossCompiled: the first source for the target.
HasSource(a, target) ==
  \E i \in DOMAIN a.cross_compiled :
    /\ a.cross_compiled[i].target = target
    /\ \A j \in 1 .. i - 1 : a.cross_compiled[j].target # target
    /\ a.cross_compiled[i].source # Empty

\* Mutant: only the SPIR-V is looked at.
SpirvReady(a, targets) == a.spirv # Empty

\* cachedArtifactReady of the pipeline builder.
CachedArtifactReady(a, targets) ==
  a.spirv # Empty /\ \A i \in DOMAIN targets : HasSource(a, targets[i])
==============================================================================
