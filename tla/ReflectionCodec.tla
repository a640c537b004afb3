--------------------------- MODULE ReflectionCodec ---------------------------
(***************************************************************************)
(* reflection.bin and the reflections inside cache entries                 *)
(* (shader_reflection_binary.cpp).  A blob is the sequence of values that  *)
(* the writer emits; a string with its length is one value, since a blob   *)
(* cut inside one is refused like a blob cut before it.  The writer has no *)
(* limits, the reader has: that is what can make a written blob unreadable.*)
(***************************************************************************)
EXTENDS Naturals, SequencesExt

CONSTANTS
  NoReflection,  \* deserialization failed
  Version,       \* kReflectionBinaryVersion
  LongStrings,   \* strings of more than kMaxStringLen characters
  MaxProgramStageCount, MaxBindingCount, MaxStructMemberCount

ASSUME CodecLimitsAssumption ==
  {MaxProgramStageCount, MaxBindingCount, MaxStructMemberCount} \subseteq Nat

------------------------------------------------------------------------------
(* The writer.                                                             *)

\* The values of a record's fields, in the order of the names.
Write(record, names) == [i \in 1 .. Len(names) |-> record[names[i]]]

WriteList(WriteOne(_), list) == <<Len(list)>> \o FlattenSeq([i \in DOMAIN list |-> WriteOne(list[i])])

WriteOptional(value, names) ==
  IF value = NoReflection THEN <<0>> ELSE <<1>> \o Write(value, names)

WriteMember(m) ==
  Write(m, <<"name", "offset", "size", "array_count", "array_stride", "is_matrix", "matrix_columns",
             "matrix_rows", "type_name">>)

WriteSlots(slots) ==
  WriteOptional(slots.metal, <<"buffer", "texture", "sampler">>)
    \o WriteOptional(slots.webgpu, <<"group", "binding">>)

WriteBinding(b) ==
  Write(b, <<"name", "type", "set", "binding", "array_size", "stages">>)
    \o WriteSlots(b.slots)
    \o WriteList(WriteMember, b.struct_members)
    \o Write(b, <<"storage_format_hint", "storage_access_hint", "multisampled", "depth_texture",
                  "dynamic_offset">>)

WriteStage(r) ==
  Write(r, <<"stage">>)
    \o WriteList(WriteBinding, r.bindings)
    \o Write(r, <<"push_constant_size", "workgroup_size">>)

SerializeProgram(reflections) == <<Version>> \o WriteList(WriteStage, reflections)
------------------------------------------------------------------------------
(* The reader: whether the stream is good, how many values of the blob are *)
(* behind it, and what was read last.                                      *)

Failed == [ok |-> FALSE, at |-> 0, got |-> NoReflection]
Good(at, got) == [ok |-> TRUE, at |-> at, got |-> got]

\* The fields that are strings, whose length is bounded.
Texts == {"name", "type_name", "storage_format_hint", "storage_access_hint"}

\* The next values as a record; the end of the blob or a long string fails.
Read(blob, r, names) ==
  IF \/ ~r.ok \/ r.at + Len(names) > Len(blob)
     \/ \E i \in 1 .. Len(names) : names[i] \in Texts /\ blob[r.at + i] \in LongStrings
  THEN Failed
  ELSE Good(r.at + Len(names),
            [f \in Range(names) |-> blob[r.at + CHOOSE i \in 1 .. Len(names) : names[i] = f]])

Merge(f, g) == [x \in DOMAIN f \cup DOMAIN g |-> IF x \in DOMAIN f THEN f[x] ELSE g[x]]

\* What was read in two parts, one after the other, as one record.
Both(r, s) == IF r.ok /\ s.ok THEN Good(s.at, Merge(r.got, s.got)) ELSE Failed

As(field, r) == IF r.ok THEN Good(r.at, [f \in {field} |-> r.got]) ELSE Failed

Add(list, one) == IF list.ok /\ one.ok THEN Good(one.at, Append(list.got, one.got)) ELSE Failed

\* boundedCount, then as many values as it says.
ReadList(blob, r, max, ReadOne(_, _)) ==
  LET list[n \in 0 .. blob[r.at + 1]] ==
        IF n = 0 THEN Good(r.at + 1, <<>>)
        ELSE LET prev == list[n - 1] IN Add(prev, ReadOne(blob, prev))
  IN  IF ~r.ok \/ r.at + 1 > Len(blob) THEN Failed
      ELSE IF blob[r.at + 1] > max THEN Failed ELSE list[blob[r.at + 1]]

ReadOptional(blob, r, names) ==
  IF ~r.ok \/ r.at + 1 > Len(blob) THEN Failed
  ELSE IF blob[r.at + 1] # 0 THEN Read(blob, Good(r.at + 1, r.got), names)
  ELSE Good(r.at + 1, NoReflection)

ReadMember(blob, r) ==
  Read(blob, r, <<"name", "offset", "size", "array_count", "array_stride", "is_matrix", "matrix_columns",
                  "matrix_rows", "type_name">>)

ReadSlots(blob, r) ==
  LET metal  == As("metal", ReadOptional(blob, r, <<"buffer", "texture", "sampler">>))
      webgpu == As("webgpu", ReadOptional(blob, metal, <<"group", "binding">>))
  IN  Both(metal, webgpu)

\* Mutant: two flags are read in the wrong order.
ReadSwappedHints(blob, r) ==
  Read(blob, r, <<"storage_format_hint", "storage_access_hint", "depth_texture", "multisampled",
                  "dynamic_offset">>)

ReadHints(blob, r) ==
  Read(blob, r, <<"storage_format_hint", "storage_access_hint", "multisampled", "depth_texture",
                  "dynamic_offset">>)

ReadBinding(blob, r) ==
  LET head    == Read(blob, r, <<"name", "type", "set", "binding", "array_size", "stages">>)
      slots   == As("slots", ReadSlots(blob, head))
      members == As("struct_members", ReadList(blob, slots, MaxStructMemberCount, ReadMember))
  IN  Both(Both(Both(head, slots), members), ReadHints(blob, members))

ReadStage(blob, r) ==
  LET stage    == Read(blob, r, <<"stage">>)
      bindings == As("bindings", ReadList(blob, stage, MaxBindingCount, ReadBinding))
  IN  Both(Both(stage, bindings), Read(blob, bindings, <<"push_constant_size", "workgroup_size">>))

\* deserializeProgramReflection: the version must be this one exactly.
DeserializeProgram(blob) ==
  IF blob = <<>> \/ Head(blob) # Version THEN NoReflection
  ELSE ReadList(blob, Good(1, NoReflection), MaxProgramStageCount, ReadStage).got
------------------------------------------------------------------------------
(***************************************************************************)
(* The reflections a reader takes, without its steps: what the cache finds *)
(* in an entry is refused when its reflection is outside.                  *)
(***************************************************************************)
ReadableMember(m) == m.name \notin LongStrings /\ m.type_name \notin LongStrings

ReadableBinding(b) ==
  /\ {b.name, b.storage_format_hint, b.storage_access_hint} \cap LongStrings = {}
  /\ Len(b.struct_members) <= MaxStructMemberCount
  /\ \A i \in DOMAIN b.struct_members : ReadableMember(b.struct_members[i])

ReadableStage(r) ==
  /\ Len(r.bindings) <= MaxBindingCount
  /\ \A i \in DOMAIN r.bindings : ReadableBinding(r.bindings[i])

ReadableProgram(reflections) ==
  /\ Len(reflections) <= MaxProgramStageCount
  /\ \A i \in DOMAIN reflections : ReadableStage(reflections[i])
==============================================================================
