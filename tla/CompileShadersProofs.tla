------------------------- MODULE CompileShadersProofs -------------------------
(*************************************************************************)
(* Proof that the headers of CompileShaders name files that exist, for   *)
(* any jobs and manifests.  NamedFilesExist is not inductive: the header *)
(* is written because of what was written before it.  IInv adds the      *)
(* place of each job's run (Shape), that what writeShaderBundle has gone *)
(* past is there (WrittenIn, OpenIn), and that so is what the script has *)
(* read of a header and has added to it (ParsedIn).  The types hold by   *)
(* TInv: the SPIR-V that a header names is of a stage of some manifest,  *)
(* so that what naga writes has a name too.                              *)
(*************************************************************************)
EXTENDS CompileShaders, SequenceTheorems, TLAPS

\* The file of a stage is none of the fixed files, and those differ.
LEMMA FileNames ==
  ASSUME NEW a, NEW s, NEW e
  PROVE  /\ StageFile(a, s, e) \notin JsonFiles
         /\ StageFile(a, s, e) # HeaderFile
         /\ StageFile(a, s, e) # ReflectionFile
         /\ HeaderFile \notin JsonFiles
         /\ ReflectionFile \notin JsonFiles
         /\ HeaderFile # ReflectionFile
BY DEF StageFile, JsonFiles, HeaderFile, ReflectionFile

\* naga's output is never the header.
LEMMA WgslNames ==
  ASSUME NEW file
  PROVE  WgslName(file) # HeaderFile
BY DEF WgslName, HeaderFile

StageWrite(a, p) == StageWrites(a, a.stages[(p + 2) \div 3])[1 + ((p + 2) % 3)]

\* Where the elements of a sequence are after two more were appended.
LEMMA AppendTwo ==
  ASSUME NEW S, NEW s \in Seq(S), NEW x \in S, NEW y \in S,
         NEW n \in Nat, Len(s) = n
  PROVE  /\ s \o <<x, y>> \in Seq(S)
         /\ Len(s \o <<x, y>>) = n + 2
         /\ \A p \in 1 .. n : (s \o <<x, y>>)[p] = s[p]
         /\ (s \o <<x, y>>)[n + 1] = x
         /\ (s \o <<x, y>>)[n + 2] = y
<1> DEFINE t == <<x, y>>
<1>1. t \in Seq(S) /\ Len(t) = 2 /\ t[1] = x /\ t[2] = y
  OBVIOUS
<1> HIDE DEF t
<1>2. /\ s \o t \in Seq(S)
      /\ Len(s \o t) = Len(s) + Len(t)
      /\ \A p \in 1 .. Len(s) + Len(t) :
           (s \o t)[p] = IF p <= Len(s) THEN s[p] ELSE t[p - Len(s)]
  BY <1>1, ConcatProperties, Zenon
<1> DEFINE c == s \o t
<1>3. /\ c \in Seq(S) /\ Len(c) = n + 2
      /\ \A p \in 1 .. n + 2 : c[p] = IF p <= n THEN s[p] ELSE t[p - n]
  BY <1>1, <1>2
<1> HIDE DEF c
<1>4. c[n + 1] = t[1] /\ c[n + 2] = t[2] /\ \A p \in 1 .. n : c[p] = s[p]
  BY <1>3
<1> QED
  BY <1>1, <1>3, <1>4 DEF c, t

\* writeShaderBundle writes three files per stage, then the fixed files.
LEMMA WritesShape ==
  ASSUME NEW a, Len(a.stages) \in Nat, DOMAIN a.stages = 1 .. Len(a.stages),
         NEW n, n = 3 * Len(a.stages)
  PROVE  /\ n \in Nat
         /\ Len(Writes(a)) = n + 4
         /\ DOMAIN Writes(a) = 1 .. n + 4
         /\ \A p \in 1 .. n : Writes(a)[p] = StageWrite(a, p)
         /\ Writes(a)[n + 1] = WriteOf(ReflectionFile, ReflectionOf(a))
         /\ Writes(a)[n + 2] = WriteOf(HeaderFile, HeaderOf(a))
         /\ Writes(a)[n + 3].file \in JsonFiles
         /\ Writes(a)[n + 4].file \in JsonFiles
<1> DEFINE r == WriteOf(ReflectionFile, ReflectionOf(a))
           h == WriteOf(HeaderFile, HeaderOf(a))
           m == WriteOf(<<"manifest", "json">>, HeaderOf(a))
           j == WriteOf(<<"reflection", "json">>, ReflectionOf(a))
           S == {StageWrite(a, p) : p \in 1 .. n} \cup {r, h, m, j}
           first == [p \in 1 .. n |-> StageWrite(a, p)]
           both == first \o <<r, h>>
<1>1. n \in Nat
  OBVIOUS
<1>2. Writes(a) = both \o <<m, j>>
  BY DEF Writes, StagesWrites, StageWrite, JsonWrites
<1>3. m.file \in JsonFiles /\ j.file \in JsonFiles
  BY DEF JsonFiles, WriteOf
<1>4. r \in S /\ h \in S /\ m \in S /\ j \in S /\ \A p \in 1 .. n : StageWrite(a, p) \in S
  OBVIOUS
<1> HIDE DEF r, h, m, j, S
<1>5. first \in Seq(S) /\ Len(first) = n /\ \A p \in 1 .. n : first[p] = StageWrite(a, p)
  BY <1>1, <1>4
<1> HIDE DEF first
<1>6. /\ both \in Seq(S) /\ Len(both) = n + 2
      /\ \A p \in 1 .. n : both[p] = first[p]
      /\ both[n + 1] = r /\ both[n + 2] = h
  BY <1>1, <1>4, <1>5, AppendTwo DEF both
<1> HIDE DEF both
<1>7. /\ Writes(a) \in Seq(S) /\ Len(Writes(a)) = n + 2 + 2
      /\ \A p \in 1 .. n + 2 : Writes(a)[p] = both[p]
      /\ Writes(a)[n + 2 + 1] = m /\ Writes(a)[n + 2 + 2] = j
  <2>1. n + 2 \in Nat
    BY <1>1
  <2>2. LET w == both \o <<m, j>>
        IN  /\ w \in Seq(S) /\ Len(w) = n + 2 + 2
            /\ \A p \in 1 .. n + 2 : w[p] = both[p]
            /\ w[n + 2 + 1] = m /\ w[n + 2 + 2] = j
    BY <1>4, <1>6, <2>1, AppendTwo
  <2> QED
    BY <1>2, <2>2
<1>8. Len(Writes(a)) = n + 4 /\ DOMAIN Writes(a) = 1 .. n + 4
  BY <1>1, <1>7
<1>9. n + 2 + 1 = n + 3 /\ n + 2 + 2 = n + 4
  BY <1>1
<1>10. \A p \in 1 .. n : Writes(a)[p] = StageWrite(a, p)
  <2> SUFFICES ASSUME NEW p \in 1 .. n
               PROVE  Writes(a)[p] = StageWrite(a, p)
    OBVIOUS
  <2>1. p \in 1 .. n + 2
    BY <1>1
  <2> QED
    BY <1>5, <1>6, <1>7, <2>1, Zenon
<1>11. Writes(a)[n + 1] = r /\ Writes(a)[n + 2] = h
  <2>1. n + 1 \in 1 .. n + 2 /\ n + 2 \in 1 .. n + 2
    BY <1>1
  <2> QED
    BY <1>6, <1>7, <2>1, Zenon
<1> QED
  BY <1>1, <1>3, <1>7, <1>8, <1>9, <1>10, <1>11, Zenon DEF r, h

\* The writes of stage i are the three from 3i - 2 on.
LEMMA StageWriteAt ==
  ASSUME NEW a, Len(a.stages) \in Nat, DOMAIN a.stages = 1 .. Len(a.stages),
         NEW i \in DOMAIN a.stages
  PROVE  LET names == StageFiles(a, a.stages[i])
             spirv == a.stages[i].spirv
         IN  /\ StageWrite(a, 3 * i - 2) = WriteOf(names.spirv_file, spirv)
             /\ StageWrite(a, 3 * i - 1) = WriteOf(names.msl_file, spirv)
             /\ StageWrite(a, 3 * i) = WriteOf(names.wgsl_file, spirv)
<1>1. i \in Nat /\ i >= 1
  OBVIOUS
<1> DEFINE w == StageWrites(a, a.stages[i])
<1>2. (3 * i - 2 + 2) \div 3 = i /\ 1 + ((3 * i - 2 + 2) % 3) = 1
  BY <1>1
<1>3. (3 * i - 1 + 2) \div 3 = i /\ 1 + ((3 * i - 1 + 2) % 3) = 2
  BY <1>1
<1>4. (3 * i + 2) \div 3 = i /\ 1 + ((3 * i + 2) % 3) = 3
  BY <1>1
<1>5. StageWrite(a, 3 * i - 2) = w[1]
  BY <1>2 DEF StageWrite
<1>6. StageWrite(a, 3 * i - 1) = w[2]
  BY <1>3 DEF StageWrite
<1>7. StageWrite(a, 3 * i) = w[3]
  BY <1>4 DEF StageWrite
<1> QED
  BY <1>5, <1>6, <1>7 DEF StageWrites

\* A write of the stages is that of a file of some stage.
LEMMA StageWriteOf ==
  ASSUME NEW a, Len(a.stages) \in Nat, DOMAIN a.stages = 1 .. Len(a.stages),
         NEW p \in 1 .. 3 * Len(a.stages)
  PROVE  \E i \in DOMAIN a.stages :
           LET names == StageFiles(a, a.stages[i])
           IN  StageWrite(a, p) \in {WriteOf(f, a.stages[i].spirv) :
                                       f \in {names.spirv_file, names.msl_file, names.wgsl_file}}
<1> DEFINE i == (p + 2) \div 3
<1>1. i \in DOMAIN a.stages /\ (p = 3 * i - 2 \/ p = 3 * i - 1 \/ p = 3 * i)
  OBVIOUS
<1> HIDE DEF i
<1> QED
  BY <1>1, StageWriteAt

\* The header has its own place, after the stages and reflection.bin.
LEMMA HeaderWrite ==
  ASSUME NEW a, Len(a.stages) \in Nat, DOMAIN a.stages = 1 .. Len(a.stages),
         NEW p \in DOMAIN Writes(a), Writes(a)[p].file = HeaderFile, HeaderFile # NoFile
  PROVE  p = 3 * Len(a.stages) + 2 /\ Writes(a)[p].content = HeaderOf(a)
<1> DEFINE n == 3 * Len(a.stages)
<1>1. /\ n \in Nat
      /\ DOMAIN Writes(a) = 1 .. n + 4
      /\ \A q \in 1 .. n : Writes(a)[q] = StageWrite(a, q)
      /\ Writes(a)[n + 1] = WriteOf(ReflectionFile, ReflectionOf(a))
      /\ Writes(a)[n + 2] = WriteOf(HeaderFile, HeaderOf(a))
      /\ Writes(a)[n + 3].file \in JsonFiles
      /\ Writes(a)[n + 4].file \in JsonFiles
  BY WritesShape
<1>2. CASE p \in 1 .. n
  <2>1. PICK i \in DOMAIN a.stages :
          LET names == StageFiles(a, a.stages[i])
          IN  StageWrite(a, p) \in {WriteOf(f, a.stages[i].spirv) :
                                      f \in {names.spirv_file, names.msl_file, names.wgsl_file}}
    BY <1>2, StageWriteOf
  <2>2. StageWrite(a, p).file \in {NoFile, StageFile(a, a.stages[i], "spv"),
                                   StageFile(a, a.stages[i], "msl"), StageFile(a, a.stages[i], "wgsl")}
    BY <2>1 DEF WriteOf, StageFiles, TargetFile
  <2> QED
    BY <1>1, <1>2, <2>2, FileNames
<1>3. CASE p = n + 1
  <2>1. HeaderFile # ReflectionFile
    BY FileNames
  <2> QED
    BY <1>1, <1>3, <2>1 DEF WriteOf
<1>4. CASE p = n + 2
  BY <1>1, <1>4 DEF WriteOf
<1>5. CASE p = n + 3 \/ p = n + 4
  BY <1>1, <1>5, FileNames
<1> HIDE DEF n
<1>6. p \in 1 .. n \/ p = n + 1 \/ p = n + 2 \/ p = n + 3 \/ p = n + 4
  BY <1>1
<1> QED
  BY <1>2, <1>3, <1>4, <1>5, <1>6 DEF n

\* What a header names of a stage is one of the stage's writes, which may not be left out.
LEMMA NamedWritten ==
  ASSUME NEW a, Len(a.stages) \in Nat, DOMAIN a.stages = 1 .. Len(a.stages),
         NEW i \in DOMAIN a.stages, NEW f \in NamedFiles(StageFiles(a, a.stages[i]))
  PROVE  /\ f # NoFile /\ Required(f)
         /\ \E p \in 1 .. 3 * Len(a.stages) : Writes(a)[p] = WriteOf(f, a.stages[i].spirv)
<1> DEFINE n == 3 * Len(a.stages)
           names == StageFiles(a, a.stages[i])
<1>0. n = 3 * Len(a.stages)
  OBVIOUS
<1> HIDE DEF n
<1>1. \A q \in 1 .. n : Writes(a)[q] = StageWrite(a, q)
  BY <1>0, WritesShape
<1>2. 3 * i - 2 \in 1 .. n /\ 3 * i - 1 \in 1 .. n /\ 3 * i \in 1 .. n
  BY <1>0
<1>3. /\ StageWrite(a, 3 * i - 2) = WriteOf(names.spirv_file, a.stages[i].spirv)
      /\ StageWrite(a, 3 * i - 1) = WriteOf(names.msl_file, a.stages[i].spirv)
      /\ StageWrite(a, 3 * i) = WriteOf(names.wgsl_file, a.stages[i].spirv)
  BY StageWriteAt
<1>4. f # NoFile /\ (f = names.spirv_file \/ f = names.msl_file \/ f = names.wgsl_file)
  BY DEF NamedFiles
<1>5. Required(f)
  BY <1>4, FileNames DEF Required, StageFiles, TargetFile
<1> HIDE DEF names
<1>6. \E p \in 1 .. n : Writes(a)[p] = WriteOf(f, a.stages[i].spirv)
  BY <1>1, <1>2, <1>3, <1>4
<1> QED
  BY <1>0, <1>4, <1>5, <1>6
------------------------------------------------------------------------------
\* h is a header, and all the files it names are in D.
HeaderIn(h, D) ==
  /\ "stages" \in DOMAIN h
  /\ \A i \in DOMAIN h.stages :
       /\ {"spirv_file", "msl_file", "wgsl_file"} \subseteq DOMAIN h.stages[i]
       /\ NamedFiles(h.stages[i]) \subseteq D

Shape ==
  /\ DOMAIN dirs = Variant
  /\ manifest \in [Job -> Manifests]
  /\ DOMAIN pc = Job /\ DOMAIN variant = Job /\ DOMAIN step = Job
  /\ DOMAIN parsed = Job /\ DOMAIN wgsl_map = Job
  /\ \A j \in Job : variant[j] \in DOMAIN manifest[j] /\ step[j] \in DOMAIN Writes(Artifact(j))

HeadersIn ==
  \A v \in Variant : HeaderFile \in DOMAIN dirs[v] =>
    dirs[v][HeaderFile] = Truncated \/ HeaderIn(dirs[v][HeaderFile], DOMAIN dirs[v])

\* writeShaderBundle starts at its first file.
AtFirst(j) == pc[j] \in {"build", "naga", "find", "parse", "convert", "patch", "patching"} => step[j] = 1

\* What writeShaderBundle has gone past is there, unless its absence is ignored.
WrittenIn(j) ==
  pc[j] \in {"open", "write"} =>
    \A p \in 1 .. step[j] - 1 :
      LET file == Writes(Artifact(j))[p].file
      IN  Required(file) /\ file # NoFile => file \in DOMAIN Dir(j)

OpenIn(j) == pc[j] = "write" => Write(j).file # NoFile /\ Write(j).file \in DOMAIN Dir(j)

\* So is what the script has read of a header, and what it has added to it.
ParsedIn(j) ==
  pc[j] \in {"convert", "patch", "patching"} =>
    /\ HeaderIn(parsed[j], DOMAIN Dir(j))
    /\ \A k \in DOMAIN wgsl_map[j] : wgsl_map[j][k] \in DOMAIN Dir(j)

JobInv(j) == AtFirst(j) /\ WrittenIn(j) /\ OpenIn(j) /\ ParsedIn(j)

IInv == Shape /\ HeadersIn /\ \A j \in Job : JobInv(j)
------------------------------------------------------------------------------
\* A job is at a variant of its manifest.
LEMMA Variants ==
  ASSUME Shape, NEW j \in Job
  PROVE  /\ manifest[j] \in Manifests
         /\ variant[j] \in Variant
         /\ variant[j] \in Nat /\ variant[j] >= 1 /\ variant[j] <= Len(manifest[j])
         /\ DOMAIN manifest[j] = 1 .. Len(manifest[j]) /\ Len(manifest[j]) \in Nat
         /\ Len(Artifact(j).stages) \in Nat
         /\ DOMAIN Artifact(j).stages = 1 .. Len(Artifact(j).stages)
BY ManifestsAssumption DEF Shape, Variant, Artifact

\* A job is at a write of its artifact.
LEMMA Steps ==
  ASSUME Shape, NEW j \in Job
  PROVE  /\ Len(Writes(Artifact(j))) \in Nat
         /\ DOMAIN Writes(Artifact(j)) = 1 .. Len(Writes(Artifact(j)))
         /\ step[j] \in Nat /\ step[j] >= 1 /\ step[j] <= Len(Writes(Artifact(j)))
<1> DEFINE a == Artifact(j)
<1>1. Len(a.stages) \in Nat /\ DOMAIN a.stages = 1 .. Len(a.stages)
  BY Variants
<1>2. step[j] \in DOMAIN Writes(a)
  BY DEF Shape
<1> HIDE DEF a
<1>3. Len(Writes(a)) = 3 * Len(a.stages) + 4 /\ DOMAIN Writes(a) = 1 .. 3 * Len(a.stages) + 4
  BY <1>1, WritesShape
<1> QED
  BY <1>1, <1>2, <1>3 DEF a

Grows == \A v \in Variant : DOMAIN dirs[v] \subseteq DOMAIN dirs'[v]

\* Put makes one file of one directory what it is told, and takes none away.
LEMMA PutGrows ==
  ASSUME Shape, NEW j \in Job, NEW file, NEW content, Put(j, file, content)
  PROVE  /\ DOMAIN dirs' = Variant
         /\ Grows
         /\ file \in DOMAIN dirs'[variant[j]]
         /\ dirs'[variant[j]][file] = content
         /\ \A v \in Variant : v # variant[j] => dirs'[v] = dirs[v]
         /\ \A v \in Variant : \A f \in DOMAIN dirs'[v] :
              (v = variant[j] /\ f = file) \/ (f \in DOMAIN dirs[v] /\ dirs'[v][f] = dirs[v][f])
<1>1. variant[j] \in Variant /\ DOMAIN dirs = Variant
  BY Variants DEF Shape
<1> DEFINE w == variant[j]
           new == [f \in DOMAIN dirs[w] \cup {file} |-> IF f = file THEN content ELSE dirs[w][f]]
<1>2. dirs' = [dirs EXCEPT ![w] = new]
  BY DEF Put
<1>3. /\ DOMAIN new = DOMAIN dirs[w] \cup {file} /\ new[file] = content
      /\ \A f \in DOMAIN dirs[w] : f # file => new[f] = dirs[w][f]
  OBVIOUS
<1> HIDE DEF new, w
<1>4. DOMAIN dirs' = Variant /\ dirs'[w] = new /\ \A v \in Variant : v # w => dirs'[v] = dirs[v]
  BY <1>1, <1>2 DEF w
<1>5. Grows
  <2> SUFFICES ASSUME NEW v \in Variant PROVE DOMAIN dirs[v] \subseteq DOMAIN dirs'[v]
    BY DEF Grows
  <2> QED
    BY <1>3, <1>4
<1>6. \A v \in Variant : \A f \in DOMAIN dirs'[v] :
        (v = w /\ f = file) \/ (f \in DOMAIN dirs[v] /\ dirs'[v][f] = dirs[v][f])
  <2> SUFFICES ASSUME NEW v \in Variant, NEW f \in DOMAIN dirs'[v]
               PROVE  (v = w /\ f = file) \/ (f \in DOMAIN dirs[v] /\ dirs'[v][f] = dirs[v][f])
    OBVIOUS
  <2>1. CASE v = w
    <3>1. dirs'[v] = new
      BY <1>4, <2>1
    <3>2. f = file \/ (f \in DOMAIN dirs[w] /\ new[f] = dirs[w][f])
      BY <1>3, <3>1
    <3> QED
      BY <2>1, <3>1, <3>2
  <2>2. CASE v # w
    BY <1>4, <2>2
  <2> QED
    BY <2>1, <2>2
<1> QED
  BY <1>3, <1>4, <1>5, <1>6 DEF w

\* A header stays good in a directory with more files.
LEMMA HeaderInMore ==
  ASSUME NEW h, NEW D, NEW E, HeaderIn(h, D), D \subseteq E
  PROVE  HeaderIn(h, E)
BY DEF HeaderIn

\* A put keeps the headers good unless it is of a header that is not.
LEMMA PutKeeps ==
  ASSUME Shape, HeadersIn, NEW j \in Job, NEW file, NEW content, Put(j, file, content),
         file = HeaderFile => content = Truncated \/ HeaderIn(content, DOMAIN Dir(j))
  PROVE  HeadersIn'
<1> SUFFICES ASSUME NEW v \in Variant, HeaderFile \in DOMAIN dirs'[v]
             PROVE  dirs'[v][HeaderFile] = Truncated \/ HeaderIn(dirs'[v][HeaderFile], DOMAIN dirs'[v])
  BY DEF HeadersIn, Variant
<1>1. DOMAIN dirs[v] \subseteq DOMAIN dirs'[v]
  BY PutGrows DEF Grows
<1>2. CASE v = variant[j] /\ HeaderFile = file
  <2>1. dirs'[v][HeaderFile] = content
    BY <1>2, PutGrows
  <2> QED
    BY <1>1, <1>2, <2>1, HeaderInMore DEF Dir
<1>3. CASE ~(v = variant[j] /\ HeaderFile = file)
  <2>1. HeaderFile \in DOMAIN dirs[v] /\ dirs'[v][HeaderFile] = dirs[v][HeaderFile]
    BY <1>3, PutGrows
  <2> QED
    BY <1>1, <2>1, HeaderInMore DEF HeadersIn
<1> QED
  BY <1>2, <1>3
------------------------------------------------------------------------------
Others(j) ==
  \A k \in Job \ {j} :
    /\ pc'[k] = pc[k] /\ manifest'[k] = manifest[k] /\ variant'[k] = variant[k]
    /\ step'[k] = step[k] /\ parsed'[k] = parsed[k] /\ wgsl_map'[k] = wgsl_map[k]

\* A job is not disturbed by files that appear.
LEMMA OthersKeep ==
  ASSUME Shape, NEW j \in Job, NEW k \in Job \ {j}, Others(j), Grows, JobInv(k)
  PROVE  JobInv(k)'
<1>1. /\ pc'[k] = pc[k] /\ manifest'[k] = manifest[k] /\ variant'[k] = variant[k]
      /\ step'[k] = step[k] /\ parsed'[k] = parsed[k] /\ wgsl_map'[k] = wgsl_map[k]
  BY DEF Others
<1>2. Artifact(k)' = Artifact(k) /\ Write(k)' = Write(k)
  BY <1>1 DEF Artifact, Write
<1>3. DOMAIN Dir(k) \subseteq DOMAIN (Dir(k)')
  BY <1>1, Variants DEF Dir, Grows
<1>4. AtFirst(k)' /\ WrittenIn(k)' /\ OpenIn(k)'
  BY <1>1, <1>2, <1>3 DEF JobInv, AtFirst, WrittenIn, OpenIn
<1>5. ParsedIn(k)'
  BY <1>1, <1>3, HeaderInMore DEF JobInv, ParsedIn
<1> QED
  BY <1>4, <1>5 DEF JobInv

\* A step of one job has to keep what concerns that job and the directories only.
LEMMA StepKeeps ==
  ASSUME IInv, NEW j \in Job, Others(j), Grows, Shape', HeadersIn', JobInv(j)'
  PROVE  IInv'
BY OthersKeep DEF IInv

\* A step to a control point of which nothing is asked.
LEMMA Leaves ==
  ASSUME NEW j \in Job, pc'[j] \in {"failed", "done", "written", "idle"}
  PROVE  JobInv(j)'
BY DEF JobInv, AtFirst, WrittenIn, OpenIn, ParsedIn

\* Headers are good in directories that stay as they are.
LEMMA DirsStay ==
  ASSUME HeadersIn, UNCHANGED dirs
  PROVE  Grows /\ HeadersIn'
BY DEF Grows, HeadersIn, Variant

\* A step that changes where a job is, but not its manifest, keeps the shape.
LEMMA ShapeStays ==
  ASSUME Shape, DOMAIN dirs' = Variant, NEW j \in Job, NEW there, Goto(j, there),
         UNCHANGED <<manifest, variant, step>>, DOMAIN parsed' = Job, DOMAIN wgsl_map' = Job
  PROVE  Shape'
BY DEF Shape, Goto, Artifact, Variant

\* A failure keeps the invariant if what it did to the directories does.
LEMMA FailKeeps ==
  ASSUME IInv, NEW j \in Job, Fail(j), DOMAIN dirs' = Variant, Grows, HeadersIn'
  PROVE  IInv'
<1>1. pc'[j] = "failed" /\ Others(j)
  BY DEF Fail, Goto, IInv, Shape, job, Others
<1>2. JobInv(j)'
  BY <1>1, Leaves
<1>3. Shape'
  BY ShapeStays DEF IInv, Shape, Fail, job
<1> QED
  BY <1>1, <1>2, <1>3, StepKeeps

\* A failure that leaves the directories alone keeps the invariant.
LEMMA FailStays ==
  ASSUME IInv, NEW j \in Job, Fail(j), UNCHANGED dirs
  PROVE  IInv'
BY FailKeeps, DirsStay DEF IInv, Shape

\* The write in progress moves on, in the directory as it is now.
LEMMA AdvanceKeeps ==
  ASSUME IInv, NEW j \in Job, Advance(j), pc[j] \in {"open", "write"},
         UNCHANGED <<manifest, variant, parsed, wgsl_map, runs>>,
         DOMAIN dirs' = Variant, Grows, HeadersIn',
         Required(Write(j).file) /\ Write(j).file # NoFile => Write(j).file \in DOMAIN dirs'[variant[j]]
  PROVE  IInv'
<1> DEFINE a == Artifact(j)
<1>1. Artifact(j)' = a /\ variant'[j] = variant[j]
  BY DEF Artifact
<1>2. /\ Len(Writes(a)) \in Nat /\ DOMAIN Writes(a) = 1 .. Len(Writes(a))
      /\ step[j] \in Nat /\ step[j] >= 1 /\ step[j] <= Len(Writes(a))
  BY Steps DEF IInv
<1>3. Others(j)
  BY DEF Advance, Goto, Others, IInv, Shape
<1>4. DOMAIN pc' = Job /\ DOMAIN step' = Job
  BY DEF Advance, Goto, IInv, Shape
<1>5. CASE step[j] < Len(Writes(a))
  <2>1. step' = [step EXCEPT ![j] = step[j] + 1] /\ pc' = [pc EXCEPT ![j] = "open"]
    BY <1>5 DEF Advance, Goto
  <2>2. step'[j] = step[j] + 1 /\ pc'[j] = "open"
    BY <2>1 DEF IInv, Shape
  <2>3. \A k \in Job \ {j} : step'[k] = step[k]
    BY <2>1 DEF IInv, Shape
  <2>4. step'[j] \in DOMAIN Writes(Artifact(j)')
    BY <1>1, <1>2, <1>5, <2>2
  <2>5. Shape'
    BY <1>4, <2>3, <2>4 DEF IInv, Shape, Artifact, Variant
  <2>6. WrittenIn(j)'
    <3> SUFFICES ASSUME NEW p \in 1 .. step[j],
                        Required(Writes(a)[p].file), Writes(a)[p].file # NoFile
                 PROVE  Writes(a)[p].file \in DOMAIN dirs'[variant[j]]
      BY <1>1, <1>2, <2>2 DEF WrittenIn, Dir
    <3>1. CASE p = step[j]
      BY <3>1 DEF Write
    <3>2. CASE p # step[j]
      <4>1. p \in 1 .. step[j] - 1
        BY <1>2, <3>2
      <4>2. Writes(a)[p].file \in DOMAIN dirs[variant[j]]
        BY <4>1 DEF IInv, JobInv, WrittenIn, Dir
      <4> QED
        BY <4>2, Variants DEF Grows, IInv
    <3> QED
      BY <3>1, <3>2
  <2>7. JobInv(j)'
    BY <2>2, <2>6 DEF JobInv, AtFirst, OpenIn, ParsedIn
  <2> QED
    BY <1>3, <2>5, <2>7, StepKeeps
<1>6. CASE ~(step[j] < Len(Writes(a)))
  <2>1. UNCHANGED step /\ Goto(j, "written")
    BY <1>6 DEF Advance
  <2>2. pc'[j] = "written"
    BY <2>1 DEF Goto, IInv, Shape
  <2>3. Shape'
    BY <2>1, ShapeStays DEF IInv, Shape
  <2> QED
    BY <1>3, <2>2, <2>3, Leaves, StepKeeps
<1> QED
  BY <1>5, <1>6
------------------------------------------------------------------------------
\* compile_one starts.
LEMMA StartRunKeeps ==
  ASSUME IInv, NEW j \in Job, StartRun(j)
  PROVE  IInv'
<1>1. PICK m \in Manifests : manifest' = [manifest EXCEPT ![j] = m]
  BY DEF StartRun
<1>2. manifest'[j] = m /\ variant'[j] = 1 /\ step'[j] = 1 /\ pc'[j] = "build"
  BY <1>1 DEF StartRun, Goto, IInv, Shape
<1>3. Others(j)
  BY <1>1 DEF StartRun, Goto, Others, IInv, Shape
<1>4. variant'[j] \in DOMAIN manifest'[j] /\ step'[j] \in DOMAIN Writes(Artifact(j)')
  <2> DEFINE a == Artifact(j)'
  <2>1. 1 \in DOMAIN m /\ a = m[1]
    BY <1>2, ManifestsAssumption DEF Artifact
  <2>2. Len(a.stages) \in Nat /\ DOMAIN a.stages = 1 .. Len(a.stages)
    BY <2>1, ManifestsAssumption
  <2> HIDE DEF a
  <2>3. DOMAIN Writes(a) = 1 .. 3 * Len(a.stages) + 4
    BY <2>2, WritesShape
  <2>4. 1 \in DOMAIN Writes(a)
    BY <2>2, <2>3
  <2> QED
    BY <1>2, <2>1, <2>4 DEF a
<1>5. Shape'
  BY <1>1, <1>3, <1>4 DEF StartRun, Goto, IInv, Shape, Others, Artifact, Variant
<1>6. JobInv(j)'
  BY <1>2 DEF JobInv, AtFirst, WrittenIn, OpenIn, ParsedIn
<1> QED
  BY <1>3, <1>5, <1>6, DirsStay, StepKeeps DEF IInv, StartRun

\* A variant is built, and its first file is next.
LEMMA BuildKeeps ==
  ASSUME IInv, NEW j \in Job, BuildVariant(j)
  PROVE  IInv'
<1>1. pc'[j] = "open" /\ Others(j) /\ UNCHANGED job /\ UNCHANGED dirs
  BY DEF BuildVariant, Goto, Others, IInv, Shape, job
<1>2. Shape'
  BY ShapeStays DEF BuildVariant, IInv, Shape, job
<1>3. step'[j] = 1
  BY <1>1 DEF BuildVariant, IInv, JobInv, AtFirst, job
<1>4. JobInv(j)'
  BY <1>1, <1>3 DEF JobInv, AtFirst, WrittenIn, OpenIn, ParsedIn
<1> QED
  BY <1>1, <1>2, <1>4, DirsStay, StepKeeps DEF IInv

\* A file is truncated.
LEMMA OpenKeeps ==
  ASSUME IInv, NEW j \in Job, OpenFile(j)
  PROVE  IInv'
<1>1. pc[j] = "open" /\ Write(j).file # NoFile /\ Put(j, Write(j).file, Truncated)
  BY DEF OpenFile
<1>2. pc'[j] = "write" /\ Others(j) /\ UNCHANGED job
  BY DEF OpenFile, Goto, Others, IInv, Shape, job
<1>3. /\ DOMAIN dirs' = Variant /\ Grows
      /\ Write(j).file \in DOMAIN dirs'[variant[j]]
  BY <1>1, PutGrows DEF IInv
<1>4. HeadersIn'
  BY <1>1, PutKeeps DEF IInv
<1>5. Shape'
  BY <1>3, ShapeStays DEF OpenFile, IInv, Shape, job
<1>6. Artifact(j)' = Artifact(j) /\ Write(j)' = Write(j) /\ Dir(j)' = dirs'[variant[j]] /\ step'[j] = step[j]
  BY <1>2 DEF Artifact, Write, Dir, job
<1>7. DOMAIN Dir(j) \subseteq DOMAIN dirs'[variant[j]]
  BY <1>3, Variants DEF Dir, Grows, IInv
<1>8. WrittenIn(j)'
  BY <1>1, <1>6, <1>7 DEF IInv, JobInv, WrittenIn
<1>9. OpenIn(j)'
  BY <1>1, <1>3, <1>6 DEF OpenIn
<1>10. JobInv(j)'
  BY <1>2, <1>8, <1>9 DEF JobInv, AtFirst, ParsedIn
<1> QED
  BY <1>2, <1>3, <1>4, <1>5, <1>10, StepKeeps

\* There is nothing to write for a stage and a target.
LEMMA SkipKeeps ==
  ASSUME IInv, NEW j \in Job, SkipFile(j)
  PROVE  IInv'
BY AdvanceKeeps, DirsStay DEF SkipFile, IInv, Shape

\* A file cannot be opened.
LEMMA OpenFailsKeeps ==
  ASSUME IInv, NEW j \in Job, OpenFails(j)
  PROVE  IInv'
<1>1. CASE Required(Write(j).file)
  BY <1>1, FailStays DEF OpenFails
<1>2. CASE ~Required(Write(j).file)
  BY <1>2, AdvanceKeeps, DirsStay DEF OpenFails, IInv, Shape
<1> QED
  BY <1>1, <1>2

\* What is put in a file that is not the header, or is no header, or is the
\* artifact's: all that it names was written before.
LEMMA WriteKeeps ==
  ASSUME IInv, NEW j \in Job, pc[j] = "write", NEW content, Put(j, Write(j).file, content),
         content = Truncated \/ content = Write(j).content
  PROVE  DOMAIN dirs' = Variant /\ Grows /\ HeadersIn' /\ Write(j).file \in DOMAIN dirs'[variant[j]]
<1> DEFINE a == Artifact(j)
           n == 3 * Len(a.stages)
<1>1. /\ Len(a.stages) \in Nat /\ DOMAIN a.stages = 1 .. Len(a.stages)
      /\ step[j] \in DOMAIN Writes(a)
  BY Variants DEF IInv, Shape
<1>2. Write(j) = Writes(a)[step[j]] /\ Write(j).file # NoFile
  BY DEF Write, IInv, JobInv, OpenIn
<1>3. ASSUME Write(j).file = HeaderFile
      PROVE  HeaderIn(Write(j).content, DOMAIN Dir(j))
  <2>1. step[j] = n + 2 /\ Write(j).content = HeaderOf(a)
    BY <1>1, <1>2, <1>3, HeaderWrite
  <2>2. ASSUME NEW i \in DOMAIN a.stages
        PROVE  NamedFiles(StageFiles(a, a.stages[i])) \subseteq DOMAIN Dir(j)
    <3> SUFFICES ASSUME NEW f \in NamedFiles(StageFiles(a, a.stages[i]))
                 PROVE  f \in DOMAIN Dir(j)
      OBVIOUS
    <3> HIDE DEF a
    <3>1. f # NoFile /\ Required(f)
      BY <1>1, NamedWritten
    <3>2. PICK p \in 1 .. n : Writes(a)[p] = WriteOf(f, a.stages[i].spirv)
      BY <1>1, NamedWritten
    <3>3. p \in 1 .. step[j] - 1
      BY <1>1, <2>1, <3>2
    <3>4. Writes(a)[p].file = f
      BY <3>2 DEF WriteOf
    <3> QED
      BY <3>1, <3>3, <3>4 DEF IInv, JobInv, WrittenIn, a
  <2> HIDE DEF a, n
  <2>3. /\ HeaderOf(a).stages = [i \in DOMAIN a.stages |-> StageFiles(a, a.stages[i])]
        /\ "stages" \in DOMAIN HeaderOf(a)
    BY DEF HeaderOf
  <2>4. \A i \in DOMAIN a.stages : {"spirv_file", "msl_file", "wgsl_file"} \subseteq DOMAIN StageFiles(a, a.stages[i])
    BY DEF StageFiles
  <2> QED
    BY <2>1, <2>2, <2>3, <2>4 DEF HeaderIn
<1>4. HeadersIn'
  BY <1>3, PutKeeps DEF IInv
<1> QED
  BY <1>4, PutGrows DEF IInv

\* A file is written; of the header, all that it names was written before.
LEMMA WriteFileKeeps ==
  ASSUME IInv, NEW j \in Job, WriteFile(j) \/ WriteUnflushed(j)
  PROVE  IInv'
<1>1. PICK content : /\ Put(j, Write(j).file, content)
                     /\ content = Truncated \/ content = Write(j).content
  BY DEF WriteFile, WriteUnflushed
<1>2. /\ pc[j] = "write" /\ Advance(j)
      /\ UNCHANGED <<manifest, variant, parsed, wgsl_map, runs>>
  BY DEF WriteFile, WriteUnflushed
<1>3. DOMAIN dirs' = Variant /\ Grows /\ HeadersIn' /\ Write(j).file \in DOMAIN dirs'[variant[j]]
  BY <1>1, <1>2, WriteKeeps
<1> QED
  BY <1>2, <1>3, AdvanceKeeps

\* A write fails in the middle, which leaves no header that can be read.
LEMMA WriteFailsKeeps ==
  ASSUME IInv, NEW j \in Job, WriteFails(j)
  PROVE  IInv'
<1>1. Put(j, Write(j).file, Cut) /\ Write(j).file # HeaderFile /\ Fail(j)
  BY DEF WriteFails, Large
<1>2. DOMAIN dirs' = Variant /\ Grows /\ HeadersIn'
  BY <1>1, PutGrows, PutKeeps DEF IInv
<1> QED
  BY <1>1, <1>2, FailKeeps

\* The next bundle of the compiler or of naga, in the directories as they are now.
LEMMA NextVariantKeeps ==
  ASSUME IInv, NEW j \in Job, NEW there \in {"build", "naga"},
         variant[j] < Len(manifest[j]), variant' = [variant EXCEPT ![j] = @ + 1],
         Goto(j, there), DOMAIN step' = Job, step'[j] = 1, \A k \in Job \ {j} : step'[k] = step[k],
         UNCHANGED <<manifest, parsed, wgsl_map>>, DOMAIN dirs' = Variant, Grows, HeadersIn'
  PROVE  IInv'
<1>1. /\ pc'[j] = there /\ step'[j] = 1 /\ variant'[j] = variant[j] + 1 /\ Others(j)
      /\ DOMAIN pc' = Job /\ DOMAIN variant' = Job /\ DOMAIN step' = Job
  BY DEF Goto, Others, IInv, Shape
<1>2. variant'[j] \in DOMAIN manifest'[j]
  BY <1>1, Variants DEF IInv
<1>3. step'[j] \in DOMAIN Writes(Artifact(j)')
  <2> DEFINE a == Artifact(j)'
  <2>1. Len(a.stages) \in Nat /\ DOMAIN a.stages = 1 .. Len(a.stages)
    BY <1>2, Variants, ManifestsAssumption DEF IInv, Artifact
  <2> HIDE DEF a
  <2>2. DOMAIN Writes(a) = 1 .. 3 * Len(a.stages) + 4
    BY <2>1, WritesShape
  <2>3. 1 \in DOMAIN Writes(a)
    BY <2>1, <2>2
  <2> QED
    BY <1>1, <2>3 DEF a
<1>4. Shape'
  BY <1>1, <1>2, <1>3 DEF IInv, Shape, Others, Artifact, Variant
<1>5. JobInv(j)'
  BY <1>1 DEF JobInv, AtFirst, WrittenIn, OpenIn, ParsedIn
<1> QED
  BY <1>1, <1>4, <1>5, StepKeeps

\* A bundle is complete.
LEMMA BundleWrittenKeeps ==
  ASSUME IInv, NEW j \in Job, BundleWritten(j)
  PROVE  IInv'
<1>1. /\ UNCHANGED <<dirs, manifest, parsed, wgsl_map>> /\ step' = [step EXCEPT ![j] = 1]
      /\ DOMAIN dirs' = Variant /\ Grows /\ HeadersIn'
  BY DirsStay DEF BundleWritten, IInv, Shape
<1>2. CASE variant[j] < Len(manifest[j])
  <2>1. DOMAIN step' = Job /\ step'[j] = 1 /\ \A k \in Job \ {j} : step'[k] = step[k]
    BY <1>1 DEF IInv, Shape
  <2> QED
    BY <1>1, <1>2, <2>1, NextVariantKeeps DEF BundleWritten
<1>3. CASE ~(variant[j] < Len(manifest[j]))
  <2>1. variant' = [variant EXCEPT ![j] = 1] /\ Goto(j, IF Naga THEN "naga" ELSE "done")
    BY <1>3 DEF BundleWritten
  <2>2. /\ pc'[j] \in {"naga", "done"} /\ step'[j] = 1 /\ variant'[j] = 1 /\ Others(j)
        /\ DOMAIN pc' = Job /\ DOMAIN variant' = Job /\ DOMAIN step' = Job
    BY <1>1, <2>1 DEF Goto, Others, IInv, Shape
  <2>3. variant'[j] \in DOMAIN manifest'[j]
    BY <1>1, <2>2, Variants DEF IInv
  <2>4. step'[j] \in DOMAIN Writes(Artifact(j)')
    <3> DEFINE a == Artifact(j)'
    <3>1. Len(a.stages) \in Nat /\ DOMAIN a.stages = 1 .. Len(a.stages)
      BY <1>1, <2>3, Variants, ManifestsAssumption DEF IInv, Artifact
    <3> HIDE DEF a
    <3>2. DOMAIN Writes(a) = 1 .. 3 * Len(a.stages) + 4
      BY <3>1, WritesShape
    <3>3. 1 \in DOMAIN Writes(a)
      BY <3>1, <3>2
    <3> QED
      BY <2>2, <3>3 DEF a
  <2>5. Shape'
    BY <1>1, <2>2, <2>3, <2>4 DEF IInv, Shape, Others, Artifact, Variant
  <2>6. JobInv(j)'
    BY <2>2 DEF JobInv, AtFirst, WrittenIn, OpenIn, ParsedIn
  <2> QED
    BY <1>1, <2>2, <2>5, <2>6, StepKeeps
<1> QED
  BY <1>2, <1>3

\* The script goes on to the next bundle.
LEMMA NextBundleKeeps ==
  ASSUME IInv, NEW j \in Job, NextBundle(j), pc[j] \in {"naga", "find", "patching"},
         DOMAIN dirs' = Variant, Grows, HeadersIn'
  PROVE  IInv'
<1>1. step[j] = 1 /\ UNCHANGED <<manifest, parsed, wgsl_map, step>>
  BY DEF NextBundle, IInv, JobInv, AtFirst
<1>2. CASE variant[j] < Len(manifest[j])
  <2>1. DOMAIN step' = Job /\ step'[j] = 1 /\ \A k \in Job \ {j} : step'[k] = step[k]
    BY <1>1 DEF IInv, Shape
  <2> QED
    BY <1>1, <1>2, <2>1, NextVariantKeeps DEF NextBundle
<1>3. CASE ~(variant[j] < Len(manifest[j]))
  <2>1. UNCHANGED variant /\ Goto(j, "done")
    BY <1>3 DEF NextBundle
  <2>2. pc'[j] = "done" /\ Others(j)
    BY <1>1, <2>1 DEF Goto, Others, IInv, Shape
  <2>3. Shape'
    BY <1>1, <2>1, ShapeStays DEF IInv, Shape
  <2>4. JobInv(j)'
    BY <2>2, Leaves
  <2> QED
    BY <2>2, <2>3, <2>4, StepKeeps
<1> QED
  BY <1>2, <1>3
------------------------------------------------------------------------------
\* A header that a script takes names files that are there.
LEMMA ParsedHeader ==
  ASSUME IInv, NEW j \in Job, ParseHeader(Dir(j)) # Unreadable
  PROVE  HeaderIn(ParseHeader(Dir(j)), DOMAIN Dir(j))
BY Variants DEF ParseHeader, Dir, IInv, HeadersIn

\* A step that only reads: pc, parsed and wgsl_map of the job change.
LEMMA ReadsKeep ==
  ASSUME IInv, NEW j \in Job, NEW there \in {"convert", "patch", "patching"}, Goto(j, there),
         UNCHANGED <<manifest, variant, step>>, AtFirst(j)', DOMAIN dirs' = Variant, Grows, HeadersIn',
         DOMAIN parsed' = Job, \A k \in Job \ {j} : parsed'[k] = parsed[k],
         DOMAIN wgsl_map' = Job, \A k \in Job \ {j} : wgsl_map'[k] = wgsl_map[k],
         HeaderIn(parsed'[j], DOMAIN dirs'[variant[j]]),
         \A i \in DOMAIN wgsl_map'[j] : wgsl_map'[j][i] \in DOMAIN dirs'[variant[j]]
  PROVE  IInv'
<1>1. pc'[j] = there /\ Others(j)
  BY DEF Goto, Others, IInv, Shape
<1>2. Shape'
  BY ShapeStays DEF IInv
<1>3. JobInv(j)'
  BY <1>1 DEF JobInv, WrittenIn, OpenIn, ParsedIn, Dir
<1> QED
  BY <1>1, <1>2, <1>3, StepKeeps

\* The script has read a header, to see which stages have no WGSL.
LEMMA NagaFindKeeps ==
  ASSUME IInv, NEW j \in Job, NagaNeeded(j) \/ FindMissing(j)
  PROVE  IInv'
<1>1. PICK there \in {"find", "parse"} : Goto(j, there) /\ pc[j] \in {"naga", "find"}
  BY DEF NagaNeeded, FindMissing
<1>2. UNCHANGED <<dirs, manifest, variant, step, parsed, wgsl_map>>
  BY DEF NagaNeeded, FindMissing, job
<1>3. pc'[j] = there /\ Others(j)
  BY <1>1, <1>2 DEF Goto, Others, IInv, Shape
<1>4. DOMAIN dirs' = Variant /\ Grows /\ HeadersIn'
  BY <1>2, DirsStay DEF IInv, Shape
<1>5. Shape'
  BY <1>1, <1>2, <1>4, ShapeStays DEF IInv, Shape
<1>6. JobInv(j)'
  BY <1>1, <1>2, <1>3 DEF IInv, JobInv, AtFirst, WrittenIn, OpenIn, ParsedIn
<1> QED
  BY <1>3, <1>4, <1>5, <1>6, StepKeeps

\* The script has read a header, for its stages.
LEMMA NagaStartKeeps ==
  ASSUME IInv, NEW j \in Job, NagaStart(j)
  PROVE  IInv'
<1>1. ParseHeader(Dir(j)) # Unreadable
  BY DEF NagaStart
<1>2. /\ pc[j] = "parse" /\ Goto(j, "convert") /\ UNCHANGED <<dirs, manifest, variant, step, runs>>
      /\ parsed' = [parsed EXCEPT ![j] = ParseHeader(Dir(j))]
      /\ wgsl_map' = [wgsl_map EXCEPT ![j] = <<>>]
  BY DEF NagaStart
<1>3. AtFirst(j)'
  BY <1>2 DEF AtFirst, IInv, JobInv
<1>4. DOMAIN dirs' = Variant /\ Grows /\ HeadersIn'
  BY <1>2, DirsStay DEF IInv, Shape
<1>5. HeaderIn(parsed'[j], DOMAIN dirs'[variant[j]])
  BY <1>1, <1>2, ParsedHeader DEF IInv, Shape, Dir
<1> QED
  BY <1>2, <1>3, <1>4, <1>5, ReadsKeep DEF IInv, Shape

\* naga has written a file.
LEMMA ConvertKeeps ==
  ASSUME IInv, NEW j \in Job, Convert(j)
  PROVE  IInv'
<1>1. PICK i \in ToConvert(j) :
        /\ Converting(j, i)
        /\ Put(j, WgslName(SpirvFile(j, i)), Dir(j)[SpirvFile(j, i)])
        /\ wgsl_map' = [wgsl_map EXCEPT ![j] =
             [k \in DOMAIN @ \cup {i} |-> IF k = i THEN WgslName(SpirvFile(j, i)) ELSE @[k]]]
        /\ UNCHANGED <<pc, manifest, variant, step, parsed, runs>>
  BY DEF Convert
<1> DEFINE file == WgslName(SpirvFile(j, i))
           converted == [k \in DOMAIN wgsl_map[j] \cup {i} |-> IF k = i THEN file ELSE wgsl_map[j][k]]
<1>2. file # HeaderFile
  BY WgslNames
<1>3. pc[j] = "convert"
  BY <1>1 DEF Converting
<1>4. /\ DOMAIN wgsl_map' = Job /\ wgsl_map'[j] = converted
      /\ \A k \in Job \ {j} : wgsl_map'[k] = wgsl_map[k]
  BY <1>1 DEF IInv, Shape
<1>5. DOMAIN dirs' = Variant /\ Grows /\ HeadersIn' /\ file \in DOMAIN dirs'[variant[j]]
  <2> HIDE DEF file, converted
  <2>1. Put(j, file, Dir(j)[SpirvFile(j, i)])
    BY <1>1 DEF file
  <2> QED
    BY <1>2, <2>1, PutGrows, PutKeeps DEF IInv
<1>6. DOMAIN Dir(j) \subseteq DOMAIN dirs'[variant[j]]
  BY <1>5, Variants DEF Grows, Dir, IInv
<1>7. HeaderIn(parsed[j], DOMAIN Dir(j)) /\ \A k \in DOMAIN wgsl_map[j] : wgsl_map[j][k] \in DOMAIN Dir(j)
  BY <1>3 DEF IInv, JobInv, ParsedIn
<1> HIDE DEF file
<1>8. \A k \in DOMAIN converted : converted[k] \in DOMAIN dirs'[variant[j]]
  BY <1>5, <1>6, <1>7
<1> HIDE DEF converted
<1>9. HeaderIn(parsed'[j], DOMAIN dirs'[variant[j]])
  BY <1>1, <1>6, <1>7, HeaderInMore
<1>10. AtFirst(j)' /\ Others(j)
  BY <1>1, <1>4 DEF AtFirst, IInv, JobInv, Others
<1>11. Shape'
  BY <1>1, <1>4, <1>5 DEF IInv, Shape, Artifact, Variant
<1>12. JobInv(j)'
  BY <1>1, <1>3, <1>4, <1>8, <1>9, <1>10 DEF JobInv, WrittenIn, OpenIn, ParsedIn, Dir
<1> QED
  BY <1>5, <1>10, <1>11, <1>12, StepKeeps

\* naga has failed.
LEMMA ConvertFailsKeeps ==
  ASSUME IInv, NEW j \in Job, ConvertFails(j)
  PROVE  IInv'
<1>1. PICK i \in ToConvert(j) : (UNCHANGED dirs \/ Put(j, WgslName(SpirvFile(j, i)), Cut)) /\ Fail(j)
  BY DEF ConvertFails
<1>2. CASE UNCHANGED dirs
  BY <1>1, <1>2, FailStays
<1>3. CASE Put(j, WgslName(SpirvFile(j, i)), Cut)
  <2>1. DOMAIN dirs' = Variant /\ Grows /\ HeadersIn'
    BY <1>3, WgslNames, PutGrows, PutKeeps DEF IInv
  <2> QED
    BY <1>1, <2>1, FailKeeps
<1> QED
  BY <1>1, <1>2, <1>3

\* The patch adds names of files that naga has written.
LEMMA PatchedIn ==
  ASSUME NEW h, NEW D, HeaderIn(h, D), NEW map, \A k \in DOMAIN map : map[k] \in D
  PROVE  HeaderIn(Patched(h, map), D)
<1> DEFINE one(i) == IF i \in DOMAIN map THEN [h.stages[i] EXCEPT !.wgsl_file = map[i]] ELSE h.stages[i]
           stages == [i \in DOMAIN h.stages |-> one(i)]
<1>1. Patched(h, map) = [h EXCEPT !.stages = stages]
  BY DEF Patched
<1>2. "stages" \in DOMAIN h
  BY DEF HeaderIn
<1>3. "stages" \in DOMAIN Patched(h, map) /\ Patched(h, map).stages = stages
  BY <1>1, <1>2
<1>4. ASSUME NEW i \in DOMAIN h.stages
      PROVE  {"spirv_file", "msl_file", "wgsl_file"} \subseteq DOMAIN one(i) /\ NamedFiles(one(i)) \subseteq D
  BY DEF HeaderIn, NamedFiles
<1> QED
  BY <1>3, <1>4 DEF HeaderIn

\* The script has read the header to patch.
LEMMA PatchReadKeeps ==
  ASSUME IInv, NEW j \in Job, PatchRead(j)
  PROVE  IInv'
<1>1. /\ pc[j] = "convert" /\ Goto(j, "patch") /\ UNCHANGED <<dirs, manifest, variant, step, wgsl_map, runs>>
      /\ parsed' = [parsed EXCEPT ![j] = Patched(ParseHeader(Dir(j)), wgsl_map[j])]
      /\ ParseHeader(Dir(j)) # Unreadable
  BY DEF PatchRead, Patchable
<1>2. \A k \in DOMAIN wgsl_map[j] : wgsl_map[j][k] \in DOMAIN Dir(j)
  BY <1>1 DEF IInv, JobInv, ParsedIn
<1>3. HeaderIn(Patched(ParseHeader(Dir(j)), wgsl_map[j]), DOMAIN Dir(j))
  BY <1>1, <1>2, ParsedHeader, PatchedIn
<1>4. AtFirst(j)'
  BY <1>1 DEF AtFirst, IInv, JobInv
<1>5. DOMAIN dirs' = Variant /\ Grows /\ HeadersIn'
  BY <1>1, DirsStay DEF IInv, Shape
<1>6. HeaderIn(parsed'[j], DOMAIN dirs'[variant[j]])
  BY <1>1, <1>3 DEF IInv, Shape, Dir
<1>7. \A k \in DOMAIN wgsl_map'[j] : wgsl_map'[j][k] \in DOMAIN dirs'[variant[j]]
  BY <1>1, <1>2 DEF Dir
<1> QED
  BY <1>1, <1>4, <1>5, <1>6, <1>7, ReadsKeep DEF IInv, Shape

\* The script has truncated the header.
LEMMA PatchOpenKeeps ==
  ASSUME IInv, NEW j \in Job, PatchOpen(j)
  PROVE  IInv'
<1>1. /\ pc[j] = "patch" /\ Goto(j, "patching") /\ UNCHANGED job
      /\ Put(j, HeaderFile, Truncated)
  BY DEF PatchOpen
<1>2. DOMAIN dirs' = Variant /\ Grows /\ HeadersIn'
  BY <1>1, PutGrows, PutKeeps DEF IInv
<1>3. DOMAIN Dir(j) \subseteq DOMAIN dirs'[variant[j]]
  BY <1>2, Variants DEF Grows, Dir, IInv
<1>4. HeaderIn(parsed[j], DOMAIN Dir(j)) /\ \A k \in DOMAIN wgsl_map[j] : wgsl_map[j][k] \in DOMAIN Dir(j)
  BY <1>1 DEF IInv, JobInv, ParsedIn
<1>5. HeaderIn(parsed[j], DOMAIN dirs'[variant[j]])
  BY <1>3, <1>4, HeaderInMore
<1>6. AtFirst(j)'
  BY <1>1 DEF AtFirst, IInv, JobInv, job
<1> QED
  BY <1>1, <1>2, <1>3, <1>4, <1>5, <1>6, ReadsKeep DEF IInv, Shape, job

\* The script has written the patched header.
LEMMA PatchWriteKeeps ==
  ASSUME IInv, NEW j \in Job, PatchWrite(j)
  PROVE  IInv'
<1>1. pc[j] = "patching" /\ Put(j, HeaderFile, parsed[j]) /\ NextBundle(j)
  BY DEF PatchWrite
<1>2. HeaderIn(parsed[j], DOMAIN Dir(j))
  BY <1>1 DEF IInv, JobInv, ParsedIn
<1>3. DOMAIN dirs' = Variant /\ Grows /\ HeadersIn'
  BY <1>1, <1>2, PutGrows, PutKeeps DEF IInv
<1> QED
  BY <1>1, <1>3, NextBundleKeeps
------------------------------------------------------------------------------
\* The invariant holds at the start.
LEMMA InitIInv == Init => IInv
<1> SUFFICES ASSUME Init PROVE IInv
  OBVIOUS
<1>1. (CHOOSE m \in Manifests : TRUE) \in Manifests
  BY ManifestsAssumption
<1>2. ASSUME NEW j \in Job
      PROVE  variant[j] \in DOMAIN manifest[j] /\ step[j] \in DOMAIN Writes(Artifact(j))
  <2> DEFINE a == Artifact(j)
  <2>1. variant[j] = 1 /\ step[j] = 1 /\ manifest[j] \in Manifests /\ 1 \in DOMAIN manifest[j]
    BY <1>1, ManifestsAssumption DEF Init
  <2>2. Len(a.stages) \in Nat /\ DOMAIN a.stages = 1 .. Len(a.stages)
    BY <2>1, ManifestsAssumption DEF Artifact
  <2> HIDE DEF a
  <2>3. DOMAIN Writes(a) = 1 .. 3 * Len(a.stages) + 4
    BY <2>2, WritesShape
  <2>4. 1 \in DOMAIN Writes(a)
    BY <2>2, <2>3
  <2> QED
    BY <2>1, <2>4 DEF a
<1>3. Shape
  BY <1>1, <1>2 DEF Init, Shape
<1>4. HeadersIn
  BY DEF Init, HeadersIn
<1>5. \A j \in Job : JobInv(j)
  BY DEF Init, JobInv, AtFirst, WrittenIn, OpenIn, ParsedIn
<1> QED
  BY <1>3, <1>4, <1>5 DEF IInv

\* Every step of every job keeps it.
LEMMA NextIInv == IInv /\ [Next]_vars => IInv'
<1> SUFFICES ASSUME IInv, [Next]_vars PROVE IInv'
  OBVIOUS
<1>1. CASE UNCHANGED vars
  <2>1. Shape' /\ HeadersIn'
    BY <1>1 DEF vars, IInv, Shape, HeadersIn, Variant, Artifact
  <2>2. ASSUME NEW j \in Job PROVE JobInv(j)'
    BY <1>1 DEF vars, IInv, JobInv, AtFirst, WrittenIn, OpenIn, ParsedIn, Artifact, Dir, Write
  <2> QED
    BY <2>1, <2>2 DEF IInv
<1>2. ASSUME NEW j \in Job, StartRun(j) \/ BuildVariant(j) \/ SkipFile(j) \/ OpenFile(j) \/ OpenFails(j)
      PROVE  IInv'
  BY <1>2, StartRunKeeps, BuildKeeps, SkipKeeps, OpenKeeps, OpenFailsKeeps
<1>3. ASSUME NEW j \in Job, WriteFile(j) \/ WriteUnflushed(j) \/ WriteFails(j) \/ BundleWritten(j)
      PROVE  IInv'
  BY <1>3, WriteFileKeeps, WriteFailsKeeps, BundleWrittenKeeps
<1>4. ASSUME NEW j \in Job, BuildFails(j) \/ EmitDeclsFails(j) \/ NagaRefused(j) \/ PatchRefused(j)
             \/ PatchFails(j) \/ Crash(j)
      PROVE  IInv'
  BY <1>4, FailStays DEF BuildFails, EmitDeclsFails, NagaRefused, PatchRefused, PatchFails, Crash
<1>5. ASSUME NEW j \in Job, NagaSkip(j)
      PROVE  IInv'
  BY <1>5, NextBundleKeeps, DirsStay DEF NagaSkip, IInv, Shape
<1>6. ASSUME NEW j \in Job, NagaNeeded(j) \/ FindMissing(j) \/ NagaStart(j) \/ Convert(j) \/ ConvertFails(j)
      PROVE  IInv'
  BY <1>6, NagaFindKeeps, NagaStartKeeps, ConvertKeeps, ConvertFailsKeeps
<1>7. ASSUME NEW j \in Job, PatchRead(j) \/ PatchOpen(j) \/ PatchWrite(j)
      PROVE  IInv'
  BY <1>7, PatchReadKeeps, PatchOpenKeeps, PatchWriteKeeps
<1> QED
  BY <1>1, <1>2, <1>3, <1>4, <1>5, <1>6, <1>7 DEF Next

(*************************************************************************)
(* IInv is an invariant of every number of jobs and of every manifest.   *)
(*************************************************************************)
THEOREM Inductive == Spec => []IInv
BY InitIInv, NextIInv, PTL DEF Spec

(*************************************************************************)
(* A header that can be read names only files that are in its directory  *)
(* (order of the writes of writeShaderBundle, and of the script's naga   *)
(* and patch), for any jobs that overwrite each other's bundles, with    *)
(* failed writes, streams that are not flushed and kills.                *)
(*************************************************************************)
THEOREM NamedFilesAlwaysExist == Spec => []NamedFilesExist
<1>1. IInv => NamedFilesExist
  <2> SUFFICES ASSUME IInv, NEW v \in Variant, ReadHeader(dirs[v]) # Unreadable,
                      NEW i \in DOMAIN ReadHeader(dirs[v]).stages
               PROVE  NamedFiles(ReadHeader(dirs[v]).stages[i]) \subseteq DOMAIN dirs[v]
    BY DEF NamedFilesExist
  <2>1. /\ HeaderFile \in DOMAIN dirs[v] /\ dirs[v][HeaderFile] # Truncated
        /\ ReadHeader(dirs[v]) = dirs[v][HeaderFile]
    BY DEF ReadHeader
  <2> QED
    BY <2>1 DEF IInv, HeadersIn, HeaderIn
<1> QED
  BY <1>1, Inductive, PTL
------------------------------------------------------------------------------
\* The types.  What naga writes has a name because the SPIR-V that a header
\* names is of a stage of some manifest.

\* f is the SPIR-V file of a stage of a manifest.
SpirvName(f) ==
  \E m \in Manifests : \E v \in DOMAIN m : \E i \in DOMAIN m[v].stages : f = StageFile(m[v], m[v].stages[i], "spv")

Named(h) == \A i \in DOMAIN h.stages : SpirvName(h.stages[i].spirv_file)

DirsTyped ==
  \A v \in Variant :
    /\ NoFile \notin DOMAIN dirs[v]
    /\ HeaderFile \in DOMAIN dirs[v] => dirs[v][HeaderFile] = Truncated \/ Named(dirs[v][HeaderFile])

ScriptTyped(j) ==
  /\ parsed[j] # Unreadable => DOMAIN wgsl_map[j] \subseteq DOMAIN parsed[j].stages
  /\ pc[j] \in {"convert", "patch", "patching"} => Named(parsed[j])

TInv ==
  /\ pc \in [Job -> PCs]
  /\ runs \in 0 .. MaxRuns
  /\ DirsTyped
  /\ \A j \in Job : ScriptTyped(j)

\* naga's output for the SPIR-V of a stage has a name.
LEMMA WgslNamed ==
  ASSUME NEW f, SpirvName(f)
  PROVE  WgslName(f) # NoFile
<1>1. PICK m \in Manifests : \E v \in DOMAIN m : \E i \in DOMAIN m[v].stages : f = StageFile(m[v], m[v].stages[i], "spv")
  BY DEF SpirvName
<1>2. PICK v \in DOMAIN m : \E i \in DOMAIN m[v].stages : f = StageFile(m[v], m[v].stages[i], "spv")
  BY <1>1
<1>3. PICK i \in DOMAIN m[v].stages : f = StageFile(m[v], m[v].stages[i], "spv")
  BY <1>2
<1>4. WgslName(f) = StageFile(m[v], m[v].stages[i], "wgsl")
  BY <1>3 DEF WgslName, StageFile
<1> QED
  BY <1>4, NoFileAssumption

\* The header of an artifact of a manifest names the SPIR-V of its stages.
LEMMA HeaderNamed ==
  ASSUME NEW m \in Manifests, NEW v \in DOMAIN m
  PROVE  Named(HeaderOf(m[v]))
BY DEF Named, SpirvName, HeaderOf, StageFiles

\* A put of a file with a name keeps the directories typed.
LEMMA PutTyped ==
  ASSUME IInv, DirsTyped, NEW j \in Job, NEW file, NEW content, Put(j, file, content), file # NoFile,
         file = HeaderFile => content = Truncated \/ Named(content)
  PROVE  DirsTyped'
<1>1. \A v \in Variant : \A f \in DOMAIN dirs'[v] :
        (v = variant[j] /\ f = file) \/ (f \in DOMAIN dirs[v] /\ dirs'[v][f] = dirs[v][f])
  BY PutGrows DEF IInv
<1>2. dirs'[variant[j]][file] = content
  BY PutGrows DEF IInv
<1> SUFFICES ASSUME NEW v \in Variant
             PROVE  /\ NoFile \notin DOMAIN dirs'[v]
                    /\ HeaderFile \in DOMAIN dirs'[v] =>
                         dirs'[v][HeaderFile] = Truncated \/ Named(dirs'[v][HeaderFile])
  BY DEF DirsTyped, Variant, Named, SpirvName
<1>3. NoFile \notin DOMAIN dirs'[v]
  BY <1>1 DEF DirsTyped
<1>4. ASSUME HeaderFile \in DOMAIN dirs'[v]
      PROVE  dirs'[v][HeaderFile] = Truncated \/ Named(dirs'[v][HeaderFile])
  <2>1. CASE v = variant[j] /\ HeaderFile = file
    BY <1>2, <2>1
  <2>2. CASE ~(v = variant[j] /\ HeaderFile = file)
    BY <1>1, <1>4, <2>2 DEF DirsTyped
  <2> QED
    BY <2>1, <2>2
<1> QED
  BY <1>3, <1>4

\* Directories that stay as they are stay typed.
LEMMA DirsStayTyped ==
  ASSUME DirsTyped, UNCHANGED dirs
  PROVE  DirsTyped'
BY DEF DirsTyped, Variant, Named, SpirvName

\* The write in progress is of a file with a name, and of a header that has names.
LEMMA WriteTyped ==
  ASSUME IInv, DirsTyped, NEW j \in Job, Write(j).file # NoFile, NEW content, Put(j, Write(j).file, content),
         content \in {Truncated, Write(j).content} \/ Write(j).file # HeaderFile
  PROVE  DirsTyped'
<1> DEFINE a == Artifact(j)
<1>1. /\ Len(a.stages) \in Nat /\ DOMAIN a.stages = 1 .. Len(a.stages) /\ step[j] \in DOMAIN Writes(a)
      /\ manifest[j] \in Manifests /\ variant[j] \in DOMAIN manifest[j] /\ a = manifest[j][variant[j]]
  BY Variants DEF IInv, Shape, Artifact
<1>2. Write(j).file = HeaderFile => Write(j).content = HeaderOf(a)
  <2>1. Write(j) = Writes(a)[step[j]]
    BY DEF Write
  <2> HIDE DEF a
  <2> QED
    BY <1>1, <2>1, HeaderWrite
<1>3. Named(HeaderOf(a))
  BY <1>1, HeaderNamed
<1> QED
  BY <1>2, <1>3, PutTyped

\* A step has to keep what concerns its job and the directories only.
LEMMA StepTyped ==
  ASSUME IInv, TInv, NEW j \in Job, NEW there \in PCs, Goto(j, there), runs' \in 0 .. MaxRuns, DirsTyped',
         \A k \in Job \ {j} : parsed'[k] = parsed[k] /\ wgsl_map'[k] = wgsl_map[k],
         there = pc'[j] => ScriptTyped(j)'
  PROVE  TInv'
<1>1. pc' \in [Job -> PCs] /\ pc'[j] = there /\ \A k \in Job \ {j} : pc'[k] = pc[k]
  BY DEF Goto, TInv
<1>2. ASSUME NEW k \in Job PROVE ScriptTyped(k)'
  <2>1. CASE k = j
    BY <1>1, <2>1
  <2>2. CASE k # j
    BY <1>1, <2>2 DEF TInv, ScriptTyped, Named, SpirvName
  <2> QED
    BY <2>1, <2>2
<1> QED
  BY <1>1, <1>2 DEF TInv

\* A step that leaves what the script has read, or to a point where that is not used.
LEMMA MoveTyped ==
  ASSUME IInv, TInv, NEW j \in Job, NEW there \in PCs, Goto(j, there), DirsTyped',
         UNCHANGED <<parsed, wgsl_map, runs>>,
         there \in {"convert", "patch", "patching"} => pc[j] \in {"convert", "patch", "patching"}
  PROVE  TInv'
<1>1. ScriptTyped(j) /\ runs' \in 0 .. MaxRuns
  BY DEF TInv
<1>2. there = pc'[j] => ScriptTyped(j)'
  BY <1>1 DEF ScriptTyped, Named, SpirvName
<1> QED
  BY <1>1, <1>2, StepTyped

\* A failure.
LEMMA FailTyped ==
  ASSUME IInv, TInv, NEW j \in Job, Fail(j), DirsTyped'
  PROVE  TInv'
<1>1. Goto(j, "failed") /\ UNCHANGED <<parsed, wgsl_map, runs>> /\ "failed" \in PCs
  BY DEF Fail, job, PCs
<1> QED
  BY <1>1, MoveTyped

\* A write that is done.
LEMMA AdvanceTyped ==
  ASSUME IInv, TInv, NEW j \in Job, Advance(j), DirsTyped', UNCHANGED <<parsed, wgsl_map, runs>>
  PROVE  TInv'
<1>1. PICK there \in {"open", "written"} : Goto(j, there)
  BY DEF Advance
<1> QED
  BY <1>1, MoveTyped DEF PCs

\* On to the next bundle.
LEMMA NextBundleTyped ==
  ASSUME IInv, TInv, NEW j \in Job, NextBundle(j), DirsTyped'
  PROVE  TInv'
<1>1. PICK there \in {"naga", "done"} : Goto(j, there)
  BY DEF NextBundle
<1> QED
  BY <1>1, MoveTyped DEF PCs, NextBundle

\* A run starts.
LEMMA StartTyped ==
  ASSUME IInv, TInv, NEW j \in Job, StartRun(j)
  PROVE  TInv'
<1>1. /\ Goto(j, "build") /\ "build" \in PCs /\ UNCHANGED dirs /\ runs < MaxRuns /\ runs' = runs + 1
      /\ parsed'[j] = Unreadable
      /\ \A k \in Job \ {j} : parsed'[k] = parsed[k] /\ wgsl_map'[k] = wgsl_map[k]
  BY DEF StartRun, PCs, IInv, Shape
<1>2. runs' \in 0 .. MaxRuns /\ DirsTyped'
  BY <1>1, DirsStayTyped, RunsAssumption DEF TInv
<1>3. pc'[j] = "build" => ScriptTyped(j)'
  BY <1>1 DEF ScriptTyped
<1> QED
  BY <1>1, <1>2, <1>3, StepTyped

\* The compiler's other steps.
LEMMA CompilerTyped ==
  ASSUME IInv, TInv, NEW j \in Job,
         \/ BuildVariant(j) \/ BuildFails(j) \/ SkipFile(j) \/ OpenFile(j) \/ OpenFails(j) \/ WriteFile(j)
         \/ WriteFails(j) \/ WriteUnflushed(j) \/ EmitDeclsFails(j) \/ BundleWritten(j)
  PROVE  TInv'
<1>1. DirsTyped
  BY DEF TInv
<1>2. pc[j] = "write" => Write(j).file # NoFile
  BY DEF IInv, JobInv, OpenIn
<1>3. CASE BuildVariant(j)
  <2>1. Goto(j, "open") /\ "open" \in PCs /\ UNCHANGED <<dirs, parsed, wgsl_map, runs>>
    BY <1>3 DEF BuildVariant, PCs, job
  <2> QED
    BY <1>1, <2>1, DirsStayTyped, MoveTyped
<1>4. CASE BuildFails(j) \/ EmitDeclsFails(j)
  BY <1>1, <1>4, DirsStayTyped, FailTyped DEF BuildFails, EmitDeclsFails
<1>5. CASE SkipFile(j)
  BY <1>1, <1>5, DirsStayTyped, AdvanceTyped DEF SkipFile
<1>6. CASE OpenFile(j)
  <2>1. /\ Goto(j, "write") /\ "write" \in PCs /\ UNCHANGED <<parsed, wgsl_map, runs>>
        /\ Write(j).file # NoFile /\ Put(j, Write(j).file, Truncated)
    BY <1>6 DEF OpenFile, PCs, job
  <2>2. DirsTyped'
    BY <1>1, <2>1, WriteTyped
  <2> QED
    BY <2>1, <2>2, MoveTyped
<1>7. CASE OpenFails(j)
  <2>1. DirsTyped'
    BY <1>1, <1>7, DirsStayTyped DEF OpenFails
  <2> QED
    BY <1>7, <2>1, FailTyped, AdvanceTyped DEF OpenFails
<1>8. CASE WriteFile(j)
  <2>1. DirsTyped'
    BY <1>1, <1>2, <1>8, WriteTyped DEF WriteFile
  <2> QED
    BY <1>8, <2>1, AdvanceTyped DEF WriteFile
<1>9. CASE WriteUnflushed(j)
  <2>1. DirsTyped'
    BY <1>1, <1>2, <1>9, WriteTyped DEF WriteUnflushed
  <2> QED
    BY <1>9, <2>1, AdvanceTyped DEF WriteUnflushed
<1>10. CASE WriteFails(j)
  <2>1. DirsTyped'
    BY <1>1, <1>2, <1>10, WriteTyped DEF WriteFails, Large
  <2> QED
    BY <1>10, <2>1, FailTyped DEF WriteFails
<1>11. CASE BundleWritten(j)
  <2>1. PICK there \in {"build", "naga", "done"} : Goto(j, there)
    BY <1>11 DEF BundleWritten
  <2> QED
    BY <1>1, <1>11, <2>1, DirsStayTyped, MoveTyped DEF PCs, BundleWritten
<1> QED
  BY <1>3, <1>4, <1>5, <1>6, <1>7, <1>8, <1>9, <1>10, <1>11

\* The header that a script reads.
LEMMA ParsedNamed ==
  ASSUME IInv, DirsTyped, NEW j \in Job, ParseHeader(Dir(j)) # Unreadable
  PROVE  Named(ParseHeader(Dir(j))) /\ HeaderIn(ParseHeader(Dir(j)), DOMAIN Dir(j))
<1>1. variant[j] \in Variant
  BY Variants DEF IInv
<1> QED
  BY <1>1, ParsedHeader DEF ParseHeader, Dir, DirsTyped

\* The file that naga is to write has a name.
LEMMA ConvertingNamed ==
  ASSUME TInv, NEW j \in Job, NEW i \in DOMAIN parsed[j].stages, Converting(j, i)
  PROVE  WgslName(SpirvFile(j, i)) # NoFile /\ WgslName(SpirvFile(j, i)) # HeaderFile
<1>1. SpirvName(SpirvFile(j, i))
  BY DEF TInv, ScriptTyped, Converting, Named, SpirvFile
<1> QED
  BY <1>1, WgslNamed, WgslNames

\* naga writes a file, or fails.
LEMMA ConvertTyped ==
  ASSUME IInv, TInv, NEW j \in Job, Convert(j) \/ ConvertFails(j)
  PROVE  TInv'
<1>1. DirsTyped /\ ScriptTyped(j) /\ runs \in 0 .. MaxRuns
  BY DEF TInv
<1>2. CASE Convert(j)
  <2>1. PICK i \in ToConvert(j) :
          /\ Converting(j, i) /\ i \in DOMAIN parsed[j].stages
          /\ Put(j, WgslName(SpirvFile(j, i)), Dir(j)[SpirvFile(j, i)])
          /\ wgsl_map' = [wgsl_map EXCEPT ![j] =
               [k \in DOMAIN @ \cup {i} |-> IF k = i THEN WgslName(SpirvFile(j, i)) ELSE @[k]]]
          /\ UNCHANGED <<pc, manifest, variant, step, parsed, runs>>
    BY <1>2 DEF Convert
  <2>2. DirsTyped'
    BY <1>1, <2>1, ConvertingNamed, PutTyped
  <2>3. /\ DOMAIN wgsl_map'[j] = DOMAIN wgsl_map[j] \cup {i} /\ parsed'[j] = parsed[j]
        /\ \A k \in Job \ {j} : parsed'[k] = parsed[k] /\ wgsl_map'[k] = wgsl_map[k]
    BY <2>1 DEF IInv, Shape
  <2>4. Goto(j, "convert") /\ "convert" \in PCs /\ pc[j] = "convert" /\ pc'[j] = "convert"
    BY <2>1 DEF Goto, Converting, PCs, TInv
  <2>5. ScriptTyped(j)'
    BY <1>1, <2>1, <2>3, <2>4, ConvertingNamed DEF ScriptTyped, Named, SpirvName
  <2> QED
    BY <1>1, <2>1, <2>2, <2>3, <2>4, <2>5, StepTyped
<1>3. CASE ConvertFails(j)
  <2>1. PICK i \in ToConvert(j) :
          /\ Converting(j, i) /\ Fail(j)
          /\ \/ UNCHANGED dirs
             \/ i \in DOMAIN parsed[j].stages /\ Put(j, WgslName(SpirvFile(j, i)), Cut)
    BY <1>3 DEF ConvertFails
  <2>2. DirsTyped'
    BY <1>1, <2>1, ConvertingNamed, PutTyped, DirsStayTyped
  <2> QED
    BY <2>1, <2>2, FailTyped
<1> QED
  BY <1>2, <1>3

\* The script sees that stages have no WGSL.
LEMMA NagaFindTyped ==
  ASSUME IInv, TInv, NEW j \in Job, NagaNeeded(j) \/ FindMissing(j)
  PROVE  TInv'
<1>1. PICK there \in {"find", "parse"} : Goto(j, there)
  BY DEF NagaNeeded, FindMissing
<1>2. UNCHANGED <<dirs, parsed, wgsl_map, runs>>
  BY DEF NagaNeeded, FindMissing, job
<1>3. DirsTyped'
  BY <1>2, DirsStayTyped DEF TInv
<1> QED
  BY <1>1, <1>2, <1>3, MoveTyped DEF PCs

\* The script reads a header, and reads it again to patch it.
LEMMA ReadsTyped ==
  ASSUME IInv, TInv, NEW j \in Job, NagaStart(j) \/ PatchRead(j)
  PROVE  TInv'
<1> DEFINE h == ParseHeader(Dir(j))
<1>1. DirsTyped /\ runs \in 0 .. MaxRuns /\ h # Unreadable
  BY DEF TInv, NagaStart, PatchRead, Patchable, BundleMissingWgsl, StagesWithoutWgsl
<1>2. Named(h) /\ HeaderIn(h, DOMAIN Dir(j))
  BY <1>1, ParsedNamed
<1>3. UNCHANGED <<dirs, runs>> /\ DirsTyped'
  BY <1>1, DirsStayTyped DEF NagaStart, PatchRead
<1>4. CASE NagaStart(j)
  <2>1. /\ Goto(j, "convert") /\ "convert" \in PCs /\ parsed'[j] = h /\ wgsl_map'[j] = <<>>
        /\ \A k \in Job \ {j} : parsed'[k] = parsed[k] /\ wgsl_map'[k] = wgsl_map[k]
    BY <1>4 DEF NagaStart, PCs, IInv, Shape
  <2>2. ScriptTyped(j)'
    BY <1>2, <2>1 DEF ScriptTyped, Named, SpirvName
  <2> QED
    BY <1>1, <1>3, <2>1, <2>2, StepTyped
<1>5. CASE PatchRead(j)
  <2>1. /\ Goto(j, "patch") /\ "patch" \in PCs /\ parsed'[j] = Patched(h, wgsl_map[j]) /\ wgsl_map' = wgsl_map
        /\ DOMAIN wgsl_map[j] \subseteq DOMAIN h.stages
        /\ \A k \in Job \ {j} : parsed'[k] = parsed[k]
    BY <1>5 DEF PatchRead, Patchable, PCs, IInv, Shape
  <2> DEFINE g == Patched(h, wgsl_map[j])
  <2> HIDE DEF h
  <2>2. DOMAIN g.stages = DOMAIN h.stages /\ \A i \in DOMAIN h.stages : g.stages[i].spirv_file = h.stages[i].spirv_file
    BY <1>2 DEF Patched, HeaderIn
  <2>3. ScriptTyped(j)'
    BY <1>2, <2>1, <2>2 DEF ScriptTyped, Named, SpirvName
  <2> QED
    BY <1>1, <1>3, <2>1, <2>3, StepTyped
<1> QED
  BY <1>4, <1>5

\* The script patches the header.
LEMMA PatchTyped ==
  ASSUME IInv, TInv, NEW j \in Job, PatchOpen(j) \/ PatchWrite(j)
  PROVE  TInv'
<1>1. DirsTyped /\ ScriptTyped(j) /\ HeaderFile # NoFile
  BY NoFileAssumption DEF TInv
<1>2. CASE PatchOpen(j)
  <2>1. /\ pc[j] = "patch" /\ Goto(j, "patching") /\ "patching" \in PCs /\ Put(j, HeaderFile, Truncated)
        /\ UNCHANGED <<parsed, wgsl_map, runs>>
    BY <1>2 DEF PatchOpen, PCs, job
  <2>2. DirsTyped'
    BY <1>1, <2>1, PutTyped
  <2> QED
    BY <2>1, <2>2, MoveTyped
<1>3. CASE PatchWrite(j)
  <2>1. Put(j, HeaderFile, parsed[j]) /\ NextBundle(j) /\ Named(parsed[j])
    BY <1>1, <1>3 DEF PatchWrite, ScriptTyped
  <2>2. DirsTyped'
    BY <1>1, <2>1, PutTyped
  <2> QED
    BY <2>1, <2>2, NextBundleTyped
<1> QED
  BY <1>2, <1>3

\* Every step keeps the types.
LEMMA NextTInv == IInv /\ TInv /\ [Next]_vars => TInv'
<1> SUFFICES ASSUME IInv, TInv, [Next]_vars PROVE TInv'
  OBVIOUS
<1>1. DirsTyped
  BY DEF TInv
<1>2. CASE UNCHANGED vars
  <2>1. DirsTyped' /\ \A j \in Job : ScriptTyped(j)'
    BY <1>1, <1>2, DirsStayTyped DEF vars, TInv, ScriptTyped, Named, SpirvName
  <2> QED
    BY <1>2, <2>1 DEF vars, TInv
<1>3. ASSUME NEW j \in Job,
             \/ BuildVariant(j) \/ BuildFails(j) \/ SkipFile(j) \/ OpenFile(j) \/ OpenFails(j) \/ WriteFile(j)
             \/ WriteFails(j) \/ WriteUnflushed(j) \/ EmitDeclsFails(j) \/ BundleWritten(j)
      PROVE  TInv'
  BY <1>3, CompilerTyped
<1>4. ASSUME NEW j \in Job,
             StartRun(j) \/ NagaNeeded(j) \/ FindMissing(j) \/ NagaStart(j) \/ Convert(j) \/ ConvertFails(j)
      PROVE  TInv'
  BY <1>4, StartTyped, NagaFindTyped, ReadsTyped, ConvertTyped
<1>5. ASSUME NEW j \in Job, PatchRead(j) \/ PatchOpen(j) \/ PatchWrite(j)
      PROVE  TInv'
  BY <1>5, ReadsTyped, PatchTyped
<1>6. ASSUME NEW j \in Job, NagaRefused(j) \/ PatchRefused(j) \/ PatchFails(j) \/ Crash(j)
      PROVE  TInv'
  BY <1>1, <1>6, DirsStayTyped, FailTyped DEF NagaRefused, PatchRefused, PatchFails, Crash
<1>7. ASSUME NEW j \in Job, NagaSkip(j)
      PROVE  TInv'
  BY <1>1, <1>7, DirsStayTyped, NextBundleTyped DEF NagaSkip
<1> QED
  BY <1>2, <1>3, <1>4, <1>5, <1>6, <1>7 DEF Next

\* What is missing was found, and is more than nothing, while it is used.
MissingIn ==
  /\ DOMAIN missing = Job
  /\ \A j \in Job : pc[j] \in {"parse", "convert"} => missing[j] # {}

\* A step that leaves the list, or goes where it is not used.
LEMMA MissingStays ==
  ASSUME IInv, MissingIn, NEW j \in Job, NEW there, Goto(j, there), UNCHANGED missing,
         there \in {"parse", "convert"} => pc[j] \in {"parse", "convert"}
  PROVE  MissingIn'
BY DEF MissingIn, Goto, IInv, Shape

LEMMA MissingAfterFailure ==
  ASSUME IInv, MissingIn, NEW j \in Job, Fail(j)
  PROVE  MissingIn'
<1>1. Goto(j, "failed") /\ UNCHANGED missing
  BY DEF Fail, job
<1> QED
  BY <1>1, MissingStays

LEMMA MissingAfterWrite ==
  ASSUME IInv, MissingIn, NEW j \in Job, Advance(j), UNCHANGED missing
  PROVE  MissingIn'
<1>1. PICK there \in {"open", "written"} : Goto(j, there)
  BY DEF Advance
<1> QED
  BY <1>1, MissingStays

LEMMA MissingAfterBundle ==
  ASSUME IInv, MissingIn, NEW j \in Job, NextBundle(j)
  PROVE  MissingIn'
<1>1. PICK there \in {"naga", "done"} : Goto(j, there) /\ UNCHANGED missing
  BY DEF NextBundle
<1> QED
  BY <1>1, MissingStays

LEMMA NextMissing == IInv /\ MissingIn /\ [Next]_vars => MissingIn'
<1> SUFFICES ASSUME IInv, MissingIn, [Next]_vars PROVE MissingIn'
  OBVIOUS
<1>1. CASE UNCHANGED vars
  BY <1>1 DEF vars, MissingIn
<1>2. ASSUME NEW j \in Job, StartRun(j)
      PROVE  MissingIn'
  BY <1>2 DEF StartRun, Goto, MissingIn, IInv, Shape
<1>3. ASSUME NEW j \in Job, BuildVariant(j) \/ OpenFile(j) \/ NagaNeeded(j) \/ PatchOpen(j)
      PROVE  MissingIn'
  <2>1. PICK there \in {"open", "write", "find", "patching"} : Goto(j, there) /\ UNCHANGED missing
    BY <1>3 DEF BuildVariant, OpenFile, NagaNeeded, PatchOpen, job
  <2> QED
    BY <2>1, MissingStays
<1>4. ASSUME NEW j \in Job, BuildFails(j) \/ EmitDeclsFails(j) \/ WriteFails(j) \/ NagaRefused(j) \/ ConvertFails(j)
                              \/ PatchRefused(j) \/ PatchFails(j) \/ Crash(j)
      PROVE  MissingIn'
  BY <1>4, MissingAfterFailure
     DEF BuildFails, EmitDeclsFails, WriteFails, NagaRefused, ConvertFails, PatchRefused, PatchFails, Crash
<1>5. ASSUME NEW j \in Job, SkipFile(j) \/ OpenFails(j) \/ WriteFile(j) \/ WriteUnflushed(j)
      PROVE  MissingIn'
  <2>1. Fail(j) \/ (Advance(j) /\ UNCHANGED missing)
    BY <1>5 DEF SkipFile, OpenFails, WriteFile, WriteUnflushed
  <2> QED
    BY <2>1, MissingAfterFailure, MissingAfterWrite
<1>6. ASSUME NEW j \in Job, BundleWritten(j)
      PROVE  MissingIn'
  <2>1. PICK there \in {"build", "naga", "done"} : Goto(j, there) /\ UNCHANGED missing
    BY <1>6 DEF BundleWritten
  <2> QED
    BY <2>1, MissingStays
<1>7. ASSUME NEW j \in Job, NagaSkip(j) \/ PatchWrite(j)
      PROVE  MissingIn'
  BY <1>7, MissingAfterBundle DEF NagaSkip, PatchWrite
<1>8. ASSUME NEW j \in Job, FindMissing(j)
      PROVE  MissingIn'
  BY <1>8 DEF FindMissing, Goto, MissingIn, IInv, Shape
<1>9. ASSUME NEW j \in Job, NagaStart(j) \/ PatchRead(j)
      PROVE  MissingIn'
  <2>1. PICK there \in {"convert", "patch"} :
          Goto(j, there) /\ UNCHANGED missing /\ pc[j] \in {"parse", "convert"}
    BY <1>9 DEF NagaStart, PatchRead
  <2> QED
    BY <2>1, MissingStays
<1>10. ASSUME NEW j \in Job, Convert(j)
       PROVE  MissingIn'
  BY <1>10 DEF Convert, MissingIn
<1> QED
  BY <1>1, <1>2, <1>3, <1>4, <1>5, <1>6, <1>7, <1>8, <1>9, <1>10 DEF Next

(*************************************************************************)
(* The types of the variables, for any jobs and manifests: no file has   *)
(* the empty name, a job is at a write of a variant of its manifest, and *)
(* what naga has converted are stages of the header that was read.       *)
(*************************************************************************)
THEOREM TypesAlwaysOK == Spec => []TypeOK
<1>1. Init => TInv
  BY RunsAssumption DEF Init, TInv, PCs, DirsTyped, ScriptTyped
<1>2. Init => MissingIn
  BY DEF Init, MissingIn
<1>3. IInv /\ TInv /\ MissingIn => TypeOK
  <2> SUFFICES ASSUME IInv, TInv, MissingIn PROVE TypeOK
    OBVIOUS
  <2>1. \A j \in Job : variant[j] \in 1 .. Len(manifest[j]) /\ step[j] \in DOMAIN Writes(Artifact(j))
    BY Variants DEF IInv, Shape
  <2> QED
    BY <2>1 DEF IInv, Shape, TInv, DirsTyped, ScriptTyped, MissingIn, TypeOK
<1> QED
  BY <1>1, <1>2, <1>3, InitIInv, NextIInv, NextTInv, NextMissing, PTL DEF Spec
=============================================================================
