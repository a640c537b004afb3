-------------------------- MODULE FirstBundleProofs --------------------------
(*************************************************************************)
(* Proof that the bundles of a first run are whole as soon as they have  *)
(* a header.  FInv says that the run is alone, and of its job that the   *)
(* directories ahead have no header (NoneAhead, NotYet), that what it    *)
(* has written is its artifact's (Wrote), and that what the script has   *)
(* read and converted is too (Converted).  The second part is of runs    *)
(* that find anything in the directories: OnlyRun says of what is done   *)
(* that it is there, whatever was there before, up to the report of      *)
(* success.  The last part is what a reader sees of a first run:         *)
(* Unpatched says which headers are still the compiler's, and the run    *)
(* implements PublishedBundles.                                          *)
(*************************************************************************)
EXTENDS CompileShadersProofs

\* The stages of a program are of different kinds.
OwnFiles ==
  \A m \in Manifests : \A v \in DOMAIN m : \A i, k \in DOMAIN m[v].stages :
    m[v].stages[i].kind = m[v].stages[k].kind => i = k

\* h is the header of a, perhaps with names of WGSL files that naga wrote.
HeaderFor(h, a) ==
  /\ DOMAIN h = {"name", "stages"} /\ h.name = a.name
  /\ DOMAIN h.stages = DOMAIN a.stages /\ Len(h.stages) = Len(a.stages)
  /\ \A i \in DOMAIN a.stages :
       LET f == h.stages[i] IN
       /\ {"stage", "spirv_file", "msl_file", "wgsl_file"} \subseteq DOMAIN f
       /\ f.stage = a.stages[i].kind
       /\ f.spirv_file = StageFile(a, a.stages[i], "spv")
       /\ f.msl_file = TargetFile(a, a.stages[i], "eMSL", "msl")
       /\ f.wgsl_file \in {NoFile, StageFile(a, a.stages[i], "wgsl")}

\* All that h names is in d, and is that of a.
Whole(d, h, a) ==
  /\ HeaderFor(h, a)
  /\ \A i \in DOMAIN a.stages : \A file \in NamedFiles(h.stages[i]) :
       file \in DOMAIN d /\ d[file] = a.stages[i].spirv
  /\ ReflectionFile \in DOMAIN d /\ d[ReflectionFile] = ReflectionOf(a)

\* A directory without a header that can be read, or with the whole bundle.
Good(d, v, m) ==
  HeaderFile \in DOMAIN d =>
    d[HeaderFile] = Truncated \/ (v \in DOMAIN m /\ Whole(d, d[HeaderFile], m[v]))

NoHeaderIn(d) == HeaderFile \in DOMAIN d => d[HeaderFile] = Truncated

\* The position of the header among the writes.
HeaderStep(j) == 3 * Len(Artifact(j).stages) + 2

AllGood(j) == \A v \in Variant : Good(dirs[v], v, manifest[j])

NoneAhead(j) ==
  pc[j] \in {"build", "open", "write", "written"} =>
    \A v \in Variant : v > variant[j] => NoHeaderIn(dirs[v])

NotYet(j) == pc[j] \in {"build", "open", "write"} /\ step[j] <= HeaderStep(j) => NoHeaderIn(Dir(j))

Wrote(j) ==
  pc[j] \in {"open", "write"} =>
    \A p \in 1 .. step[j] - 1 :
      LET w == Writes(Artifact(j))[p]
      IN  Required(w.file) /\ w.file # NoFile => w.file \in DOMAIN Dir(j) /\ Dir(j)[w.file] = w.content

Converted(j) ==
  LET a == Artifact(j) IN
  /\ pc[j] \in {"convert", "patch", "patching"} =>
       /\ Whole(Dir(j), parsed[j], a)
       /\ \A k \in DOMAIN wgsl_map[j] :
            /\ k \in DOMAIN a.stages /\ wgsl_map[j][k] = StageFile(a, a.stages[k], "wgsl")
            /\ wgsl_map[j][k] \in DOMAIN Dir(j) /\ Dir(j)[wgsl_map[j][k]] = a.stages[k].spirv
  /\ pc[j] = "convert" =>
       /\ HeaderFile \in DOMAIN Dir(j) /\ Dir(j)[HeaderFile] = parsed[j]
       /\ missing[j] = StagesWithoutWgsl(parsed[j])
  /\ pc[j] = "parse" => missing[j] = BundleMissingWgsl(Dir(j))

FirstRun(j) == AllGood(j) /\ NoneAhead(j) /\ NotYet(j) /\ Wrote(j) /\ Converted(j)

Alone(j) == \A k \in Job \ {j} : pc[k] = "idle"

FInv ==
  /\ runs \in Nat
  /\ runs = 0 => (\A j \in Job : pc[j] = "idle") /\ (\A v \in Variant : HeaderFile \notin DOMAIN dirs[v])
  /\ runs = 1 => \E j \in Job : Alone(j) /\ FirstRun(j)
------------------------------------------------------------------------------
\* The files of stages of different kinds, or of different targets, differ.
LEMMA SameName ==
  ASSUME NEW a, NEW s, NEW t, NEW e, NEW f, StageFile(a, s, e) = StageFile(a, t, f)
  PROVE  s.kind = t.kind /\ e = f
BY DEF StageFile

\* naga's output has the name that the compiler gives to a stage's WGSL.
LEMMA WgslOf ==
  ASSUME NEW a, NEW s
  PROVE  WgslName(StageFile(a, s, "spv")) = StageFile(a, s, "wgsl")
BY DEF WgslName, StageFile

Ext(p) == <<"spv", "msl", "wgsl">>[1 + ((p + 2) % 3)]
StageAt(p) == (p + 2) \div 3

\* The file of a write tells its stage and its target ...
LEMMA StageWriteFile ==
  ASSUME NEW a, Len(a.stages) \in Nat, DOMAIN a.stages = 1 .. Len(a.stages),
         NEW p \in 1 .. 3 * Len(a.stages), StageWrite(a, p).file # NoFile
  PROVE  StageAt(p) \in DOMAIN a.stages /\ StageWrite(a, p).file = StageFile(a, a.stages[StageAt(p)], Ext(p))
<1> DEFINE i == StageAt(p)
<1>1. /\ i \in DOMAIN a.stages
      /\ \/ p = 3 * i - 2 /\ 1 + ((p + 2) % 3) = 1
         \/ p = 3 * i - 1 /\ 1 + ((p + 2) % 3) = 2
         \/ p = 3 * i /\ 1 + ((p + 2) % 3) = 3
  BY DEF StageAt
<1> HIDE DEF i
<1>2. CASE p = 3 * i - 2 /\ 1 + ((p + 2) % 3) = 1
  <2>1. StageWrite(a, p) = WriteOf(StageFiles(a, a.stages[i]).spirv_file, a.stages[i].spirv)
    BY <1>1, <1>2, StageWriteAt
  <2>2. Ext(p) = "spv"
    <3>1. <<"spv", "msl", "wgsl">>[1] = "spv"
      OBVIOUS
    <3> QED
      BY <1>2, <3>1, Zenon DEF Ext
  <2> QED
    BY <1>1, <2>1, <2>2 DEF WriteOf, StageFiles, i
<1>3. CASE p = 3 * i - 1 /\ 1 + ((p + 2) % 3) = 2
  <2>1. StageWrite(a, p) = WriteOf(StageFiles(a, a.stages[i]).msl_file, a.stages[i].spirv)
    BY <1>1, <1>3, StageWriteAt
  <2>2. Ext(p) = "msl"
    <3>1. <<"spv", "msl", "wgsl">>[2] = "msl"
      OBVIOUS
    <3> QED
      BY <1>3, <3>1, Zenon DEF Ext
  <2> QED
    BY <1>1, <2>1, <2>2 DEF WriteOf, StageFiles, TargetFile, i
<1>4. CASE p = 3 * i /\ 1 + ((p + 2) % 3) = 3
  <2>1. StageWrite(a, p) = WriteOf(StageFiles(a, a.stages[i]).wgsl_file, a.stages[i].spirv)
    BY <1>1, <1>4, StageWriteAt
  <2>2. Ext(p) = "wgsl"
    <3>1. <<"spv", "msl", "wgsl">>[3] = "wgsl"
      OBVIOUS
    <3> QED
      BY <1>4, <3>1, Zenon DEF Ext
  <2> QED
    BY <1>1, <2>1, <2>2 DEF WriteOf, StageFiles, TargetFile, i
<1> QED
  BY <1>1, <1>2, <1>3, <1>4

\* ... which tell the position of the write.
LEMMA SamePlace ==
  ASSUME NEW p \in Nat, NEW q \in Nat, p >= 1, q >= 1, StageAt(p) = StageAt(q), Ext(p) = Ext(q)
  PROVE  p = q
<1>1. (p + 2) % 3 \in 0 .. 2 /\ (q + 2) % 3 \in 0 .. 2
  OBVIOUS
<1>2. (p + 2) % 3 = (q + 2) % 3
  <2> DEFINE x == (p + 2) % 3
             y == (q + 2) % 3
  <2>1. <<"spv", "msl", "wgsl">>[1 + x] = <<"spv", "msl", "wgsl">>[1 + y]
    BY DEF Ext
  <2>2. x \in {0, 1, 2} /\ y \in {0, 1, 2}
    BY <1>1
  <2> HIDE DEF x, y
  <2>3. x = y
    BY <2>1, <2>2
  <2> QED
    BY <2>3 DEF x, y
<1>3. p + 2 = 3 * ((p + 2) \div 3) + ((p + 2) % 3) /\ q + 2 = 3 * ((q + 2) \div 3) + ((q + 2) % 3)
  OBVIOUS
<1> QED
  BY <1>2, <1>3 DEF StageAt

\* No file that a header needs is written twice.
LEMMA WrittenOnce ==
  ASSUME NEW a, Len(a.stages) \in Nat, DOMAIN a.stages = 1 .. Len(a.stages),
         \A i, k \in DOMAIN a.stages : a.stages[i].kind = a.stages[k].kind => i = k,
         NEW p \in DOMAIN Writes(a), NEW q \in 1 .. p - 1,
         Required(Writes(a)[q].file), Writes(a)[q].file # NoFile
  PROVE  Writes(a)[p].file # Writes(a)[q].file
<1> DEFINE n == 3 * Len(a.stages)
<1>1. /\ n \in Nat
      /\ Len(Writes(a)) = n + 4
      /\ DOMAIN Writes(a) = 1 .. n + 4
      /\ \A r \in 1 .. n : Writes(a)[r] = StageWrite(a, r)
      /\ Writes(a)[n + 1] = WriteOf(ReflectionFile, ReflectionOf(a))
      /\ Writes(a)[n + 2] = WriteOf(HeaderFile, HeaderOf(a))
      /\ Writes(a)[n + 3].file \in JsonFiles
      /\ Writes(a)[n + 4].file \in JsonFiles
  BY WritesShape
<1> SUFFICES ASSUME Writes(a)[p].file = Writes(a)[q].file PROVE FALSE
  OBVIOUS
<1>0. n = 3 * Len(a.stages)
  OBVIOUS
<1>00. p \in 1 .. n + 4 /\ q \in Nat /\ q >= 1 /\ q < p
  BY <1>1
<1> HIDE DEF n
<1>2. ~(p = n + 3 \/ p = n + 4)
  BY <1>1 DEF Required
<1>3. q \in 1 .. n \/ q = n + 1
  BY <1>00, <1>1, <1>2
<1>4. HeaderFile # ReflectionFile
  BY FileNames
<1>5. CASE q = n + 1
  <2>1. p = n + 2
    BY <1>00, <1>1, <1>2, <1>5
  <2> QED
    BY <1>1, <1>4, <1>5, <2>1 DEF WriteOf
<1>6. CASE q \in 1 .. n
  <2>1. StageAt(q) \in DOMAIN a.stages /\ Writes(a)[q].file = StageFile(a, a.stages[StageAt(q)], Ext(q))
    BY <1>0, <1>1, <1>6, StageWriteFile
  <2>2. Writes(a)[q].file # ReflectionFile /\ Writes(a)[q].file # HeaderFile
    BY <2>1, FileNames
  <2>3. CASE p = n + 1
    BY <1>1, <2>2, <2>3 DEF WriteOf
  <2>4. CASE p = n + 2
    BY <1>1, <2>2, <2>4 DEF WriteOf
  <2>5. CASE p \in 1 .. n
    <3>1. StageAt(p) \in DOMAIN a.stages /\ Writes(a)[p].file = StageFile(a, a.stages[StageAt(p)], Ext(p))
      BY <1>0, <1>1, <2>5, StageWriteFile
    <3>2. a.stages[StageAt(p)].kind = a.stages[StageAt(q)].kind /\ Ext(p) = Ext(q)
      BY <2>1, <3>1, SameName
    <3>3. StageAt(p) = StageAt(q)
      BY <2>1, <3>1, <3>2
    <3>4. p \in Nat /\ p >= 1
      BY <1>1, <2>5
    <3>5. p = q
      BY <1>00, <3>2, <3>3, <3>4, SamePlace
    <3> QED
      BY <1>00, <3>5
  <2>6. p \in 1 .. n \/ p = n + 1 \/ p = n + 2
    BY <1>00, <1>1, <1>2
  <2> QED
    BY <2>3, <2>4, <2>5, <2>6
<1> QED
  BY <1>3, <1>5, <1>6
------------------------------------------------------------------------------
\* A header names files of its stages only.
LEMMA HeaderNames ==
  ASSUME NEW h, NEW a, HeaderFor(h, a), NEW i \in DOMAIN a.stages, NEW f \in NamedFiles(h.stages[i])
  PROVE  /\ f \in {StageFile(a, a.stages[i], "spv"), StageFile(a, a.stages[i], "msl"), StageFile(a, a.stages[i], "wgsl")}
         /\ f # HeaderFile /\ f # ReflectionFile /\ f \notin JsonFiles
<1>1. f \in {StageFile(a, a.stages[i], "spv"), StageFile(a, a.stages[i], "msl"), StageFile(a, a.stages[i], "wgsl")}
  BY DEF HeaderFor, NamedFiles, TargetFile
<1> QED
  BY <1>1, FileNames

\* A bundle stays whole when a file that it does not need changes.
LEMMA WholeKept ==
  ASSUME NEW d, NEW e, NEW h, NEW a, NEW file, Whole(d, h, a), file # ReflectionFile,
         \A f \in DOMAIN d : f # file => f \in DOMAIN e /\ e[f] = d[f],
         \A i \in DOMAIN a.stages : file \in NamedFiles(h.stages[i]) =>
           file \in DOMAIN e /\ e[file] = a.stages[i].spirv
  PROVE  Whole(e, h, a)
<1>1. ASSUME NEW i \in DOMAIN a.stages, NEW f \in NamedFiles(h.stages[i])
      PROVE  f \in DOMAIN e /\ e[f] = a.stages[i].spirv
  BY DEF Whole
<1>2. ReflectionFile \in DOMAIN e /\ e[ReflectionFile] = ReflectionOf(a)
  BY DEF Whole
<1> QED
  BY <1>1, <1>2 DEF Whole

\* A bundle stays whole when its header gets the names of naga's files.
LEMMA PatchedWhole ==
  ASSUME NEW d, NEW h, NEW a, NEW map, Whole(d, h, a),
         Len(a.stages) \in Nat, DOMAIN a.stages = 1 .. Len(a.stages),
         \A k \in DOMAIN map :
           /\ map[k] = StageFile(a, a.stages[k], "wgsl")
           /\ map[k] \in DOMAIN d /\ d[map[k]] = a.stages[k].spirv
  PROVE  Whole(d, Patched(h, map), a)
<1> DEFINE one(i) == IF i \in DOMAIN map THEN [h.stages[i] EXCEPT !.wgsl_file = map[i]] ELSE h.stages[i]
           stages == [i \in DOMAIN h.stages |-> one(i)]
           g == Patched(h, map)
<1>1. g = [h EXCEPT !.stages = stages]
  BY DEF Patched
<1>2. DOMAIN h = {"name", "stages"} /\ h.name = a.name /\ DOMAIN h.stages = DOMAIN a.stages
  BY DEF Whole, HeaderFor
<1>3. DOMAIN g = {"name", "stages"} /\ g.name = a.name /\ g.stages = stages /\ DOMAIN g.stages = DOMAIN a.stages
      /\ Len(g.stages) = Len(a.stages)
  BY <1>1, <1>2
<1>4. ASSUME NEW i \in DOMAIN a.stages
      PROVE  /\ {"stage", "spirv_file", "msl_file", "wgsl_file"} \subseteq DOMAIN one(i)
             /\ one(i).stage = h.stages[i].stage
             /\ one(i).spirv_file = h.stages[i].spirv_file
             /\ one(i).msl_file = h.stages[i].msl_file
             /\ one(i).wgsl_file = h.stages[i].wgsl_file \/ (i \in DOMAIN map /\ one(i).wgsl_file = map[i])
  BY DEF Whole, HeaderFor
<1>5. \A i \in DOMAIN a.stages : g.stages[i] = one(i)
  BY <1>2, <1>3
<1> HIDE DEF one, stages, g
<1>6. HeaderFor(g, a)
  BY <1>3, <1>4, <1>5 DEF Whole, HeaderFor
<1>7. ASSUME NEW i \in DOMAIN a.stages, NEW f \in NamedFiles(g.stages[i])
      PROVE  f \in DOMAIN d /\ d[f] = a.stages[i].spirv
  <2>1. f \in NamedFiles(h.stages[i]) \/ (i \in DOMAIN map /\ f = map[i])
    BY <1>4, <1>5 DEF NamedFiles
  <2> QED
    BY <2>1 DEF Whole
<1> QED
  BY <1>6, <1>7 DEF Whole, g

\* After a failure only the directories matter.
LEMMA FailFirst ==
  ASSUME IInv, NEW j \in Job, Fail(j), AllGood(j)'
  PROVE  FirstRun(j)'
<1>1. pc'[j] = "failed"
  BY DEF Fail, Goto, IInv, Shape
<1> QED
  BY <1>1 DEF FirstRun, NoneAhead, NotYet, Wrote, Converted

\* A failure that leaves the directories alone keeps the invariant.
LEMMA FailStaysFirst ==
  ASSUME IInv, NEW j \in Job, Fail(j), UNCHANGED dirs, FirstRun(j)
  PROVE  FirstRun(j)'
<1>1. AllGood(j)'
  BY DEF Fail, job, FirstRun, AllGood, Variant
<1> QED
  BY <1>1, FailFirst

\* So does going on to the next bundle.
LEMMA NextBundleFirst ==
  ASSUME IInv, NEW j \in Job, NextBundle(j), AllGood(j)'
  PROVE  FirstRun(j)'
<1>1. pc'[j] \in {"naga", "done"}
  BY DEF NextBundle, Goto, IInv, Shape
<1> QED
  BY <1>1 DEF FirstRun, NoneAhead, NotYet, Wrote, Converted

\* What has been written grows by the write that is done.
LEMMA AdvanceFirst ==
  ASSUME IInv, NEW j \in Job, Advance(j), pc[j] \in {"open", "write"},
         UNCHANGED <<manifest, variant>>, AllGood(j)',
         \A v \in Variant : v > variant[j] => NoHeaderIn(dirs'[v]),
         step[j] < HeaderStep(j) => NoHeaderIn(dirs'[variant[j]]),
         \A p \in 1 .. step[j] :
           LET w == Writes(Artifact(j))[p]
           IN  Required(w.file) /\ w.file # NoFile =>
                 w.file \in DOMAIN dirs'[variant[j]] /\ dirs'[variant[j]][w.file] = w.content
  PROVE  FirstRun(j)'
<1>1. /\ Artifact(j)' = Artifact(j) /\ Dir(j)' = dirs'[variant[j]] /\ HeaderStep(j)' = HeaderStep(j)
      /\ variant'[j] = variant[j]
  BY DEF Artifact, Dir, HeaderStep
<1>2. step[j] \in Nat /\ HeaderStep(j) \in Nat
  BY Steps, Variants DEF IInv, HeaderStep
<1>3. NoneAhead(j)'
  <2>1. \A v \in Variant' : v > variant'[j] => NoHeaderIn(dirs'[v])
    BY <1>1 DEF Variant
  <2> QED
    BY <2>1 DEF NoneAhead, NoHeaderIn
<1>4. CASE step[j] < Len(Writes(Artifact(j)))
  <2>1. step'[j] = step[j] + 1 /\ pc'[j] = "open"
    BY <1>4 DEF Advance, Goto, IInv, Shape
  <2>2. NotYet(j)'
    BY <1>1, <1>2, <2>1 DEF NotYet, NoHeaderIn
  <2>3. Wrote(j)'
    BY <1>1, <1>2, <2>1 DEF Wrote
  <2> QED
    BY <1>3, <2>1, <2>2, <2>3 DEF FirstRun, Converted
<1>5. CASE ~(step[j] < Len(Writes(Artifact(j))))
  <2>1. pc'[j] = "written"
    BY <1>5 DEF Advance, Goto, IInv, Shape
  <2> QED
    BY <1>3, <2>1 DEF FirstRun, NotYet, Wrote, Converted
<1> QED
  BY <1>4, <1>5

\* Where the write in progress is, and what it is to.
LEMMA Place ==
  ASSUME IInv, NEW j \in Job, Write(j).file # NoFile
  PROVE  /\ step[j] \in Nat /\ HeaderStep(j) \in Nat
         /\ Write(j).file = HeaderFile => step[j] = HeaderStep(j) /\ Write(j).content = HeaderOf(Artifact(j))
         /\ step[j] > HeaderStep(j) => Write(j).file \in JsonFiles
         /\ step[j] < HeaderStep(j) => Write(j).file # HeaderFile
<1> DEFINE a == Artifact(j)
           n == 3 * Len(a.stages)
<1>1. /\ Len(a.stages) \in Nat /\ DOMAIN a.stages = 1 .. Len(a.stages)
      /\ step[j] \in DOMAIN Writes(a)
  BY Variants DEF IInv, Shape
<1>2. Write(j) = Writes(a)[step[j]] /\ HeaderStep(j) = n + 2
  BY DEF Write, HeaderStep
<1> HIDE DEF a
<1>3. /\ DOMAIN Writes(a) = 1 .. n + 4
      /\ Writes(a)[n + 3].file \in JsonFiles /\ Writes(a)[n + 4].file \in JsonFiles
  BY <1>1, WritesShape
<1>4. step[j] \in Nat /\ n \in Nat /\ step[j] <= n + 4
  BY <1>1, <1>3
<1>5. ASSUME step[j] > n + 2
      PROVE  Write(j).file \in JsonFiles
  <2>1. step[j] = n + 3 \/ step[j] = n + 4
    BY <1>4, <1>5
  <2> QED
    BY <1>2, <1>3, <2>1
<1>6. Write(j).file = HeaderFile => step[j] = n + 2 /\ Write(j).content = HeaderOf(a)
  BY <1>1, <1>2, HeaderWrite
<1> QED
  BY <1>2, <1>4, <1>5, <1>6 DEF a

\* A write leaves what was written before it.
LEMMA WrotePut ==
  ASSUME IInv, NEW j \in Job, OwnFiles, Wrote(j), pc[j] \in {"open", "write"},
         NEW content, Put(j, Write(j).file, content), Write(j).file # NoFile
  PROVE  \A p \in 1 .. step[j] - 1 :
           LET w == Writes(Artifact(j))[p]
           IN  Required(w.file) /\ w.file # NoFile =>
                 w.file \in DOMAIN dirs'[variant[j]] /\ dirs'[variant[j]][w.file] = w.content
<1> DEFINE a == Artifact(j)
           d == Dir(j)
           e == dirs'[variant[j]]
           file == Write(j).file
<1>1. \A f \in DOMAIN d : f # file => f \in DOMAIN e /\ e[f] = d[f]
  <2> HIDE DEF file
  <2>1. Shape /\ variant[j] \in Variant /\ Put(j, file, content)
    BY Variants DEF IInv, file
  <2> QED
    BY <2>1, PutGrows DEF Grows, Dir
<1>2. /\ Len(a.stages) \in Nat /\ DOMAIN a.stages = 1 .. Len(a.stages) /\ step[j] \in DOMAIN Writes(a)
      /\ \A i, k \in DOMAIN a.stages : a.stages[i].kind = a.stages[k].kind => i = k
  BY Variants DEF IInv, Shape, OwnFiles, Artifact
<1> SUFFICES ASSUME NEW p \in 1 .. step[j] - 1, Required(Writes(a)[p].file), Writes(a)[p].file # NoFile
             PROVE  Writes(a)[p].file \in DOMAIN e /\ e[Writes(a)[p].file] = Writes(a)[p].content
  OBVIOUS
<1>3. Writes(a)[p].file \in DOMAIN d /\ d[Writes(a)[p].file] = Writes(a)[p].content
  BY DEF Wrote
<1>4. file = Writes(a)[step[j]].file
  BY DEF Write
<1> HIDE DEF a, d, e, file
<1>5. file # Writes(a)[p].file
  BY <1>2, <1>4, WrittenOnce
<1> QED
  BY <1>1, <1>3, <1>5

\* What has been written grows by the write that is done ...
LEMMA WroteFile ==
  ASSUME IInv, NEW j \in Job, OwnFiles, Wrote(j), WriteFile(j)
  PROVE  \A p \in 1 .. step[j] :
           LET w == Writes(Artifact(j))[p]
           IN  Required(w.file) /\ w.file # NoFile =>
                 w.file \in DOMAIN dirs'[variant[j]] /\ dirs'[variant[j]][w.file] = w.content
<1> DEFINE a == Artifact(j)
           e == dirs'[variant[j]]
           w == Write(j)
<1>1. /\ pc[j] = "write" /\ Put(j, Write(j).file, Write(j).content)
      /\ Write(j).file # NoFile /\ step[j] \in Nat /\ step[j] >= 1
  BY Steps DEF WriteFile, IInv, JobInv, OpenIn
<1>2. \A p \in 1 .. step[j] - 1 :
        Required(Writes(a)[p].file) /\ Writes(a)[p].file # NoFile =>
          Writes(a)[p].file \in DOMAIN e /\ e[Writes(a)[p].file] = Writes(a)[p].content
  BY <1>1, WrotePut
<1>3. w.file \in DOMAIN e /\ e[w.file] = w.content /\ Writes(a)[step[j]] = w
  <2> HIDE DEF w
  <2>1. Shape /\ Put(j, w.file, w.content)
    BY <1>1 DEF IInv, w
  <2> QED
    BY <2>1, PutGrows DEF Write, w
<1> HIDE DEF a, w, e
<1>4. \A p \in 1 .. step[j] : p = step[j] \/ p \in 1 .. step[j] - 1
  BY <1>1
<1>5. \A p \in 1 .. step[j] :
        Required(Writes(a)[p].file) /\ Writes(a)[p].file # NoFile =>
          Writes(a)[p].file \in DOMAIN e /\ e[Writes(a)[p].file] = Writes(a)[p].content
  BY <1>2, <1>3, <1>4
<1> QED
  BY <1>5 DEF a, e

\* ... or left out: the stage has no source for it, or its absence is ignored.
LEMMA WroteNone ==
  ASSUME IInv, NEW j \in Job, Wrote(j), pc[j] = "open", UNCHANGED dirs,
         Write(j).file = NoFile \/ ~Required(Write(j).file)
  PROVE  \A p \in 1 .. step[j] :
           LET w == Writes(Artifact(j))[p]
           IN  Required(w.file) /\ w.file # NoFile =>
                 w.file \in DOMAIN dirs'[variant[j]] /\ dirs'[variant[j]][w.file] = w.content
<1> SUFFICES ASSUME NEW p \in 1 .. step[j], Required(Writes(Artifact(j))[p].file),
                    Writes(Artifact(j))[p].file # NoFile
             PROVE  LET w == Writes(Artifact(j))[p]
                    IN  w.file \in DOMAIN dirs[variant[j]] /\ dirs[variant[j]][w.file] = w.content
  OBVIOUS
<1>1. step[j] \in Nat /\ p # step[j]
  BY Steps DEF IInv, Write
<1>2. p \in 1 .. step[j] - 1
  BY <1>1
<1> QED
  BY <1>2 DEF Wrote, Dir

\* A file of the bundle that is being written for the first time is put.
LEMMA PutFirst ==
  ASSUME IInv, NEW j \in Job, OwnFiles, FirstRun(j), pc[j] \in {"open", "write"},
         NEW content, Put(j, Write(j).file, content), Write(j).file # NoFile, UNCHANGED manifest,
         Write(j).file = HeaderFile =>
           content = Truncated \/ Whole(dirs'[variant[j]], content, Artifact(j))
  PROVE  /\ AllGood(j)'
         /\ \A v \in Variant : v > variant[j] => NoHeaderIn(dirs'[v])
         /\ step[j] < HeaderStep(j) \/ (step[j] = HeaderStep(j) /\ content = Truncated) =>
              NoHeaderIn(dirs'[variant[j]])
         /\ \A p \in 1 .. step[j] - 1 :
              LET w == Writes(Artifact(j))[p]
              IN  Required(w.file) /\ w.file # NoFile =>
                    w.file \in DOMAIN dirs'[variant[j]] /\ dirs'[variant[j]][w.file] = w.content
<1> DEFINE a == Artifact(j)
           d == Dir(j)
           e == dirs'[variant[j]]
           file == Write(j).file
<1>1. /\ variant[j] \in Variant /\ variant[j] \in Nat
      /\ file \in DOMAIN e /\ e[file] = content
      /\ \A v \in Variant : v # variant[j] => dirs'[v] = dirs[v]
      /\ \A f \in DOMAIN e : f = file \/ (f \in DOMAIN d /\ e[f] = d[f])
      /\ DOMAIN d \subseteq DOMAIN e
  <2>1. variant[j] \in Variant /\ variant[j] \in Nat
    BY Variants DEF IInv
  <2> HIDE DEF file
  <2>2. Shape
    BY DEF IInv
  <2>3. Put(j, file, content)
    BY DEF file
  <2> QED
    BY <2>1, <2>2, <2>3, PutGrows DEF Grows, Dir
<1>2. \A f \in DOMAIN d : f # file => f \in DOMAIN e /\ e[f] = d[f]
  BY <1>1
<1>3. /\ Len(a.stages) \in Nat /\ DOMAIN a.stages = 1 .. Len(a.stages)
      /\ step[j] \in DOMAIN Writes(a) /\ step[j] \in Nat /\ HeaderStep(j) \in Nat
      /\ \A i, k \in DOMAIN a.stages : a.stages[i].kind = a.stages[k].kind => i = k
      /\ variant[j] \in DOMAIN manifest[j] /\ a = manifest[j][variant[j]]
  BY Variants, Place DEF IInv, Shape, OwnFiles, Artifact
<1>4. file = Writes(a)[step[j]].file /\ file # NoFile
  BY DEF Write
<1>5. /\ file = HeaderFile => step[j] = HeaderStep(j)
      /\ step[j] > HeaderStep(j) => file \in JsonFiles
  BY Place
<1>6. Good(e, variant[j], manifest[j])
  <2> HIDE DEF a, d, e, file
  <2> SUFFICES ASSUME HeaderFile \in DOMAIN e, e[HeaderFile] # Truncated
               PROVE  Whole(e, e[HeaderFile], a)
    BY <1>3 DEF Good
  <2>1. CASE file = HeaderFile
    BY <1>1, <2>1 DEF file, e, a
  <2>2. CASE file # HeaderFile
    <3>1. HeaderFile \in DOMAIN d /\ e[HeaderFile] = d[HeaderFile]
      BY <1>1, <2>2
    <3>2. Whole(d, d[HeaderFile], a)
      BY <1>1, <1>3, <3>1 DEF FirstRun, AllGood, Good, d, Dir
    <3>3. ~(step[j] <= HeaderStep(j))
      BY <3>1 DEF FirstRun, NotYet, NoHeaderIn, d
    <3>4. file \in JsonFiles
      BY <1>3, <1>5, <3>3
    <3>5. file # ReflectionFile
      BY <3>4, FileNames
    <3>6. \A i \in DOMAIN a.stages : file \notin NamedFiles(d[HeaderFile].stages[i])
      BY <3>2, <3>4, HeaderNames DEF Whole
    <3> QED
      BY <1>2, <3>1, <3>2, <3>5, <3>6, WholeKept
  <2> QED
    BY <2>1, <2>2
<1>7. AllGood(j)'
  <2>1. ASSUME NEW v \in Variant PROVE Good(dirs'[v], v, manifest[j])
    <3>1. CASE v = variant[j]
      BY <1>6, <3>1
    <3>2. CASE v # variant[j]
      BY <1>1, <3>2 DEF FirstRun, AllGood
    <3> QED
      BY <3>1, <3>2
  <2> QED
    BY <2>1 DEF AllGood, Good, Variant
<1>8. \A v \in Variant : v > variant[j] => NoHeaderIn(dirs'[v])
  BY <1>1 DEF FirstRun, NoneAhead
<1>9. ASSUME step[j] < HeaderStep(j) \/ (step[j] = HeaderStep(j) /\ content = Truncated)
      PROVE  NoHeaderIn(e)
  <2>1. NoHeaderIn(d)
    BY <1>3, <1>9 DEF FirstRun, NotYet
  <2>2. file = HeaderFile => content = Truncated
    BY <1>3, <1>5, <1>9
  <2> HIDE DEF d, e, file
  <2> QED
    BY <1>1, <2>1, <2>2 DEF NoHeaderIn
<1> QED
  BY <1>7, <1>8, <1>9, WrotePut DEF FirstRun

\* A file is truncated: none that the header needs, which is not there yet or was written before.
LEMMA OpenFirst ==
  ASSUME IInv, NEW j \in Job, OwnFiles, FirstRun(j), OpenFile(j)
  PROVE  FirstRun(j)'
<1>1. /\ pc[j] = "open" /\ Write(j).file # NoFile /\ Put(j, Write(j).file, Truncated)
      /\ Goto(j, "write") /\ UNCHANGED job
  BY DEF OpenFile
<1>2. /\ AllGood(j)'
      /\ \A v \in Variant : v > variant[j] => NoHeaderIn(dirs'[v])
      /\ step[j] < HeaderStep(j) \/ step[j] = HeaderStep(j) => NoHeaderIn(dirs'[variant[j]])
      /\ \A p \in 1 .. step[j] - 1 :
           LET w == Writes(Artifact(j))[p]
           IN  Required(w.file) /\ w.file # NoFile =>
                 w.file \in DOMAIN dirs'[variant[j]] /\ dirs'[variant[j]][w.file] = w.content
  BY <1>1, PutFirst DEF job
<1>3. /\ pc'[j] = "write" /\ step'[j] = step[j] /\ variant'[j] = variant[j]
      /\ Artifact(j)' = Artifact(j) /\ Dir(j)' = dirs'[variant[j]] /\ HeaderStep(j)' = HeaderStep(j)
  BY <1>1 DEF Goto, job, IInv, Shape, Artifact, Dir, HeaderStep
<1>4. NoneAhead(j)'
  BY <1>2, <1>3 DEF NoneAhead, NoHeaderIn, Variant
<1>5. NotYet(j)'
  <2>1. step[j] \in Nat /\ HeaderStep(j) \in Nat
    BY <1>1, Place
  <2>2. step[j] <= HeaderStep(j) => step[j] < HeaderStep(j) \/ step[j] = HeaderStep(j)
    BY <2>1
  <2> QED
    BY <1>2, <1>3, <2>2 DEF NotYet, NoHeaderIn
<1>6. Wrote(j)'
  BY <1>2, <1>3 DEF Wrote
<1> QED
  BY <1>2, <1>3, <1>4, <1>5, <1>6 DEF FirstRun, Converted

\* What is written of the header's artifact is all there.
LEMMA HeaderWhole ==
  ASSUME NEW a, Len(a.stages) \in Nat, DOMAIN a.stages = 1 .. Len(a.stages), NEW d,
         \A p \in 1 .. 3 * Len(a.stages) + 1 :
           LET w == Writes(a)[p]
           IN  Required(w.file) /\ w.file # NoFile => w.file \in DOMAIN d /\ d[w.file] = w.content
  PROVE  Whole(d, HeaderOf(a), a)
<1> DEFINE h == HeaderOf(a)
           n == 3 * Len(a.stages)
<1>1. /\ h.stages = [i \in DOMAIN a.stages |-> StageFiles(a, a.stages[i])]
      /\ DOMAIN h = {"name", "stages"} /\ h.name = a.name
  BY DEF HeaderOf
<1>2. HeaderFor(h, a)
  <2>1. Len(h.stages) = Len(a.stages)
    BY <1>1
  <2> QED
    BY <1>1, <2>1 DEF HeaderFor, StageFiles, TargetFile
<1>3. ASSUME NEW i \in DOMAIN a.stages, NEW f \in NamedFiles(h.stages[i])
      PROVE  f \in DOMAIN d /\ d[f] = a.stages[i].spirv
  <2>1. f \in NamedFiles(StageFiles(a, a.stages[i]))
    BY <1>1
  <2>2. f # NoFile /\ Required(f)
    BY <2>1, NamedWritten
  <2>3. PICK p \in 1 .. n : Writes(a)[p] = WriteOf(f, a.stages[i].spirv)
    BY <2>1, NamedWritten
  <2>4. p \in 1 .. n + 1 /\ Writes(a)[p].file = f /\ Writes(a)[p].content = a.stages[i].spirv
    BY <2>3 DEF WriteOf
  <2> QED
    BY <2>2, <2>4
<1>4. ReflectionFile \in DOMAIN d /\ d[ReflectionFile] = ReflectionOf(a)
  <2>1. Writes(a)[n + 1] = WriteOf(ReflectionFile, ReflectionOf(a))
    BY WritesShape
  <2>2. n + 1 \in 1 .. n + 1
    OBVIOUS
  <2>3. Required(ReflectionFile) /\ ReflectionFile # NoFile
    BY FileNames, NoFileAssumption DEF Required
  <2> HIDE DEF n
  <2>4. Writes(a)[n + 1].file = ReflectionFile /\ Writes(a)[n + 1].content = ReflectionOf(a)
    BY <2>1 DEF WriteOf
  <2> QED
    BY <2>2, <2>3, <2>4 DEF n
<1> QED
  BY <1>2, <1>3, <1>4 DEF Whole

\* A file is written; with the header the bundle is whole.
LEMMA WriteFirst ==
  ASSUME IInv, NEW j \in Job, OwnFiles, FirstRun(j), WriteFile(j)
  PROVE  FirstRun(j)'
<1> DEFINE a == Artifact(j)
           e == dirs'[variant[j]]
           w == Write(j)
<1>1. /\ pc[j] = "write" /\ Put(j, Write(j).file, Write(j).content) /\ Advance(j)
      /\ UNCHANGED <<manifest, variant, parsed, wgsl_map, runs>>
  BY DEF WriteFile
<1>2. Write(j).file # NoFile
  BY <1>1 DEF IInv, JobInv, OpenIn
<1>3. /\ Len(a.stages) \in Nat /\ DOMAIN a.stages = 1 .. Len(a.stages)
      /\ step[j] \in Nat /\ step[j] >= 1 /\ step[j] \in DOMAIN Writes(a) /\ HeaderStep(j) = 3 * Len(a.stages) + 2
  BY Variants, Steps DEF IInv, Shape, HeaderStep
<1>4. Wrote(j)
  BY DEF FirstRun
<1>5. \A p \in 1 .. step[j] - 1 :
        Required(Writes(a)[p].file) /\ Writes(a)[p].file # NoFile =>
          Writes(a)[p].file \in DOMAIN e /\ e[Writes(a)[p].file] = Writes(a)[p].content
  BY <1>1, <1>2, <1>4, WrotePut
<1>6. ASSUME w.file = HeaderFile
      PROVE  Whole(e, w.content, a)
  <2>1. step[j] = 3 * Len(a.stages) + 2 /\ w.content = HeaderOf(a)
    BY <1>2, <1>3, <1>6, Place
  <2>2. step[j] - 1 = 3 * Len(a.stages) + 1
    BY <1>3, <2>1
  <2> HIDE DEF a, w, e
  <2> QED
    BY <1>3, <1>5, <2>1, <2>2, HeaderWhole
<1>7. /\ AllGood(j)'
      /\ \A v \in Variant : v > variant[j] => NoHeaderIn(dirs'[v])
      /\ step[j] < HeaderStep(j) => NoHeaderIn(dirs'[variant[j]])
  BY <1>1, <1>2, <1>6, PutFirst
<1> QED
  BY <1>1, <1>4, <1>7, WroteFile, AdvanceFirst

\* A write fails in the middle.
LEMMA WriteFailsFirst ==
  ASSUME IInv, NEW j \in Job, OwnFiles, FirstRun(j), WriteFails(j)
  PROVE  FirstRun(j)'
<1>1. /\ pc[j] = "write" /\ Put(j, Write(j).file, Cut) /\ Write(j).file # HeaderFile
      /\ Fail(j) /\ UNCHANGED manifest
  BY DEF WriteFails, Large, Fail, job
<1>2. Write(j).file # NoFile
  BY <1>1 DEF IInv, JobInv, OpenIn
<1>3. AllGood(j)'
  BY <1>1, <1>2, PutFirst
<1> QED
  BY <1>1, <1>3, FailFirst

\* A file is not written: the stage has no source for it, or its absence is ignored.
LEMMA UnwrittenFirst ==
  ASSUME IInv, NEW j \in Job, FirstRun(j), pc[j] = "open", Advance(j),
         UNCHANGED <<dirs, manifest, variant>>, Write(j).file = NoFile \/ ~Required(Write(j).file)
  PROVE  FirstRun(j)'
<1>1. AllGood(j)' /\ \A v \in Variant : v > variant[j] => NoHeaderIn(dirs'[v])
  BY DEF FirstRun, AllGood, NoneAhead, NoHeaderIn, Good, Variant
<1>2. step[j] \in Nat /\ HeaderStep(j) \in Nat /\ step[j] >= 1
  BY Steps, Variants DEF IInv, HeaderStep
<1>3. step[j] < HeaderStep(j) => NoHeaderIn(dirs'[variant[j]])
  BY <1>2 DEF FirstRun, NotYet, NoHeaderIn, Dir
<1> QED
  BY <1>1, <1>3, WroteNone, AdvanceFirst DEF FirstRun

\* A variant is built, in whose directory there is no header.
LEMMA BuildFirst ==
  ASSUME IInv, NEW j \in Job, FirstRun(j), BuildVariant(j)
  PROVE  FirstRun(j)'
<1>1. /\ pc[j] = "build" /\ pc'[j] = "open" /\ UNCHANGED dirs /\ UNCHANGED <<manifest, variant, step>>
      /\ step[j] = 1
  BY DEF BuildVariant, Goto, job, IInv, Shape, JobInv, AtFirst
<1>2. AllGood(j)' /\ NoneAhead(j)'
  BY <1>1 DEF FirstRun, AllGood, NoneAhead, NoHeaderIn, Good, Variant
<1>3. NotYet(j)'
  BY <1>1 DEF FirstRun, NotYet, NoHeaderIn, Dir, HeaderStep, Artifact
<1>4. Wrote(j)' /\ Converted(j)'
  BY <1>1 DEF Wrote, Converted
<1> QED
  BY <1>2, <1>3, <1>4 DEF FirstRun

\* A bundle is complete, and the next directory has no header.
LEMMA BundleWrittenFirst ==
  ASSUME IInv, NEW j \in Job, FirstRun(j), BundleWritten(j)
  PROVE  FirstRun(j)'
<1>1. pc[j] = "written" /\ UNCHANGED <<dirs, manifest, parsed, wgsl_map, runs>>
  BY DEF BundleWritten
<1>2. AllGood(j)'
  BY <1>1 DEF FirstRun, AllGood, Good, Variant
<1>3. CASE variant[j] < Len(manifest[j])
  <2>1. pc'[j] = "build" /\ variant'[j] = variant[j] + 1
    BY <1>3 DEF BundleWritten, Goto, IInv, Shape
  <2>2. variant[j] \in Nat /\ \A v \in Variant : v \in Nat
    BY Variants, ManifestsAssumption DEF IInv, Variant
  <2>3. variant'[j] \in Variant
    BY <1>3, <2>1, <2>2, Variants DEF IInv, Variant
  <2>4. NoneAhead(j)'
    <3> SUFFICES ASSUME NEW v \in Variant, v > variant'[j] PROVE NoHeaderIn(dirs'[v])
      BY DEF NoneAhead, NoHeaderIn, Variant
    <3>1. v > variant[j]
      BY <2>1, <2>2
    <3> QED
      BY <1>1, <3>1 DEF FirstRun, NoneAhead, NoHeaderIn
  <2>5. NotYet(j)'
    <3>1. variant'[j] > variant[j]
      BY <2>1, <2>2
    <3>2. NoHeaderIn(dirs[variant'[j]])
      BY <1>1, <2>3, <3>1 DEF FirstRun, NoneAhead
    <3> QED
      BY <1>1, <3>2 DEF NotYet, NoHeaderIn, Dir
  <2> QED
    BY <1>2, <2>1, <2>4, <2>5 DEF FirstRun, Wrote, Converted
<1>4. CASE ~(variant[j] < Len(manifest[j]))
  <2>1. pc'[j] \in {"naga", "done"}
    BY <1>4 DEF BundleWritten, Goto, IInv, Shape
  <2> QED
    BY <1>2, <2>1 DEF FirstRun, NoneAhead, NotYet, Wrote, Converted
<1> QED
  BY <1>3, <1>4
------------------------------------------------------------------------------
\* What naga's loop and the patch read and write.

\* The header that the script reads is that of the whole bundle.
LEMMA ParsedWhole ==
  ASSUME IInv, NEW j \in Job, FirstRun(j), ParseHeader(Dir(j)) # Unreadable
  PROVE  /\ HeaderFile \in DOMAIN Dir(j) /\ ParseHeader(Dir(j)) = Dir(j)[HeaderFile]
         /\ Whole(Dir(j), ParseHeader(Dir(j)), Artifact(j))
<1>1. /\ HeaderFile \in DOMAIN Dir(j) /\ Dir(j)[HeaderFile] # Truncated
      /\ ParseHeader(Dir(j)) = Dir(j)[HeaderFile]
  BY DEF ParseHeader
<1>2. Good(Dir(j), variant[j], manifest[j])
  BY Variants DEF FirstRun, AllGood, Dir, IInv
<1> QED
  BY <1>1, <1>2 DEF Good, Artifact

\* After the compiler, only what Converted says can be disturbed.
LEMMA ScriptFirst ==
  ASSUME NEW j \in Job, pc'[j] \in {"convert", "patch", "patching"}, AllGood(j)', Converted(j)'
  PROVE  FirstRun(j)'
BY DEF FirstRun, NoneAhead, NotYet, Wrote

\* The script has read a header, to see which stages have no WGSL.
LEMMA NagaFindFirst ==
  ASSUME IInv, MissingIn, NEW j \in Job, FirstRun(j), NagaNeeded(j) \/ FindMissing(j)
  PROVE  FirstRun(j)' /\ Converted(j)'
<1>1. UNCHANGED <<dirs, manifest, variant>> /\ pc'[j] \in {"find", "parse"}
  BY DEF NagaNeeded, FindMissing, job, Goto, IInv, Shape
<1>2. pc'[j] = "parse" => missing'[j] = BundleMissingWgsl(Dir(j))
  BY DEF NagaNeeded, FindMissing, Goto, MissingIn, IInv, Shape
<1>3. Dir(j)' = Dir(j) /\ AllGood(j)'
  BY <1>1 DEF Dir, FirstRun, AllGood, Good, Variant
<1>4. Converted(j)'
  BY <1>1, <1>2, <1>3 DEF Converted
<1> QED
  BY <1>1, <1>3, <1>4 DEF FirstRun, NoneAhead, NotYet, Wrote

\* The script has read a header, for its stages.
LEMMA NagaStartFirst ==
  ASSUME IInv, NEW j \in Job, FirstRun(j), NagaStart(j)
  PROVE  FirstRun(j)'
<1>1. ParseHeader(Dir(j)) # Unreadable /\ missing'[j] = StagesWithoutWgsl(ParseHeader(Dir(j)))
  BY DEF NagaStart, FirstRun, Converted, BundleMissingWgsl
<1>2. /\ pc'[j] = "convert" /\ UNCHANGED <<dirs, manifest, variant>>
      /\ parsed'[j] = ParseHeader(Dir(j)) /\ wgsl_map'[j] = <<>>
  BY DEF NagaStart, Goto, IInv, Shape
<1>3. Artifact(j)' = Artifact(j) /\ Dir(j)' = Dir(j)
  BY <1>2 DEF Artifact, Dir
<1>4. AllGood(j)'
  BY <1>2 DEF FirstRun, AllGood, Good, Variant
<1>5. Converted(j)'
  BY <1>1, <1>2, <1>3, ParsedWhole DEF Converted
<1> QED
  BY <1>2, <1>4, <1>5, ScriptFirst

\* A change of one file of the job's directory leaves the others whole.
LEMMA GoodPut ==
  ASSUME IInv, NEW j \in Job, AllGood(j), NEW file, NEW content, Put(j, file, content),
         UNCHANGED manifest, Good(dirs'[variant[j]], variant[j], manifest[j])
  PROVE  AllGood(j)'
<1>1. ASSUME NEW v \in Variant PROVE Good(dirs'[v], v, manifest[j])
  <2>1. CASE v = variant[j]
    BY <2>1
  <2>2. CASE v # variant[j]
    <3>1. dirs'[v] = dirs[v]
      BY <2>2, PutGrows DEF IInv
    <3> QED
      BY <3>1 DEF AllGood
  <2> QED
    BY <2>1, <2>2
<1> QED
  BY <1>1 DEF AllGood, Good, Variant

\* naga has translated the SPIR-V of a stage, which is still that of the bundle.
LEMMA ConvertKept ==
  ASSUME IInv, NEW j \in Job, OwnFiles, Converted(j), Convert(j)
  PROVE  /\ pc[j] = "convert" /\ pc'[j] = "convert" /\ UNCHANGED <<manifest, variant>>
         /\ \E file, content : Put(j, file, content)
         /\ Whole(dirs'[variant[j]], parsed[j], Artifact(j))
         /\ HeaderFile \in DOMAIN dirs'[variant[j]] /\ dirs'[variant[j]][HeaderFile] = parsed[j]
         /\ Converted(j)'
<1> DEFINE a == Artifact(j)
           d == Dir(j)
           e == dirs'[variant[j]]
           h == parsed[j]
<1>1. PICK i \in ToConvert(j) :
        /\ Converting(j, i)
        /\ Put(j, WgslName(SpirvFile(j, i)), Dir(j)[SpirvFile(j, i)])
        /\ wgsl_map' = [wgsl_map EXCEPT ![j] =
             [k \in DOMAIN @ \cup {i} |-> IF k = i THEN WgslName(SpirvFile(j, i)) ELSE @[k]]]
        /\ UNCHANGED <<pc, manifest, variant, step, missing, parsed, runs>>
  BY DEF Convert
<1> DEFINE s == a.stages[i]
           file == StageFile(a, s, "wgsl")
           converted == [k \in DOMAIN wgsl_map[j] \cup {i} |-> IF k = i THEN file ELSE wgsl_map[j][k]]
<1>2. pc[j] = "convert" /\ Whole(d, h, a) /\ HeaderFile \in DOMAIN d /\ d[HeaderFile] = h
  BY <1>1 DEF Converting, Converted
<1>3. i \in DOMAIN a.stages /\ missing[j] = StagesWithoutWgsl(h)
  BY <1>2 DEF ToConvert, Converted, StagesWithoutWgsl, Whole, HeaderFor
<1>4. /\ SpirvFile(j, i) = StageFile(a, s, "spv")
      /\ WgslName(SpirvFile(j, i)) = file
      /\ SpirvFile(j, i) = h.stages[i].spirv_file
  BY <1>2, <1>3, WgslOf DEF SpirvFile, Whole, HeaderFor
<1>5. a \in {manifest[j][v] : v \in DOMAIN manifest[j]} /\ manifest[j] \in Manifests
  BY DEF IInv, Shape, Artifact
<1>6. \A k \in DOMAIN a.stages : a.stages[k].kind = s.kind => k = i
  BY <1>3, <1>5 DEF OwnFiles
<1>7. wgsl_map'[j] = converted /\ Put(j, file, d[SpirvFile(j, i)])
  BY <1>1, <1>4 DEF IInv, Shape
<1>8. /\ Artifact(j)' = a /\ Dir(j)' = e /\ parsed'[j] = h /\ pc'[j] = "convert" /\ UNCHANGED <<manifest, missing>>
  BY <1>1, <1>2 DEF Artifact, Dir
<1>9. file # HeaderFile /\ file # ReflectionFile
  BY FileNames
<1>10. d[SpirvFile(j, i)] = s.spirv
  <2>1. SpirvFile(j, i) # NoFile
    BY <1>3, <1>4, <1>5, NoFileAssumption
  <2>2. SpirvFile(j, i) \in NamedFiles(h.stages[i])
    BY <1>4, <2>1 DEF NamedFiles
  <2> QED
    BY <1>2, <1>3, <2>2 DEF Whole
<1>11. /\ variant[j] \in Variant /\ file \in DOMAIN e /\ e[file] = s.spirv
       /\ \A f \in DOMAIN d : f # file => f \in DOMAIN e /\ e[f] = d[f]
  <2> HIDE DEF file, s
  <2>1. Shape /\ variant[j] \in Variant /\ Put(j, file, s.spirv)
    BY <1>7, <1>10, Variants DEF IInv
  <2> QED
    BY <2>1, PutGrows DEF Grows, Dir
<1>12. \A k \in DOMAIN a.stages : file \in NamedFiles(h.stages[k]) => k = i
  <2> SUFFICES ASSUME NEW k \in DOMAIN a.stages, file \in NamedFiles(h.stages[k]) PROVE k = i
    OBVIOUS
  <2>1. file \in {StageFile(a, a.stages[k], "spv"), StageFile(a, a.stages[k], "msl"), StageFile(a, a.stages[k], "wgsl")}
    BY <1>2, HeaderNames DEF Whole
  <2>2. a.stages[k].kind = s.kind
    BY <2>1, SameName
  <2> QED
    BY <1>6, <2>2
<1>13. Whole(e, h, a)
  <2> HIDE DEF file, s, a, d, e, h
  <2>1. \A k \in DOMAIN a.stages : file \in NamedFiles(h.stages[k]) => file \in DOMAIN e /\ e[file] = a.stages[k].spirv
    BY <1>11, <1>12 DEF s
  <2> QED
    BY <1>2, <1>9, <1>11, <2>1, WholeKept
<1>14. HeaderFile \in DOMAIN e /\ e[HeaderFile] = h
  BY <1>2, <1>9, <1>11
<1>15. \A k \in DOMAIN wgsl_map[j] :
         /\ k \in DOMAIN a.stages /\ wgsl_map[j][k] = StageFile(a, a.stages[k], "wgsl")
         /\ wgsl_map[j][k] \in DOMAIN d /\ d[wgsl_map[j][k]] = a.stages[k].spirv
  BY <1>2 DEF Converted
<1>16. \A k \in DOMAIN converted :
         /\ k \in DOMAIN a.stages /\ converted[k] = StageFile(a, a.stages[k], "wgsl")
         /\ converted[k] \in DOMAIN e /\ e[converted[k]] = a.stages[k].spirv
  <2> SUFFICES ASSUME NEW k \in DOMAIN converted
               PROVE  /\ k \in DOMAIN a.stages /\ converted[k] = StageFile(a, a.stages[k], "wgsl")
                      /\ converted[k] \in DOMAIN e /\ e[converted[k]] = a.stages[k].spirv
    OBVIOUS
  <2>1. CASE k = i
    <3>1. converted[k] = file
      BY <2>1
    <3> HIDE DEF converted
    <3> QED
      BY <1>3, <1>11, <2>1, <3>1
  <2>2. CASE k # i
    <3>1. k \in DOMAIN wgsl_map[j] /\ converted[k] = wgsl_map[j][k]
      BY <2>2
    <3> HIDE DEF converted
    <3>2. /\ k \in DOMAIN a.stages /\ converted[k] = StageFile(a, a.stages[k], "wgsl")
          /\ converted[k] \in DOMAIN d /\ d[converted[k]] = a.stages[k].spirv
      BY <1>15, <3>1
    <3>3. converted[k] # file
      BY <1>6, <2>2, <3>2, SameName
    <3> HIDE DEF a, d, e, s, file
    <3> QED
      BY <1>11, <3>2, <3>3
  <2> QED
    BY <2>1, <2>2
<1>17. Converted(j)'
  <2> HIDE DEF a, d, e, s, file, converted, h
  <2> QED
    BY <1>3, <1>7, <1>8, <1>13, <1>14, <1>16 DEF Converted
<1> QED
  BY <1>1, <1>2, <1>7, <1>8, <1>13, <1>14, <1>17

\* So has the only run.
LEMMA ConvertFirst ==
  ASSUME IInv, NEW j \in Job, OwnFiles, FirstRun(j), Convert(j)
  PROVE  FirstRun(j)'
<1>1. Converted(j) /\ AllGood(j)
  BY DEF FirstRun
<1>2. /\ pc'[j] = "convert" /\ UNCHANGED manifest /\ Converted(j)'
      /\ Whole(dirs'[variant[j]], parsed[j], Artifact(j)) /\ dirs'[variant[j]][HeaderFile] = parsed[j]
  BY <1>1, ConvertKept
<1>3. PICK file, content : Put(j, file, content)
  BY <1>1, ConvertKept
<1>4. Good(dirs'[variant[j]], variant[j], manifest[j])
  BY <1>2 DEF Good, Artifact, IInv, Shape
<1>5. AllGood(j)'
  BY <1>1, <1>2, <1>3, <1>4, GoodPut
<1> QED
  BY <1>2, <1>5, ScriptFirst

\* naga has failed, and what it left is not in the header.
LEMMA ConvertFailsFirst ==
  ASSUME IInv, NEW j \in Job, OwnFiles, FirstRun(j), ConvertFails(j)
  PROVE  FirstRun(j)'
<1> DEFINE a == Artifact(j)
           d == Dir(j)
           e == dirs'[variant[j]]
           h == parsed[j]
<1>1. PICK i \in ToConvert(j) :
        /\ Converting(j, i) /\ (UNCHANGED dirs \/ Put(j, WgslName(SpirvFile(j, i)), Cut)) /\ Fail(j)
  BY DEF ConvertFails
<1> DEFINE s == a.stages[i]
           file == StageFile(a, s, "wgsl")
<1>2. /\ pc[j] = "convert" /\ Whole(d, h, a) /\ HeaderFile \in DOMAIN d /\ d[HeaderFile] = h
      /\ missing[j] = StagesWithoutWgsl(h)
  BY <1>1 DEF Converting, FirstRun, Converted
<1>3. i \in DOMAIN a.stages /\ h.stages[i].wgsl_file = NoFile
  BY <1>2 DEF ToConvert, StagesWithoutWgsl, Whole, HeaderFor
<1>4. WgslName(SpirvFile(j, i)) = file
  BY <1>2, <1>3, WgslOf DEF SpirvFile, Whole, HeaderFor
<1>5. a \in {manifest[j][v] : v \in DOMAIN manifest[j]} /\ manifest[j] \in Manifests
  BY DEF IInv, Shape, Artifact
<1>6. \A k \in DOMAIN a.stages : a.stages[k].kind = s.kind => k = i
  BY <1>3, <1>5 DEF OwnFiles
<1>7. CASE UNCHANGED dirs
  BY <1>1, <1>7, FailStaysFirst
<1>8. CASE Put(j, file, Cut)
  <2>1. file # HeaderFile /\ file # ReflectionFile
    BY FileNames
  <2>2. /\ variant[j] \in Variant
        /\ \A f \in DOMAIN d : f # file => f \in DOMAIN e /\ e[f] = d[f]
    <3> HIDE DEF file, s
    <3>1. Shape /\ variant[j] \in Variant
      BY Variants DEF IInv
    <3> QED
      BY <1>8, <3>1, PutGrows DEF Grows, Dir
  <2>3. \A k \in DOMAIN a.stages : file \notin NamedFiles(h.stages[k])
    <3> SUFFICES ASSUME NEW k \in DOMAIN a.stages, file \in NamedFiles(h.stages[k]) PROVE FALSE
      OBVIOUS
    <3>1. file \in {StageFile(a, a.stages[k], "spv"), StageFile(a, a.stages[k], "msl"), StageFile(a, a.stages[k], "wgsl")}
      BY <1>2, HeaderNames DEF Whole
    <3>2. k = i
      BY <1>6, <3>1, SameName
    <3>3. /\ h.stages[i].spirv_file = StageFile(a, s, "spv")
          /\ h.stages[i].msl_file \in {NoFile, StageFile(a, s, "msl")}
      BY <1>2, <1>3 DEF Whole, HeaderFor, TargetFile
    <3>4. file # StageFile(a, s, "spv") /\ file # StageFile(a, s, "msl")
      BY SameName
    <3> QED
      BY <1>3, <3>2, <3>3, <3>4 DEF NamedFiles
  <2>4. Whole(e, h, a)
    <3> HIDE DEF file, s, a, d, e, h
    <3> QED
      BY <1>2, <2>1, <2>2, <2>3, WholeKept
  <2>5. HeaderFile \in DOMAIN e /\ e[HeaderFile] = h
    BY <1>2, <2>1, <2>2
  <2>6. Good(e, variant[j], manifest[j])
    BY <2>4, <2>5 DEF Good, Artifact, IInv, Shape
  <2>7. AllGood(j)'
    <3> HIDE DEF file, s, a, d, e, h
    <3>1. AllGood(j) /\ UNCHANGED manifest
      BY <1>1 DEF FirstRun, Fail, job
    <3> QED
      BY <1>8, <2>6, <3>1, GoodPut DEF e
  <2> QED
    BY <1>1, <2>7, FailFirst
<1> QED
  BY <1>1, <1>4, <1>7, <1>8

\* The script has read the header to patch.
LEMMA PatchReadKept ==
  ASSUME IInv, NEW j \in Job, Converted(j), PatchRead(j),
         Whole(Dir(j), ParseHeader(Dir(j)), Artifact(j))
  PROVE  Converted(j)'
<1> DEFINE a == Artifact(j)
           d == Dir(j)
           h == ParseHeader(Dir(j))
<1>1. /\ pc[j] = "convert" /\ pc'[j] = "patch" /\ h # Unreadable
      /\ UNCHANGED <<dirs, manifest, variant, step, wgsl_map, runs>>
      /\ parsed'[j] = Patched(h, wgsl_map[j])
  BY DEF PatchRead, Patchable, Goto, IInv, Shape
<1>2. Whole(d, h, a)
  OBVIOUS
<1>3. \A k \in DOMAIN wgsl_map[j] :
        /\ k \in DOMAIN a.stages /\ wgsl_map[j][k] = StageFile(a, a.stages[k], "wgsl")
        /\ wgsl_map[j][k] \in DOMAIN d /\ d[wgsl_map[j][k]] = a.stages[k].spirv
  BY <1>1 DEF Converted
<1>4. Artifact(j)' = a /\ Dir(j)' = d
  BY <1>1 DEF Artifact, Dir
<1>5. Len(a.stages) \in Nat /\ DOMAIN a.stages = 1 .. Len(a.stages)
  BY Variants DEF IInv
<1> HIDE DEF a, d, h
<1>6. Whole(d, parsed'[j], a)
  BY <1>1, <1>2, <1>3, <1>5, PatchedWhole
<1> QED
  BY <1>1, <1>3, <1>4, <1>6 DEF Converted

\* So has the first run.
LEMMA PatchReadFirst ==
  ASSUME IInv, NEW j \in Job, FirstRun(j), PatchRead(j)
  PROVE  FirstRun(j)'
<1>1. pc'[j] = "patch" /\ UNCHANGED <<dirs, manifest>> /\ ParseHeader(Dir(j)) # Unreadable
  BY DEF PatchRead, Patchable, Goto, IInv, Shape
<1>2. Whole(Dir(j), ParseHeader(Dir(j)), Artifact(j))
  BY <1>1, ParsedWhole
<1>3. AllGood(j)' /\ Converted(j)
  BY <1>1 DEF FirstRun, AllGood, Good, Variant
<1>4. Converted(j)'
  BY <1>2, <1>3, PatchReadKept
<1> QED
  BY <1>1, <1>3, <1>4, ScriptFirst

\* What the header names is not touched when the header is truncated or written.
LEMMA HeaderPut ==
  ASSUME IInv, NEW j \in Job, Converted(j), pc[j] \in {"patch", "patching"},
         NEW content, Put(j, HeaderFile, content)
  PROVE  /\ HeaderFile \in DOMAIN dirs'[variant[j]] /\ dirs'[variant[j]][HeaderFile] = content
         /\ Whole(dirs'[variant[j]], parsed[j], Artifact(j))
         /\ \A k \in DOMAIN wgsl_map[j] :
              /\ k \in DOMAIN Artifact(j).stages
              /\ wgsl_map[j][k] = StageFile(Artifact(j), Artifact(j).stages[k], "wgsl")
              /\ wgsl_map[j][k] \in DOMAIN dirs'[variant[j]]
              /\ dirs'[variant[j]][wgsl_map[j][k]] = Artifact(j).stages[k].spirv
<1> DEFINE a == Artifact(j)
           d == Dir(j)
           e == dirs'[variant[j]]
           h == parsed[j]
<1>1. /\ variant[j] \in Variant /\ HeaderFile \in DOMAIN e /\ e[HeaderFile] = content
      /\ \A f \in DOMAIN d : f # HeaderFile => f \in DOMAIN e /\ e[f] = d[f]
  <2>1. Shape /\ variant[j] \in Variant
    BY Variants DEF IInv
  <2> QED
    BY <2>1, PutGrows DEF Grows, Dir
<1>2. Whole(d, h, a)
  BY DEF Converted
<1>3. \A k \in DOMAIN wgsl_map[j] :
        /\ k \in DOMAIN a.stages /\ wgsl_map[j][k] = StageFile(a, a.stages[k], "wgsl")
        /\ wgsl_map[j][k] \in DOMAIN d /\ d[wgsl_map[j][k]] = a.stages[k].spirv
  BY DEF Converted
<1>4. HeaderFile # ReflectionFile /\ \A k \in DOMAIN wgsl_map[j] : wgsl_map[j][k] # HeaderFile
  BY <1>3, FileNames
<1> HIDE DEF a, d, e, h
<1>5. \A i \in DOMAIN a.stages : HeaderFile \notin NamedFiles(h.stages[i])
  BY <1>2, HeaderNames DEF Whole
<1>6. Whole(e, h, a)
  BY <1>1, <1>2, <1>4, <1>5, WholeKept
<1>7. \A k \in DOMAIN wgsl_map[j] :
        wgsl_map[j][k] \in DOMAIN e /\ e[wgsl_map[j][k]] = a.stages[k].spirv
  BY <1>1, <1>3, <1>4
<1> QED
  BY <1>1, <1>3, <1>6, <1>7 DEF a, e, h

\* The script has truncated the header.
LEMMA PatchOpenKept ==
  ASSUME IInv, NEW j \in Job, Converted(j), PatchOpen(j)
  PROVE  /\ pc[j] = "patch" /\ pc'[j] = "patching" /\ UNCHANGED job /\ Put(j, HeaderFile, Truncated)
         /\ dirs'[variant[j]][HeaderFile] = Truncated
         /\ Converted(j)'
<1>1. /\ pc[j] = "patch" /\ pc'[j] = "patching" /\ UNCHANGED job
      /\ Put(j, HeaderFile, Truncated)
  BY DEF PatchOpen, Goto, IInv, Shape
<1>2. Artifact(j)' = Artifact(j) /\ Dir(j)' = dirs'[variant[j]] /\ parsed'[j] = parsed[j] /\ wgsl_map'[j] = wgsl_map[j]
  BY <1>1 DEF Artifact, Dir, job
<1>3. Converted(j)'
  BY <1>1, <1>2, HeaderPut DEF Converted
<1> QED
  BY <1>1, <1>3, HeaderPut

\* So has the first run.
LEMMA PatchOpenFirst ==
  ASSUME IInv, NEW j \in Job, FirstRun(j), PatchOpen(j)
  PROVE  FirstRun(j)'
<1>1. Converted(j) /\ AllGood(j)
  BY DEF FirstRun
<1>2. /\ pc'[j] = "patching" /\ UNCHANGED manifest /\ Put(j, HeaderFile, Truncated) /\ Converted(j)'
      /\ Good(dirs'[variant[j]], variant[j], manifest[j])
  BY <1>1, PatchOpenKept DEF Good, job
<1>3. AllGood(j)'
  BY <1>1, <1>2, GoodPut
<1> QED
  BY <1>2, <1>3, ScriptFirst

\* The script has written the patched header.
LEMMA PatchWriteFirst ==
  ASSUME IInv, NEW j \in Job, FirstRun(j), PatchWrite(j)
  PROVE  FirstRun(j)'
<1>1. pc[j] = "patching" /\ Put(j, HeaderFile, parsed[j]) /\ NextBundle(j) /\ UNCHANGED manifest
  BY DEF PatchWrite, NextBundle
<1>2. /\ HeaderFile \in DOMAIN dirs'[variant[j]] /\ dirs'[variant[j]][HeaderFile] = parsed[j]
      /\ Whole(dirs'[variant[j]], parsed[j], Artifact(j))
  BY <1>1, HeaderPut DEF FirstRun
<1>3. Good(dirs'[variant[j]], variant[j], manifest[j])
  BY <1>2 DEF Good, Artifact, IInv, Shape
<1>4. AllGood(j)'
  BY <1>1, <1>3, GoodPut DEF FirstRun
<1> QED
  BY <1>1, <1>4, NextBundleFirst
------------------------------------------------------------------------------
\* A step of a job that has been started.
JobStep(j) ==
  \/ BuildVariant(j) \/ BuildFails(j)
  \/ SkipFile(j) \/ OpenFile(j) \/ OpenFails(j) \/ WriteFile(j) \/ WriteFails(j) \/ WriteUnflushed(j)
  \/ EmitDeclsFails(j) \/ BundleWritten(j)
  \/ NagaSkip(j) \/ NagaNeeded(j) \/ FindMissing(j) \/ NagaStart(j) \/ NagaRefused(j)
  \/ Convert(j) \/ ConvertFails(j)
  \/ PatchRead(j) \/ PatchRefused(j) \/ PatchOpen(j) \/ PatchWrite(j) \/ PatchFails(j)
  \/ Crash(j)

\* Every step of the only job that has started keeps the bundles whole.
LEMMA JobStepFirst ==
  ASSUME IInv, MissingIn, NEW j \in Job, OwnFiles, ~FlushFails, FirstRun(j), JobStep(j)
  PROVE  FirstRun(j)'
<1>1. CASE BuildVariant(j)
  BY <1>1, BuildFirst
<1>2. CASE BuildFails(j) \/ EmitDeclsFails(j) \/ NagaRefused(j) \/ PatchRefused(j) \/ PatchFails(j) \/ Crash(j)
  BY <1>2, FailStaysFirst DEF BuildFails, EmitDeclsFails, NagaRefused, PatchRefused, PatchFails, Crash
<1>3. CASE SkipFile(j)
  BY <1>3, UnwrittenFirst DEF SkipFile
<1>4. CASE OpenFile(j)
  BY <1>4, OpenFirst
<1>5. CASE OpenFails(j)
  <2>1. CASE Required(Write(j).file)
    BY <1>5, <2>1, FailStaysFirst DEF OpenFails
  <2>2. CASE ~Required(Write(j).file)
    BY <1>5, <2>2, UnwrittenFirst DEF OpenFails
  <2> QED
    BY <2>1, <2>2
<1>6. CASE WriteFile(j)
  BY <1>6, WriteFirst
<1>7. CASE WriteFails(j)
  BY <1>7, WriteFailsFirst
<1>8. CASE WriteUnflushed(j)
  BY <1>8 DEF WriteUnflushed
<1>9. CASE BundleWritten(j)
  BY <1>9, BundleWrittenFirst
<1>10. CASE NagaSkip(j)
  <2>1. AllGood(j)'
    BY <1>10 DEF NagaSkip, NextBundle, FirstRun, AllGood, Good, Variant
  <2> QED
    BY <1>10, <2>1, NextBundleFirst DEF NagaSkip
<1>11. CASE NagaNeeded(j) \/ FindMissing(j) \/ NagaStart(j)
  BY <1>11, NagaFindFirst, NagaStartFirst
<1>12. CASE Convert(j)
  BY <1>12, ConvertFirst
<1>13. CASE ConvertFails(j)
  BY <1>13, ConvertFailsFirst
<1>14. CASE PatchRead(j)
  BY <1>14, PatchReadFirst
<1>15. CASE PatchOpen(j)
  BY <1>15, PatchOpenFirst
<1>16. CASE PatchWrite(j)
  BY <1>16, PatchWriteFirst
<1> QED
  BY <1>1, <1>2, <1>3, <1>4, <1>5, <1>6, <1>7, <1>8, <1>9, <1>10, <1>11, <1>12, <1>13,
     <1>14, <1>15, <1>16 DEF JobStep

\* Such a step is of a job that has started, and leaves the others where they are.
LEMMA JobStepOthers ==
  ASSUME IInv, NEW j \in Job, JobStep(j)
  PROVE  pc[j] # "idle" /\ UNCHANGED runs /\ \A k \in Job \ {j} : pc'[k] = pc[k]
<1>1. pc[j] # "idle"
  BY DEF JobStep, BuildVariant, BuildFails, SkipFile, OpenFile, OpenFails, WriteFile, WriteFails, WriteUnflushed,
         EmitDeclsFails, BundleWritten, NagaSkip, NagaNeeded, FindMissing, NagaStart, NagaRefused, Convert,
         ConvertFails, Converting, PatchRead, PatchRefused, PatchOpen, PatchWrite, PatchFails, Crash
<1>2. CASE BuildVariant(j) \/ BuildFails(j) \/ SkipFile(j) \/ OpenFile(j) \/ OpenFails(j) \/ WriteFile(j) \/ WriteFails(j)
           \/ WriteUnflushed(j) \/ EmitDeclsFails(j) \/ BundleWritten(j)
  BY <1>2 DEF BuildVariant, BuildFails, SkipFile, OpenFile, OpenFails, WriteFile, WriteFails, WriteUnflushed,
         EmitDeclsFails, BundleWritten, Advance, Fail, Goto, job, IInv, Shape
<1>3. CASE NagaSkip(j) \/ NagaNeeded(j) \/ FindMissing(j) \/ NagaStart(j) \/ NagaRefused(j)
           \/ PatchRead(j) \/ PatchRefused(j) \/ PatchOpen(j) \/ PatchWrite(j) \/ PatchFails(j) \/ Crash(j)
  BY <1>3 DEF NagaSkip, NagaNeeded, FindMissing, NagaStart, NagaRefused, PatchRead, PatchRefused, PatchOpen, PatchWrite,
         PatchFails, Crash, NextBundle, Fail, Goto, job, IInv, Shape
<1>4. CASE Convert(j)
  <2>1. PICK i \in ToConvert(j) :
          /\ Converting(j, i)
          /\ Put(j, WgslName(SpirvFile(j, i)), Dir(j)[SpirvFile(j, i)])
          /\ wgsl_map' = [wgsl_map EXCEPT ![j] =
               [k \in DOMAIN @ \cup {i} |-> IF k = i THEN WgslName(SpirvFile(j, i)) ELSE @[k]]]
          /\ UNCHANGED <<pc, manifest, variant, step, missing, parsed, runs>>
    BY <1>4 DEF Convert
  <2> QED
    BY <1>1, <2>1
<1>5. CASE ConvertFails(j)
  <2>1. PICK i \in ToConvert(j) :
          /\ Converting(j, i) /\ (UNCHANGED dirs \/ Put(j, WgslName(SpirvFile(j, i)), Cut)) /\ Fail(j)
    BY <1>5 DEF ConvertFails
  <2> QED
    BY <1>1, <2>1 DEF Fail, Goto, job, IInv, Shape
<1> QED
  BY <1>1, <1>2, <1>3, <1>4, <1>5 DEF JobStep

\* The first call of compile_one finds directories without headers.
LEMMA StartFirst ==
  ASSUME IInv, FInv, NEW j \in Job, StartRun(j), runs' = 1
  PROVE  Alone(j)' /\ FirstRun(j)'
<1>1. /\ runs = 0 /\ pc' = [pc EXCEPT ![j] = "build"] /\ UNCHANGED dirs
      /\ (\A k \in Job : pc[k] = "idle") /\ \A v \in Variant : HeaderFile \notin DOMAIN dirs[v]
  BY DEF StartRun, Goto, FInv
<1>2. pc'[j] = "build" /\ Alone(j)'
  BY <1>1 DEF Alone, IInv, Shape
<1>3. AllGood(j)' /\ NoneAhead(j)'
  BY <1>1 DEF AllGood, NoneAhead, Good, NoHeaderIn, Variant
<1>4. NotYet(j)'
  <2>1. variant'[j] \in Variant
    BY ManifestsAssumption, StartRunKeeps, Variants DEF IInv, Shape, StartRun, Variant
  <2> QED
    BY <1>1, <2>1 DEF NotYet, NoHeaderIn, Dir
<1> QED
  BY <1>2, <1>3, <1>4 DEF FirstRun, Wrote, Converted

\* The invariant holds at the start.
LEMMA InitFInv == Init => FInv
BY DEF Init, FInv

\* Every step keeps it.
LEMMA NextFInv ==
  ASSUME OwnFiles, ~FlushFails, IInv, MissingIn, FInv, [Next]_vars
  PROVE  FInv'
<1>1. CASE UNCHANGED vars
  <2>1. ASSUME NEW j \in Job, Alone(j), FirstRun(j)
        PROVE  Alone(j)' /\ FirstRun(j)'
    BY <1>1, <2>1 DEF vars, Alone, FirstRun, AllGood, NoneAhead, NotYet, Wrote, Converted, Good, NoHeaderIn,
                Dir, Artifact, HeaderStep, Variant
  <2> QED
    BY <1>1, <2>1 DEF vars, FInv, Variant
<1>2. ASSUME NEW j \in Job, StartRun(j)
      PROVE  FInv'
  <2>1. runs' = runs + 1 /\ runs \in Nat
    BY <1>2 DEF StartRun, FInv
  <2>2. runs' = 1 => Alone(j)' /\ FirstRun(j)'
    BY <1>2, StartFirst
  <2>3. runs' \in Nat /\ runs' # 0
    BY <2>1
  <2> QED
    BY <2>2, <2>3 DEF FInv
<1>3. ASSUME NEW j \in Job, JobStep(j)
      PROVE  FInv'
  <2>1. pc[j] # "idle" /\ UNCHANGED runs /\ \A k \in Job \ {j} : pc'[k] = pc[k]
    BY <1>3, JobStepOthers
  <2>2. runs # 0
    BY <2>1 DEF FInv
  <2>3. ASSUME runs = 1
        PROVE  Alone(j)' /\ FirstRun(j)'
    <3>1. Alone(j) /\ FirstRun(j)
      BY <2>1, <2>3 DEF FInv, Alone
    <3> QED
      BY <1>3, <2>1, <3>1, JobStepFirst DEF Alone
  <2> QED
    BY <2>1, <2>2, <2>3 DEF FInv
<1> QED
  BY <1>1, <1>2, <1>3 DEF Next, JobStep

(*************************************************************************)
(* IInv, MissingIn and FInv are invariants when stages are of different  *)
(* kinds and what was written reaches the disk.                          *)
(*************************************************************************)
THEOREM FirstRunInductive == OwnFiles /\ ~FlushFails => (Spec => [](IInv /\ MissingIn /\ FInv))
<1> SUFFICES ASSUME OwnFiles, ~FlushFails PROVE Spec => [](IInv /\ MissingIn /\ FInv)
  OBVIOUS
<1>1. Init => IInv /\ MissingIn /\ FInv
  BY InitIInv, InitFInv DEF Init, MissingIn
<1>2. IInv /\ MissingIn /\ FInv /\ [Next]_vars => IInv' /\ MissingIn' /\ FInv'
  BY NextIInv, NextMissing, NextFInv
<1> QED
  BY <1>1, <1>2, PTL DEF Spec

(*************************************************************************)
(* In a directory that one run has written to, a header that can be read *)
(* comes with the whole bundle, wherever the run failed or was killed,   *)
(* and whatever its manifest, if stages are of different kinds and what  *)
(* was written reaches the disk.  Without the first the twins of a       *)
(* manifest share files, without the second reflection.bin may be empty. *)
(*************************************************************************)
THEOREM FirstBundleAlwaysConsistent == OwnFiles /\ ~FlushFails => (Spec => []FirstBundleConsistent)
<1> SUFFICES ASSUME OwnFiles, ~FlushFails PROVE Spec => []FirstBundleConsistent
  OBVIOUS
<1>1. IInv /\ FInv => FirstBundleConsistent
  <2> SUFFICES ASSUME IInv, FInv, runs = 1, NEW v \in Variant, ReadHeader(dirs[v]) # Unreadable
               PROVE  \E j \in Job : v \in DOMAIN manifest[j] /\ HoldsArtifact(dirs[v], manifest[j][v])
    BY DEF FirstBundleConsistent
  <2>1. PICK j \in Job : FirstRun(j)
    BY DEF FInv
  <2>2. /\ HeaderFile \in DOMAIN dirs[v] /\ dirs[v][HeaderFile] # Truncated
        /\ ReadHeader(dirs[v]) = dirs[v][HeaderFile]
    BY DEF ReadHeader
  <2>3. v \in DOMAIN manifest[j] /\ Whole(dirs[v], ReadHeader(dirs[v]), manifest[j][v])
    BY <2>1, <2>2 DEF FirstRun, AllGood, Good
  <2>4. HoldsArtifact(dirs[v], manifest[j][v])
    BY <2>3 DEF Whole, HeaderFor, HoldsArtifact, StageFiles
  <2> QED
    BY <2>3, <2>4
<1>2. [](IInv /\ FInv) => []FirstBundleConsistent
  BY <1>1, PTL
<1> QED
  BY <1>2, FirstRunInductive, PTL
------------------------------------------------------------------------------
\* Of a run that is the only one, over whatever is in the directories.

\* A program has as many stages as readShaderBundleHeader takes.
FewStages == \A m \in Manifests : \A v \in DOMAIN m : Len(m[v].stages) <= MaxStages

\* A header is no marker of a file that has none.
MarkersDiffer == \A h : DOMAIN h = {"name", "stages"} => h # Truncated /\ h # Unreadable

Full(h) == \A i \in DOMAIN h.stages : h.stages[i].wgsl_file # NoFile

\* The bundle of a is in d, and its header names the WGSL that was asked for.
Finished(d, a) ==
  /\ HeaderFile \in DOMAIN d
  /\ Whole(d, d[HeaderFile], a)
  /\ \A i \in DOMAIN a.stages : "eWGSL" \in a.stages[i].targets => d[HeaderFile].stages[i].wgsl_file # NoFile

\* The variants that the compiler is done with.
Compiled(j) ==
  /\ pc[j] \in {"build", "open", "write", "written"} =>
       \A v \in 1 .. variant[j] - 1 : Finished(dirs[v], manifest[j][v])
  /\ pc[j] = "written" => Finished(Dir(j), Artifact(j))

\* The bundles that the script has found or made, and has still to look at.
Scripted(j) ==
  /\ pc[j] \in {"naga", "find", "parse", "convert", "patch", "patching", "done"} =>
       \A v \in DOMAIN manifest[j] :
         (pc[j] = "patching" /\ v = variant[j]) \/ Finished(dirs[v], manifest[j][v])
  /\ pc[j] \in {"naga", "find", "parse", "convert", "patch", "patching"} =>
       Naga /\ \A v \in 1 .. variant[j] - 1 : Full(dirs[v][HeaderFile])
  /\ pc[j] \in {"patch", "patching"} => Full(parsed[j])
  /\ pc[j] = "done" /\ Naga => \A v \in DOMAIN manifest[j] : Full(dirs[v][HeaderFile])

OnlyRun(j) == Wrote(j) /\ Converted(j) /\ Compiled(j) /\ Scripted(j)
AllRun == \A j \in Job : OnlyRun(j)

\* What the job's manifest numbers are variants.
LEMMA OwnVariants ==
  ASSUME IInv, NEW j \in Job
  PROVE  /\ DOMAIN manifest[j] = 1 .. Len(manifest[j]) /\ Len(manifest[j]) \in Nat
         /\ variant[j] \in Nat /\ variant[j] >= 1 /\ variant[j] <= Len(manifest[j])
         /\ \A v \in DOMAIN manifest[j] : v \in Variant
BY Variants DEF IInv, Variant

\* All files of a bundle are written: it is there, with the WGSL that was asked for.
LEMMA AllWritten ==
  ASSUME NEW m \in Manifests, NEW u \in DOMAIN m, NEW a, a = m[u], NEW d,
         \A p \in 1 .. Len(Writes(a)) :
           LET w == Writes(a)[p]
           IN  Required(w.file) /\ w.file # NoFile => w.file \in DOMAIN d /\ d[w.file] = w.content
  PROVE  Finished(d, a)
<1> DEFINE n == 3 * Len(a.stages)
<1>1. Len(a.stages) \in Nat /\ DOMAIN a.stages = 1 .. Len(a.stages)
  BY ManifestsAssumption
<1>2. n \in Nat /\ Len(Writes(a)) = n + 4 /\ Writes(a)[n + 2] = WriteOf(HeaderFile, HeaderOf(a))
  BY <1>1, WritesShape
<1>3. Whole(d, HeaderOf(a), a)
  <2>1. \A p \in 1 .. n + 1 : p \in 1 .. Len(Writes(a))
    BY <1>2
  <2> QED
    BY <1>1, <2>1, HeaderWhole
<1>4. HeaderFile \in DOMAIN d /\ d[HeaderFile] = HeaderOf(a)
  <2>1. Required(HeaderFile) /\ HeaderFile # NoFile
    BY FileNames, NoFileAssumption DEF Required
  <2>2. n + 2 \in 1 .. Len(Writes(a))
    BY <1>2
  <2> HIDE DEF n
  <2>3. Writes(a)[n + 2].file = HeaderFile /\ Writes(a)[n + 2].content = HeaderOf(a)
    BY <1>2 DEF WriteOf
  <2> QED
    BY <2>1, <2>2, <2>3
<1>5. ASSUME NEW i \in DOMAIN a.stages, "eWGSL" \in a.stages[i].targets
      PROVE  HeaderOf(a).stages[i].wgsl_file # NoFile
  <2>1. HeaderOf(a).stages[i].wgsl_file = StageFile(a, a.stages[i], "wgsl")
    BY <1>5 DEF HeaderOf, StageFiles, TargetFile
  <2> QED
    BY <2>1, NoFileAssumption
<1> QED
  BY <1>3, <1>4, <1>5 DEF Finished

\* On to the next file; after the last, the bundle is there.
LEMMA AdvanceOnly ==
  ASSUME IInv, NEW j \in Job, Advance(j), pc[j] \in {"open", "write"}, UNCHANGED <<manifest, variant>>,
         Compiled(j), \A v \in Variant : v # variant[j] => dirs'[v] = dirs[v],
         \A p \in 1 .. step[j] :
           LET w == Writes(Artifact(j))[p]
           IN  Required(w.file) /\ w.file # NoFile =>
                 w.file \in DOMAIN dirs'[variant[j]] /\ dirs'[variant[j]][w.file] = w.content
  PROVE  OnlyRun(j)'
<1>1. Artifact(j)' = Artifact(j) /\ Dir(j)' = dirs'[variant[j]] /\ variant'[j] = variant[j] /\ manifest'[j] = manifest[j]
  BY DEF Artifact, Dir
<1>2. \A v \in 1 .. variant[j] - 1 : Finished(dirs'[v], manifest[j][v])
  <2>1. \A v \in 1 .. variant[j] - 1 : v \in Variant /\ v # variant[j]
    BY OwnVariants
  <2> QED
    BY <2>1 DEF Compiled
<1>3. step[j] \in Nat /\ step[j] <= Len(Writes(Artifact(j))) /\ Len(Writes(Artifact(j))) \in Nat
  BY Steps DEF IInv
<1>4. CASE step[j] < Len(Writes(Artifact(j)))
  <2>1. step'[j] = step[j] + 1 /\ pc'[j] = "open"
    BY <1>4 DEF Advance, Goto, IInv, Shape
  <2>2. Wrote(j)'
    BY <1>1, <1>3, <2>1 DEF Wrote
  <2> QED
    BY <1>1, <1>2, <2>1, <2>2 DEF OnlyRun, Converted, Compiled, Scripted
<1>5. CASE ~(step[j] < Len(Writes(Artifact(j))))
  <2>1. pc'[j] = "written" /\ step[j] = Len(Writes(Artifact(j)))
    BY <1>3, <1>5 DEF Advance, Goto, IInv, Shape
  <2>2. /\ manifest[j] \in Manifests /\ variant[j] \in DOMAIN manifest[j]
        /\ Artifact(j) = manifest[j][variant[j]]
    BY DEF IInv, Shape, Artifact
  <2>3. Finished(dirs'[variant[j]], Artifact(j))
    BY <2>1, <2>2, AllWritten
  <2> QED
    BY <1>1, <1>2, <2>1, <2>3 DEF OnlyRun, Wrote, Converted, Compiled, Scripted
<1> QED
  BY <1>4, <1>5

\* A run that fails promises nothing.
LEMMA FailOnly ==
  ASSUME IInv, NEW j \in Job, Fail(j)
  PROVE  OnlyRun(j)'
<1>1. pc'[j] = "failed"
  BY DEF Fail, Goto, IInv, Shape
<1> QED
  BY <1>1 DEF OnlyRun, Wrote, Converted, Compiled, Scripted

\* A run starts, over what is in the directories.
LEMMA StartOnly ==
  ASSUME IInv, NEW j \in Job, StartRun(j)
  PROVE  OnlyRun(j)'
<1>1. pc'[j] = "build" /\ variant'[j] = 1
  BY DEF StartRun, Goto, IInv, Shape
<1> QED
  BY <1>1 DEF OnlyRun, Wrote, Converted, Compiled, Scripted

\* A variant is built.
LEMMA BuildOnly ==
  ASSUME IInv, NEW j \in Job, OnlyRun(j), BuildVariant(j)
  PROVE  OnlyRun(j)'
<1>1. /\ pc[j] = "build" /\ pc'[j] = "open" /\ UNCHANGED <<dirs, manifest, variant, step>> /\ step[j] = 1
  BY DEF BuildVariant, Goto, job, IInv, Shape, JobInv, AtFirst
<1> QED
  BY <1>1 DEF OnlyRun, Wrote, Converted, Compiled, Scripted

\* A file is truncated.
LEMMA OpenOnly ==
  ASSUME IInv, NEW j \in Job, OwnFiles, OnlyRun(j), OpenFile(j)
  PROVE  OnlyRun(j)'
<1>1. /\ pc[j] = "open" /\ Write(j).file # NoFile /\ Put(j, Write(j).file, Truncated)
      /\ pc'[j] = "write" /\ UNCHANGED job
  BY DEF OpenFile, Goto, IInv, Shape
<1>2. /\ Artifact(j)' = Artifact(j) /\ Dir(j)' = dirs'[variant[j]] /\ variant'[j] = variant[j]
      /\ step'[j] = step[j] /\ manifest'[j] = manifest[j]
  BY <1>1 DEF Artifact, Dir, job
<1>3. \A p \in 1 .. step[j] - 1 :
        LET w == Writes(Artifact(j))[p]
        IN  Required(w.file) /\ w.file # NoFile =>
              w.file \in DOMAIN dirs'[variant[j]] /\ dirs'[variant[j]][w.file] = w.content
  BY <1>1, WrotePut DEF OnlyRun
<1>4. Wrote(j)'
  BY <1>2, <1>3 DEF Wrote
<1>5. \A v \in 1 .. variant[j] - 1 : Finished(dirs'[v], manifest[j][v])
  <2>1. \A v \in 1 .. variant[j] - 1 : v \in Variant /\ v # variant[j]
    BY OwnVariants
  <2>2. \A v \in Variant : v # variant[j] => dirs'[v] = dirs[v]
    BY <1>1, PutGrows DEF IInv
  <2> QED
    BY <1>1, <2>1, <2>2 DEF OnlyRun, Compiled
<1> QED
  BY <1>1, <1>2, <1>4, <1>5 DEF OnlyRun, Converted, Compiled, Scripted

\* A file is written.
LEMMA WriteOnly ==
  ASSUME IInv, NEW j \in Job, OwnFiles, OnlyRun(j), WriteFile(j)
  PROVE  OnlyRun(j)'
<1>1. /\ pc[j] = "write" /\ Put(j, Write(j).file, Write(j).content) /\ Advance(j)
      /\ UNCHANGED <<manifest, variant>> /\ Wrote(j) /\ Compiled(j)
  BY DEF WriteFile, OnlyRun
<1>2. \A v \in Variant : v # variant[j] => dirs'[v] = dirs[v]
  BY <1>1, PutGrows DEF IInv
<1> QED
  BY <1>1, <1>2, WroteFile, AdvanceOnly

\* A file is not written: the stage has no source for it, or its absence is ignored.
LEMMA UnwrittenOnly ==
  ASSUME IInv, NEW j \in Job, OnlyRun(j), pc[j] = "open", Advance(j),
         UNCHANGED <<dirs, manifest, variant>>, Write(j).file = NoFile \/ ~Required(Write(j).file)
  PROVE  OnlyRun(j)'
<1>1. Wrote(j) /\ Compiled(j)
  BY DEF OnlyRun
<1> QED
  BY <1>1, WroteNone, AdvanceOnly

\* The next variant, or naga's turn.
LEMMA BundleWrittenOnly ==
  ASSUME IInv, NEW j \in Job, OnlyRun(j), BundleWritten(j)
  PROVE  OnlyRun(j)'
<1>1. /\ pc[j] = "written" /\ UNCHANGED <<dirs, manifest, parsed, wgsl_map, runs>>
      /\ \A v \in 1 .. variant[j] - 1 : Finished(dirs[v], manifest[j][v])
      /\ Finished(dirs[variant[j]], manifest[j][variant[j]])
  BY DEF BundleWritten, OnlyRun, Compiled, Dir, Artifact
<1>2. \A v \in 1 .. variant[j] : Finished(dirs[v], manifest[j][v])
  <2>1. \A v \in 1 .. variant[j] : v = variant[j] \/ v \in 1 .. variant[j] - 1
    BY OwnVariants
  <2> QED
    BY <1>1, <2>1
<1>3. CASE variant[j] < Len(manifest[j])
  <2>1. pc'[j] = "build" /\ variant'[j] - 1 = variant[j]
    BY <1>3, OwnVariants DEF BundleWritten, Goto, IInv, Shape
  <2> QED
    BY <1>1, <1>2, <2>1 DEF OnlyRun, Wrote, Converted, Compiled, Scripted
<1>4. CASE ~(variant[j] < Len(manifest[j]))
  <2>1. pc'[j] = (IF Naga THEN "naga" ELSE "done") /\ variant'[j] = 1
    BY <1>4 DEF BundleWritten, Goto, IInv, Shape
  <2>2. DOMAIN manifest[j] = 1 .. variant[j]
    BY <1>4, OwnVariants
  <2>3. Scripted(j)'
    BY <1>1, <1>2, <2>1, <2>2 DEF Scripted
  <2> QED
    BY <1>1, <2>1, <2>3 DEF OnlyRun, Wrote, Converted, Compiled
<1> QED
  BY <1>3, <1>4
------------------------------------------------------------------------------
\* A bundle that the script is at, and a header in it that can be read.
LEMMA AtBundle ==
  ASSUME IInv, NEW j \in Job, MarkersDiffer, Scripted(j), pc[j] \in {"naga", "find", "parse", "convert", "patch"}
  PROVE  /\ Finished(Dir(j), Artifact(j))
         /\ ParseHeader(Dir(j)) = Dir(j)[HeaderFile] /\ ParseHeader(Dir(j)) # Unreadable
<1>1. Finished(Dir(j), Artifact(j))
  BY DEF Scripted, Dir, Artifact, IInv, Shape
<1>2. /\ HeaderFile \in DOMAIN Dir(j)
      /\ Dir(j)[HeaderFile] # Truncated /\ Dir(j)[HeaderFile] # Unreadable
  BY <1>1 DEF Finished, Whole, HeaderFor, MarkersDiffer
<1> QED
  BY <1>1, <1>2 DEF ParseHeader

\* The bundle that the script was at has all its WGSL: on to the next.
LEMMA NextBundleOnly ==
  ASSUME IInv, NEW j \in Job, NextBundle(j), Naga,
         \A v \in DOMAIN manifest[j] : Finished(dirs'[v], manifest[j][v]),
         \A v \in 1 .. variant[j] : Full(dirs'[v][HeaderFile])
  PROVE  OnlyRun(j)'
<1>1. manifest'[j] = manifest[j]
  BY DEF NextBundle
<1>2. CASE variant[j] < Len(manifest[j])
  <2>1. pc'[j] = "naga" /\ variant'[j] - 1 = variant[j]
    BY <1>2, OwnVariants DEF NextBundle, Goto, IInv, Shape
  <2> QED
    BY <1>1, <2>1 DEF OnlyRun, Wrote, Converted, Compiled, Scripted, Full
<1>3. CASE ~(variant[j] < Len(manifest[j]))
  <2>1. pc'[j] = "done"
    BY <1>3 DEF NextBundle, Goto, IInv, Shape
  <2>2. DOMAIN manifest[j] = 1 .. variant[j]
    BY <1>3, OwnVariants
  <2> QED
    BY <1>1, <2>1, <2>2 DEF OnlyRun, Wrote, Converted, Compiled, Scripted, Full
<1> QED
  BY <1>2, <1>3

\* A bundle that misses nothing is passed over.
LEMMA NagaSkipOnly ==
  ASSUME IInv, NEW j \in Job, MarkersDiffer, OnlyRun(j), NagaSkip(j)
  PROVE  OnlyRun(j)'
<1>1. /\ pc[j] \in {"naga", "find"} /\ BundleMissingWgsl(Dir(j)) = {} /\ NextBundle(j) /\ UNCHANGED dirs
      /\ Scripted(j)
  BY DEF NagaSkip, OnlyRun
<1>2. ParseHeader(Dir(j)) = Dir(j)[HeaderFile] /\ ParseHeader(Dir(j)) # Unreadable
  BY <1>1, AtBundle
<1>3. Full(dirs[variant[j]][HeaderFile])
  BY <1>1, <1>2 DEF BundleMissingWgsl, StagesWithoutWgsl, Full, Dir
<1>4. \A v \in 1 .. variant[j] : v = variant[j] \/ v \in 1 .. variant[j] - 1
  BY OwnVariants
<1>5. /\ Naga
      /\ \A v \in DOMAIN manifest[j] : Finished(dirs[v], manifest[j][v])
      /\ \A v \in 1 .. variant[j] : Full(dirs[v][HeaderFile])
  BY <1>1, <1>3, <1>4 DEF Scripted
<1> QED
  BY <1>1, <1>5, NextBundleOnly

\* The script has seen that the bundle lacks WGSL.
LEMMA NagaFindOnly ==
  ASSUME IInv, MissingIn, NEW j \in Job, OnlyRun(j), NagaNeeded(j) \/ FindMissing(j)
  PROVE  OnlyRun(j)'
<1>1. /\ pc[j] \in {"naga", "find"} /\ pc'[j] \in {"find", "parse"}
      /\ UNCHANGED <<dirs, manifest, variant>>
  BY DEF NagaNeeded, FindMissing, job, Goto, IInv, Shape
<1>2. pc'[j] = "parse" => missing'[j] = BundleMissingWgsl(Dir(j))
  BY DEF NagaNeeded, FindMissing, Goto, MissingIn, IInv, Shape
<1>3. Dir(j)' = Dir(j)
  BY <1>1 DEF Dir
<1>4. Converted(j)'
  BY <1>1, <1>2, <1>3 DEF Converted
<1>5. Scripted(j)'
  BY <1>1 DEF OnlyRun, Scripted, Full
<1> QED
  BY <1>1, <1>4, <1>5 DEF OnlyRun, Wrote, Compiled

\* The script has read the header of the bundle.
LEMMA NagaStartOnly ==
  ASSUME IInv, NEW j \in Job, MarkersDiffer, OnlyRun(j), NagaStart(j)
  PROVE  OnlyRun(j)'
<1>1. /\ pc[j] = "parse" /\ pc'[j] = "convert" /\ UNCHANGED <<dirs, manifest, variant>>
      /\ parsed'[j] = ParseHeader(Dir(j)) /\ wgsl_map'[j] = <<>> /\ Scripted(j)
      /\ missing'[j] = StagesWithoutWgsl(ParseHeader(Dir(j)))
  BY DEF NagaStart, Goto, IInv, Shape, OnlyRun, Converted, BundleMissingWgsl
<1>2. Finished(Dir(j), Artifact(j)) /\ ParseHeader(Dir(j)) = Dir(j)[HeaderFile]
  BY <1>1, AtBundle
<1>3. Artifact(j)' = Artifact(j) /\ Dir(j)' = Dir(j)
  BY <1>1 DEF Artifact, Dir
<1>4. Converted(j)'
  BY <1>1, <1>2, <1>3 DEF Converted, Finished
<1>5. Scripted(j)'
  BY <1>1 DEF Scripted
<1> QED
  BY <1>1, <1>4, <1>5 DEF OnlyRun, Wrote, Compiled

\* naga has translated a stage, and the header is as it was.
LEMMA ConvertOnly ==
  ASSUME IInv, NEW j \in Job, OwnFiles, OnlyRun(j), Convert(j)
  PROVE  OnlyRun(j)'
<1>1. /\ pc[j] = "convert" /\ pc'[j] = "convert" /\ UNCHANGED <<manifest, variant>>
      /\ Whole(dirs'[variant[j]], parsed[j], Artifact(j))
      /\ HeaderFile \in DOMAIN dirs'[variant[j]] /\ dirs'[variant[j]][HeaderFile] = parsed[j]
      /\ Converted(j)'
  BY ConvertKept DEF OnlyRun
<1>2. \A v \in Variant : v # variant[j] => dirs'[v] = dirs[v]
  <2>1. PICK file, content : Put(j, file, content)
    BY ConvertKept DEF OnlyRun
  <2> QED
    BY <2>1, PutGrows DEF IInv
<1>3. Scripted(j) /\ dirs[variant[j]][HeaderFile] = parsed[j]
  BY <1>1 DEF OnlyRun, Converted, Dir
<1>4. variant[j] \in DOMAIN manifest[j] /\ Finished(dirs[variant[j]], Artifact(j))
  BY <1>1, <1>3 DEF Scripted, Artifact, IInv, Shape
<1>5. Finished(dirs'[variant[j]], Artifact(j))
  BY <1>1, <1>3, <1>4 DEF Finished
<1>6. \A v \in DOMAIN manifest[j] : Finished(dirs'[v], manifest[j][v])
  BY <1>1, <1>2, <1>3, <1>5, OwnVariants DEF Scripted, Artifact
<1>7. Naga /\ \A v \in 1 .. variant[j] - 1 : Full(dirs'[v][HeaderFile])
  <2>1. \A v \in 1 .. variant[j] - 1 : v \in Variant /\ v # variant[j]
    BY OwnVariants
  <2> QED
    BY <1>1, <1>2, <1>3, <2>1 DEF Scripted
<1>8. Scripted(j)'
  BY <1>1, <1>6, <1>7 DEF Scripted, Full
<1> QED
  BY <1>1, <1>8 DEF OnlyRun, Wrote, Compiled

\* The header to write back has WGSL for every stage.
LEMMA PatchReadOnly ==
  ASSUME IInv, NEW j \in Job, MarkersDiffer, OnlyRun(j), PatchRead(j)
  PROVE  OnlyRun(j)'
<1> DEFINE a == Artifact(j)
           h == parsed[j]
<1>1. /\ pc[j] = "convert" /\ pc'[j] = "patch" /\ UNCHANGED <<dirs, manifest, variant>>
      /\ ToConvert(j) = {} /\ parsed'[j] = Patched(ParseHeader(Dir(j)), wgsl_map[j])
      /\ Scripted(j) /\ Converted(j)
  BY DEF PatchRead, Goto, IInv, Shape, OnlyRun
<1>2. /\ ParseHeader(Dir(j)) = h /\ h # Unreadable /\ Whole(Dir(j), h, a)
      /\ missing[j] = StagesWithoutWgsl(h)
  BY <1>1, AtBundle DEF Converted
<1>3. Converted(j)'
  BY <1>1, <1>2, PatchReadKept
<1>4. /\ \A i \in DOMAIN h.stages : h.stages[i].wgsl_file # NoFile \/ i \in DOMAIN wgsl_map[j]
      /\ "stages" \in DOMAIN h /\ \A i \in DOMAIN h.stages : "wgsl_file" \in DOMAIN h.stages[i]
  BY <1>1, <1>2 DEF ToConvert, StagesWithoutWgsl, Whole, HeaderFor
<1>5. \A k \in DOMAIN wgsl_map[j] : wgsl_map[j][k] # NoFile
  <2>1. \A k \in DOMAIN wgsl_map[j] : k \in DOMAIN a.stages /\ wgsl_map[j][k] = StageFile(a, a.stages[k], "wgsl")
    BY <1>1 DEF Converted
  <2>2. a \in {manifest[j][v] : v \in DOMAIN manifest[j]} /\ manifest[j] \in Manifests
    BY DEF IInv, Shape, Artifact
  <2> QED
    BY <2>1, <2>2, NoFileAssumption
<1> HIDE DEF a, h
<1>6. Full(Patched(h, wgsl_map[j]))
  BY <1>4, <1>5 DEF Full, Patched
<1>7. Scripted(j)'
  BY <1>1, <1>2, <1>6 DEF Scripted, Full
<1> QED
  BY <1>1, <1>3, <1>7 DEF OnlyRun, Wrote, Compiled

\* The header is truncated: this bundle is the only one that is not there.
LEMMA PatchOpenOnly ==
  ASSUME IInv, NEW j \in Job, OnlyRun(j), PatchOpen(j)
  PROVE  OnlyRun(j)'
<1>1. /\ pc[j] = "patch" /\ pc'[j] = "patching" /\ UNCHANGED job /\ Put(j, HeaderFile, Truncated)
      /\ Converted(j)' /\ Scripted(j)
  BY PatchOpenKept DEF OnlyRun
<1>2. \A v \in Variant : v # variant[j] => dirs'[v] = dirs[v]
  BY <1>1, PutGrows DEF IInv
<1>3. \A v \in 1 .. variant[j] - 1 : v \in Variant /\ v # variant[j]
  BY OwnVariants
<1>4. Scripted(j)'
  BY <1>1, <1>2, <1>3, OwnVariants DEF Scripted, job, Full
<1> QED
  BY <1>1, <1>4 DEF OnlyRun, Wrote, Compiled

\* The header is written back: the bundle is there again, with all its WGSL.
LEMMA PatchWriteOnly ==
  ASSUME IInv, NEW j \in Job, OnlyRun(j), PatchWrite(j)
  PROVE  OnlyRun(j)'
<1>1. /\ pc[j] = "patching" /\ Put(j, HeaderFile, parsed[j]) /\ NextBundle(j)
      /\ Scripted(j) /\ Converted(j)
  BY DEF PatchWrite, OnlyRun
<1>2. /\ HeaderFile \in DOMAIN dirs'[variant[j]] /\ dirs'[variant[j]][HeaderFile] = parsed[j]
      /\ Whole(dirs'[variant[j]], parsed[j], Artifact(j)) /\ Full(parsed[j]) /\ Naga
  BY <1>1, HeaderPut DEF Scripted
<1>3. \A v \in Variant : v # variant[j] => dirs'[v] = dirs[v]
  BY <1>1, PutGrows DEF IInv
<1>4. Finished(dirs'[variant[j]], Artifact(j))
  BY <1>2 DEF Finished, Full, Whole, HeaderFor
<1>5. \A v \in DOMAIN manifest[j] : Finished(dirs'[v], manifest[j][v])
  BY <1>1, <1>3, <1>4, OwnVariants DEF Scripted, Artifact
<1>6. \A v \in 1 .. variant[j] : v = variant[j] \/ (v \in 1 .. variant[j] - 1 /\ v \in Variant /\ v # variant[j])
  BY OwnVariants
<1>7. \A v \in 1 .. variant[j] : Full(dirs'[v][HeaderFile])
  BY <1>1, <1>2, <1>3, <1>6 DEF Scripted
<1> QED
  BY <1>1, <1>2, <1>5, <1>7, NextBundleOnly

\* Every step of the only job keeps what it says of its run.
LEMMA JobStepOnly ==
  ASSUME IInv, MissingIn, NEW j \in Job, OwnFiles, MarkersDiffer, ~FlushFails, OnlyRun(j),
         JobStep(j) \/ StartRun(j)
  PROVE  OnlyRun(j)'
<1>1. CASE StartRun(j) \/ BuildVariant(j)
  BY <1>1, StartOnly, BuildOnly
<1>2. CASE BuildFails(j) \/ WriteFails(j) \/ EmitDeclsFails(j) \/ NagaRefused(j) \/ ConvertFails(j) \/ PatchRefused(j)
           \/ PatchFails(j) \/ Crash(j)
  <2>1. Fail(j)
    BY <1>2 DEF BuildFails, WriteFails, EmitDeclsFails, NagaRefused, ConvertFails, PatchRefused, PatchFails, Crash
  <2> QED
    BY <2>1, FailOnly
<1>3. CASE SkipFile(j)
  BY <1>3, UnwrittenOnly DEF SkipFile
<1>4. CASE OpenFile(j) \/ WriteFile(j)
  BY <1>4, OpenOnly, WriteOnly
<1>5. CASE OpenFails(j)
  <2>1. CASE Required(Write(j).file)
    BY <1>5, <2>1, FailOnly DEF OpenFails
  <2>2. CASE ~Required(Write(j).file)
    BY <1>5, <2>2, UnwrittenOnly DEF OpenFails
  <2> QED
    BY <2>1, <2>2
<1>6. CASE WriteUnflushed(j)
  BY <1>6 DEF WriteUnflushed
<1>7. CASE BundleWritten(j) \/ NagaSkip(j) \/ NagaNeeded(j) \/ FindMissing(j) \/ NagaStart(j)
  BY <1>7, BundleWrittenOnly, NagaSkipOnly, NagaFindOnly, NagaStartOnly
<1>8. CASE Convert(j) \/ PatchRead(j) \/ PatchOpen(j) \/ PatchWrite(j)
  BY <1>8, ConvertOnly, PatchReadOnly, PatchOpenOnly, PatchWriteOnly
<1> QED
  BY <1>1, <1>2, <1>3, <1>4, <1>5, <1>6, <1>7, <1>8 DEF JobStep

\* One run at a time.
OneJob == \A j, k \in Job : j = k

(*************************************************************************)
(* A run that reports success has left every bundle whole, with the WGSL *)
(* that was asked for and, with naga, of every stage, over whatever runs *)
(* of other texts, failed or killed, left before it.  The runs are one   *)
(* after the other, their stages of different kinds and as many as the   *)
(* reader takes, and what was written reaches the disk.                  *)
(*************************************************************************)
THEOREM ReportedAlwaysComplete ==
  OneJob /\ OwnFiles /\ FewStages /\ MarkersDiffer /\ ~FlushFails => (Spec => []ReportedComplete)
<1> SUFFICES ASSUME OneJob, OwnFiles, FewStages, MarkersDiffer, ~FlushFails PROVE Spec => []ReportedComplete
  OBVIOUS
<1>1. Init => AllRun /\ MissingIn
  BY DEF Init, MissingIn, AllRun, OnlyRun, Wrote, Converted, Compiled, Scripted
<1>2. IInv /\ MissingIn /\ AllRun /\ [Next]_vars => AllRun'
  <2> SUFFICES ASSUME IInv, MissingIn, AllRun, [Next]_vars, NEW j \in Job PROVE OnlyRun(j)'
    BY DEF AllRun
  <2>1. OnlyRun(j)
    BY DEF AllRun
  <2>2. CASE UNCHANGED vars
    BY <2>1, <2>2 DEF vars, OnlyRun, Wrote, Converted, Compiled, Scripted, Dir, Artifact, Full
  <2>3. CASE Next
    <3>1. PICK k \in Job : JobStep(k) \/ StartRun(k)
      BY <2>3 DEF Next, JobStep
    <3>2. JobStep(j) \/ StartRun(j)
      BY <3>1 DEF OneJob
    <3> QED
      BY <2>1, <3>2, JobStepOnly
  <2> QED
    BY <2>2, <2>3
<1>3. IInv /\ AllRun => ReportedComplete
  <2> SUFFICES ASSUME IInv, AllRun, NEW j \in Job, pc[j] = "done", NEW v \in DOMAIN manifest[j]
               PROVE  /\ HoldsArtifact(dirs[v], manifest[j][v])
                      /\ \A i \in DOMAIN ReadHeader(dirs[v]).stages :
                           Naga \/ "eWGSL" \in manifest[j][v].stages[i].targets =>
                             ReadHeader(dirs[v]).stages[i].wgsl_file # NoFile
    BY DEF ReportedComplete
  <2> DEFINE d == dirs[v]
             a == manifest[j][v]
             h == d[HeaderFile]
  <2>1. Finished(d, a) /\ (Naga => Full(h))
    BY DEF AllRun, OnlyRun, Scripted
  <2>2. Len(a.stages) \in Nat /\ Len(a.stages) <= MaxStages
    BY ManifestsAssumption DEF IInv, Shape, FewStages
  <2> HIDE DEF d, a
  <2>3. HeaderFile \in DOMAIN d /\ Whole(d, h, a) /\ HeaderFor(h, a)
    BY <2>1 DEF Finished, Whole
  <2>4. h # Truncated /\ h # Unreadable /\ ~(Len(h.stages) > MaxStages)
    <3>1. Len(h.stages) = Len(a.stages) /\ DOMAIN h = {"name", "stages"}
      BY <2>3 DEF HeaderFor
    <3>2. h # Truncated /\ h # Unreadable
      BY <3>1, Zenon DEF MarkersDiffer
    <3>3. ~(Len(h.stages) > MaxStages)
      BY <2>2, <3>1 DEF MaxStages
    <3> QED
      BY <3>2, <3>3
  <2>5. ReadHeader(d) = h
    BY <2>3, <2>4 DEF ReadHeader
  <2>6. HoldsArtifact(d, a)
    BY <2>3, <2>4, <2>5 DEF Whole, HeaderFor, HoldsArtifact, StageFiles
  <2>7. \A i \in DOMAIN h.stages : Naga \/ "eWGSL" \in a.stages[i].targets => h.stages[i].wgsl_file # NoFile
    BY <2>1, <2>3 DEF Finished, Full, HeaderFor
  <2> QED
    BY <2>5, <2>6, <2>7 DEF d, a
<1> QED
  BY <1>1, <1>2, <1>3, Inductive, InitIInv, NextIInv, NextMissing, PTL DEF Spec
------------------------------------------------------------------------------
\* Of a first run, what a reader sees of it.

\* Before naga, a header is the one that the compiler has written.
HeaderIs(d, v, m) == NoHeaderIn(d) \/ (v \in DOMAIN m /\ d[HeaderFile] = HeaderOf(m[v]))

\* The bundles that the script has still to look at, and the one it patches.
Unpatched(j) ==
  /\ pc[j] \in {"build", "open", "write", "written"} => \A v \in Variant : HeaderIs(dirs[v], v, manifest[j])
  /\ pc[j] \in {"naga", "find", "parse", "convert", "patch", "patching"} =>
       \A v \in DOMAIN manifest[j] : v >= variant[j] =>
         (pc[j] = "patching" /\ v = variant[j]) \/ dirs[v][HeaderFile] = HeaderOf(manifest[j][v])
  /\ pc[j] \in {"find", "parse", "convert", "patch", "patching"} => Readers!AskedFor(Artifact(j)) # DOMAIN Artifact(j).stages
  /\ pc[j] = "patching" => NoHeaderIn(Dir(j))

Lone(j) == FirstRun(j) /\ OnlyRun(j) /\ Unpatched(j)

Sight == [v \in Variant |-> Seen(dirs[v])]
ReadersVars == <<Status, manifest, Sight>>
ReadersStep == [Readers!Next]_ReadersVars

\* A directory without a header shows nothing.
LEMMA SeenNothing ==
  ASSUME NEW d, NoHeaderIn(d)
  PROVE  Seen(d) = Unreadable
BY DEF NoHeaderIn, Seen, ReadHeader

\* A reader takes the header of a whole bundle.
LEMMA WholeRead ==
  ASSUME FewStages, MarkersDiffer, NEW m \in Manifests, NEW u \in DOMAIN m, NEW d,
         HeaderFile \in DOMAIN d, Whole(d, d[HeaderFile], m[u])
  PROVE  /\ ReadHeader(d) = d[HeaderFile]
         /\ d[HeaderFile] # Truncated /\ d[HeaderFile] # Unreadable
<1> DEFINE h == d[HeaderFile]
<1>1. Len(h.stages) = Len(m[u].stages) /\ DOMAIN h = {"name", "stages"}
  BY DEF Whole, HeaderFor
<1>2. Len(m[u].stages) \in Nat /\ Len(m[u].stages) <= MaxStages
  BY ManifestsAssumption DEF FewStages
<1>3. h # Truncated /\ h # Unreadable
  BY <1>1, Zenon DEF MarkersDiffer
<1>4. ~(Len(h.stages) > MaxStages)
  BY <1>1, <1>2 DEF MaxStages
<1> QED
  BY <1>3, <1>4 DEF ReadHeader

\* A whole bundle shows its artifact, with the WGSL that its header names.
LEMMA SeenWhole ==
  ASSUME FewStages, MarkersDiffer, NEW m \in Manifests, NEW u \in DOMAIN m, NEW d, NoFile \notin DOMAIN d,
         HeaderFile \in DOMAIN d, Whole(d, d[HeaderFile], m[u])
  PROVE  Seen(d) = Readers!Bundle(m[u], {i \in DOMAIN m[u].stages : d[HeaderFile].stages[i].wgsl_file # NoFile})
<1> DEFINE h == d[HeaderFile]
           a == m[u]
           wgsl == {i \in DOMAIN a.stages : h.stages[i].wgsl_file # NoFile}
           seen(i) == [kind  |-> h.stages[i].stage,
                       spirv |-> Contents(d, h.stages[i].spirv_file),
                       msl   |-> Contents(d, h.stages[i].msl_file),
                       wgsl  |-> Contents(d, h.stages[i].wgsl_file)]
           made(i) == [kind  |-> a.stages[i].kind,
                       spirv |-> a.stages[i].spirv,
                       msl   |-> IF "eMSL" \in a.stages[i].targets THEN a.stages[i].spirv ELSE NoFile,
                       wgsl  |-> IF i \in wgsl THEN a.stages[i].spirv ELSE NoFile]
<1>1. ReadHeader(d) = h /\ h # Unreadable
  BY WholeRead
<1>2. HeaderFor(h, a)
  BY DEF Whole
<1>3. ASSUME NEW i \in DOMAIN a.stages
      PROVE  seen(i) = made(i)
  <2> DEFINE f == h.stages[i]
             s == a.stages[i]
  <2>1. \A file : file \in NamedFiles(f) => Contents(d, file) = s.spirv
    BY DEF Whole, Contents
  <2>2. /\ f.stage = s.kind /\ f.spirv_file = StageFile(a, s, "spv")
        /\ f.msl_file = TargetFile(a, s, "eMSL", "msl")
    BY <1>2 DEF HeaderFor
  <2>3. StageFile(a, s, "spv") # NoFile /\ StageFile(a, s, "msl") # NoFile
    BY NoFileAssumption
  <2>4. Contents(d, NoFile) = NoFile
    BY DEF Contents
  <2>5. Contents(d, f.spirv_file) = s.spirv
    BY <2>1, <2>2, <2>3 DEF NamedFiles
  <2>6. Contents(d, f.msl_file) = IF "eMSL" \in s.targets THEN s.spirv ELSE NoFile
    BY <2>1, <2>2, <2>3, <2>4 DEF NamedFiles, TargetFile
  <2>7. Contents(d, f.wgsl_file) = IF i \in wgsl THEN s.spirv ELSE NoFile
    BY <2>1, <2>4 DEF NamedFiles
  <2> QED
    BY <2>2, <2>5, <2>6, <2>7
<1>4. Contents(d, ReflectionFile) = ReflectionOf(a)
  BY DEF Whole, Contents
<1>5. Seen(d) = [name |-> h.name, stages |-> [i \in DOMAIN h.stages |-> seen(i)],
                 reflection |-> Contents(d, ReflectionFile)]
  BY <1>1 DEF Seen
<1>6. Readers!Bundle(a, wgsl) = [name |-> a.name, stages |-> [i \in DOMAIN a.stages |-> made(i)],
                                 reflection |-> ReflectionOf(a)]
  BY DEF Readers!Bundle, ReflectionOf
<1>7. h.name = a.name /\ DOMAIN h.stages = DOMAIN a.stages
  BY <1>2 DEF HeaderFor
<1> HIDE DEF seen, made, h, a, wgsl
<1>8. [i \in DOMAIN h.stages |-> seen(i)] = [i \in DOMAIN a.stages |-> made(i)]
  BY <1>3, <1>7
<1>9. Seen(d) = Readers!Bundle(a, wgsl)
  BY <1>4, <1>5, <1>6, <1>7, <1>8
<1> QED
  BY <1>9 DEF h, a, wgsl

\* With the compiler's own header it is the bundle as it was compiled ...
LEMMA SeenCompiled ==
  ASSUME FewStages, MarkersDiffer, NEW m \in Manifests, NEW u \in DOMAIN m, NEW d, NoFile \notin DOMAIN d,
         HeaderFile \in DOMAIN d, d[HeaderFile] = HeaderOf(m[u]), Whole(d, d[HeaderFile], m[u])
  PROVE  Seen(d) = Readers!AsCompiled(m[u])
<1> DEFINE a == m[u]
<1>1. \A i \in DOMAIN a.stages : d[HeaderFile].stages[i].wgsl_file = TargetFile(a, a.stages[i], "eWGSL", "wgsl")
  BY DEF HeaderOf, StageFiles
<1>2. \A i \in DOMAIN a.stages : StageFile(a, a.stages[i], "wgsl") # NoFile
  BY NoFileAssumption
<1>3. {i \in DOMAIN a.stages : d[HeaderFile].stages[i].wgsl_file # NoFile} = Readers!AskedFor(a)
  BY <1>1, <1>2 DEF Readers!AskedFor, TargetFile
<1> QED
  BY <1>3, SeenWhole DEF Readers!AsCompiled

\* ... with a full one it is complete.
LEMMA SeenCompleted ==
  ASSUME FewStages, MarkersDiffer, NEW m \in Manifests, NEW u \in DOMAIN m, NEW d, NoFile \notin DOMAIN d,
         HeaderFile \in DOMAIN d, Full(d[HeaderFile]), Whole(d, d[HeaderFile], m[u])
  PROVE  Seen(d) = Readers!Completed(m[u])
<1> DEFINE a == m[u]
<1>1. DOMAIN d[HeaderFile].stages = DOMAIN a.stages
  BY DEF Whole, HeaderFor
<1>2. {i \in DOMAIN a.stages : d[HeaderFile].stages[i].wgsl_file # NoFile} = DOMAIN a.stages
  BY <1>1 DEF Full
<1> QED
  BY <1>2, SeenWhole DEF Readers!Completed

\* The header stays as it is, or nothing is there before and after.
SameHeader(d, e) ==
  \/ NoHeaderIn(d) /\ NoHeaderIn(e)
  \/ HeaderFile \in DOMAIN d /\ HeaderFile \in DOMAIN e /\ d[HeaderFile] = e[HeaderFile]

Quiet == \A v \in Variant : SameHeader(dirs[v], dirs'[v])

\* Then a reader sees no difference: the bundle is whole before and after.
LEMMA SightStays ==
  ASSUME FewStages, MarkersDiffer, IInv, TypeOK, TypeOK', NEW j \in Job, FirstRun(j), FirstRun(j)',
         UNCHANGED manifest, Quiet
  PROVE  Sight' = Sight
<1>1. ASSUME NEW v \in Variant
      PROVE  Seen(dirs'[v]) = Seen(dirs[v])
  <2> DEFINE d == dirs[v]
             e == dirs'[v]
             m == manifest[j]
  <2>1. m \in Manifests /\ NoFile \notin DOMAIN d /\ NoFile \notin DOMAIN e
    BY DEF IInv, Shape, TypeOK, Variant
  <2>2. Good(d, v, m) /\ Good(e, v, m)
    BY DEF FirstRun, AllGood, Variant
  <2>3. CASE NoHeaderIn(d)
    <3>1. NoHeaderIn(e)
      BY <2>3 DEF Quiet, SameHeader, NoHeaderIn
    <3> QED
      BY <2>3, <3>1, SeenNothing
  <2>4. CASE ~NoHeaderIn(d)
    <3>1. HeaderFile \in DOMAIN d /\ HeaderFile \in DOMAIN e /\ d[HeaderFile] = e[HeaderFile]
          /\ d[HeaderFile] # Truncated
      BY <2>4 DEF Quiet, SameHeader, NoHeaderIn
    <3>2. v \in DOMAIN m /\ Whole(d, d[HeaderFile], m[v]) /\ Whole(e, e[HeaderFile], m[v])
      BY <2>2, <3>1 DEF Good
    <3> HIDE DEF d, e, m
    <3>3. Seen(d) = Readers!Bundle(m[v], {i \in DOMAIN m[v].stages : d[HeaderFile].stages[i].wgsl_file # NoFile})
      BY <2>1, <3>1, <3>2, SeenWhole
    <3>4. Seen(e) = Readers!Bundle(m[v], {i \in DOMAIN m[v].stages : e[HeaderFile].stages[i].wgsl_file # NoFile})
      BY <2>1, <3>1, <3>2, SeenWhole
    <3>5. Seen(e) = Seen(d)
      BY <3>1, <3>3, <3>4
    <3> QED
      BY <3>5 DEF d, e
  <2> QED
    BY <2>3, <2>4
<1> QED
  BY <1>1 DEF Sight, Variant

\* A bundle that is finished and not patched is seen as it was compiled.
LEMMA FinishedSeen ==
  ASSUME FewStages, MarkersDiffer, NEW m \in Manifests, NEW u \in DOMAIN m, NEW d, NoFile \notin DOMAIN d,
         Finished(d, m[u])
  PROVE  /\ HeaderIs(d, u, m) => d[HeaderFile] = HeaderOf(m[u])
         /\ d[HeaderFile] = HeaderOf(m[u]) => Seen(d) = Readers!AsCompiled(m[u])
         /\ Full(d[HeaderFile]) => Seen(d) = Readers!Completed(m[u])
<1>1. HeaderFile \in DOMAIN d /\ Whole(d, d[HeaderFile], m[u])
  BY DEF Finished
<1>2. d[HeaderFile] # Truncated
  BY <1>1, WholeRead
<1> QED
  BY <1>1, <1>2, SeenCompiled, SeenCompleted DEF HeaderIs, NoHeaderIn

\* Another file of the directory does not touch the header.
LEMMA OtherFileQuiet ==
  ASSUME IInv, NEW j \in Job, NEW file, NEW content, Put(j, file, content),
         \/ file # HeaderFile
         \/ content = Truncated /\ NoHeaderIn(Dir(j))
  PROVE  Quiet
<1>1. /\ \A v \in Variant : v # variant[j] => dirs'[v] = dirs[v]
      /\ dirs'[variant[j]] = [f \in DOMAIN dirs[variant[j]] \cup {file} |->
                                IF f = file THEN content ELSE dirs[variant[j]][f]]
  BY PutGrows, Variants DEF IInv, Put, Shape
<1>2. SameHeader(dirs[variant[j]], dirs'[variant[j]])
  BY <1>1 DEF SameHeader, NoHeaderIn, Dir
<1>3. ASSUME NEW v \in Variant, v # variant[j]
      PROVE  SameHeader(dirs[v], dirs'[v])
  BY <1>1, <1>3 DEF SameHeader, NoHeaderIn
<1> QED
  BY <1>2, <1>3 DEF Quiet

LEMMA SameDirsQuiet ==
  ASSUME UNCHANGED dirs
  PROVE  Quiet
BY DEF Quiet, SameHeader, NoHeaderIn

\* The steps that show something write the header.
LEMMA StepQuiet ==
  ASSUME IInv, NEW j \in Job, ~FlushFails, FirstRun(j), JobStep(j)
  PROVE  /\ UNCHANGED manifest
         /\ \/ Quiet
            \/ WriteFile(j) /\ Write(j).file = HeaderFile
            \/ PatchOpen(j)
            \/ PatchWrite(j)
<1>1. CASE \/ BuildVariant(j) \/ BuildFails(j) \/ SkipFile(j) \/ OpenFails(j) \/ EmitDeclsFails(j)
           \/ BundleWritten(j) \/ NagaSkip(j) \/ NagaNeeded(j) \/ FindMissing(j) \/ NagaStart(j)
           \/ NagaRefused(j) \/ PatchRead(j) \/ PatchRefused(j) \/ PatchFails(j) \/ Crash(j)
  <2>1. UNCHANGED <<dirs, manifest>>
    BY <1>1 DEF BuildVariant, BuildFails, SkipFile, OpenFails, EmitDeclsFails, BundleWritten, NagaSkip,
                NagaNeeded, FindMissing, NagaStart, NagaRefused, PatchRead, PatchRefused, PatchFails, Crash, Fail, NextBundle, job
  <2> QED
    BY <2>1, SameDirsQuiet
<1>2. CASE OpenFile(j)
  <2>1. /\ pc[j] = "open" /\ Write(j).file # NoFile /\ Put(j, Write(j).file, Truncated) /\ UNCHANGED manifest
    BY <1>2 DEF OpenFile, job
  <2>2. Write(j).file = HeaderFile => NoHeaderIn(Dir(j))
    BY <2>1, Place DEF FirstRun, NotYet
  <2> QED
    BY <2>1, <2>2, OtherFileQuiet
<1>3. CASE WriteFile(j)
  BY <1>3, OtherFileQuiet DEF WriteFile
<1>4. CASE WriteFails(j)
  BY <1>4, OtherFileQuiet DEF WriteFails, Large, Fail, job
<1>5. CASE WriteUnflushed(j)
  BY <1>5 DEF WriteUnflushed
<1>6. CASE Convert(j)
  <2>1. PICK i \in ToConvert(j) :
          /\ Put(j, WgslName(SpirvFile(j, i)), Dir(j)[SpirvFile(j, i)])
          /\ UNCHANGED manifest
    BY <1>6 DEF Convert
  <2> QED
    BY <2>1, WgslNames, OtherFileQuiet
<1>7. CASE ConvertFails(j)
  <2>1. PICK i \in ToConvert(j) :
          /\ UNCHANGED dirs \/ Put(j, WgslName(SpirvFile(j, i)), Cut)
          /\ UNCHANGED manifest
    BY <1>7 DEF ConvertFails, Fail, job
  <2> QED
    BY <2>1, WgslNames, OtherFileQuiet, SameDirsQuiet
<1>8. CASE PatchOpen(j) \/ PatchWrite(j)
  BY <1>8 DEF PatchOpen, PatchWrite, NextBundle, job
<1> QED
  BY <1>1, <1>2, <1>3, <1>4, <1>5, <1>6, <1>7, <1>8 DEF JobStep

Compiling == {"build", "open", "write", "written"}
Completing == {"naga", "find", "parse", "convert", "patch", "patching"}

\* What the status of a job is when it alone moves.
LEMMA StatusMoves ==
  ASSUME IInv, NEW j \in Job, NEW to, Goto(j, to)
  PROVE  /\ pc'[j] = to
         /\ Status' = [Status EXCEPT ![j] = Status'[j]]
         /\ pc[j] \in Compiling => Status[j] = "compiling"
         /\ pc[j] \in Completing => Status[j] = "completing"
         /\ to \in Compiling => Status'[j] = "compiling"
         /\ to \in Completing => Status'[j] = "completing"
         /\ to \in {"done", "failed"} => Status'[j] = to
<1>1. DOMAIN pc = Job /\ pc' = [pc EXCEPT ![j] = to]
  BY DEF IInv, Shape, Goto
<1>2. pc'[j] = to /\ \A k \in Job \ {j} : pc'[k] = pc[k]
  BY <1>1
<1>3. \A k \in Job \ {j} : Status'[k] = Status[k]
  BY <1>2 DEF Status
<1>4. Status' = [Status EXCEPT ![j] = Status'[j]]
  BY <1>3 DEF Status
<1> QED
  BY <1>2, <1>4 DEF Status, Compiling, Completing

\* A job that stays in its phase changes no status.
LEMMA SamePhase ==
  ASSUME IInv, NEW j \in Job, NEW to, Goto(j, to),
         \/ pc[j] \in Compiling /\ to \in Compiling
         \/ pc[j] \in Completing /\ to \in Completing
  PROVE  Status' = Status
<1>1. Status' = [Status EXCEPT ![j] = Status'[j]] /\ Status'[j] = Status[j]
  BY StatusMoves
<1> QED
  BY <1>1 DEF Status

\* Headers that are not touched remain the compiler's.
LEMMA HeadersStay ==
  ASSUME NEW m, NEW v, NEW d, NEW e, SameHeader(d, e)
  PROVE  HeaderIs(d, v, m) => HeaderIs(e, v, m)
BY DEF SameHeader, HeaderIs, NoHeaderIn

\* The compiler goes on.
LEMMA CompilingQuiet ==
  ASSUME IInv, NEW j \in Job, Unpatched(j), NEW to, Goto(j, to), pc[j] \in Compiling, to \in Compiling,
         Quiet, UNCHANGED manifest, Sight' = Sight
  PROVE  Unpatched(j)' /\ ReadersStep
<1>1. Status' = Status /\ pc'[j] = to
  BY SamePhase, StatusMoves
<1>2. \A v \in Variant : HeaderIs(dirs'[v], v, manifest'[j])
  BY HeadersStay DEF Unpatched, Compiling, Quiet
<1>3. Unpatched(j)'
  BY <1>1, <1>2 DEF Unpatched, Compiling, Variant
<1> QED
  BY <1>1, <1>3 DEF ReadersStep, ReadersVars

\* A run stops where it is.
LEMMA FailSeen ==
  ASSUME IInv, NEW j \in Job, Fail(j), pc[j] \in Compiling \cup Completing, Sight' = Sight
  PROVE  Unpatched(j)' /\ ReadersStep
<1>1. /\ Goto(j, "failed") /\ UNCHANGED manifest
      /\ pc'[j] = "failed" /\ Status' = [Status EXCEPT ![j] = "failed"]
      /\ Status[j] \in {"compiling", "completing"}
  BY StatusMoves DEF Fail, job
<1>2. Readers!Fail(j)
  BY <1>1 DEF Readers!Fail, Readers!Becomes, Sight
<1>3. Unpatched(j)'
  BY <1>1 DEF Unpatched
<1> QED
  BY <1>2, <1>3 DEF ReadersStep, Readers!Next

\* The bundles of the variants that the compiler is done with, and of the others.
LEMMA CompiledSeen ==
  ASSUME FewStages, MarkersDiffer, IInv, TypeOK, NEW j \in Job, Lone(j), pc[j] = "write",
         step[j] <= HeaderStep(j)
  PROVE  \A u \in DOMAIN manifest[j] :
           Sight[u] = IF u < variant[j] THEN Readers!AsCompiled(manifest[j][u]) ELSE Unreadable
<1> SUFFICES ASSUME NEW u \in DOMAIN manifest[j]
             PROVE  Sight[u] = IF u < variant[j] THEN Readers!AsCompiled(manifest[j][u]) ELSE Unreadable
  OBVIOUS
<1> DEFINE d == dirs[u]
           m == manifest[j]
<1>1. /\ u \in Variant /\ m \in Manifests /\ NoFile \notin DOMAIN d /\ Sight[u] = Seen(d)
      /\ u \in Nat /\ variant[j] \in Nat /\ variant[j] >= 1 /\ u \in 1 .. Len(m)
  BY OwnVariants DEF IInv, Shape, TypeOK, Sight
<1>2. CASE u < variant[j]
  <2>1. u \in 1 .. variant[j] - 1
    BY <1>1, <1>2
  <2>2. Finished(d, m[u]) /\ HeaderIs(d, u, m)
    BY <1>1, <2>1 DEF Lone, OnlyRun, Compiled, Unpatched
  <2> HIDE DEF d, m
  <2>3. Seen(d) = Readers!AsCompiled(m[u])
    BY <1>1, <2>2, FinishedSeen DEF m
  <2> QED
    BY <1>1, <1>2, <2>3 DEF m
<1>3. CASE u = variant[j]
  <2>1. NoHeaderIn(d)
    BY <1>3 DEF Lone, FirstRun, NotYet, Dir
  <2> QED
    BY <1>1, <1>3, <2>1, SeenNothing
<1>4. CASE u > variant[j]
  <2>1. NoHeaderIn(d)
    BY <1>1, <1>4 DEF Lone, FirstRun, NoneAhead
  <2> QED
    BY <1>1, <1>4, <2>1, SeenNothing
<1> QED
  BY <1>1, <1>2, <1>3, <1>4

\* The header makes a bundle appear.
LEMMA HeaderPublishes ==
  ASSUME FewStages, MarkersDiffer, IInv, TypeOK, TypeOK', NEW j \in Job, Lone(j), FirstRun(j)',
         WriteFile(j), Write(j).file = HeaderFile
  PROVE  Unpatched(j)' /\ ReadersStep
<1> DEFINE v == variant[j]
           m == manifest[j]
           e == dirs'[v]
<1>1. /\ pc[j] = "write" /\ Put(j, HeaderFile, Write(j).content) /\ Advance(j)
      /\ UNCHANGED <<manifest, variant, parsed, wgsl_map, runs>>
  BY DEF WriteFile
<1>2. Write(j).file # NoFile
  BY <1>1 DEF IInv, JobInv, OpenIn
<1>3. step[j] <= HeaderStep(j) /\ Write(j).content = HeaderOf(Artifact(j))
  BY <1>2, Place
<1>4. /\ m \in Manifests /\ v \in DOMAIN m /\ v \in Variant /\ NoFile \notin DOMAIN e /\ Artifact(j) = m[v]
  BY OwnVariants DEF IInv, Shape, TypeOK, Artifact
<1>5. HeaderFile \in DOMAIN e /\ e[HeaderFile] = HeaderOf(m[v]) /\ \A u \in Variant : u # v => dirs'[u] = dirs[u]
  BY <1>1, <1>3, <1>4, PutGrows DEF IInv
<1>6. e[HeaderFile] # Truncated
  <2>1. DOMAIN HeaderOf(m[v]) = {"name", "stages"}
    BY DEF HeaderOf
  <2> QED
    BY <1>5, <2>1 DEF MarkersDiffer
<1>7. Whole(e, e[HeaderFile], m[v])
  <2>1. Good(e, v, m)
    BY <1>1, <1>4 DEF FirstRun, AllGood, Variant
  <2> QED
    BY <1>5, <1>6, <2>1 DEF Good
<1>8. Seen(e) = Readers!AsCompiled(m[v])
  <2> HIDE DEF e, m, v
  <2> QED
    BY <1>4, <1>5, <1>7, SeenCompiled
<1>9. Sight' = [Sight EXCEPT ![v] = Readers!AsCompiled(m[v])]
  <2>1. \A u \in Variant : u # v => Seen(dirs'[u]) = Seen(dirs[u])
    BY <1>5
  <2> QED
    BY <1>4, <1>8, <2>1 DEF Sight, Variant
<1>10. PICK to \in Compiling : Goto(j, to)
  BY <1>1 DEF Advance, Compiling
<1>11. Status' = Status /\ Status[j] = "compiling" /\ pc'[j] \in Compiling
  BY <1>1, <1>10, SamePhase, StatusMoves DEF Compiling
<1>12. Readers!Publish(j)
  <2>1. \A u \in DOMAIN m : Sight[u] = IF u < v THEN Readers!AsCompiled(m[u]) ELSE Unreadable
    BY <1>1, <1>3, CompiledSeen
  <2> HIDE DEF v, m, e
  <2>2. UNCHANGED <<Status, manifest>>
    BY <1>1, <1>11
  <2> QED
    BY <1>4, <1>9, <1>11, <2>1, <2>2 DEF Readers!Publish, Sight, m
<1>13. Unpatched(j)'
  <2>1. \A u \in Variant : HeaderIs(dirs'[u], u, m)
    BY <1>1, <1>4, <1>5 DEF HeaderIs, Lone, Unpatched
  <2> QED
    BY <1>1, <1>11, <2>1 DEF Unpatched, Compiling, Variant
<1> QED
  BY <1>12, <1>13 DEF ReadersStep, Readers!Next

\* The compiler leaves bundles as it has compiled them.
LEMMA CompilerEndsSeen ==
  ASSUME FewStages, MarkersDiffer, IInv, TypeOK, NEW j \in Job, Lone(j), OnlyRun(j)', BundleWritten(j),
         variant[j] = Len(manifest[j])
  PROVE  Unpatched(j)' /\ ReadersStep
<1> DEFINE m == manifest[j]
           to == IF Naga THEN "naga" ELSE "done"
<1>1. /\ pc[j] = "written" /\ Goto(j, to) /\ UNCHANGED <<dirs, manifest>>
      /\ variant' = [variant EXCEPT ![j] = 1]
  BY OwnVariants DEF BundleWritten
<1>2. /\ pc'[j] = to /\ Status[j] = "compiling"
      /\ Status' = [Status EXCEPT ![j] = IF Naga THEN "completing" ELSE "done"]
  BY <1>1, StatusMoves DEF Compiling, Completing
<1>3. ASSUME NEW u \in DOMAIN m
      PROVE  dirs[u][HeaderFile] = HeaderOf(m[u]) /\ Sight[u] = Readers!AsCompiled(m[u])
  <2>1. Finished(dirs[u], m[u])
    BY <1>1, <1>2 DEF OnlyRun, Scripted
  <2>2. u \in Variant /\ m \in Manifests /\ NoFile \notin DOMAIN dirs[u]
    BY OwnVariants DEF IInv, Shape, TypeOK
  <2>3. HeaderIs(dirs[u], u, m)
    BY <1>1, <2>2 DEF Lone, Unpatched
  <2> QED
    BY <2>1, <2>2, <2>3, FinishedSeen DEF Sight
<1>4. Sight' = Sight
  BY <1>1 DEF Sight, Variant
<1>5. Readers!CompilerEnds(j)
  BY <1>1, <1>2, <1>3, <1>4 DEF Readers!CompilerEnds, Readers!Becomes, Sight
<1>6. Unpatched(j)'
  BY <1>1, <1>2, <1>3 DEF Unpatched
<1> QED
  BY <1>5, <1>6 DEF ReadersStep, Readers!Next

\* The bundles that the script has gone past, and those ahead of it.
LEMMA ScriptedSeen ==
  ASSUME FewStages, MarkersDiffer, IInv, TypeOK, NEW j \in Job, Lone(j), pc[j] \in Completing
  PROVE  /\ Readers!CompletedUpTo(j, variant[j])
         /\ pc[j] # "patching" => Sight[variant[j]] = Readers!AsCompiled(manifest[j][variant[j]])
<1> DEFINE m == manifest[j]
<1>1. ASSUME NEW u \in DOMAIN m, u # variant[j] \/ pc[j] # "patching"
      PROVE  Sight[u] = IF u < variant[j] THEN Readers!Completed(m[u]) ELSE Readers!AsCompiled(m[u])
  <2>1. /\ u \in Variant /\ m \in Manifests /\ NoFile \notin DOMAIN dirs[u] /\ Sight[u] = Seen(dirs[u])
        /\ u \in 1 .. Len(m) /\ Len(m) \in Nat /\ variant[j] \in Nat
    BY OwnVariants DEF IInv, Shape, TypeOK, Sight
  <2>2. Finished(dirs[u], m[u])
    BY <1>1 DEF Lone, OnlyRun, Scripted, Completing
  <2>3. CASE u < variant[j]
    <3>1. u \in 1 .. variant[j] - 1
      BY <2>1, <2>3
    <3>2. Full(dirs[u][HeaderFile])
      BY <3>1 DEF Lone, OnlyRun, Scripted, Completing
    <3> QED
      BY <2>1, <2>2, <2>3, <3>2, FinishedSeen
  <2>4. CASE u >= variant[j]
    <3>1. dirs[u][HeaderFile] = HeaderOf(m[u])
      BY <1>1, <2>4 DEF Lone, Unpatched, Completing
    <3>2. ~(u < variant[j])
      BY <2>1, <2>4
    <3> QED
      BY <2>1, <2>2, <3>1, <3>2, FinishedSeen
  <2> QED
    BY <2>1, <2>3, <2>4
<1>2. variant[j] \in DOMAIN m /\ ~(variant[j] < variant[j])
  BY OwnVariants
<1>3. \A u \in DOMAIN m : u \in Variant
  BY OwnVariants
<1> QED
  BY <1>1, <1>2, <1>3 DEF Readers!CompletedUpTo, Sight

\* The script reads headers and writes WGSL files: nothing is seen of it.
LEMMA CompletingQuiet ==
  ASSUME IInv, NEW j \in Job, Unpatched(j), NEW to \in {"find", "parse", "convert", "patch"}, Goto(j, to),
         pc[j] \in {"naga", "find", "parse", "convert"}, Readers!AskedFor(Artifact(j)) # DOMAIN Artifact(j).stages,
         \A v \in DOMAIN manifest[j] : dirs[v][HeaderFile] = HeaderOf(manifest[j][v]) =>
           dirs'[v][HeaderFile] = HeaderOf(manifest[j][v]),
         UNCHANGED <<manifest, variant>>, Sight' = Sight
  PROVE  Unpatched(j)' /\ ReadersStep
<1>1. Status' = Status /\ pc'[j] = to
  BY SamePhase, StatusMoves DEF Completing
<1>2. Artifact(j)' = Artifact(j)
  BY DEF Artifact
<1>3. Unpatched(j)'
  BY <1>1, <1>2 DEF Unpatched
<1> QED
  BY <1>1, <1>3 DEF ReadersStep, ReadersVars

\* A stage without WGSL was not compiled to it.
LEMMA NagaNeededSeen ==
  ASSUME MarkersDiffer, IInv, NEW j \in Job, Lone(j), NagaNeeded(j), Sight' = Sight
  PROVE  Unpatched(j)' /\ ReadersStep
<1> DEFINE a == Artifact(j)
<1>1. pc[j] = "naga" /\ Goto(j, "find") /\ UNCHANGED <<dirs, manifest, variant>> /\ BundleMissingWgsl(Dir(j)) # {}
  BY DEF NagaNeeded, job
<1>2. ParseHeader(Dir(j)) = HeaderOf(a)
  <2>1. ParseHeader(Dir(j)) = Dir(j)[HeaderFile]
    BY <1>1, AtBundle DEF Lone, OnlyRun
  <2>2. variant[j] \in DOMAIN manifest[j] /\ variant[j] >= variant[j]
    BY OwnVariants
  <2> QED
    BY <1>1, <2>1, <2>2 DEF Lone, Unpatched, Dir, Artifact
<1>3. PICK i \in DOMAIN a.stages : HeaderOf(a).stages[i].wgsl_file = NoFile
  BY <1>1, <1>2 DEF BundleMissingWgsl, StagesWithoutWgsl, HeaderOf
<1>4. HeaderOf(a).stages[i].wgsl_file = TargetFile(a, a.stages[i], "eWGSL", "wgsl")
  BY DEF HeaderOf, StageFiles
<1>5. StageFile(a, a.stages[i], "wgsl") # NoFile
  BY NoFileAssumption DEF IInv, Shape, Artifact
<1>6. i \notin Readers!AskedFor(a)
  BY <1>3, <1>4, <1>5 DEF TargetFile, Readers!AskedFor
<1> QED
  BY <1>1, <1>6, CompletingQuiet DEF Lone

\* A bundle that has its WGSL is complete; after the last one, success.
LEMMA NagaSkipSeen ==
  ASSUME FewStages, MarkersDiffer, IInv, TypeOK, NEW j \in Job, Lone(j), OnlyRun(j)', NagaSkip(j)
  PROVE  Unpatched(j)' /\ ReadersStep
<1> DEFINE m == manifest[j]
<1>1. pc[j] \in {"naga", "find"} /\ NextBundle(j) /\ UNCHANGED <<dirs, manifest>> /\ Naga
  BY DEF NagaSkip, NextBundle, Lone, OnlyRun, Scripted
<1>2. Sight' = Sight
  BY <1>1 DEF Sight, Variant
<1>3. CASE variant[j] < Len(m)
  <2>1. Goto(j, "naga") /\ variant'[j] = variant[j] + 1
    BY <1>1, <1>3 DEF NextBundle, IInv, Shape
  <2>2. Status' = Status /\ pc'[j] = "naga"
    BY <1>1, <2>1, SamePhase, StatusMoves DEF Completing
  <2>3. \A v \in DOMAIN m : v >= variant[j] + 1 => v >= variant[j]
    BY OwnVariants
  <2>4. Unpatched(j)'
    BY <1>1, <2>1, <2>2, <2>3 DEF Lone, Unpatched
  <2> QED
    BY <1>1, <1>2, <2>2, <2>4 DEF ReadersStep, ReadersVars
<1>4. CASE ~(variant[j] < Len(m))
  <2>1. Goto(j, "done")
    BY <1>1, <1>4 DEF NextBundle
  <2>2. pc'[j] = "done" /\ Status[j] = "completing" /\ Status' = [Status EXCEPT ![j] = "done"]
    BY <1>1, <2>1, StatusMoves DEF Completing
  <2>3. ASSUME NEW u \in DOMAIN m
        PROVE  Sight[u] = Readers!Completed(m[u])
    <3>1. Finished(dirs[u], m[u]) /\ Full(dirs[u][HeaderFile])
      BY <1>1, <2>2 DEF OnlyRun, Scripted
    <3>2. u \in Variant /\ m \in Manifests /\ NoFile \notin DOMAIN dirs[u]
      BY OwnVariants DEF IInv, Shape, TypeOK
    <3> QED
      BY <3>1, <3>2, FinishedSeen DEF Sight
  <2>4. Readers!ScriptEnds(j)
    BY <1>1, <1>2, <2>2, <2>3 DEF Readers!ScriptEnds, Readers!Becomes, Sight
  <2>5. Unpatched(j)'
    BY <2>2 DEF Unpatched
  <2> QED
    BY <2>4, <2>5 DEF ReadersStep, Readers!Next
<1> QED
  BY <1>3, <1>4

\* The truncated header takes the bundle away.
LEMMA PatchOpenSeen ==
  ASSUME FewStages, MarkersDiffer, IInv, TypeOK, NEW j \in Job, Lone(j), PatchOpen(j)
  PROVE  Unpatched(j)' /\ ReadersStep
<1> DEFINE v == variant[j]
           m == manifest[j]
<1>1. /\ pc[j] = "patch" /\ Goto(j, "patching") /\ UNCHANGED <<manifest, variant>>
      /\ Put(j, HeaderFile, Truncated) /\ dirs'[v][HeaderFile] = Truncated
  BY PatchOpenKept DEF Lone, OnlyRun, PatchOpen, job
<1>2. v \in Variant /\ v \in DOMAIN m /\ \A u \in Variant : u # v => dirs'[u] = dirs[u]
  BY <1>1, OwnVariants, PutGrows DEF IInv, Shape
<1>3. NoHeaderIn(dirs'[v])
  BY <1>1 DEF NoHeaderIn
<1>4. Sight' = [Sight EXCEPT ![v] = Unreadable]
  <2>1. \A u \in Variant : u # v => Seen(dirs'[u]) = Seen(dirs[u])
    BY <1>2
  <2>2. Seen(dirs'[v]) = Unreadable
    BY <1>3, SeenNothing
  <2> QED
    BY <1>2, <2>1, <2>2 DEF Sight, Variant
<1>5. Status' = Status /\ pc'[j] = "patching" /\ Status[j] = "completing"
  BY <1>1, SamePhase, StatusMoves DEF Completing
<1>6. Readers!CompletedUpTo(j, v) /\ Sight[v] = Readers!AsCompiled(m[v])
  BY <1>1, ScriptedSeen DEF Completing
<1>7. Readers!AskedFor(m[v]) # DOMAIN m[v].stages
  BY <1>1 DEF Lone, Unpatched, Artifact
<1>8. Readers!Withdraw(j)
  <2> HIDE DEF v, m
  <2> QED
    BY <1>1, <1>2, <1>4, <1>5, <1>6, <1>7 DEF Readers!Withdraw, Sight, m
<1>9. Unpatched(j)'
  <2>1. \A u \in DOMAIN m : u >= v => u = v \/ dirs'[u][HeaderFile] = HeaderOf(m[u])
    BY <1>1, <1>2, OwnVariants DEF Lone, Unpatched
  <2> QED
    BY <1>1, <1>3, <1>5, <1>7, <2>1 DEF Unpatched, Dir, Artifact
<1> QED
  BY <1>8, <1>9 DEF ReadersStep, Readers!Next

\* The patched header brings it back complete.
LEMMA PatchWriteSeen ==
  ASSUME FewStages, MarkersDiffer, IInv, TypeOK, TypeOK', NEW j \in Job, Lone(j), PatchWrite(j)
  PROVE  Unpatched(j)' /\ ReadersStep
<1> DEFINE v == variant[j]
           m == manifest[j]
           e == dirs'[v]
<1>1. /\ pc[j] = "patching" /\ Put(j, HeaderFile, parsed[j]) /\ NextBundle(j) /\ UNCHANGED manifest
  BY DEF PatchWrite, NextBundle
<1>2. /\ HeaderFile \in DOMAIN e /\ e[HeaderFile] = parsed[j] /\ Whole(e, parsed[j], Artifact(j)) /\ Full(parsed[j])
  BY <1>1, HeaderPut DEF Lone, OnlyRun, Scripted
<1>3. v \in Variant /\ v \in DOMAIN m /\ \A u \in Variant : u # v => dirs'[u] = dirs[u]
  BY <1>1, OwnVariants, PutGrows DEF IInv, Shape
<1>4. Seen(e) = Readers!Completed(m[v])
  <2>1. m \in Manifests /\ NoFile \notin DOMAIN e /\ Artifact(j) = m[v]
    BY <1>3 DEF IInv, Shape, TypeOK, Artifact, Variant
  <2> HIDE DEF e, m, v
  <2> QED
    BY <1>2, <1>3, <2>1, SeenCompleted
<1>5. Sight' = [Sight EXCEPT ![v] = Readers!Completed(m[v])]
  <2>1. \A u \in Variant : u # v => Seen(dirs'[u]) = Seen(dirs[u])
    BY <1>3
  <2> QED
    BY <1>3, <1>4, <2>1 DEF Sight, Variant
<1>6. Sight[v] = Unreadable
  <2>1. NoHeaderIn(dirs[v])
    BY <1>1 DEF Lone, Unpatched, Dir
  <2> QED
    BY <1>3, <2>1, SeenNothing DEF Sight
<1>7. Readers!CompletedUpTo(j, v)
  BY <1>1, ScriptedSeen DEF Completing
<1>8. PICK to \in {"naga", "done"} :
        /\ Goto(j, to) /\ (to = "done" <=> v = Len(m))
        /\ to = "naga" => variant'[j] = v + 1
  BY <1>1, OwnVariants DEF NextBundle, IInv, Shape
<1>9. /\ pc'[j] = to /\ Status[j] = "completing"
      /\ to = "naga" => Status' = Status
      /\ to = "done" => Status' = [Status EXCEPT ![j] = "done"]
  BY <1>1, <1>8, SamePhase, StatusMoves DEF Completing
<1>10. Readers!Complete(j)
  <2> HIDE DEF v, m, e
  <2> QED
    BY <1>1, <1>3, <1>5, <1>6, <1>7, <1>8, <1>9 DEF Readers!Complete, Readers!Becomes, Sight, m
<1>11. Unpatched(j)'
  <2>1. to = "naga" => \A u \in DOMAIN m : u >= v + 1 => dirs'[u][HeaderFile] = HeaderOf(m[u])
    BY <1>1, <1>3, OwnVariants DEF Lone, Unpatched
  <2> QED
    BY <1>1, <1>8, <1>9, <2>1 DEF Unpatched
<1> QED
  BY <1>10, <1>11 DEF ReadersStep, Readers!Next

\* Every step of the only job that has started.
LEMMA LoneStep ==
  ASSUME OwnFiles, FewStages, MarkersDiffer, ~FlushFails, IInv, MissingIn, TypeOK, TypeOK',
         NEW j \in Job, Lone(j), JobStep(j)
  PROVE  Lone(j)' /\ ReadersStep
<1>1. FirstRun(j)' /\ OnlyRun(j)'
  BY JobStepFirst, JobStepOnly DEF Lone
<1>2. Unpatched(j)' /\ ReadersStep
  <2>1. CASE WriteFile(j) /\ Write(j).file = HeaderFile
    BY <1>1, <2>1, HeaderPublishes
  <2>2. CASE PatchOpen(j)
    BY <2>2, PatchOpenSeen
  <2>3. CASE PatchWrite(j)
    BY <2>3, PatchWriteSeen
  <2>4. CASE ~(WriteFile(j) /\ Write(j).file = HeaderFile) /\ ~PatchOpen(j) /\ ~PatchWrite(j)
    <3>1. Quiet /\ UNCHANGED manifest
      BY <2>4, StepQuiet DEF Lone
    <3>2. Sight' = Sight
      BY <1>1, <3>1, SightStays DEF Lone
    <3>3. Unpatched(j)
      BY DEF Lone
    <3>4. CASE \/ BuildFails(j) \/ WriteFails(j) \/ EmitDeclsFails(j) \/ NagaRefused(j) \/ ConvertFails(j)
               \/ PatchRefused(j) \/ PatchFails(j) \/ Crash(j)
      <4>1. Fail(j)
        BY <3>4 DEF BuildFails, WriteFails, EmitDeclsFails, NagaRefused, ConvertFails, PatchRefused, PatchFails, Crash
      <4>2. pc[j] \in Compiling \cup Completing
        <5>1. pc[j] \in PCs
          BY DEF TypeOK
        <5> QED
          BY <3>4, <5>1 DEF BuildFails, WriteFails, EmitDeclsFails, NagaRefused, ConvertFails, Converting, PatchRefused,
                            PatchFails, Crash, Compiling, Completing, PCs
      <4> QED
        BY <3>2, <4>1, <4>2, FailSeen
    <3>5. CASE OpenFails(j) /\ Required(Write(j).file)
      <4>1. Fail(j) /\ pc[j] \in Compiling
        BY <3>5 DEF OpenFails, Compiling
      <4> QED
        BY <3>2, <4>1, FailSeen
    <3>6. CASE BuildVariant(j) \/ SkipFile(j) \/ OpenFile(j) \/ WriteFile(j)
               \/ (OpenFails(j) /\ ~Required(Write(j).file))
      <4>1. pc[j] \in Compiling /\ \E to \in Compiling : Goto(j, to)
        BY <3>6 DEF BuildVariant, SkipFile, OpenFile, WriteFile, OpenFails, Advance, Compiling
      <4> QED
        BY <3>1, <3>2, <3>3, <4>1, CompilingQuiet
    <3>7. CASE WriteUnflushed(j)
      BY <3>7 DEF WriteUnflushed
    <3>8. CASE BundleWritten(j)
      <4>1. CASE variant[j] < Len(manifest[j])
        <5>1. pc[j] \in Compiling /\ Goto(j, "build") /\ "build" \in Compiling
          BY <3>8, <4>1 DEF BundleWritten, Compiling
        <5> QED
          BY <3>1, <3>2, <3>3, <5>1, CompilingQuiet
      <4>2. CASE ~(variant[j] < Len(manifest[j]))
        <5>1. variant[j] = Len(manifest[j])
          BY <4>2, OwnVariants
        <5> QED
          BY <1>1, <3>8, <5>1, CompilerEndsSeen
      <4> QED
        BY <4>1, <4>2
    <3>9. CASE NagaSkip(j)
      BY <1>1, <3>9, NagaSkipSeen
    <3>10. CASE NagaNeeded(j)
      BY <3>2, <3>10, NagaNeededSeen
    <3>11. CASE FindMissing(j) \/ NagaStart(j) \/ Convert(j) \/ PatchRead(j)
      <4>1. pc[j] \in {"find", "parse", "convert"} /\ \E to \in {"parse", "convert", "patch"} : Goto(j, to)
        <5>1. CASE Convert(j)
          <6>1. pc[j] = "convert" /\ UNCHANGED pc
            BY <5>1 DEF Convert, Converting
          <6>2. Goto(j, "convert")
            BY <6>1 DEF Goto, TypeOK
          <6> QED
            BY <6>1, <6>2
        <5>2. CASE FindMissing(j) \/ NagaStart(j) \/ PatchRead(j)
          BY <5>2 DEF FindMissing, NagaStart, PatchRead
        <5> QED
          BY <3>11, <5>1, <5>2
      <4>2. UNCHANGED <<manifest, variant>>
        BY <3>11 DEF FindMissing, NagaStart, Convert, PatchRead
      <4>3. Readers!AskedFor(Artifact(j)) # DOMAIN Artifact(j).stages
        BY <3>3, <4>1 DEF Unpatched
      <4>4. ASSUME NEW v \in DOMAIN manifest[j], dirs[v][HeaderFile] = HeaderOf(manifest[j][v])
            PROVE  dirs'[v][HeaderFile] = HeaderOf(manifest[j][v])
        <5>1. v \in Variant
          BY OwnVariants
        <5>2. Finished(dirs[v], manifest[j][v])
          BY <4>1 DEF Lone, OnlyRun, Scripted
        <5>3. HeaderFile \in DOMAIN dirs[v] /\ dirs[v][HeaderFile] # Truncated
          BY <5>2, WholeRead DEF Finished, IInv, Shape
        <5> QED
          BY <3>1, <4>4, <5>1, <5>3 DEF Quiet, SameHeader, NoHeaderIn
      <4> QED
        BY <3>2, <3>3, <4>1, <4>2, <4>3, <4>4, CompletingQuiet
    <3> QED
      BY <2>4, <3>4, <3>5, <3>6, <3>7, <3>8, <3>9, <3>10, <3>11 DEF JobStep
  <2> QED
    BY <2>1, <2>2, <2>3, <2>4
<1> QED
  BY <1>1, <1>2 DEF Lone

\* The only run that there is.
SeenInv == runs = 1 => \E j \in Job : Alone(j) /\ Lone(j)

\* It starts where nothing is published.
LEMMA StartSeen ==
  ASSUME runs' <= 1, IInv, FInv, NEW j \in Job, StartRun(j)
  PROVE  Alone(j)' /\ Lone(j)' /\ ReadersStep
<1>1. runs' = runs + 1 /\ runs \in Nat
  BY DEF StartRun, FInv
<1>2. runs = 0 /\ runs' = 1
  BY <1>1
<1>3. (\A k \in Job : pc[k] = "idle") /\ \A v \in Variant : HeaderFile \notin DOMAIN dirs[v]
  BY <1>2 DEF FInv
<1>4. Alone(j)' /\ FirstRun(j)'
  BY <1>2, StartFirst
<1>5. /\ Goto(j, "build") /\ UNCHANGED dirs
      /\ \E m \in Manifests : manifest' = [manifest EXCEPT ![j] = m]
  BY DEF StartRun
<1>6. pc'[j] = "build" /\ Status' = [Status EXCEPT ![j] = "compiling"]
  BY <1>5, StatusMoves DEF Compiling
<1>7. OnlyRun(j)'
  BY StartOnly
<1>8. Unpatched(j)'
  BY <1>3, <1>5, <1>6 DEF Unpatched, HeaderIs, NoHeaderIn, Variant
<1>9. Readers!Start(j)
  <2>1. \A k \in Job : Status[k] = "waiting"
    BY <1>3 DEF Status
  <2>2. Sight' = Sight
    BY <1>5 DEF Sight, Variant
  <2> QED
    BY <1>5, <1>6, <2>1, <2>2 DEF Readers!Start, Readers!Becomes, Sight
<1> QED
  BY <1>4, <1>7, <1>8, <1>9 DEF Lone, ReadersStep, Readers!Next

\* Every step, of any job.
LEMMA NextSeen ==
  ASSUME OwnFiles, FewStages, MarkersDiffer, ~FlushFails,
         IInv, MissingIn, FInv, TypeOK, TypeOK', SeenInv, [Next]_vars
  PROVE  SeenInv' /\ (runs' <= 1 => ReadersStep)
<1>1. CASE UNCHANGED vars
  <2>1. ASSUME NEW j \in Job, Alone(j), Lone(j)
        PROVE  Alone(j)' /\ Lone(j)'
    <3>1. /\ pc'[j] = pc[j] /\ variant'[j] = variant[j] /\ step'[j] = step[j] /\ parsed'[j] = parsed[j]
          /\ wgsl_map'[j] = wgsl_map[j] /\ missing'[j] = missing[j] /\ dirs' = dirs /\ manifest' = manifest
      BY <1>1 DEF vars
    <3>2. Alone(j)' /\ FirstRun(j)'
      BY <1>1, <2>1 DEF vars, Alone, Lone, FirstRun, AllGood, NoneAhead, NotYet, Wrote, Converted, Good,
                        NoHeaderIn, Dir, Artifact, HeaderStep, Variant
    <3>3. OnlyRun(j)'
      BY <1>1, <2>1 DEF vars, Lone, OnlyRun, Wrote, Converted, Compiled, Scripted, Dir, Artifact, Full
    <3>4. Unpatched(j)'
      BY <2>1, <3>1 DEF Lone, Unpatched, HeaderIs, Dir, Artifact, NoHeaderIn, Variant
    <3> QED
      BY <3>2, <3>3, <3>4 DEF Lone
  <2>2. UNCHANGED ReadersVars
    BY <1>1 DEF vars, ReadersVars, Status, Sight, Variant
  <2>3. SeenInv'
    BY <1>1, <2>1 DEF vars, SeenInv
  <2> QED
    BY <2>2, <2>3 DEF ReadersStep
<1>2. ASSUME NEW j \in Job, StartRun(j)
      PROVE  SeenInv' /\ (runs' <= 1 => ReadersStep)
  <2>1. runs' <= 1 => Alone(j)' /\ Lone(j)' /\ ReadersStep
    BY <1>2, StartSeen
  <2> QED
    BY <2>1 DEF SeenInv
<1>3. ASSUME NEW j \in Job, JobStep(j)
      PROVE  SeenInv' /\ (runs' <= 1 => ReadersStep)
  <2>1. pc[j] # "idle" /\ runs' = runs /\ \A k \in Job \ {j} : pc'[k] = pc[k]
    BY <1>3, JobStepOthers
  <2>2. CASE runs' <= 1
    <3>1. runs = 1
      BY <2>1, <2>2 DEF FInv
    <3>2. Alone(j) /\ Lone(j)
      BY <2>1, <3>1 DEF SeenInv, Alone
    <3>3. Alone(j)'
      BY <2>1, <3>2 DEF Alone
    <3> QED
      BY <1>3, <3>2, <3>3, LoneStep DEF SeenInv
  <2>3. CASE ~(runs' <= 1)
    BY <2>3 DEF SeenInv
  <2> QED
    BY <2>2, <2>3
<1> QED
  BY <1>1, <1>2, <1>3 DEF Next, JobStep

\* At first nothing is published.
LEMMA InitSeen ==
  ASSUME Init
  PROVE  SeenInv /\ Readers!Init
<1>1. SeenInv
  BY DEF Init, SeenInv
<1>2. ASSUME NEW v \in Variant
      PROVE  Seen(dirs[v]) = Unreadable
  BY SeenNothing DEF Init, NoHeaderIn
<1>3. Status = [j \in Job |-> "waiting"]
  BY DEF Init, Status
<1>4. manifest \in [Job -> Manifests]
  BY ManifestsAssumption DEF Init
<1> QED
  BY <1>1, <1>2, <1>3, <1>4 DEF Readers!Init, Readers!Variants, Variant

(*************************************************************************)
(* The refinement: to a reader of the directories, the first call of     *)
(* compile_one publishes whole bundles one after the other, completes    *)
(* them with WGSL one after the other, and reports success when all are  *)
(* complete, wherever it fails or is killed, for any manifest.           *)
(*************************************************************************)
THEOREM FirstRunIsPublication ==
  OwnFiles /\ FewStages /\ MarkersDiffer /\ ~FlushFails => (Spec => FirstRunPublishes)
<1> SUFFICES ASSUME OwnFiles, FewStages, MarkersDiffer, ~FlushFails
             PROVE  Spec => FirstRunPublishes
  OBVIOUS
<1>1. Init => SeenInv /\ Readers!Init
  BY InitSeen
<1>2. IInv /\ MissingIn /\ FInv /\ TypeOK /\ TypeOK' /\ SeenInv /\ [Next]_vars
        => SeenInv' /\ [runs' <= 1 => Readers!Next]_<<Status, manifest, Sight>>
  BY NextSeen DEF ReadersStep, ReadersVars
<1>3. FirstRunPublishes <=> Readers!Init /\ [][runs' <= 1 => Readers!Next]_<<Status, manifest, Sight>>
  BY DEF FirstRunPublishes, Readers!vars, Sight
<1> QED
  BY <1>1, <1>2, <1>3, FirstRunInductive, TypesAlwaysOK, PTL DEF Spec

\* When there is one run, of one of any number of jobs, that is the whole of PublishedBundles.
THEOREM OneRunIsPublication ==
  MaxRuns = 1 /\ OwnFiles /\ FewStages /\ MarkersDiffer /\ ~FlushFails => (Spec => Readers!Spec)
<1> SUFFICES ASSUME MaxRuns = 1, OwnFiles, FewStages, MarkersDiffer, ~FlushFails
             PROVE  Spec => Readers!Spec
  OBVIOUS
<1>1. TypeOK' /\ [runs' <= 1 => Readers!Next]_<<Status, manifest, Sight>>
        => [Readers!Next]_<<Status, manifest, Sight>>
  BY DEF TypeOK
<1>2. FirstRunPublishes <=> Readers!Init /\ [][runs' <= 1 => Readers!Next]_<<Status, manifest, Sight>>
  BY DEF FirstRunPublishes, Readers!vars, Sight
<1>3. Readers!Spec <=> Readers!Init /\ [][Readers!Next]_<<Status, manifest, Sight>>
  BY DEF Readers!Spec, Readers!vars, Sight
<1> QED
  BY <1>1, <1>2, <1>3, FirstRunIsPublication, TypesAlwaysOK, PTL
=============================================================================
