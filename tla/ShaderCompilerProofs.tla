------------------------- MODULE ShaderCompilerProofs -------------------------
(***************************************************************************)
(* Proofs about ShaderCompiler, for any set of manifests, any front end    *)
(* and any number of invocations.  A key of the cache tells the requests   *)
(* of a program but for those that are hashed alike (HashTellsAlike), so   *)
(* that an entry is what a build without a cache makes of such a program   *)
(* for every manifest that finds it (KeyTransfers, CacheRight).            *)
(*                                                                         *)
(* What a successful invocation leaves is told from where main is: which   *)
(* variants have been written, and what was written for them (Progress).   *)
(* That this is all the document lists rests on the lemmas about folds: a  *)
(* filter of a sequence that is as long as the sequence is the sequence.   *)
(* What is in one stage is the subject of the last parts: how the indices  *)
(* of each binding of its reflection agree with those in its sources, and  *)
(* that its reflection.bin reads back as it was.                           *)
(***************************************************************************)
EXTENDS ShaderCompiler, ReflectionCodecProofs, SequenceTheorems, WellFoundedInduction, TLAPS

Fresh(d) == [i \in DOMAIN d.stages |-> FreshStage(d, i)]

InManifest == pc \in {"build", "check", "write", "emit"}

\* What is in a bundle: each stage as a build of some program hashed alike makes it.
MadeFor(d, stages) ==
  \E made \in [DOMAIN d.stages -> Programs(d)] :
    stages = [i \in DOMAIN d.stages |-> BuiltAs(d, made[i], i)]

\* Every entry is right for each stage that has its key.
CacheRight ==
  \A k \in DOMAIN cache : \A d \in Descs : \A i \in DOMAIN d.stages :
    KeyAt(d, i) = k => \E reqs \in Programs(d) : cache[k] = BuiltAs(d, reqs, i)

\* What was built and is not written yet.
ArtifactRight == pc \in {"check", "write", "emit"} => MadeFor(Desc, artifact)

IInv == TypeOK /\ CacheRight /\ ArtifactRight /\ BundlesFresh
------------------------------------------------------------------------------
\* The stages of a description are requests.
LEMMA StagesAreRequests ==
  ASSUME NEW d \in Descs, NEW i \in DOMAIN d.stages
  PROVE  d.stages[i] \in Requests /\ d.stages[i] \in RequestType
PROOF
  <1>1. d.stages[i] \in Range(d.stages)  BY DEF Range
  <1>2. d.stages[i] \in Requests  BY <1>1 DEF Requests
  <1> QED  BY <1>2, VectorsAssumption

\* The names and values of the macros, one after the other.
Flat(macros) ==
  [n \in 1 .. 2 * Len(macros) |->
     IF n % 2 = 1 THEN <<macros[(n + 1) \div 2].name>> ELSE <<macros[n \div 2].value>>]

\* The flattened macros are strings, twice as many as there are macros, and
\* have each macro's name and value at their places.
LEMMA FlatMacros ==
  ASSUME NEW macros \in Macros
  PROVE  /\ Flat(macros) \in Seq(Seq(STRING))
         /\ Len(Flat(macros)) = 2 * Len(macros)
         /\ \A k \in 1 .. Len(macros) :
              /\ 2 * k - 1 \in 1 .. 2 * Len(macros) /\ 2 * k \in 1 .. 2 * Len(macros)
              /\ Flat(macros)[2 * k - 1] = <<macros[k].name>>
              /\ Flat(macros)[2 * k] = <<macros[k].value>>
PROOF
  <1>1. Len(macros) \in Nat /\ DOMAIN macros = 1 .. Len(macros)  BY DEF Macros
  <1>2. \A k \in 1 .. Len(macros) : macros[k].name \in STRING /\ macros[k].value \in STRING
    <2>1. ASSUME NEW k \in 1 .. Len(macros)
          PROVE  macros[k] \in [name : STRING, value : STRING]
      BY ElementOfSeq, Zenon DEF Macros
    <2> QED  BY <2>1
  <1>3. ASSUME NEW n \in 1 .. 2 * Len(macros)
        PROVE  Flat(macros)[n] \in Seq(STRING)
    <2>1. CASE n % 2 = 1
      <3>1. (n + 1) \div 2 \in 1 .. Len(macros)  BY <1>1, <2>1
      <3>2. Flat(macros)[n] = <<macros[(n + 1) \div 2].name>>  BY <2>1 DEF Flat
      <3> QED  BY <3>1, <3>2, <1>2
    <2>2. CASE n % 2 # 1
      <3>1. n \div 2 \in 1 .. Len(macros)  BY <1>1, <2>2
      <3>2. Flat(macros)[n] = <<macros[n \div 2].value>>  BY <2>2 DEF Flat
      <3> QED  BY <3>1, <3>2, <1>2
    <2> QED  BY <2>1, <2>2
  <1>4. Flat(macros) \in [1 .. 2 * Len(macros) -> Seq(STRING)]  BY <1>3 DEF Flat
  <1>5. 2 * Len(macros) \in Nat  BY <1>1
  <1>6. Flat(macros) \in Seq(Seq(STRING)) /\ Len(Flat(macros)) = 2 * Len(macros)
    BY <1>4, <1>5, SeqDef, LenProperties
  <1>7. ASSUME NEW k \in 1 .. Len(macros)
        PROVE  /\ 2 * k - 1 \in 1 .. 2 * Len(macros) /\ 2 * k \in 1 .. 2 * Len(macros)
               /\ Flat(macros)[2 * k - 1] = <<macros[k].name>>
               /\ Flat(macros)[2 * k] = <<macros[k].value>>
    <2>1. 2 * k - 1 \in 1 .. 2 * Len(macros) /\ 2 * k \in 1 .. 2 * Len(macros)  BY <1>1
    <2>2. (2 * k - 1) % 2 = 1 /\ (2 * k) % 2 = 0 /\ (2 * k) \div 2 = k /\ (2 * k - 1 + 1) \div 2 = k
      BY <1>1
    <2> QED  BY <2>1, <2>2 DEF Flat
  <1> QED  BY <1>6, <1>7

\* Equal concatenations with first parts of one length have equal parts.
LEMMA ConcatCancel ==
  ASSUME NEW S, NEW a \in Seq(S), NEW b \in Seq(S), NEW s \in Seq(S), NEW t \in Seq(S)
  PROVE  a \o s = b \o t /\ Len(a) = Len(b) => a = b /\ s = t
PROOF
  <1>1. Len(a) \in Nat /\ Len(b) \in Nat /\ Len(s) \in Nat /\ Len(t) \in Nat  BY LenProperties
  <1>2. /\ Len(a \o s) = Len(a) + Len(s)
        /\ \A k \in 1 .. Len(a) : (a \o s)[k] = a[k]
        /\ \A k \in 1 .. Len(s) : (a \o s)[Len(a) + k] = s[k]
    <2>1. /\ Len(a \o s) = Len(a) + Len(s)
          /\ \A i \in 1 .. Len(a) + Len(s) :
               (a \o s)[i] = IF i <= Len(a) THEN a[i] ELSE s[i - Len(a)]
      BY ConcatProperties, Zenon
    <2> QED  BY <1>1, <2>1
  <1>3. /\ Len(b \o t) = Len(b) + Len(t)
        /\ \A k \in 1 .. Len(b) : (b \o t)[k] = b[k]
        /\ \A k \in 1 .. Len(t) : (b \o t)[Len(b) + k] = t[k]
    <2>1. /\ Len(b \o t) = Len(b) + Len(t)
          /\ \A i \in 1 .. Len(b) + Len(t) :
               (b \o t)[i] = IF i <= Len(b) THEN b[i] ELSE t[i - Len(b)]
      BY ConcatProperties, Zenon
    <2> QED  BY <1>1, <2>1
  <1> SUFFICES ASSUME a \o s = b \o t, Len(a) = Len(b)
               PROVE  a = b /\ s = t
    OBVIOUS
  <1>4. Len(s) = Len(t)  BY <1>1, <1>2, <1>3
  <1>5. \A k \in 1 .. Len(a) : a[k] = b[k]  BY <1>2, <1>3
  <1>6. \A k \in 1 .. Len(s) : s[k] = t[k]  BY <1>2, <1>3, <1>4
  <1>7. a = b  BY <1>5, SeqEqual
  <1>8. s = t  BY <1>4, <1>6, SeqEqual
  <1> QED  BY <1>7, <1>8

\* Two numbers of macros and of directories make up one number of strings.
LEMMA SameLengths ==
  ASSUME NEW m \in Nat, NEW n \in Nat, NEW p \in Nat, NEW q \in Nat, 2 * m + p = 2 * n + q
  PROVE  m = n <=> p = q
PROOF OBVIOUS

\* Requests whose numbers of macros and directories allow one to be hashed as
\* the other: two directories more for each macro less.
Confusable(q, r) ==
  /\ Len(q.include_dirs) # Len(r.include_dirs)
  /\ 2 * Len(q.macros) + Len(q.include_dirs) = 2 * Len(r.macros) + Len(r.include_dirs)

\* But for those, what is hashed of macros and directories determines both.
LEMMA OptionsDetermined ==
  ASSUME NEW r \in Requests, NEW s \in Requests, Hashed(r) = Hashed(s), ~Confusable(s, r)
  PROVE  r.macros = s.macros /\ r.include_dirs = s.include_dirs
PROOF
  <1> DEFINE A == Flat(r.macros)
             B == Flat(s.macros)
             m == Len(r.macros)
             n == Len(s.macros)
             p == Len(r.include_dirs)
             q == Len(s.include_dirs)
  <1>1. r.macros \in Macros /\ s.macros \in Macros
        /\ r.include_dirs \in Seq(Seq(STRING)) /\ s.include_dirs \in Seq(Seq(STRING))
    BY VectorsAssumption DEF RequestType
  <1>2. m \in Nat /\ n \in Nat /\ p \in Nat /\ q \in Nat  BY <1>1 DEF Macros
  <1>3. A \in Seq(Seq(STRING)) /\ B \in Seq(Seq(STRING)) /\ Len(A) = 2 * m /\ Len(B) = 2 * n
    BY <1>1, FlatMacros
  <1>4. A \o r.include_dirs = B \o s.include_dirs  BY DEF Hashed, Flat
  <1>5. Len(A \o r.include_dirs) = 2 * m + p /\ Len(B \o s.include_dirs) = 2 * n + q
    <2>1. Len(A \o r.include_dirs) = Len(A) + p  BY <1>1, <1>3, ConcatProperties, Zenon
    <2>2. Len(B \o s.include_dirs) = Len(B) + q  BY <1>1, <1>3, ConcatProperties, Zenon
    <2> QED  BY <1>3, <2>1, <2>2
  <1>6. 2 * m + p = 2 * n + q  BY <1>4, <1>5
  <1>7. m = n /\ p = q
    <2>1. p = q  BY <1>6 DEF Confusable
    <2> HIDE DEF m, n, p, q
    <2> QED  BY <1>2, <1>6, <2>1
  <1>8. Len(A) = Len(B)  BY <1>3, <1>7
  <1>9. A = B /\ r.include_dirs = s.include_dirs
    <2> HIDE DEF A, B
    <2> QED  BY <1>1, <1>3, <1>4, <1>8, ConcatCancel, Zenon
  <1>10. ASSUME NEW k \in 1 .. m  PROVE r.macros[k] = s.macros[k]
    <2>1. /\ 2 * k - 1 \in 1 .. 2 * m /\ 2 * k \in 1 .. 2 * m
          /\ A[2 * k - 1] = <<r.macros[k].name>> /\ A[2 * k] = <<r.macros[k].value>>
      BY <1>1, FlatMacros, Zenon
    <2>2. k \in 1 .. n  BY <1>7
    <2>3. B[2 * k - 1] = <<s.macros[k].name>> /\ B[2 * k] = <<s.macros[k].value>>
      BY <1>1, <2>2, FlatMacros, Zenon
    <2>4. r.macros[k].name = s.macros[k].name /\ r.macros[k].value = s.macros[k].value
      BY <1>9, <2>1, <2>3
    <2>5. r.macros[k] \in [name : STRING, value : STRING]
      BY <1>1, ElementOfSeq, Zenon DEF Macros
    <2>6. s.macros[k] \in [name : STRING, value : STRING]
      BY <1>1, <2>2, ElementOfSeq, Zenon DEF Macros
    <2> QED  BY <2>4, <2>5, <2>6
  <1>11. r.macros = s.macros
    <2>1. \A k \in 1 .. m : r.macros[k] = s.macros[k]  BY <1>10
    <2> QED  BY <1>1, <1>7, <2>1, SeqEqual DEF Macros
  <1> QED  BY <1>9, <1>11

\* A request is hashed as itself.
LEMMA HashedAsItself ==
  ASSUME NEW r \in Requests
  PROVE  r \in HashedAlike(r)
PROOF
  <1>1. r \in RequestType  BY VectorsAssumption
  <1>2. r = [r EXCEPT !.macros = r.macros, !.include_dirs = r.include_dirs]  BY <1>1 DEF RequestType
  <1> QED  BY <1>2 DEF HashedAlike

\* A hash tells a request but for its options, and those as far as the
\* strings they add up to.
LEMMA HashTellsAlike ==
  ASSUME NEW r \in Requests, NEW s \in Requests, RequestHash(r) = RequestHash(s)
  PROVE  HashedAlike(r) = HashedAlike(s)
PROOF
  <1>1. /\ r.file_path = s.file_path /\ r.entry_point = s.entry_point
        /\ r.stage = s.stage /\ r.lang = s.lang /\ Hashed(r) = Hashed(s)
    BY DEF RequestHash
  <1>2. r \in RequestType /\ s \in RequestType  BY VectorsAssumption
  <1>3. ASSUME NEW q
        PROVE  [r EXCEPT !.macros = q.macros, !.include_dirs = q.include_dirs]
                 = [s EXCEPT !.macros = q.macros, !.include_dirs = q.include_dirs]
    BY <1>1, <1>2 DEF RequestType
  <1> QED  BY <1>1, <1>3 DEF HashedAlike

\* Where no numbers allow it, nothing else is hashed as a request.
LEMMA HashedAlone ==
  ASSUME NEW r \in Requests, \A q \in Requests : ~Confusable(q, r)
  PROVE  HashedAlike(r) = {r}
PROOF
  <1>1. ASSUME NEW q \in HashedAlike(r)  PROVE q = r
    <2>1. /\ q \in Requests /\ Hashed(r) = Hashed(q)
          /\ q = [r EXCEPT !.macros = q.macros, !.include_dirs = q.include_dirs]
      BY <1>1 DEF HashedAlike
    <2>2. r.macros = q.macros /\ r.include_dirs = q.include_dirs  BY <2>1, OptionsDetermined
    <2>3. r \in RequestType  BY VectorsAssumption
    <2> QED  BY <2>1, <2>2, <2>3 DEF RequestType
  <1> QED  BY <1>1, HashedAsItself

\* The requests that a program's stages are compiled as: one for each, and any
\* choice among those that are hashed alike.
LEMMA ProgramsPointwise ==
  ASSUME NEW d, NEW f, f = [k \in DOMAIN d.stages |-> f[k]],
         \A k \in DOMAIN d.stages : f[k] \in HashedAlike(d.stages[k])
  PROVE  f \in Programs(d)
PROOF
  <1> DEFINE R == UNION {HashedAlike(r) : r \in Range(d.stages)}
  <1>1. ASSUME NEW k \in DOMAIN d.stages  PROVE f[k] \in R
    <2>1. d.stages[k] \in Range(d.stages)  BY DEF Range
    <2>2. f[k] \in HashedAlike(d.stages[k])  OBVIOUS
    <2> QED  BY <2>1, <2>2
  <1>2. f \in [DOMAIN d.stages -> R]
    <2> HIDE DEF R
    <2> QED  BY <1>1
  <1>3. DOMAIN f = DOMAIN d.stages  BY <1>2
  <1> QED  BY <1>2, <1>3 DEF Programs

LEMMA ProgramElements ==
  ASSUME NEW d, NEW f \in Programs(d)
  PROVE  /\ DOMAIN f = DOMAIN d.stages /\ f = [k \in DOMAIN d.stages |-> f[k]]
         /\ \A k \in DOMAIN d.stages : f[k] \in HashedAlike(d.stages[k])
PROOF BY DEF Programs
------------------------------------------------------------------------------
\* The SPIR-V of a stage that is made anew.
LEMMA ArtifactSpirv ==
  ASSUME NEW req, NEW spirv, NEW map, NEW targets
  PROVE  StageArtifact(req, spirv, map, targets).spirv = spirv
PROOF BY DEF StageArtifact

\* The map of a program made of other requests.
MapFor(d, f) == ProgramMap(d, Map(FrontEnd, f))

\* What a build makes, spelled out.
LEMMA BuiltAsArtifact ==
  ASSUME NEW d, NEW f, NEW i \in DOMAIN d.stages, DOMAIN f = DOMAIN d.stages
  PROVE  BuiltAs(d, f, i)
           = StageArtifact(d.stages[i], FrontEnd(f[i]), MapFor(d, f), d.targets)
PROOF BY DEF BuiltAs, MapFor, Map

\* g is f with the values of i and j exchanged.
Exchanged(f, g, i, j) ==
  /\ DOMAIN g = DOMAIN f
  /\ g[i] = f[j] /\ g[j] = f[i]
  /\ \A k \in DOMAIN f : k \notin {i, j} => g[k] = f[k]

\* A map depends on the SPIR-V of the stages, not on which stage has which.
LEMMA MapOfSwapped ==
  ASSUME NEW d, NEW f, NEW g, NEW i \in DOMAIN d.stages, NEW j \in DOMAIN d.stages,
         DOMAIN f = DOMAIN d.stages, Exchanged(f, g, i, j)
  PROVE  MapFor(d, g) = MapFor(d, f)
PROOF
  <1> DEFINE F == Map(FrontEnd, f)
             G == Map(FrontEnd, g)
  <1>1. \A k \in DOMAIN d.stages : F[k] = FrontEnd(f[k]) /\ G[k] = FrontEnd(g[k])
    BY DEF Exchanged, Map
  <1>2. g[i] = f[j] /\ g[j] = f[i] /\ \A k \in DOMAIN d.stages : k \notin {i, j} => g[k] = f[k]
    BY DEF Exchanged
  <1>3. {Modules[G[k]] : k \in DOMAIN d.stages} = {Modules[F[k]] : k \in DOMAIN d.stages}
    <2>1. ASSUME NEW k \in DOMAIN d.stages
          PROVE  /\ \E n \in DOMAIN d.stages : G[k] = F[n]
                 /\ \E n \in DOMAIN d.stages : F[k] = G[n]
      <3>1. CASE k = i  BY <1>1, <1>2, <3>1
      <3>2. CASE k = j  BY <1>1, <1>2, <3>2
      <3>3. CASE k \notin {i, j}  BY <1>1, <1>2, <3>3
      <3> QED  BY <3>1, <3>2, <3>3
    <2> HIDE DEF F, G
    <2> QED  BY <2>1
  <1> HIDE DEF F, G
  <1>4. ProgramMap(d, G) = ProgramMap(d, F)  BY <1>3 DEF ProgramMap
  <1> QED  BY <1>4 DEF F, G, MapFor

(***************************************************************************)
(* What is right for a stage is right for every stage with its key: the    *)
(* request is hashed alike and the targets are the same, and for Metal the *)
(* programs have as many stages, hashed alike each, and the same layout.   *)
(* The stages may be at different places of the program, where they are    *)
(* hashed alike too: their requests change places.                         *)
(***************************************************************************)
LEMMA KeyTransfers ==
  ASSUME NEW d \in Descs, NEW e \in Descs, NEW i \in DOMAIN d.stages, NEW j \in DOMAIN e.stages,
         KeyAt(d, i) = KeyAt(e, j), NEW reqs \in Programs(d)
  PROVE  \E other \in Programs(e) : BuiltAs(e, other, j) = BuiltAs(d, reqs, i)
PROOF
  <1> DEFINE r == d.stages[i]
             s == e.stages[j]
  <1>1. RequestHash(r) = RequestHash(s) /\ d.targets = e.targets  BY DEF KeyAt
  <1>2. r \in Requests /\ s \in Requests  BY StagesAreRequests
  <1>3. HashedAlike(r) = HashedAlike(s) /\ r.stage = s.stage /\ r.entry_point = s.entry_point
    BY <1>1, <1>2, HashTellsAlike DEF RequestHash
  <1>4. /\ DOMAIN reqs = DOMAIN d.stages
        /\ \A k \in DOMAIN d.stages : reqs[k] \in HashedAlike(d.stages[k])
    BY ProgramElements
  <1>5. WantsMsl(d) <=> WantsMsl(e)  BY <1>1 DEF WantsMsl
  <1>6. ASSUME NEW other \in Programs(e), other[j] = reqs[i],
               MapFor(e, other) = MapFor(d, reqs)
        PROVE  BuiltAs(e, other, j) = BuiltAs(d, reqs, i)
    <2>1. DOMAIN other = DOMAIN e.stages  BY <1>6, ProgramElements
    <2>2. BuiltAs(e, other, j)
            = StageArtifact(s, FrontEnd(other[j]), MapFor(e, other), e.targets)
      BY <2>1, BuiltAsArtifact
    <2>3. BuiltAs(d, reqs, i)
            = StageArtifact(r, FrontEnd(reqs[i]), MapFor(d, reqs), d.targets)
      BY <1>4, BuiltAsArtifact
    <2>4. \A spirv, map, targets : StageArtifact(s, spirv, map, targets) = StageArtifact(r, spirv, map, targets)
      <3> HIDE DEF r, s
      <3> QED  BY <1>3 DEF StageArtifact
    <2> QED  BY <1>1, <1>6, <2>2, <2>3, <2>4
  <1>7. CASE ~WantsMsl(d)
    <2> DEFINE other == [k \in DOMAIN e.stages |-> IF k = j THEN reqs[i] ELSE e.stages[k]]
    <2>1. \A k \in DOMAIN e.stages : other[k] \in HashedAlike(e.stages[k])
      BY <1>3, <1>4, StagesAreRequests, HashedAsItself
    <2>2. other = [k \in DOMAIN e.stages |-> other[k]]  OBVIOUS
    <2>3. other[j] = reqs[i]  OBVIOUS
    <2> HIDE DEF other
    <2>4. other \in Programs(e)  BY <2>1, <2>2, ProgramsPointwise
    <2>5. MapFor(e, other) = MapFor(d, reqs)
      BY <1>5, <1>7 DEF MapFor, ProgramMap
    <2> QED  BY <1>6, <2>3, <2>4, <2>5
  <1>8. CASE WantsMsl(d)
    <2>1. ProgramFingerprint(d) = ProgramFingerprint(e)  BY <1>5, <1>8 DEF KeyAt
    <2>2. Map(RequestHash, d.stages) = Map(RequestHash, e.stages) /\ d.metal_layout = e.metal_layout
      BY <2>1 DEF ProgramFingerprint
    <2>3. /\ DOMAIN d.stages = DOMAIN e.stages
          /\ \A k \in DOMAIN d.stages : RequestHash(d.stages[k]) = RequestHash(e.stages[k])
      <3>1. [k \in DOMAIN d.stages |-> RequestHash(d.stages[k])]
              = [k \in DOMAIN e.stages |-> RequestHash(e.stages[k])]
        BY <2>2 DEF Map
      <3> QED  BY <3>1, Zenon
    <2>4. \A k \in DOMAIN d.stages : HashedAlike(d.stages[k]) = HashedAlike(e.stages[k])
      BY <2>3, StagesAreRequests, HashTellsAlike
    <2>5. j \in DOMAIN d.stages  BY <2>3
    <2> DEFINE other == [k \in DOMAIN e.stages |->
                           IF k = j THEN reqs[i] ELSE IF k = i THEN reqs[j] ELSE reqs[k]]
    <2>6. /\ other = [k \in DOMAIN e.stages |-> other[k]]
          /\ DOMAIN other = DOMAIN d.stages /\ other[j] = reqs[i]
          /\ \A k \in DOMAIN d.stages :
               other[k] = IF k = j THEN reqs[i] ELSE IF k = i THEN reqs[j] ELSE reqs[k]
      BY <2>3
    <2> HIDE DEF other
    <2>7. HashedAlike(d.stages[i]) = HashedAlike(d.stages[j])  BY <1>3, <2>4, <2>5
    <2>8. \A k \in DOMAIN e.stages : other[k] \in HashedAlike(e.stages[k])
      BY <1>4, <2>3, <2>4, <2>5, <2>6, <2>7
    <2>9. other \in Programs(e)  BY <2>6, <2>8, ProgramsPointwise
    <2>10. MapFor(d, other) = MapFor(d, reqs)
      <3>1. Exchanged(reqs, other, i, j)  BY <1>4, <2>5, <2>6 DEF Exchanged
      <3>2. DOMAIN reqs = DOMAIN d.stages  BY <1>4
      <3> QED  BY <2>5, <3>1, <3>2, MapOfSwapped
    <2>11. MapFor(e, other) = MapFor(d, other)
      BY <1>5, <2>2, <2>3 DEF MapFor, ProgramMap
    <2> QED  BY <1>6, <2>6, <2>9, <2>10, <2>11
  <1> QED  BY <1>7, <1>8

\* With right entries, a build makes its stages as requests hashed alike: an
\* entry as it was made, what missed with the SPIR-V of the entries found.
LEMMA BuiltIsMade ==
  ASSUME CacheRight, NEW a, NEW d \in Descs
  PROVE  /\ MadeFor(d, Built(a, d))
         /\ \A i \in DOMAIN d.stages : \E reqs \in Programs(d) : Built(a, d)[i] = BuiltAs(d, reqs, i)
         /\ DOMAIN Built(a, d) = DOMAIN d.stages
PROOF
  <1> DEFINE found(i, q) == q \in HashedAlike(d.stages[i]) /\ SpirvOf(a, d)[i] = FrontEnd(q)
             f == [i \in DOMAIN d.stages |-> CHOOSE q : found(i, q)]
  <1>1. ASSUME NEW i \in DOMAIN d.stages, Hit(a, d, i)
        PROVE  \E reqs \in Programs(d) : cache[KeyAt(d, i)] = BuiltAs(d, reqs, i)
    BY <1>1 DEF Hit, CacheRight
  <1>2. ASSUME NEW i \in DOMAIN d.stages
        PROVE  \E q : found(i, q)
    <2>1. CASE Hit(a, d, i)
      <3>1. PICK reqs \in Programs(d) : cache[KeyAt(d, i)] = BuiltAs(d, reqs, i)  BY <1>1, <2>1
      <3>2. DOMAIN reqs = DOMAIN d.stages /\ reqs[i] \in HashedAlike(d.stages[i])  BY ProgramElements
      <3>3. cache[KeyAt(d, i)].spirv = FrontEnd(reqs[i])
        <4>1. cache[KeyAt(d, i)]
                = StageArtifact(d.stages[i], FrontEnd(reqs[i]), MapFor(d, reqs), d.targets)
          BY <3>1, <3>2, BuiltAsArtifact
        <4> QED  BY <4>1, ArtifactSpirv
      <3>4. SpirvOf(a, d)[i] = FrontEnd(reqs[i])  BY <2>1, <3>3 DEF SpirvOf
      <3> QED  BY <3>2, <3>4
    <2>2. CASE ~Hit(a, d, i)
      <3>1. SpirvOf(a, d)[i] = FrontEnd(d.stages[i])  BY <2>2 DEF SpirvOf
      <3>2. d.stages[i] \in HashedAlike(d.stages[i])  BY StagesAreRequests, HashedAsItself
      <3> QED  BY <3>1, <3>2
    <2> QED  BY <2>1, <2>2
  <1>3. \A i \in DOMAIN d.stages : found(i, f[i])
    <2>1. ASSUME NEW i \in DOMAIN d.stages  PROVE found(i, f[i])
      <3> HIDE DEF found
      <3>1. f[i] = CHOOSE q : found(i, q)  OBVIOUS
      <3> QED  BY <1>2, <3>1
    <2> QED  BY <2>1
  <1>4. f = [i \in DOMAIN d.stages |-> f[i]] /\ DOMAIN f = DOMAIN d.stages
    <2> HIDE DEF found
    <2> QED  OBVIOUS
  <1> HIDE DEF f
  <1>5. f \in Programs(d)  BY <1>3, <1>4, ProgramsPointwise
  <1>6. SpirvOf(a, d) = Map(FrontEnd, f)
    <2>1. SpirvOf(a, d) = [i \in DOMAIN d.stages |-> SpirvOf(a, d)[i]]  BY DEF SpirvOf
    <2>2. \A i \in DOMAIN d.stages : SpirvOf(a, d)[i] = FrontEnd(f[i])  BY <1>3
    <2>3. Map(FrontEnd, f) = [i \in DOMAIN d.stages |-> FrontEnd(f[i])]  BY <1>4 DEF Map
    <2> QED  BY <2>1, <2>2, <2>3
  <1>7. Built(a, d) =
          [i \in DOMAIN d.stages |->
             IF Hit(a, d, i) THEN cache[KeyAt(d, i)] ELSE BuiltAs(d, f, i)]
    BY <1>6 DEF Built, BuiltAs
  <1>8. ASSUME NEW i \in DOMAIN d.stages
        PROVE  \E reqs \in Programs(d) : Built(a, d)[i] = BuiltAs(d, reqs, i)
    <2>1. CASE Hit(a, d, i)  BY <1>1, <1>7, <2>1
    <2>2. CASE ~Hit(a, d, i)  BY <1>5, <1>7, <2>2
    <2> QED  BY <2>1, <2>2
  <1>9. MadeFor(d, Built(a, d))
    <2> DEFINE right(i, reqs) == reqs \in Programs(d) /\ Built(a, d)[i] = BuiltAs(d, reqs, i)
               made == [i \in DOMAIN d.stages |-> CHOOSE reqs : right(i, reqs)]
    <2>1. \A i \in DOMAIN d.stages : right(i, made[i])
      <3>1. ASSUME NEW i \in DOMAIN d.stages  PROVE right(i, made[i])
        <4>1. \E reqs : right(i, reqs)  BY <1>8
        <4> HIDE DEF right
        <4>2. made[i] = CHOOSE reqs : right(i, reqs)  OBVIOUS
        <4> QED  BY <4>1, <4>2
      <3> QED  BY <3>1
    <2>2. made = [i \in DOMAIN d.stages |-> made[i]]
      <3> HIDE DEF right
      <3> QED  OBVIOUS
    <2> HIDE DEF made
    <2>3. made \in [DOMAIN d.stages -> Programs(d)]  BY <2>1, <2>2
    <2>4. Built(a, d) = [i \in DOMAIN d.stages |-> Built(a, d)[i]]  BY <1>7
    <2>5. Built(a, d) = [i \in DOMAIN d.stages |-> BuiltAs(d, made[i], i)]  BY <2>1, <2>4
    <2> QED  BY <2>3, <2>5 DEF MadeFor
  <1>10. DOMAIN Built(a, d) = DOMAIN d.stages  BY <1>7
  <1> QED  BY <1>8, <1>9, <1>10

\* What a build stores, of all stages or of the first ones, is right.
LEMMA StoredIsRight ==
  ASSUME CacheRight, NEW a, NEW d \in Descs, NEW done, done \subseteq DOMAIN d.stages,
         cache' = Stored(a, d, done)
  PROVE  /\ CacheRight'
         /\ DOMAIN cache' \subseteq DOMAIN cache \cup {KeyAt(d, i) : i \in DOMAIN d.stages}
PROOF
  <1> DEFINE missed == done \cap Misses(a, d)
             keys == {KeyAt(d, i) : i \in missed}
  <1>1. CASE ~a.cache
    <2>1. cache' = cache  BY <1>1 DEF Stored
    <2> QED  BY <2>1 DEF CacheRight
  <1>2. CASE a.cache
    <2>1. cache' = [k \in DOMAIN cache \cup keys |->
                      IF k \in keys THEN Built(a, d)[CHOOSE i \in missed : KeyAt(d, i) = k]
                      ELSE cache[k]]
      BY <1>2 DEF Stored
    <2>2. DOMAIN cache' = DOMAIN cache \cup keys  BY <2>1
    <2>3. missed \subseteq DOMAIN d.stages  OBVIOUS
    <2>4. ASSUME NEW k \in DOMAIN cache', NEW e \in Descs, NEW j \in DOMAIN e.stages, KeyAt(e, j) = k
          PROVE  \E reqs \in Programs(e) : cache'[k] = BuiltAs(e, reqs, j)
      <3>1. CASE k \in keys
        <4> DEFINE i == CHOOSE n \in missed : KeyAt(d, n) = k
        <4>1. i \in missed /\ KeyAt(d, i) = k
          <5>1. \E n \in missed : KeyAt(d, n) = k  BY <3>1
          <5> QED  BY <5>1
        <4>2. cache'[k] = Built(a, d)[i]  BY <2>1, <2>2, <3>1
        <4>3. i \in DOMAIN d.stages  BY <2>3, <4>1
        <4> HIDE DEF i
        <4>4. PICK reqs \in Programs(d) : Built(a, d)[i] = BuiltAs(d, reqs, i)  BY <4>3, BuiltIsMade
        <4>5. \E other \in Programs(e) : BuiltAs(e, other, j) = BuiltAs(d, reqs, i)
          BY <2>4, <4>1, <4>3, KeyTransfers
        <4> QED  BY <4>2, <4>4, <4>5
      <3>2. CASE k \notin keys
        <4>1. k \in DOMAIN cache /\ cache'[k] = cache[k]  BY <2>1, <2>2, <3>2
        <4> QED  BY <2>4, <4>1 DEF CacheRight
      <3> QED  BY <3>1, <3>2
    <2>5. CacheRight'  BY <2>4 DEF CacheRight
    <2> QED  BY <2>2, <2>3, <2>5
  <1> QED  BY <1>1, <1>2
------------------------------------------------------------------------------
\* The invocation and the variant that are being built have a description.
LEMMA DescKnown ==
  ASSUME TypeOK, InManifest
  PROVE  /\ args \in Invocations /\ ParseSpec(args.doc) # Missing /\ manifest = ParseSpec(args.doc)
         /\ variant_index \in DOMAIN VariantList
         /\ Desc \in Descs
PROOF
  <1>1. /\ args \in Invocations /\ manifest = ParseSpec(args.doc) /\ Usable(manifest)
        /\ variant_index \in DOMAIN VariantList
    BY DEF TypeOK, InManifest
  <1>2. ParseSpec(args.doc) # Missing  BY <1>1 DEF Usable
  <1>3. Variant \in Range(VariantsOf(ParseSpec(args.doc)))
    BY <1>1 DEF Variant, VariantList, Range
  <1>4. Desc \in {DescOf(args, v) : v \in Range(VariantsOf(ParseSpec(args.doc)))}
    BY <1>3 DEF Desc
  <1>5. Desc \in Descs  BY <1>1, <1>2, <1>4 DEF Descs
  <1> QED  BY <1>1, <1>2, <1>5

\* The variants are a sequence that is not empty.
LEMMA VariantsAreSequence ==
  ASSUME NEW a \in Invocations, ParseSpec(a.doc) # Missing
  PROVE  /\ Len(VariantsOf(ParseSpec(a.doc))) \in Nat \ {0}
         /\ DOMAIN VariantsOf(ParseSpec(a.doc)) = 1 .. Len(VariantsOf(ParseSpec(a.doc)))
PROOF
  <1> DEFINE spec == ParseSpec(a.doc)
             T == [name : STRING, defines : Macros]
  <1>1. spec.variants \in Seq(T)  BY VectorsAssumption
  <1>2. CASE spec.variants = <<>>
    <2> DEFINE v == [name |-> "", defines |-> <<>>]
    <2>1. VariantsOf(spec) = <<v>>  BY <1>2 DEF VariantsOf
    <2>2. Len(<<v>>) = 1 /\ DOMAIN <<v>> = 1 .. 1
      <3> HIDE DEF v
      <3> QED  OBVIOUS
    <2>3. Len(<<v>>) \in Nat \ {0} /\ DOMAIN <<v>> = 1 .. Len(<<v>>)
      <3> HIDE DEF v
      <3> QED  BY <2>2
    <2> HIDE DEF v
    <2> QED  BY <2>1, <2>3
  <1>3. CASE spec.variants # <<>>
    <2>1. VariantsOf(spec) = spec.variants  BY <1>3 DEF VariantsOf
    <2>2. Len(spec.variants) \in Nat \ {0}  BY <1>1, <1>3, EmptySeq
    <2>3. DOMAIN spec.variants = 1 .. Len(spec.variants)  BY <1>1, LenProperties
    <2> QED  BY <2>1, <2>2, <2>3
  <1> QED  BY <1>2, <1>3
------------------------------------------------------------------------------
\* No cache entry, artifact or bundle exists yet.
LEMMA InitInv == Init => IInv
PROOF
  <1> SUFFICES ASSUME Init PROVE IInv  OBVIOUS
  <1>1. (CHOOSE a \in Invocations : TRUE) \in Invocations  BY InvocationsAssumption
  <1>2. DOMAIN cache = {} /\ DOMAIN bundles = {}  BY DEF Init
  <1>3. TypeOK  BY <1>1, <1>2, InvocationsAssumption DEF Init, TypeOK, Locations
  <1>4. CacheRight /\ BundlesFresh  BY <1>2 DEF CacheRight, BundlesFresh
  <1>5. ArtifactRight  BY DEF Init, ArtifactRight
  <1> QED  BY <1>3, <1>4, <1>5 DEF IInv

\* Steps that leave the cache and the bundles alone.
LEMMA FramesInv ==
  ASSUME CacheRight, BundlesFresh, UNCHANGED <<cache, bundles>>
  PROVE  CacheRight' /\ BundlesFresh'
PROOF
  <1>1. CacheRight'  BY DEF CacheRight
  <1>2. BundlesFresh'  BY DEF BundlesFresh
  <1> QED  BY <1>1, <1>2

\* A new process keeps what is on disk.
LEMMA InvokeInv == IInv /\ Invoke => IInv'
PROOF
  <1> SUFFICES ASSUME IInv, Invoke PROVE IInv'  OBVIOUS
  <1> USE DEF IInv, Invoke
  <1>1. TypeOK'  BY InvocationsAssumption DEF TypeOK, Locations
  <1>2. ArtifactRight'  BY DEF ArtifactRight
  <1> QED  BY <1>1, <1>2, FramesInv

\* Only documents without errors reach the builds.
LEMMA LoadInv == IInv /\ (Load \/ LoadFails) => IInv'
PROOF
  <1> SUFFICES ASSUME IInv, Load \/ LoadFails PROVE IInv'  OBVIOUS
  <1>1. CASE Load
    <2>1. ParseSpec(args.doc) # Missing /\ args \in Invocations /\ variant_index = 1
      BY <1>1 DEF Load, Usable, IInv, TypeOK
    <2>2. 1 \in DOMAIN VariantsOf(ParseSpec(args.doc))  BY <2>1, VariantsAreSequence
    <2>3. TypeOK'  BY <1>1, <2>1, <2>2 DEF IInv, Load, TypeOK, Locations, VariantList, Usable
    <2>4. ArtifactRight'  BY <1>1 DEF Load, ArtifactRight
    <2> QED  BY <1>1, <2>3, <2>4, FramesInv DEF IInv, Load
  <1>2. CASE LoadFails
    <2>1. TypeOK'  BY <1>2 DEF IInv, LoadFails, Exit, TypeOK, Locations
    <2>2. ArtifactRight'  BY <1>2 DEF LoadFails, Exit, ArtifactRight
    <2> QED  BY <1>2, <2>1, <2>2, FramesInv DEF IInv, LoadFails
  <1> QED  BY <1>1, <1>2

\* What a build makes, and what it stores, is right.
LEMMA BuildInv == IInv /\ Build => IInv'
PROOF
  <1> SUFFICES ASSUME IInv, Build PROVE IInv'  OBVIOUS
  <1>1. InManifest  BY DEF Build, InManifest
  <1>2. Desc \in Descs /\ args \in Invocations  BY <1>1, DescKnown DEF IInv
  <1>3. CacheRight' /\ DOMAIN cache' \subseteq DOMAIN cache \cup {KeyAt(Desc, i) : i \in DOMAIN Desc.stages}
    BY <1>2, StoredIsRight DEF IInv, Build
  <1>4. MadeFor(Desc, artifact')  BY <1>2, BuiltIsMade DEF IInv, Build
  <1>5. Desc' = Desc  BY DEF Build, Desc, Variant, VariantList
  <1>6. ArtifactRight'  BY <1>4, <1>5 DEF ArtifactRight, MadeFor
  <1>7. BundlesFresh'
    <2>1. bundles' = bundles  BY DEF Build
    <2> QED  BY <2>1 DEF IInv, BundlesFresh
  <1>8. TypeOK'
    <2>1. {KeyAt(Desc, i) : i \in DOMAIN Desc.stages}
            \subseteq UNION {{KeyAt(d, i) : i \in DOMAIN d.stages} : d \in Descs}
      BY <1>2, Zenon
    <2>2. DOMAIN cache' \subseteq UNION {{KeyAt(d, i) : i \in DOMAIN d.stages} : d \in Descs}
      BY <1>3, <2>1 DEF IInv, TypeOK
    <2> QED  BY <2>2 DEF IInv, Build, TypeOK, Locations, VariantList
  <1> QED  BY <1>3, <1>6, <1>7, <1>8 DEF IInv

\* Nothing is stored, or what the stages before the failing one made.
LEMMA BuildFailsInv == IInv /\ (BuildFailsEarly \/ BuildFailsLate) => IInv'
PROOF
  <1> SUFFICES ASSUME IInv, BuildFailsEarly \/ BuildFailsLate PROVE IInv'  OBVIOUS
  <1>1. CASE BuildFailsEarly
    <2>1. TypeOK'  BY <1>1 DEF IInv, BuildFailsEarly, Exit, TypeOK, Locations
    <2>2. ArtifactRight'  BY <1>1 DEF BuildFailsEarly, Exit, ArtifactRight
    <2> QED  BY <1>1, <2>1, <2>2, FramesInv DEF IInv, BuildFailsEarly
  <1>2. CASE BuildFailsLate
    <2> DEFINE done == {i \in DOMAIN Desc.stages : \A j \in BackEndFailures(args, Desc) : i < j}
    <2>1. done \subseteq DOMAIN Desc.stages /\ cache' = Stored(args, Desc, done)
      BY <1>2 DEF BuildFailsLate
    <2> HIDE DEF done
    <2>2. InManifest  BY <1>2 DEF BuildFailsLate, InManifest
    <2>3. Desc \in Descs  BY <2>2, DescKnown DEF IInv
    <2>4. CacheRight' /\ DOMAIN cache' \subseteq DOMAIN cache \cup {KeyAt(Desc, i) : i \in DOMAIN Desc.stages}
      BY <2>3, <2>1, StoredIsRight DEF IInv
    <2>5. {KeyAt(Desc, i) : i \in DOMAIN Desc.stages}
            \subseteq UNION {{KeyAt(d, i) : i \in DOMAIN d.stages} : d \in Descs}
      BY <2>3, Zenon
    <2>6. DOMAIN cache' \subseteq UNION {{KeyAt(d, i) : i \in DOMAIN d.stages} : d \in Descs}
      BY <2>4, <2>5 DEF IInv, TypeOK
    <2>7. TypeOK'  BY <1>2, <2>6 DEF IInv, BuildFailsLate, Exit, TypeOK, Locations
    <2>8. ArtifactRight'  BY <1>2 DEF BuildFailsLate, Exit, ArtifactRight
    <2>9. BundlesFresh'
      <3>1. bundles' = bundles  BY <1>2 DEF BuildFailsLate
      <3> QED  BY <3>1 DEF IInv, BundlesFresh
    <2> QED  BY <2>4, <2>7, <2>8, <2>9 DEF IInv
  <1> QED  BY <1>1, <1>2

\* The check of layouts reads only.
LEMMA LayoutsInv == IInv /\ (CheckLayouts \/ LayoutsRejected) => IInv'
PROOF
  <1> SUFFICES ASSUME IInv, CheckLayouts \/ LayoutsRejected PROVE IInv'  OBVIOUS
  <1>1. CASE CheckLayouts
    <2>1. TypeOK'  BY <1>1 DEF IInv, CheckLayouts, TypeOK, Locations, VariantList
    <2>2. Desc' = Desc  BY <1>1 DEF CheckLayouts, Desc, Variant, VariantList
    <2>3. ArtifactRight'
      BY <1>1, <2>2 DEF IInv, CheckLayouts, ArtifactRight, MadeFor
    <2> QED  BY <1>1, <2>1, <2>3, FramesInv DEF IInv, CheckLayouts
  <1>2. CASE LayoutsRejected
    <2>1. TypeOK'  BY <1>2 DEF IInv, LayoutsRejected, Exit, TypeOK, Locations
    <2>2. ArtifactRight'  BY <1>2 DEF LayoutsRejected, Exit, ArtifactRight
    <2> QED  BY <1>2, <2>1, <2>2, FramesInv DEF IInv, LayoutsRejected
  <1> QED  BY <1>1, <1>2

\* A bundle is written from the artifact of its own description.
LEMMA WriteInv == IInv /\ (WriteBundle \/ WriteBundleFails) => IInv'
PROOF
  <1> SUFFICES ASSUME IInv, WriteBundle \/ WriteBundleFails PROVE IInv'  OBVIOUS
  <1>1. CASE WriteBundle
    <2> DEFINE path == BundlePath(args.output, Variant)
               bundle == [stages     |-> artifact,
                          reflection |-> SerializeProgram(Map(LAMBDA s : s.reflection, artifact)),
                          desc       |-> Desc]
    <2>1. InManifest  BY <1>1 DEF WriteBundle, InManifest
    <2>2. Desc \in Descs  BY <2>1, DescKnown DEF IInv
    <2>3. MadeFor(Desc, artifact)  BY <1>1 DEF IInv, ArtifactRight, WriteBundle
    <2>4. MadeFor(bundle.desc, bundle.stages) /\ bundle.desc \in Descs  BY <2>2, <2>3
    <2>5. bundles' = [p \in DOMAIN bundles \cup {path} |-> IF p = path THEN bundle ELSE bundles[p]]
      BY <1>1 DEF WriteBundle, Update
    <2> HIDE DEF path, bundle
    <2>6. \A p \in DOMAIN bundles' :
            MadeFor(bundles'[p].desc, bundles'[p].stages) /\ bundles'[p].desc \in Descs
      <3>1. ASSUME NEW p \in DOMAIN bundles
            PROVE  MadeFor(bundles[p].desc, bundles[p].stages) /\ bundles[p].desc \in Descs
        BY DEF IInv, BundlesFresh, TypeOK, MadeFor
      <3> QED  BY <2>4, <2>5, <3>1
    <2>7. BundlesFresh'  BY <2>6 DEF BundlesFresh, MadeFor
    <2>8. CacheRight'  BY <1>1 DEF IInv, WriteBundle, CacheRight
    <2>9. TypeOK'  BY <1>1, <2>6 DEF IInv, WriteBundle, TypeOK, Locations, VariantList
    <2>10. Desc' = Desc  BY <1>1 DEF WriteBundle, Desc, Variant, VariantList
    <2>11. ArtifactRight'
      BY <1>1, <2>3, <2>10 DEF WriteBundle, ArtifactRight, MadeFor
    <2> QED  BY <2>7, <2>8, <2>9, <2>11 DEF IInv
  <1>2. CASE WriteBundleFails
    <2>1. TypeOK'  BY <1>2 DEF IInv, WriteBundleFails, Exit, TypeOK, Locations
    <2>2. ArtifactRight'  BY <1>2 DEF WriteBundleFails, Exit, ArtifactRight
    <2> QED  BY <1>2, <2>1, <2>2, FramesInv DEF IInv, WriteBundleFails
  <1> QED  BY <1>1, <1>2

\* The next variant is one of the manifest's.
LEMMA NextVariantInv ==
  ASSUME IInv, pc = "emit", NextVariant, UNCHANGED <<tint, args, manifest, artifact, cache, bundles, invocations>>
  PROVE  IInv'
PROOF
  <1>1. InManifest  BY DEF InManifest
  <1>2. /\ args \in Invocations /\ ParseSpec(args.doc) # Missing /\ manifest = ParseSpec(args.doc)
        /\ variant_index \in DOMAIN VariantList
    BY <1>1, DescKnown DEF IInv
  <1>3. Len(VariantList) \in Nat \ {0} /\ DOMAIN VariantList = 1 .. Len(VariantList)
    BY <1>2, VariantsAreSequence DEF VariantList
  <1>4. VariantList' = VariantList  BY DEF VariantList
  <1>5. CASE variant_index < Len(VariantList)
    <2>1. pc' = "build" /\ variant_index' = variant_index + 1 /\ status' = status
      BY <1>5 DEF NextVariant
    <2>2. variant_index' \in DOMAIN VariantList'  BY <1>2, <1>3, <1>4, <1>5, <2>1
    <2>3. TypeOK'  BY <2>1, <2>2 DEF IInv, TypeOK, Locations
    <2>4. ArtifactRight'  BY <2>1 DEF ArtifactRight
    <2> QED  BY <2>3, <2>4, FramesInv DEF IInv
  <1>6. CASE ~(variant_index < Len(VariantList))
    <2>1. pc' = "exit" /\ status' = 0 /\ variant_index' = variant_index  BY <1>6 DEF NextVariant, Exit
    <2>2. TypeOK'  BY <2>1 DEF IInv, TypeOK, Locations
    <2>3. ArtifactRight'  BY <2>1 DEF ArtifactRight
    <2> QED  BY <2>2, <2>3, FramesInv DEF IInv
  <1> QED  BY <1>5, <1>6

\* Declarations are written beside the bundles.
LEMMA EmitInv == IInv /\ (EmitDecls \/ SkipDecls \/ EmitDeclsFails) => IInv'
PROOF
  <1> SUFFICES ASSUME IInv, EmitDecls \/ SkipDecls \/ EmitDeclsFails PROVE IInv'  OBVIOUS
  <1>1. CASE EmitDecls  BY <1>1, NextVariantInv DEF EmitDecls
  <1>2. CASE SkipDecls  BY <1>2, NextVariantInv DEF SkipDecls
  <1>3. CASE EmitDeclsFails
    <2>1. TypeOK'  BY <1>3 DEF IInv, EmitDeclsFails, Exit, TypeOK, Locations
    <2>2. ArtifactRight'  BY <1>3 DEF EmitDeclsFails, Exit, ArtifactRight
    <2> QED  BY <1>3, <2>1, <2>2, FramesInv DEF IInv, EmitDeclsFails
  <1> QED  BY <1>1, <1>2, <1>3

\* Nothing happens.
LEMMA StutterInv == IInv /\ UNCHANGED vars => IInv'
PROOF
  <1> SUFFICES ASSUME IInv, UNCHANGED vars PROVE IInv'  OBVIOUS
  <1>1. TypeOK'  BY DEF IInv, vars, TypeOK, VariantList
  <1>2. Desc' = Desc  BY DEF vars, Desc, Variant, VariantList
  <1>3. ArtifactRight'  BY <1>2 DEF IInv, vars, ArtifactRight, MadeFor
  <1> QED  BY <1>1, <1>3, FramesInv DEF IInv, vars

\* The invariant is inductive.
LEMMA StepInv == IInv /\ [Next]_vars => IInv'
PROOF
  <1> SUFFICES ASSUME IInv, [Next]_vars PROVE IInv'  OBVIOUS
  <1>1. CASE Invoke  BY <1>1, InvokeInv
  <1>2. CASE Load \/ LoadFails  BY <1>2, LoadInv
  <1>3. CASE Build  BY <1>3, BuildInv
  <1>4. CASE BuildFailsEarly \/ BuildFailsLate  BY <1>4, BuildFailsInv
  <1>5. CASE CheckLayouts \/ LayoutsRejected  BY <1>5, LayoutsInv
  <1>6. CASE WriteBundle \/ WriteBundleFails  BY <1>6, WriteInv
  <1>7. CASE EmitDecls \/ SkipDecls \/ EmitDeclsFails  BY <1>7, EmitInv
  <1>8. CASE UNCHANGED vars  BY <1>8, StutterInv
  <1> QED  BY <1>1, <1>2, <1>3, <1>4, <1>5, <1>6, <1>7, <1>8 DEF Next

\* What the cache, the artifact in memory and the bundles hold, always.
THEOREM Invariance == Spec => []IInv
PROOF BY InitInv, StepInv, PTL DEF Spec

(***************************************************************************)
(* Every state of main is well typed: a build in progress belongs to a     *)
(* manifest that was accepted and to one of its variants, and the cache    *)
(* and the bundles are those of known descriptions.                        *)
(***************************************************************************)
THEOREM TypeCorrect == Spec => []TypeOK
PROOF
  <1>1. IInv => TypeOK  BY DEF IInv
  <1> QED  BY Invariance, <1>1, PTL

(***************************************************************************)
(* Whatever manifests share a cache directory, in whatever order, and      *)
(* wherever builds fail, each stage of a bundle is what a build without a  *)
(* cache makes of a program whose requests are hashed as those of the      *)
(* bundle: its own, or what the missing counts let pass for it (builder    *)
(* lines 88-123, cache lines 170-230).                                     *)
(***************************************************************************)
THEOREM BundlesAlwaysFresh == Spec => []BundlesFresh
PROOF
  <1>1. IInv => BundlesFresh  BY DEF IInv
  <1> QED  BY Invariance, <1>1, PTL

(***************************************************************************)
(* A bundle is its own, as a build without a cache makes it, where no      *)
(* request that shares the cache has fewer macros and twice as many more   *)
(* directories than one of its stages, or the reverse.  Nothing in the     *)
(* code keeps such requests out of a cache (cache lines 170-188).          *)
(***************************************************************************)
THEOREM BundlesAreOwn ==
  Spec => [](\A p \in DOMAIN bundles :
               (\A q \in Requests, r \in Range(bundles[p].desc.stages) : ~Confusable(q, r))
                 => bundles[p].stages = Fresh(bundles[p].desc))
PROOF
  <1>1. ASSUME IInv, NEW p \in DOMAIN bundles,
               \A q \in Requests, r \in Range(bundles[p].desc.stages) : ~Confusable(q, r)
        PROVE  bundles[p].stages = Fresh(bundles[p].desc)
    <2> DEFINE d == bundles[p].desc
    <2>1. d \in Descs  BY <1>1 DEF IInv, TypeOK
    <2>2. PICK made \in [DOMAIN d.stages -> Programs(d)] :
            bundles[p].stages = [i \in DOMAIN d.stages |-> BuiltAs(d, made[i], i)]
      BY <1>1 DEF IInv, BundlesFresh
    <2>3. \A r \in Range(d.stages) : HashedAlike(r) = {r}
      <3>1. ASSUME NEW r \in Range(d.stages)  PROVE HashedAlike(r) = {r}
        <4>1. r \in Requests
          <5>1. PICK k \in DOMAIN d.stages : r = d.stages[k]  BY DEF Range
          <5> QED  BY <2>1, <5>1, StagesAreRequests
        <4> QED  BY <1>1, <4>1, HashedAlone
      <3> QED  BY <3>1
    <2> HIDE DEF d
    <2>4. ASSUME NEW i \in DOMAIN d.stages  PROVE BuiltAs(d, made[i], i) = FreshStage(d, i)
      <3>1. made[i] \in Programs(d)  BY <2>2
      <3>2. DOMAIN made[i] = DOMAIN d.stages /\ made[i] = [k \in DOMAIN d.stages |-> made[i][k]]
            /\ \A k \in DOMAIN d.stages : made[i][k] \in HashedAlike(d.stages[k])
        BY <3>1, ProgramElements
      <3>3. \A k \in DOMAIN d.stages : made[i][k] = d.stages[k]  BY <2>3, <3>2 DEF Range
      <3>4. Map(FrontEnd, made[i]) = Map(FrontEnd, d.stages)  BY <3>2, <3>3 DEF Map
      <3> QED  BY <3>4 DEF BuiltAs, FreshStage
    <2>5. bundles[p].stages = Fresh(d)  BY <2>2, <2>4 DEF Fresh
    <2> QED  BY <2>5 DEF d
  <1>2. IInv => \A p \in DOMAIN bundles :
                  (\A q \in Requests, r \in Range(bundles[p].desc.stages) : ~Confusable(q, r))
                    => bundles[p].stages = Fresh(bundles[p].desc)
    BY <1>1
  <1> QED  BY Invariance, <1>2, PTL
------------------------------------------------------------------------------
(***************************************************************************)
(* Folds.  What one computes is a function that is defined by recursion    *)
(* over sets of indices; that there is one, and what its values are, is    *)
(* proved by induction over a set of numbers.                              *)
(***************************************************************************)

\* The maximum of numbers up to n is one of them, and the others are below it.
LEMMA MaxOfSome ==
  ASSUME NEW n \in Nat, NEW S \in SUBSET (1 .. n), S # {}
  PROVE  Max(S) \in S /\ \A k \in S : k <= Max(S)
PROOF
  <1> DEFINE K == {m \in Nat : \A Q \in SUBSET (1 .. m) : Q # {} => \E x \in Q : \A y \in Q : x >= y}
  <1>1. 0 \in K
    <2>1. 1 .. 0 = {}  OBVIOUS
    <2> QED  BY <2>1
  <1>2. ASSUME NEW m \in Nat, m \in K  PROVE m + 1 \in K
    <2>1. ASSUME NEW Q \in SUBSET (1 .. m + 1), Q # {}
          PROVE  \E x \in Q : \A y \in Q : x >= y
      <3>1. CASE m + 1 \in Q  BY <3>1
      <3>2. CASE m + 1 \notin Q
        <4>1. Q \in SUBSET (1 .. m)  BY <3>2
        <4> QED  BY <4>1, <2>1, <1>2
      <3> QED  BY <3>1, <3>2
    <2> QED  BY <2>1
  <1>3. n \in K
    <2> HIDE DEF K
    <2> QED  BY <1>1, <1>2, SetInduction
  <1>4. \E x \in S : \A y \in S : x >= y  BY <1>3
  <1> QED  BY <1>4 DEF Max

\* The maximum of the numbers from 1 to n.
LEMMA MaxOfAll ==
  ASSUME NEW n \in Nat \ {0}
  PROVE  Max(1 .. n) = n /\ (1 .. n) \ {Max(1 .. n)} = 1 .. n - 1
PROOF
  <1>1. n \in Nat /\ n \in 1 .. n  OBVIOUS
  <1>2. Max(1 .. n) \in 1 .. n /\ n <= Max(1 .. n)
    <2>1. 1 .. n \in SUBSET (1 .. n) /\ 1 .. n # {}  BY <1>1
    <2> QED  BY <1>1, <2>1, MaxOfSome
  <1> QED  BY <1>2

\* A fold over sets of indices, by a function G of the index and of the value
\* so far.
IsFold(f, n, B, base, G) ==
  /\ f \in [SUBSET (1 .. n) -> B]
  /\ \A S \in SUBSET (1 .. n) :
       f[S] = IF S = {} THEN base ELSE G[<<Max(S), f[S \ {Max(S)}]>>]

\* A function that is one as long as its values are in B.
IsIter(iter, N, B, base, G) ==
  /\ iter[{}] = base
  /\ \A S \in SUBSET (1 .. N) :
       S # {} /\ iter[S \ {Max(S)}] \in B => iter[S] = G[<<Max(S), iter[S \ {Max(S)}]>>]

\* Its values, one index after the other.
IsRun(g, N, B, base, G) ==
  /\ g \in [0 .. N -> B]
  /\ g[0] = base
  /\ \A n \in 1 .. N : g[n] = G[<<n, g[n - 1]>>]

\* The run of a fold.
RunOf(iter, N) == [n \in 0 .. N |-> iter[1 .. n]]

\* There is such a fold.
LEMMA FoldExists ==
  ASSUME NEW N \in Nat, NEW B, NEW base \in B, NEW G \in [(1 .. N) \X B -> B]
  PROVE  \E f : IsFold(f, N, B, base, G)
PROOF
  <1> USE DEF IsFold
  <1> DEFINE Fold(f, n) == IsFold(f, n, B, base, G)
             Has(n) == \E f : Fold(f, n)
             K == {n \in Nat : n <= N => Has(n)}
  <1>1. 0 \in K
    <2>1. Fold([S \in SUBSET (1 .. 0) |-> base], 0)  OBVIOUS
    <2>2. Has(0)
      <3> HIDE DEF Fold
      <3> QED  BY <2>1, Zenon
    <2> HIDE DEF Has
    <2> QED  BY <2>2
  <1>2. ASSUME NEW n \in Nat, n \in K  PROVE n + 1 \in K
    <2> SUFFICES ASSUME n + 1 <= N PROVE Has(n + 1)
      <3> HIDE DEF Has
      <3> QED  OBVIOUS
    <2>1. Has(n)
      <3> HIDE DEF Has
      <3> QED  BY <1>2
    <2>2. PICK f : Fold(f, n)  BY <2>1, Zenon
    <2> DEFINE h == [S \in SUBSET (1 .. n + 1) |->
                       IF S = {} THEN base ELSE G[<<Max(S), f[S \ {Max(S)}]>>]]
    <2>3. ASSUME NEW S \in SUBSET (1 .. n + 1), S # {}
          PROVE  /\ Max(S) \in 1 .. N /\ S \ {Max(S)} \in SUBSET (1 .. n)
      <3>1. n + 1 \in Nat  OBVIOUS
      <3>2. Max(S) \in S /\ \A k \in S : k <= Max(S)  BY <2>3, <3>1, MaxOfSome
      <3>3. Max(S) \in 1 .. n + 1  BY <3>2
      <3>4. ASSUME NEW k \in S \ {Max(S)}  PROVE k \in 1 .. n
        <4>1. k \in 1 .. n + 1 /\ k <= Max(S) /\ k # Max(S)  BY <3>2
        <4> QED  BY <3>3, <4>1
      <3>5. Max(S) \in 1 .. N  BY <3>3
      <3>6. S \ {Max(S)} \subseteq 1 .. n  BY <3>4
      <3> QED  BY <3>5, <3>6
    <2>4. ASSUME NEW S \in SUBSET (1 .. n + 1)  PROVE h[S] \in B
      <3>1. CASE S = {}  BY <3>1
      <3>2. CASE S # {}
        <4>1. f[S \ {Max(S)}] \in B  BY <2>2, <2>3, <3>2
        <4> QED  BY <3>2, <4>1, <2>3
      <3> QED  BY <3>1, <3>2
    <2>5. \A S \in SUBSET (1 .. n) : h[S] = f[S]
      <3>1. \A S \in SUBSET (1 .. n) : S \in SUBSET (1 .. n + 1)  OBVIOUS
      <3> QED  BY <2>2, <3>1
    <2>6. \A S \in SUBSET (1 .. n + 1) :
            h[S] = IF S = {} THEN base ELSE G[<<Max(S), h[S \ {Max(S)}]>>]
      BY <2>3, <2>5
    <2>7. h \in [SUBSET (1 .. n + 1) -> B]  BY <2>4
    <2> HIDE DEF h
    <2>8. Fold(h, n + 1)  BY <2>6, <2>7
    <2> HIDE DEF Fold
    <2> QED  BY <2>8, Zenon
  <1>3. N \in K
    <2> HIDE DEF K
    <2> QED  BY <1>1, <1>2, SetInduction
  <1>4. Has(N)
    <2> HIDE DEF Has
    <2> QED  BY <1>3
  <1> QED  BY <1>4

\* The values of a fold, one element after the other.
LEMMA FoldPrefix ==
  ASSUME NEW N \in Nat, NEW B, NEW base \in B, NEW G \in [(1 .. N) \X B -> B], NEW iter,
         IsIter(iter, N, B, base, G)
  PROVE  IsRun(RunOf(iter, N), N, B, base, G)
PROOF
  <1> DEFINE g == [n \in 0 .. N |-> iter[1 .. n]]
             K == {n \in Nat : n <= N => g[n] \in B /\ (n > 0 => g[n] = G[<<n, g[n - 1]>>])}
  <1>1. g[0] = base /\ 0 \in K
    <2>1. 1 .. 0 = {}  OBVIOUS
    <2> QED  BY <2>1 DEF IsIter
  <1>2. ASSUME NEW n \in Nat, n \in K  PROVE n + 1 \in K
    <2> SUFFICES ASSUME n + 1 <= N PROVE g[n + 1] \in B /\ g[n + 1] = G[<<n + 1, g[n]>>]
      <3> HIDE DEF g
      <3>1. n + 1 - 1 = n  OBVIOUS
      <3> QED  BY <3>1
    <2>1. g[n] \in B /\ g[n] = iter[1 .. n] /\ g[n + 1] = iter[1 .. n + 1]  BY <1>2
    <2>2. Max(1 .. n + 1) = n + 1 /\ (1 .. n + 1) \ {Max(1 .. n + 1)} = 1 .. n
      <3>1. n + 1 \in Nat \ {0} /\ n + 1 - 1 = n  OBVIOUS
      <3> QED  BY <3>1, MaxOfAll
    <2>3. 1 .. n + 1 \in SUBSET (1 .. N) /\ 1 .. n + 1 # {}
      <3>1. n + 1 \in 1 .. n + 1  OBVIOUS
      <3> QED  BY <3>1
    <2> HIDE DEF g
    <2>4. g[n + 1] = G[<<n + 1, g[n]>>]  BY <2>1, <2>2, <2>3 DEF IsIter
    <2>5. n + 1 \in 1 .. N  OBVIOUS
    <2> QED  BY <2>1, <2>4, <2>5
  <1>3. \A n \in 0 .. N : n \in K
    <2> HIDE DEF K
    <2>1. \A n \in Nat : n \in K  BY <1>1, <1>2, SetInduction
    <2> QED  BY <2>1
  <1>4. g \in [0 .. N -> B]
    <2>1. ASSUME NEW n \in 0 .. N  PROVE g[n] \in B
      <3> HIDE DEF g
      <3>1. n \in K /\ n <= N  BY <1>3
      <3> QED  BY <3>1
    <2> QED  BY <2>1
  <1>5. \A n \in 1 .. N : g[n] = G[<<n, g[n - 1]>>]
    <2> HIDE DEF g
    <2> QED  BY <1>3
  <1>6. RunOf(iter, N) = g  BY DEF RunOf
  <1> HIDE DEF g
  <1>7. IsRun(g, N, B, base, G)  BY <1>1, <1>4, <1>5 DEF IsRun
  <1> QED  BY <1>6, <1>7
------------------------------------------------------------------------------
\* What is kept of a sequence is not longer, and is the sequence where it is
\* as long; all that is to be kept is in it.
LEMMA OnlyProperties ==
  ASSUME NEW T, NEW s \in Seq(T), NEW A
  PROVE  /\ Only(s, A) \in Seq(T)
         /\ Len(Only(s, A)) <= Len(s)
         /\ Len(Only(s, A)) >= Len(s) => Only(s, A) = s /\ \A i \in DOMAIN s : s[i] \in A
         /\ \A i \in DOMAIN s : s[i] \in A => \E j \in DOMAIN Only(s, A) : Only(s, A)[j] = s[i]
PROOF
  <1> DEFINE N == Len(s)
             B == Seq(T)
             G == [p \in (1 .. N) \X B |-> IF s[p[1]] \in A THEN Append(p[2], s[p[1]]) ELSE p[2]]
             Is(f) == f = [S \in SUBSET DOMAIN s |->
                             IF S = {} THEN <<>>
                             ELSE IF s[Max(S)] \in A THEN Append(f[S \ {Max(S)}], s[Max(S)])
                                  ELSE f[S \ {Max(S)}]]
             iter == CHOOSE f : Is(f)
  <1>1. N \in Nat /\ DOMAIN s = 1 .. N /\ <<>> \in B /\ \A i \in 1 .. N : s[i] \in T
    BY ElementOfSeq, LenProperties
  <1>2. G \in [(1 .. N) \X B -> B]
    <2>1. ASSUME NEW p \in (1 .. N) \X B
          PROVE  (IF s[p[1]] \in A THEN Append(p[2], s[p[1]]) ELSE p[2]) \in B
      <3>1. p[1] \in 1 .. N /\ p[2] \in B  OBVIOUS
      <3>2. s[p[1]] \in T  BY <1>1, <3>1
      <3> QED  BY <3>1, <3>2, AppendProperties
    <2> QED  BY <2>1
  <1>3. \A n \in 1 .. N : \A kept \in B :
          G[<<n, kept>>] = IF s[n] \in A THEN Append(kept, s[n]) ELSE kept
    OBVIOUS
  <1>4. Only(s, A) = iter[1 .. N]
    <2>1. Only(s, A) = iter[DOMAIN s]  BY DEF Only, FoldLeft, MapThenFoldSet
    <2> QED  BY <1>1, <2>1
  <1> HIDE DEF G
  <1>5. \E f : Is(f)
    <2>1. PICK f : IsFold(f, N, B, <<>>, G)
      <3> HIDE DEF N, B
      <3> QED  BY <1>1, <1>2, FoldExists
    <2>2. /\ f \in [SUBSET (1 .. N) -> B]
          /\ \A S \in SUBSET (1 .. N) :
               f[S] = IF S = {} THEN <<>> ELSE G[<<Max(S), f[S \ {Max(S)}]>>]
      BY <2>1 DEF IsFold
    <2>3. ASSUME NEW S \in SUBSET (1 .. N), S # {}
          PROVE  f[S] = IF s[Max(S)] \in A THEN Append(f[S \ {Max(S)}], s[Max(S)])
                        ELSE f[S \ {Max(S)}]
      <3>1. Max(S) \in 1 .. N  BY <2>3, <1>1, MaxOfSome
      <3>2. f[S \ {Max(S)}] \in B  BY <2>2
      <3> QED  BY <3>1, <3>2, <2>2, <2>3, <1>3
    <2>4. f = [S \in SUBSET DOMAIN s |->
                 IF S = {} THEN <<>>
                 ELSE IF s[Max(S)] \in A THEN Append(f[S \ {Max(S)}], s[Max(S)])
                      ELSE f[S \ {Max(S)}]]
      BY <1>1, <2>2, <2>3
    <2> QED  BY <2>4, Zenon
  <1>6. Is(iter)  BY <1>5, Zenon
  <1> HIDE DEF iter
  <1> DEFINE g == RunOf(iter, N)
  <1>7. IsRun(g, N, B, <<>>, G)
    <2>1. iter[{}] = <<>>  BY <1>6
    <2>2. ASSUME NEW S \in SUBSET (1 .. N), S # {}, iter[S \ {Max(S)}] \in B
          PROVE  iter[S] = G[<<Max(S), iter[S \ {Max(S)}]>>]
      <3>1. Max(S) \in 1 .. N  BY <2>2, <1>1, MaxOfSome
      <3>2. iter[S] = IF s[Max(S)] \in A THEN Append(iter[S \ {Max(S)}], s[Max(S)])
                      ELSE iter[S \ {Max(S)}]
        BY <1>1, <1>6, <2>2
      <3> QED  BY <3>1, <3>2, <2>2, <1>3
    <2>3. IsIter(iter, N, B, <<>>, G)  BY <2>1, <2>2 DEF IsIter
    <2> HIDE DEF N, B
    <2>4. N \in Nat /\ <<>> \in B  BY <1>1
    <2> QED  BY <2>4, <1>2, <2>3, FoldPrefix
  <1>8. /\ g \in [0 .. N -> B] /\ g[0] = <<>>
        /\ \A n \in 1 .. N : g[n] = G[<<n, g[n - 1]>>]
        /\ iter[1 .. N] = g[N]
    <2>1. iter[1 .. N] = g[N]
      <3>1. N \in 0 .. N  BY <1>1
      <3> QED  BY <3>1 DEF RunOf
    <2> HIDE DEF g
    <2> QED  BY <2>1, <1>7 DEF IsRun
  <1> HIDE DEF g
  <1> DEFINE Kept(n) == /\ Len(g[n]) <= n
                        /\ Len(g[n]) >= n => \A i \in 1 .. n : g[n][i] = s[i] /\ s[i] \in A
                        /\ \A i \in 1 .. n : s[i] \in A => \E j \in 1 .. Len(g[n]) : g[n][j] = s[i]
             K == {n \in Nat : n <= N => Kept(n)}
  <1>9. 0 \in K  BY <1>8
  <1>10. ASSUME NEW n \in Nat, n \in K  PROVE n + 1 \in K
    <2> SUFFICES ASSUME n + 1 <= N PROVE Kept(n + 1)
      <3> HIDE DEF Kept
      <3> QED  OBVIOUS
    <2>1. Kept(n)
      <3> HIDE DEF Kept
      <3> QED  BY <1>1, <1>10
    <2>2. n + 1 \in 1 .. N /\ n + 1 - 1 = n /\ n \in 0 .. N /\ n + 1 \in 0 .. N  BY <1>1
    <2>3. g[n] \in B /\ s[n + 1] \in T  BY <2>2, <1>1, <1>8
    <2>4. g[n + 1] = IF s[n + 1] \in A THEN Append(g[n], s[n + 1]) ELSE g[n]
      <3>1. g[n + 1] = G[<<n + 1, g[n]>>]
        <4>1. \A m \in 1 .. N : g[m] = G[<<m, g[m - 1]>>]  BY <1>8
        <4>2. g[n + 1] = G[<<n + 1, g[n + 1 - 1]>>]  BY <2>2, <4>1
        <4> QED  BY <2>2, <4>2
      <3> QED  BY <2>2, <2>3, <3>1, <1>3
    <2>5. CASE s[n + 1] \notin A
      <3>1. Len(g[n + 1]) <= n /\ g[n + 1] = g[n]  BY <2>1, <2>4, <2>5
      <3>2. Len(g[n]) \in Nat  BY <2>3
      <3>3. \A i \in 1 .. n + 1 : i \in 1 .. n \/ i = n + 1  OBVIOUS
      <3> QED  BY <2>1, <2>5, <3>1, <3>2, <3>3
    <2>6. CASE s[n + 1] \in A
      <3>1. /\ Len(g[n + 1]) = Len(g[n]) + 1 /\ g[n + 1][Len(g[n]) + 1] = s[n + 1]
            /\ \A i \in 1 .. Len(g[n]) : g[n + 1][i] = g[n][i]
        BY <2>3, <2>4, <2>6, AppendProperties
      <3>2. Len(g[n]) \in Nat  BY <2>3
      <3>3. ASSUME NEW i \in 1 .. n + 1, s[i] \in A
            PROVE  \E j \in 1 .. Len(g[n + 1]) : g[n + 1][j] = s[i]
        <4>1. CASE i = n + 1
          <5>1. Len(g[n]) + 1 \in 1 .. Len(g[n + 1])  BY <3>1, <3>2
          <5> QED  BY <3>1, <4>1, <5>1
        <4>2. CASE i # n + 1
          <5>1. i \in 1 .. n  BY <4>2
          <5>2. PICK j \in 1 .. Len(g[n]) : g[n][j] = s[i]  BY <2>1, <3>3, <5>1
          <5>3. j \in 1 .. Len(g[n + 1]) /\ g[n + 1][j] = s[i]  BY <3>1, <3>2, <5>2
          <5> QED  BY <5>3
        <4> QED  BY <4>1, <4>2
      <3>4. Len(g[n + 1]) <= n + 1  BY <2>1, <3>1, <3>2
      <3>5. Len(g[n + 1]) >= n + 1 => \A i \in 1 .. n + 1 : g[n + 1][i] = s[i] /\ s[i] \in A
        BY <2>1, <2>6, <3>1, <3>2
      <3> QED  BY <3>3, <3>4, <3>5
    <2> QED  BY <2>5, <2>6
  <1>11. Kept(N)
    <2>1. N \in K
      <3> HIDE DEF K, N
      <3> QED  BY <1>1, <1>9, <1>10, SetInduction
    <2> QED  BY <1>1, <2>1
  <1>12. Only(s, A) = g[N] /\ g[N] \in Seq(T)  BY <1>1, <1>4, <1>8
  <1>13. ASSUME Len(g[N]) >= N  PROVE g[N] = s
    <2>1. Len(g[N]) = Len(s)  BY <1>1, <1>11, <1>12, <1>13
    <2>2. \A i \in 1 .. Len(s) : g[N][i] = s[i]  BY <1>11, <1>13
    <2> QED  BY <2>1, <2>2, <1>12, SeqEqual
  <1>14. DOMAIN g[N] = 1 .. Len(g[N])  BY <1>12, LenProperties
  <1> QED  BY <1>1, <1>11, <1>12, <1>13, <1>14

\* What the parser makes of an entry that it takes.
TakenVariant(v) == [name |-> v.name, defines |-> Or(v.defines, <<>>)]

(***************************************************************************)
(* No two variants have one name, and where there are as many variants as  *)
(* the document lists, each is what the document says.                     *)
(***************************************************************************)
LEMMA VariantsProperties ==
  ASSUME NEW T, NEW doc, NEW vs \in Seq(T), vs = Or(doc.variants, <<>>)
  PROVE  LET out == Variants(doc) IN
         /\ \A i, j \in 1 .. Len(out) : out[i].name = out[j].name => i = j
         /\ Len(out) >= Len(vs) =>
              Len(out) = Len(vs) /\ \A i \in 1 .. Len(vs) : out[i] = TakenVariant(vs[i])
PROOF
  <1> DEFINE N == Len(vs)
             E == {TakenVariant(v) : v \in T}
             B == Seq(E)
             G == [p \in (1 .. N) \X B |-> AddVariant(p[2], vs[p[1]])]
             Is(f) == f = [S \in SUBSET DOMAIN vs |->
                             IF S = {} THEN <<>>
                             ELSE AddVariant(f[S \ {Max(S)}], vs[Max(S)])]
             iter == CHOOSE f : Is(f)
  <1>1. N \in Nat /\ DOMAIN vs = 1 .. N /\ <<>> \in B /\ \A i \in 1 .. N : vs[i] \in T
    BY ElementOfSeq, LenProperties
  <1>2. ASSUME NEW kept \in B, NEW v \in T
        PROVE  \/ AddVariant(kept, v) = kept
               \/ /\ AddVariant(kept, v) = Append(kept, TakenVariant(v))
                  /\ TakenVariant(v) \in E
                  /\ \A i \in DOMAIN kept : kept[i].name # v.name
    BY DEF AddVariant, TakenVariant
  <1>3. G \in [(1 .. N) \X B -> B]
    <2>1. ASSUME NEW p \in (1 .. N) \X B
          PROVE  AddVariant(p[2], vs[p[1]]) \in B
      <3>1. p[1] \in 1 .. N /\ p[2] \in B  OBVIOUS
      <3>2. vs[p[1]] \in T  BY <1>1, <3>1
      <3> HIDE DEF E
      <3>3. \/ AddVariant(p[2], vs[p[1]]) = p[2]
            \/ /\ AddVariant(p[2], vs[p[1]]) = Append(p[2], TakenVariant(vs[p[1]]))
               /\ TakenVariant(vs[p[1]]) \in E
        BY <1>2, <3>1, <3>2
      <3>4. \A kept \in B, e \in E : Append(kept, e) \in B  BY AppendProperties
      <3> HIDE DEF B
      <3> QED  BY <3>1, <3>3, <3>4
    <2> QED  BY <2>1
  <1>4. \A n \in 1 .. N : \A kept \in B : G[<<n, kept>>] = AddVariant(kept, vs[n])
    OBVIOUS
  <1>5. Variants(doc) = iter[1 .. N]
    <2>1. Variants(doc) = iter[DOMAIN vs]  BY DEF Variants, FoldLeft, MapThenFoldSet
    <2> QED  BY <1>1, <2>1
  <1> HIDE DEF G
  <1>6. \E f : Is(f)
    <2>1. PICK f : IsFold(f, N, B, <<>>, G)
      <3> HIDE DEF N, B
      <3> QED  BY <1>1, <1>3, FoldExists
    <2>2. /\ f \in [SUBSET (1 .. N) -> B]
          /\ \A S \in SUBSET (1 .. N) :
               f[S] = IF S = {} THEN <<>> ELSE G[<<Max(S), f[S \ {Max(S)}]>>]
      BY <2>1 DEF IsFold
    <2>3. ASSUME NEW S \in SUBSET (1 .. N), S # {}
          PROVE  f[S] = AddVariant(f[S \ {Max(S)}], vs[Max(S)])
      <3>1. Max(S) \in 1 .. N  BY <2>3, <1>1, MaxOfSome
      <3>2. f[S \ {Max(S)}] \in B  BY <2>2
      <3> QED  BY <3>1, <3>2, <2>2, <2>3, <1>4
    <2>4. f = [S \in SUBSET DOMAIN vs |->
                 IF S = {} THEN <<>> ELSE AddVariant(f[S \ {Max(S)}], vs[Max(S)])]
      BY <1>1, <2>2, <2>3
    <2> QED  BY <2>4, Zenon
  <1>7. Is(iter)  BY <1>6, Zenon
  <1> HIDE DEF iter
  <1> DEFINE g == RunOf(iter, N)
  <1>8. IsRun(g, N, B, <<>>, G)
    <2>1. iter[{}] = <<>>  BY <1>7
    <2>2. ASSUME NEW S \in SUBSET (1 .. N), S # {}, iter[S \ {Max(S)}] \in B
          PROVE  iter[S] = G[<<Max(S), iter[S \ {Max(S)}]>>]
      <3>1. Max(S) \in 1 .. N  BY <2>2, <1>1, MaxOfSome
      <3>2. iter[S] = AddVariant(iter[S \ {Max(S)}], vs[Max(S)])  BY <1>1, <1>7, <2>2
      <3> QED  BY <3>1, <3>2, <2>2, <1>4
    <2>3. IsIter(iter, N, B, <<>>, G)  BY <2>1, <2>2 DEF IsIter
    <2> HIDE DEF N, B
    <2>4. N \in Nat /\ <<>> \in B  BY <1>1
    <2> QED  BY <2>4, <1>3, <2>3, FoldPrefix
  <1>9. /\ g \in [0 .. N -> B] /\ g[0] = <<>>
        /\ \A n \in 1 .. N : g[n] = G[<<n, g[n - 1]>>]
        /\ iter[1 .. N] = g[N]
    <2>1. iter[1 .. N] = g[N]
      <3>1. N \in 0 .. N  BY <1>1
      <3> QED  BY <3>1 DEF RunOf
    <2> HIDE DEF g
    <2> QED  BY <2>1, <1>8 DEF IsRun
  <1> HIDE DEF g
  <1> DEFINE Kept(n) ==
               /\ \A i, j \in 1 .. Len(g[n]) : g[n][i].name = g[n][j].name => i = j
               /\ Len(g[n]) <= n
               /\ Len(g[n]) >= n => \A i \in 1 .. n : g[n][i] = TakenVariant(vs[i])
             K == {n \in Nat : n <= N => Kept(n)}
  <1>10. 0 \in K  BY <1>9
  <1>11. ASSUME NEW n \in Nat, n \in K  PROVE n + 1 \in K
    <2> SUFFICES ASSUME n + 1 <= N PROVE Kept(n + 1)
      <3> HIDE DEF Kept
      <3> QED  OBVIOUS
    <2>1. Kept(n)
      <3> HIDE DEF Kept
      <3> QED  BY <1>1, <1>11
    <2>2. n + 1 \in 1 .. N /\ n + 1 - 1 = n /\ n \in 0 .. N /\ n + 1 \in 0 .. N  BY <1>1
    <2>3. g[n] \in B /\ vs[n + 1] \in T  BY <2>2, <1>1, <1>9
    <2> DEFINE v == vs[n + 1]
    <2>4. g[n + 1] = AddVariant(g[n], v)
      <3>1. g[n + 1] = G[<<n + 1, g[n]>>]
        <4>1. \A m \in 1 .. N : g[m] = G[<<m, g[m - 1]>>]  BY <1>9
        <4>2. g[n + 1] = G[<<n + 1, g[n + 1 - 1]>>]  BY <2>2, <4>1
        <4> QED  BY <2>2, <4>2
      <3> QED  BY <2>2, <2>3, <3>1, <1>4
    <2> HIDE DEF E
    <2>5. CASE g[n + 1] = g[n]  BY <2>1, <2>3, <2>5
    <2>6. CASE /\ g[n + 1] = Append(g[n], TakenVariant(v))
               /\ TakenVariant(v) \in E
               /\ \A i \in DOMAIN g[n] : g[n][i].name # v.name
      <3>1. /\ Len(g[n + 1]) = Len(g[n]) + 1 /\ g[n + 1][Len(g[n]) + 1] = TakenVariant(v)
            /\ \A i \in 1 .. Len(g[n]) : g[n + 1][i] = g[n][i]
        BY <2>3, <2>6, AppendProperties
      <3>2. Len(g[n]) \in Nat /\ DOMAIN g[n] = 1 .. Len(g[n])  BY <2>3
      <3>3. TakenVariant(v).name = v.name  BY DEF TakenVariant
      <3>4. \A i \in 1 .. Len(g[n]) : g[n + 1][i].name # g[n + 1][Len(g[n]) + 1].name
        BY <2>6, <3>1, <3>2, <3>3
      <3>5. ASSUME NEW i \in 1 .. Len(g[n + 1]), NEW j \in 1 .. Len(g[n + 1]),
                   g[n + 1][i].name = g[n + 1][j].name
            PROVE  i = j
        <4>1. /\ i \in 1 .. Len(g[n]) \/ i = Len(g[n]) + 1
              /\ j \in 1 .. Len(g[n]) \/ j = Len(g[n]) + 1
          BY <3>1, <3>2
        <4>2. CASE i \in 1 .. Len(g[n]) /\ j \in 1 .. Len(g[n])  BY <2>1, <3>1, <3>5, <4>2
        <4>3. CASE i = Len(g[n]) + 1 /\ j \in 1 .. Len(g[n])  BY <3>4, <3>5, <4>3
        <4>4. CASE i \in 1 .. Len(g[n]) /\ j = Len(g[n]) + 1  BY <3>4, <3>5, <4>4
        <4> QED  BY <4>1, <4>2, <4>3, <4>4
      <3>6. Len(g[n + 1]) <= n + 1  BY <2>1, <3>1, <3>2
      <3>7. Len(g[n + 1]) >= n + 1 => \A i \in 1 .. n + 1 : g[n + 1][i] = TakenVariant(vs[i])
        BY <2>1, <3>1, <3>2
      <3> QED  BY <3>5, <3>6, <3>7
    <2> QED  BY <2>3, <2>4, <2>5, <2>6, <1>2
  <1>12. Kept(N)
    <2>1. N \in K
      <3> HIDE DEF K, N
      <3> QED  BY <1>1, <1>10, <1>11, SetInduction
    <2> QED  BY <1>1, <2>1
  <1>13. Variants(doc) = g[N] /\ Len(g[N]) \in Nat
    <2> HIDE DEF E
    <2> QED  BY <1>1, <1>5, <1>9
  <1> QED  BY <1>1, <1>12, <1>13
------------------------------------------------------------------------------
(***************************************************************************)
(* What a successful invocation has done.  The inductive invariant is      *)
(* about the variants that main has gone past.                             *)
(***************************************************************************)

\* Stages fit the registry of the invocation.
FitsRegistry(stages) == Registry \notin {Missing, {}} /\ ValidLayouts(stages, Registry)

PathOf(k) == BundlePath(args.output, VariantList[k])

\* Variant k has its bundle, of shaders that this compiler compiles, checked
\* where the manifest asks for it.
Released(k) ==
  /\ PathOf(k) \in DOMAIN bundles
  /\ bundles[PathOf(k)].desc = DescOf(args, VariantList[k])
  /\ manifest.source_lang = "eGLSL"
  /\ manifest.validate_layout => FitsRegistry(bundles[PathOf(k)].stages)

\* The declarations are there and are those of the first variant's bundle.
DeclsWritten ==
  manifest.emit_binding_decls # "" =>
    decls[InSpecDir(args.spec_dir, manifest.emit_binding_decls)]
      = BindingDecls(bundles[PathOf(1)].stages, Options(manifest))

\* At each control point, what the variants before have left.
Progress ==
  /\ InManifest =>
       /\ \A k \in 1 .. variant_index - 1 : Released(k)
       /\ variant_index > 1 => DeclsWritten
  /\ pc \in {"check", "write", "emit"} => manifest.source_lang = "eGLSL"
  /\ pc \in {"write", "emit"} /\ manifest.validate_layout => FitsRegistry(artifact)
  /\ pc = "emit" => Released(variant_index) /\ bundles[PathOf(variant_index)].stages = artifact
  /\ pc = "exit" /\ status = 0 =>
       /\ manifest = ParseSpec(args.doc) /\ Usable(manifest)
       /\ \A k \in 1 .. Len(VariantList) : Released(k)
       /\ DeclsWritten

PInv == IInv /\ Progress

\* The variants of a manifest that is usable have different bundles.
LEMMA PathsDiffer ==
  ASSUME NEW a \in Invocations, ParseSpec(a.doc) # Missing,
         NEW j \in DOMAIN VariantsOf(ParseSpec(a.doc)), NEW k \in DOMAIN VariantsOf(ParseSpec(a.doc)),
         BundlePath(a.output, VariantsOf(ParseSpec(a.doc))[j])
           = BundlePath(a.output, VariantsOf(ParseSpec(a.doc))[k])
  PROVE  j = k
PROOF
  <1> DEFINE spec == ParseSpec(a.doc)
             out  == VariantsOf(spec)
  <1>1. out[j].name = out[k].name
    <2>1. BundlePath(a.output, out[j]) = BundlePath(a.output, out[k])  OBVIOUS
    <2> HIDE DEF out
    <2> QED  BY <2>1 DEF BundlePath
  <1>2. DOMAIN out = 1 .. Len(out) /\ j \in DOMAIN out /\ k \in DOMAIN out  BY VariantsAreSequence
  <1>3. CASE spec.variants = <<>>
    <2> DEFINE v == [name |-> "", defines |-> <<>>]
    <2>1. out = <<v>>  BY <1>3 DEF VariantsOf
    <2> HIDE DEF v
    <2>2. DOMAIN out = 1 .. 1  BY <2>1
    <2> QED  BY <2>2
  <1>4. CASE spec.variants # <<>>
    <2>1. out = Variants(a.doc)  BY <1>4 DEF VariantsOf, ParseSpec
    <2>2. Or(a.doc.variants, <<>>) \in Seq(Range(Or(a.doc.variants, <<>>)))
      BY DocumentsAssumption DEF IsArray
    <2>3. \A m, n \in 1 .. Len(Variants(a.doc)) :
            Variants(a.doc)[m].name = Variants(a.doc)[n].name => m = n
      BY <2>2, VariantsProperties
    <2> HIDE DEF out
    <2> QED  BY <1>1, <1>2, <2>1, <2>3
  <1> QED  BY <1>3, <1>4

\* What a step that keeps the invocation and the bundles leaves as it is.
LEMMA ReleasedStays ==
  ASSUME UNCHANGED <<args, manifest, bundles>>, NEW k
  PROVE  Released(k)' <=> Released(k)
PROOF
  <1>1. VariantList' = VariantList /\ Registry' = Registry  BY DEF VariantList, Registry, Map
  <1>2. PathOf(k)' = PathOf(k)  BY <1>1 DEF PathOf
  <1>3. FitsRegistry(bundles[PathOf(k)].stages)' <=> FitsRegistry(bundles[PathOf(k)].stages)
    BY <1>1, <1>2 DEF FitsRegistry
  <1> QED  BY <1>1, <1>2, <1>3 DEF Released

\* And one that keeps the declarations too.
LEMMA DeclsStay ==
  ASSUME UNCHANGED <<args, manifest, decls>>, bundles'[PathOf(1)] = bundles[PathOf(1)]
  PROVE  DeclsWritten' <=> DeclsWritten
PROOF
  <1>1. VariantList' = VariantList  BY DEF VariantList
  <1>2. PathOf(1)' = PathOf(1)  BY <1>1 DEF PathOf
  <1> QED  BY <1>1, <1>2 DEF DeclsWritten

\* Nothing has been done yet, or the invocation has failed.
LEMMA ProgressStarts ==
  ASSUME TypeOK,
         \/ Invoke \/ Load
         \/ pc' = "exit" /\ status' = 1
  PROVE  Progress'
PROOF
  <1>1. CASE Invoke  BY <1>1 DEF Invoke, Progress, InManifest
  <1>2. CASE Load
    <2>1. variant_index' = 1 /\ pc' = "build"  BY <1>2 DEF Load, TypeOK
    <2>2. \A k : k \notin 1 .. variant_index' - 1  BY <2>1
    <2> QED  BY <2>1, <2>2 DEF Progress, InManifest
  <1>3. CASE pc' = "exit" /\ status' = 1  BY <1>3 DEF Progress, InManifest
  <1> QED  BY <1>1, <1>2, <1>3

\* Building and checking.
LEMMA ProgressChecks ==
  ASSUME PInv, Build \/ CheckLayouts
  PROVE  Progress'
PROOF
  <1>1. InManifest  BY DEF Build, CheckLayouts, InManifest
  <1>2. UNCHANGED <<args, manifest, bundles, decls, variant_index>> /\ Desc' = Desc
    BY DEF Build, CheckLayouts, Desc, Variant, VariantList
  <1>3. \A k \in 1 .. variant_index - 1 : Released(k)'
    <2>1. ASSUME NEW k \in 1 .. variant_index - 1  PROVE Released(k)'
      BY <1>1, <1>2, ReleasedStays DEF PInv, Progress
    <2> QED  BY <2>1
  <1>4. variant_index > 1 => DeclsWritten'  BY <1>1, <1>2, DeclsStay DEF PInv, Progress
  <1>5. CASE Build
    <2>1. manifest.source_lang = "eGLSL"  BY <1>5 DEF Build, CompileFails
    <2>2. pc' = "check" \/ (pc' = "write" /\ ~manifest.validate_layout)  BY <1>5 DEF Build
    <2> QED  BY <1>2, <1>3, <1>4, <2>1, <2>2 DEF Progress, InManifest
  <1>6. CASE CheckLayouts
    <2>1. manifest.source_lang = "eGLSL"  BY <1>6 DEF CheckLayouts, PInv, Progress
    <2>2. FitsRegistry(artifact)  BY <1>6 DEF CheckLayouts, LayoutsOk, FitsRegistry
    <2>3. Registry' = Registry /\ artifact' = artifact  BY <1>2, <1>6 DEF Registry, Map, CheckLayouts
    <2>4. FitsRegistry(artifact)'  BY <2>2, <2>3 DEF FitsRegistry
    <2>5. pc' = "write"  BY <1>6 DEF CheckLayouts
    <2> QED  BY <1>2, <1>3, <1>4, <2>1, <2>4, <2>5 DEF Progress, InManifest
  <1> QED  BY <1>5, <1>6

\* A bundle is written where no other variant has its own.
LEMMA ProgressWrites ==
  ASSUME PInv, WriteBundle
  PROVE  Progress'
PROOF
  <1> DEFINE path == PathOf(variant_index)
  <1>1. InManifest /\ pc = "write" /\ pc' = "emit"  BY DEF WriteBundle, InManifest
  <1>2. UNCHANGED <<args, manifest, decls, variant_index>>
        /\ Desc' = Desc /\ VariantList' = VariantList /\ Registry' = Registry
    BY DEF WriteBundle, Desc, Variant, VariantList, Registry, Map
  <1>3. /\ args \in Invocations /\ ParseSpec(args.doc) # Missing /\ manifest = ParseSpec(args.doc)
        /\ variant_index \in DOMAIN VariantList
    BY <1>1, DescKnown DEF PInv, IInv
  <1>4. DOMAIN VariantList = 1 .. Len(VariantList) /\ Len(VariantList) \in Nat
    BY <1>3, VariantsAreSequence DEF VariantList
  <1>5. PICK b : b.desc = Desc /\ b.stages = artifact /\ bundles' = Update(bundles, path, b)
    BY DEF WriteBundle, PathOf, Variant
  <1>6. /\ DOMAIN bundles' = DOMAIN bundles \cup {path}
        /\ bundles'[path] = b
        /\ \A p \in DOMAIN bundles : p # path => bundles'[p] = bundles[p]
    BY <1>5 DEF Update
  <1>7. Desc = DescOf(args, VariantList[variant_index])  BY DEF Desc, Variant
  <1>8. \A k : PathOf(k)' = PathOf(k)  BY <1>2 DEF PathOf
  <1>9. /\ FitsRegistry(artifact)' <=> FitsRegistry(artifact)
        /\ artifact' = artifact
    BY <1>2 DEF FitsRegistry, WriteBundle
  <1>10. manifest.source_lang = "eGLSL" /\ (manifest.validate_layout => FitsRegistry(artifact))
    BY <1>1 DEF PInv, Progress
  <1>11. Released(variant_index)' /\ (bundles[PathOf(variant_index)].stages = artifact)'
    <2>1. PathOf(variant_index)' = path  BY <1>2, <1>8 DEF PathOf
    <2>2. FitsRegistry(bundles[PathOf(variant_index)].stages)' <=> FitsRegistry(artifact)
      BY <1>2, <1>5, <1>6, <2>1 DEF FitsRegistry
    <2> QED  BY <1>2, <1>5, <1>6, <1>7, <1>9, <1>10, <2>1, <2>2 DEF Released
  <1>12. ASSUME NEW k \in 1 .. variant_index - 1  PROVE Released(k)'
    <2>1. Released(k)  BY <1>1 DEF PInv, Progress
    <2>2. k \in DOMAIN VariantList /\ k # variant_index  BY <1>3, <1>4
    <2>3. PathOf(k) # path
      BY <1>3, <2>2, PathsDiffer DEF PathOf, VariantList
    <2>4. PathOf(k) \in DOMAIN bundles  BY <2>1 DEF Released
    <2>5. bundles'[PathOf(k)] = bundles[PathOf(k)] /\ PathOf(k)' = PathOf(k)
      BY <1>6, <1>8, <2>3, <2>4
    <2>6. FitsRegistry(bundles[PathOf(k)].stages)' <=> FitsRegistry(bundles[PathOf(k)].stages)
      BY <1>2, <2>5 DEF FitsRegistry
    <2> QED  BY <1>2, <1>6, <2>1, <2>4, <2>5, <2>6 DEF Released
  <1>13. variant_index > 1 => DeclsWritten'
    <2> SUFFICES ASSUME variant_index > 1 PROVE DeclsWritten'  OBVIOUS
    <2>1. DeclsWritten /\ Released(1)  BY <1>1, <1>3, <1>4 DEF PInv, Progress
    <2>2. 1 \in DOMAIN VariantList /\ 1 # variant_index  BY <1>3, <1>4
    <2>3. PathOf(1) # path  BY <1>3, <2>2, PathsDiffer DEF PathOf, VariantList
    <2>4. bundles'[PathOf(1)] = bundles[PathOf(1)]  BY <1>6, <2>1, <2>3 DEF Released
    <2> QED  BY <1>2, <2>1, <2>4, DeclsStay
  <1>14. (manifest.validate_layout => FitsRegistry(artifact))'  BY <1>2, <1>9, <1>10
  <1> QED  BY <1>1, <1>2, <1>10, <1>11, <1>12, <1>13, <1>14 DEF Progress, InManifest

\* The declarations are written with the first variant.
LEMMA ProgressEmits ==
  ASSUME PInv, EmitDecls \/ SkipDecls
  PROVE  Progress'
PROOF
  <1>1. InManifest /\ pc = "emit"  BY DEF EmitDecls, SkipDecls, InManifest
  <1>2. UNCHANGED <<args, manifest, bundles>> /\ VariantList' = VariantList
    BY DEF EmitDecls, SkipDecls, VariantList
  <1>3. /\ args \in Invocations /\ ParseSpec(args.doc) # Missing /\ manifest = ParseSpec(args.doc)
        /\ Usable(manifest) /\ variant_index \in DOMAIN VariantList
    BY <1>1, DescKnown DEF PInv, IInv, TypeOK, InManifest
  <1>4. DOMAIN VariantList = 1 .. Len(VariantList) /\ Len(VariantList) \in Nat
    BY <1>3, VariantsAreSequence DEF VariantList
  <1>5. manifest.source_lang = "eGLSL"  BY <1>1 DEF PInv, Progress
  <1>6. ASSUME NEW k \in 1 .. variant_index  PROVE Released(k)'
    <2>1. Released(k)
      <3>1. CASE k = variant_index  BY <1>1, <3>1 DEF PInv, Progress
      <3>2. CASE k # variant_index
        <4>1. k \in 1 .. variant_index - 1  BY <1>3, <1>4, <3>2
        <4> QED  BY <1>1, <4>1 DEF PInv, Progress
      <3> QED  BY <3>1, <3>2
    <2> QED  BY <1>2, <2>1, ReleasedStays
  <1>7. DeclsWritten'
    <2>1. CASE EmitDecls
      <3>1. variant_index = 1  BY <2>1 DEF EmitDecls, Emits
      <3>2. artifact = bundles[PathOf(1)].stages  BY <1>1, <3>1 DEF PInv, Progress
      <3>3. decls' = Update(decls, InSpecDir(args.spec_dir, manifest.emit_binding_decls),
                            BindingDecls(artifact, Options(manifest)))
        BY <2>1 DEF EmitDecls
      <3>4. decls'[InSpecDir(args.spec_dir, manifest.emit_binding_decls)]
              = BindingDecls(bundles[PathOf(1)].stages, Options(manifest))
        BY <3>2, <3>3 DEF Update
      <3>5. PathOf(1)' = PathOf(1)  BY <1>2 DEF PathOf
      <3> QED  BY <1>2, <3>4, <3>5 DEF DeclsWritten
    <2>2. CASE SkipDecls
      <3>1. UNCHANGED decls /\ ~Emits  BY <2>2 DEF SkipDecls
      <3>2. DeclsWritten
        <4>1. CASE manifest.emit_binding_decls = ""  BY <4>1 DEF DeclsWritten
        <4>2. CASE variant_index # 1
          <5>1. variant_index > 1  BY <1>3, <1>4, <4>2
          <5> QED  BY <1>1, <5>1 DEF PInv, Progress
        <4> QED  BY <3>1, <4>1, <4>2 DEF Emits
      <3> QED  BY <1>2, <3>1, <3>2, DeclsStay
    <2> QED  BY <2>1, <2>2
  <1>8. CASE variant_index < Len(VariantList)
    <2>1. pc' = "build" /\ variant_index' = variant_index + 1
      BY <1>8 DEF EmitDecls, SkipDecls, NextVariant
    <2>2. variant_index' - 1 = variant_index  BY <1>3, <1>4, <2>1
    <2> QED  BY <1>6, <1>7, <2>1, <2>2 DEF Progress, InManifest
  <1>9. CASE ~(variant_index < Len(VariantList))
    <2>1. pc' = "exit" /\ variant_index = Len(VariantList)
      BY <1>3, <1>4, <1>9 DEF EmitDecls, SkipDecls, NextVariant, Exit
    <2>2. manifest' = ParseSpec(args'.doc) /\ Usable(manifest')  BY <1>2, <1>3
    <2> QED  BY <1>2, <1>6, <1>7, <2>1, <2>2 DEF Progress, InManifest
  <1> QED  BY <1>8, <1>9

\* Nothing happens.
LEMMA ProgressStutters ==
  ASSUME Progress, UNCHANGED vars
  PROVE  Progress'
PROOF
  <1>1. /\ UNCHANGED <<args, manifest, bundles, decls, pc, status, variant_index>>
        /\ VariantList' = VariantList /\ Desc' = Desc /\ Registry' = Registry
    BY DEF vars, VariantList, Desc, Variant, Registry, Map
  <1>2. \A k : Released(k)' <=> Released(k)
    <2>1. ASSUME NEW k  PROVE Released(k)' <=> Released(k)  BY <1>1, ReleasedStays
    <2> QED  BY <2>1
  <1>3. DeclsWritten' <=> DeclsWritten  BY <1>1, DeclsStay
  <1>4. (FitsRegistry(artifact)' <=> FitsRegistry(artifact)) /\ artifact' = artifact
        /\ \A k : PathOf(k)' = PathOf(k)
    BY <1>1 DEF FitsRegistry, PathOf, vars
  <1> QED  BY <1>1, <1>2, <1>3, <1>4 DEF Progress, InManifest

\* What main has done for the variants before, always.
THEOREM ProgressInvariance == Spec => []PInv
PROOF
  <1>1. Init => PInv
    <2> SUFFICES ASSUME Init PROVE PInv  OBVIOUS
    <2>1. Progress  BY DEF Init, Progress, InManifest
    <2> QED  BY <2>1, InitInv DEF PInv
  <1>2. PInv /\ [Next]_vars => PInv'
    <2> SUFFICES ASSUME PInv, [Next]_vars PROVE PInv'  OBVIOUS
    <2>1. IInv' /\ TypeOK  BY StepInv DEF PInv, IInv
    <2>2. CASE Invoke \/ Load  BY <2>1, <2>2, ProgressStarts DEF PInv
    <2>3. CASE LoadFails \/ BuildFailsEarly \/ BuildFailsLate \/ LayoutsRejected
                 \/ WriteBundleFails \/ EmitDeclsFails
      <3>1. pc' = "exit" /\ status' = 1
        BY <2>3 DEF LoadFails, BuildFailsEarly, BuildFailsLate, LayoutsRejected, WriteBundleFails,
                    EmitDeclsFails, Exit
      <3> QED  BY <2>1, <3>1, ProgressStarts DEF PInv
    <2>4. CASE Build \/ CheckLayouts  BY <2>1, <2>4, ProgressChecks DEF PInv
    <2>5. CASE WriteBundle  BY <2>1, <2>5, ProgressWrites DEF PInv
    <2>6. CASE EmitDecls \/ SkipDecls  BY <2>1, <2>6, ProgressEmits DEF PInv
    <2>7. CASE UNCHANGED vars  BY <2>1, <2>7, ProgressStutters DEF PInv
    <2> QED  BY <2>2, <2>3, <2>4, <2>5, <2>6, <2>7 DEF Next
  <1> QED  BY <1>1, <1>2, PTL DEF Spec
------------------------------------------------------------------------------
\* The bundle of each variant of a successful invocation.
LEMMA ReleasedIsMade ==
  ASSUME PInv, NEW k, Released(k)
  PROVE  MadeFor(DescOf(args, VariantList[k]), bundles[PathOf(k)].stages)
PROOF
  <1>1. PathOf(k) \in DOMAIN bundles /\ bundles[PathOf(k)].desc = DescOf(args, VariantList[k])
    BY DEF Released
  <1>2. \A p \in DOMAIN bundles : MadeFor(bundles[p].desc, bundles[p].stages)
    BY DEF PInv, IInv, BundlesFresh, MadeFor
  <1> QED  BY <1>1, <1>2

\* The variants of an invocation that has succeeded.
LEMMA VariantsAtExit ==
  ASSUME PInv, pc = "exit", status = 0
  PROVE  /\ args \in Invocations /\ manifest = ParseSpec(args.doc) /\ ParseSpec(args.doc) # Missing
         /\ Usable(manifest)
         /\ Len(VariantList) \in Nat \ {0} /\ DOMAIN VariantList = 1 .. Len(VariantList)
         /\ \A k \in DOMAIN VariantList : Released(k)
         /\ DeclsWritten
PROOF
  <1>1. /\ args \in Invocations /\ manifest = ParseSpec(args.doc) /\ Usable(manifest) /\ DeclsWritten
        /\ \A k \in 1 .. Len(VariantList) : Released(k)
    BY DEF PInv, IInv, TypeOK, Progress
  <1>2. ParseSpec(args.doc) # Missing  BY <1>1 DEF Usable
  <1>3. Len(VariantList) \in Nat \ {0} /\ DOMAIN VariantList = 1 .. Len(VariantList)
    BY <1>1, <1>2, VariantsAreSequence DEF VariantList
  <1> QED  BY <1>1, <1>2, <1>3

\* One is an index where there are any.
LEMMA FirstIndex ==
  ASSUME NEW n \in Nat \ {0}
  PROVE  1 \in 1 .. n
PROOF OBVIOUS

\* The first variant.
LEMMA HeadOfVariants ==
  ASSUME NEW a \in Invocations, ParseSpec(a.doc) # Missing
  PROVE  Head(VariantsOf(ParseSpec(a.doc))) = VariantsOf(ParseSpec(a.doc))[1]
PROOF
  <1> DEFINE spec == ParseSpec(a.doc)
             v == [name |-> "", defines |-> <<>>]
  <1>1. CASE spec.variants = <<>>
    <2>1. VariantsOf(spec) = <<v>>  BY <1>1 DEF VariantsOf
    <2> HIDE DEF v
    <2> QED  BY <2>1
  <1>2. CASE spec.variants # <<>>
    <2>1. VariantsOf(spec) = spec.variants  BY <1>2 DEF VariantsOf
    <2>2. spec.variants \in Seq([name : STRING, defines : Macros])  BY VectorsAssumption
    <2> QED  BY <1>2, <2>1, <2>2, HeadTailProperties
  <1> QED  BY <1>1, <1>2

(***************************************************************************)
(* Whatever is built later, by whichever invocation, the declarations of a *)
(* successful one are those of the bundle of its first variant (main lines *)
(* 141-159).                                                               *)
(***************************************************************************)
THEOREM DeclsAlwaysOfOwner == Spec => []DeclsOfSchemaOwner
PROOF
  <1>1. PInv => DeclsOfSchemaOwner
    <2> SUFFICES ASSUME PInv, pc = "exit", status = 0, manifest.emit_binding_decls # ""
                 PROVE  decls[InSpecDir(args.spec_dir, manifest.emit_binding_decls)]
                          = BindingDecls(bundles[BundlePath(args.output, Head(VariantList))].stages,
                                         Options(manifest))
      BY DEF DeclsOfSchemaOwner
    <2>1. 1 \in DOMAIN VariantList /\ Released(1) /\ DeclsWritten
      <3>1. Len(VariantList) \in Nat \ {0} /\ DOMAIN VariantList = 1 .. Len(VariantList)
        BY VariantsAtExit
      <3>2. 1 \in DOMAIN VariantList  BY <3>1, FirstIndex
      <3> QED  BY <3>2, VariantsAtExit
    <2>2. Head(VariantList) = VariantList[1]  BY VariantsAtExit, HeadOfVariants DEF VariantList
    <2> QED  BY <2>1, <2>2 DEF DeclsWritten, PathOf
  <1> QED  BY <1>1, ProgressInvariance, PTL

(***************************************************************************)
(* With validate_layout, an invocation that succeeds has written for every *)
(* variant a bundle in which every entry of every registry holds, however  *)
(* many there are (layout tools lines 327-401, main lines 108-129).        *)
(***************************************************************************)
THEOREM LayoutsAlwaysHold == Spec => []LayoutsHold
PROOF
  <1>1. PInv => LayoutsHold
    <2> SUFFICES ASSUME PInv, pc = "exit", status = 0, manifest.validate_layout,
                        NEW v \in Range(VariantList), NEW e \in Range(Expected), e.block_name # ""
                 PROVE  LET ubos == UbosNamed(bundles[BundlePath(args.output, v)].stages, e.block_name)
                        IN  ubos # <<>> /\ UboSize(Head(ubos)) = e.total_size
      BY DEF LayoutsHold
    <2>1. PICK k \in DOMAIN VariantList : v = VariantList[k]  BY DEF Range
    <2>2. Released(k)  BY VariantsAtExit
    <2> DEFINE stages == bundles[BundlePath(args.output, v)].stages
               paths == Map(LAMBDA p : InSpecDir(args.spec_dir, p), manifest.layout_registries)
    <2>3. stages = bundles[PathOf(k)].stages  BY <2>1 DEF PathOf
    <2>4. Registry # Missing /\ ValidLayouts(stages, Registry)
      BY <2>2, <2>3 DEF Released, FitsRegistry
    <2>5. Entries(paths, manifest.uniform_buffers) = Expected
      <3>1. Map(LoadRegistry, paths)
              = Map(LAMBDA p : LoadRegistry(InSpecDir(args.spec_dir, p)), manifest.layout_registries)
        BY DEF Map
      <3> QED  BY <3>1 DEF Entries, Expected
    <2>6. Registry = {Expected[i] : i \in Named(Expected)}
      BY <2>4, <2>5 DEF Registry, MergeRegistries
    <2>7. e \in Registry
      <3>1. PICK i \in DOMAIN Expected : e = Expected[i]  BY DEF Range
      <3> QED  BY <3>1, <2>6 DEF Named
    <2> QED  BY <2>4, <2>7 DEF ValidLayouts
  <1> QED  BY <1>1, ProgressInvariance, PTL
------------------------------------------------------------------------------
\* A document that is usable has nothing that was given and dropped.
LEMMA ErrorsNone ==
  ASSUME NEW a \in Invocations, Usable(ParseSpec(a.doc))
  PROVE  /\ ParseSpec(a.doc) # Missing /\ Stages(a.doc) # <<>>
         /\ ~(Len(Variants(a.doc)) < Len(Or(a.doc.variants, <<>>)))
         /\ ~(Len(Stages(a.doc)) < Len(Or(a.doc.stages, <<>>)))
         /\ ~(Len(Targets(a.doc)) < Len(Strings(a.doc.targets)))
PROOF
  <1>1. ParseSpec(a.doc) # Missing /\ ParseSpec(a.doc).errors = {}  BY DEF Usable
  <1>2. Errors(a.doc) = {} /\ Stages(a.doc) # <<>>  BY <1>1 DEF ParseSpec
  <1>3. /\ ~(Len(Variants(a.doc)) < Len(Or(a.doc.variants, <<>>)))
        /\ ~(Len(Stages(a.doc)) < Len(Or(a.doc.stages, <<>>)))
        /\ ~(Len(Targets(a.doc)) < Len(Strings(a.doc.targets)))
    BY <1>2 DEF Errors
  <1> QED  BY <1>1, <1>2, <1>3

\* Every target of the document is a target of the program.
LEMMA TargetsWritten ==
  ASSUME NEW a \in Invocations, Usable(ParseSpec(a.doc))
  PROVE  Targets(a.doc) = Map(LAMBDA t : TargetNames[t], Strings(a.doc.targets))
PROOF
  <1> DEFINE given == Or(a.doc.targets, <<>>)
             T == Range(given)
             strings == Strings(a.doc.targets)
             kept == Only(strings, DOMAIN TargetNames)
             made == [i \in DOMAIN kept |-> TargetNames[kept[i]]]
  <1>1. given \in Seq(T)  BY ErrorsNone, DocumentsAssumption DEF IsArray
  <1>2. strings \in Seq(T)
    <2>1. strings = Only(given, T \ {Absent, Invalid})  BY DEF Strings
    <2> HIDE DEF given, T, strings
    <2> QED  BY <1>1, <2>1, OnlyProperties
  <1>3. /\ kept \in Seq(T) /\ Len(kept) <= Len(strings)
        /\ Len(kept) >= Len(strings) => kept = strings
    <2> HIDE DEF T, strings
    <2> QED  BY <1>2, OnlyProperties
  <1>4. Targets(a.doc) = made  BY DEF Targets, Map
  <1> HIDE DEF T, strings, kept
  <1>5. Len(kept) \in Nat /\ Len(strings) \in Nat /\ DOMAIN kept = 1 .. Len(kept)
    BY <1>2, <1>3, LenProperties
  <1>6. Len(made) = Len(kept)
    <2>1. made = [i \in 1 .. Len(kept) |-> made[i]]  BY <1>5
    <2> HIDE DEF made
    <2> QED  BY <1>5, <2>1, LenOfFunction
  <1>7. ~(Len(made) < Len(strings))  BY <1>4, ErrorsNone DEF strings
  <1> HIDE DEF made
  <1>8. kept = strings  BY <1>3, <1>5, <1>6, <1>7
  <1> USE DEF made
  <1>9. made = Map(LAMBDA t : TargetNames[t], strings)  BY <1>8 DEF Map
  <1> QED  BY <1>4, <1>9 DEF strings

\* What the parser makes of a stage.
TakenStage(s) ==
  [stage |-> StageNames[s.stage], file |-> s.file, entry_point |-> Or(s.entry_point, Or(s.entry, "main"))]

\* Every stage of the document is a stage of the program.
LEMMA StagesWritten ==
  ASSUME NEW a \in Invocations, Usable(ParseSpec(a.doc))
  PROVE  /\ Len(a.doc.stages) \in Nat /\ DOMAIN a.doc.stages = 1 .. Len(a.doc.stages)
         /\ Stages(a.doc) = [i \in DOMAIN a.doc.stages |-> TakenStage(a.doc.stages[i])]
PROOF
  <1> DEFINE given == Or(a.doc.stages, <<>>)
             T == Range(given)
             kept == Only(given, ValidStages(a.doc))
             made == [i \in DOMAIN kept |-> TakenStage(kept[i])]
  <1>1. given \in Seq(T)  BY ErrorsNone, DocumentsAssumption DEF IsArray
  <1>2. /\ kept \in Seq(T) /\ Len(kept) <= Len(given)
        /\ Len(kept) >= Len(given) => kept = given
    <2> HIDE DEF T, given
    <2> QED  BY <1>1, OnlyProperties
  <1>3. Stages(a.doc) = made  BY DEF Stages, Map, TakenStage
  <1> HIDE DEF T, given, kept
  <1>4. Len(kept) \in Nat /\ Len(given) \in Nat /\ DOMAIN kept = 1 .. Len(kept)
    BY <1>1, <1>2, LenProperties
  <1>5. Len(made) = Len(kept)
    <2>1. made = [i \in 1 .. Len(kept) |-> made[i]]  BY <1>4
    <2> HIDE DEF made
    <2> QED  BY <1>4, <2>1, LenOfFunction
  <1>6. ~(Len(made) < Len(given)) /\ made # <<>>
    <2> HIDE DEF made
    <2> QED  BY <1>3, ErrorsNone DEF given
  <1>7. kept = given
    <2> HIDE DEF made
    <2> QED  BY <1>2, <1>4, <1>5, <1>6
  <1>8. given # <<>>
    <2> SUFFICES ASSUME given = <<>> PROVE FALSE  OBVIOUS
    <2>1. DOMAIN kept = {}  BY <1>4, <1>7
    <2> QED  BY <1>6, <2>1
  <1>9. given = a.doc.stages  BY <1>8 DEF given, Or
  <1> QED  BY <1>3, <1>4, <1>7, <1>9

\* Every variant of the document is one of the program.
LEMMA VariantsWritten ==
  ASSUME NEW a \in Invocations, Usable(ParseSpec(a.doc)), NEW v \in WrittenVariants(a.doc)
  PROVE  \E k \in DOMAIN VariantsOf(ParseSpec(a.doc)) :
           LET w == VariantsOf(ParseSpec(a.doc))[k]
           IN  w.name = v.name /\ (v.name # "" => w.defines = Or(v.defines, <<>>))
PROOF
  <1> DEFINE spec == ParseSpec(a.doc)
             given == Or(a.doc.variants, <<>>)
             out == Variants(a.doc)
  <1>1. given \in Seq(Range(given))  BY ErrorsNone, DocumentsAssumption DEF IsArray
  <1>2. spec.variants = out /\ out \in Seq([name : STRING, defines : Macros])
    <2>1. spec.variants \in Seq([name : STRING, defines : Macros])
      BY ErrorsNone, VectorsAssumption
    <2>2. spec.variants = out  BY ErrorsNone DEF ParseSpec
    <2> QED  BY <2>1, <2>2
  <1>3. ~(Len(out) < Len(given))  BY ErrorsNone
  <1>4. Len(out) >= Len(given) =>
          Len(out) = Len(given) /\ \A i \in 1 .. Len(given) : out[i] = TakenVariant(given[i])
    BY <1>1, VariantsProperties
  <1> HIDE DEF spec, given, out
  <1>5. /\ Len(out) = Len(given) /\ DOMAIN given = 1 .. Len(given) /\ DOMAIN out = 1 .. Len(out)
        /\ \A i \in 1 .. Len(given) : out[i] = TakenVariant(given[i])
    BY <1>1, <1>2, <1>3, <1>4, LenProperties
  <1>6. CASE given = <<>>
    <2> DEFINE w == [name |-> "", defines |-> <<>>]
    <2>1. v = w  BY <1>6 DEF WrittenVariants, given
    <2>2. out = <<>>  BY <1>2, <1>5, <1>6, EmptySeq
    <2>3. VariantsOf(spec) = <<w>>  BY <1>2, <2>2 DEF VariantsOf
    <2>4. w.name = ""  OBVIOUS
    <2> HIDE DEF w
    <2>5. 1 \in DOMAIN <<w>> /\ <<w>>[1] = w  OBVIOUS
    <2> QED  BY <2>1, <2>3, <2>4, <2>5 DEF spec
  <1>7. CASE given # <<>>
    <2>1. v \in Range(given)  BY <1>7 DEF WrittenVariants, given, Or
    <2>2. PICK i \in DOMAIN given : v = given[i]  BY <2>1 DEF Range
    <2>3. out # <<>>  BY <1>5, <2>2
    <2>4. VariantsOf(spec) = out  BY <1>2, <2>3 DEF VariantsOf
    <2>5. i \in DOMAIN out /\ out[i] = TakenVariant(v)  BY <1>5, <2>2
    <2>6. out[i].name = v.name /\ out[i].defines = Or(v.defines, <<>>)  BY <2>5 DEF TakenVariant
    <2> QED  BY <2>4, <2>5, <2>6 DEF spec
  <1> QED  BY <1>6, <1>7

TargetsIn(stage) == Map(LAMBDA c : c.target, stage.cross_compiled)

\* What a bundle for a description has: one stage for each, its SPIR-V and its
\* targets.
LEMMA MadeStages ==
  ASSUME NEW d, NEW n \in Nat, DOMAIN d.stages = 1 .. n, NEW stages, MadeFor(d, stages)
  PROVE  /\ Len(stages) = n
         /\ \A i \in 1 .. n :
              /\ \E q \in HashedAlike(d.stages[i]) : stages[i].spirv = FrontEnd(q)
              /\ TargetsIn(stages[i])
                   = [j \in DOMAIN d.targets |-> d.targets[j]]
PROOF
  <1>1. PICK chosen \in [1 .. n -> Programs(d)] :
          stages = [i \in 1 .. n |-> BuiltAs(d, chosen[i], i)]
    BY DEF MadeFor
  <1>2. Len(stages) = n
    <2>1. stages = [i \in 1 .. n |-> stages[i]]  BY <1>1
    <2> QED  BY <2>1, LenOfFunction
  <1>3. ASSUME NEW i \in 1 .. n
        PROVE  /\ \E q \in HashedAlike(d.stages[i]) : stages[i].spirv = FrontEnd(q)
               /\ TargetsIn(stages[i])
                    = [j \in DOMAIN d.targets |-> d.targets[j]]
    <2> DEFINE f == chosen[i]
               spirv == FrontEnd(f[i])
               map == MapFor(d, f)
               req == d.stages[i]
               made == BackEnd(Modules[spirv], map, d.targets, req.stage)
               art == StageArtifact(req, spirv, map, d.targets)
               compiled == [j \in DOMAIN d.targets |->
                              CrossCompiled(Modules[spirv], map, d.targets[j], req.stage)]
    <2>1. DOMAIN f = DOMAIN d.stages /\ f[i] \in HashedAlike(req)  BY <1>1, ProgramElements
    <2>2. stages[i] = art  BY <1>1, <2>1, BuiltAsArtifact
    <2>3. art.spirv = spirv
      <3> HIDE DEF spirv, map, req
      <3> QED  BY ArtifactSpirv
    <2>4. art.cross_compiled = made.cross_compiled  BY DEF StageArtifact
    <2>5. made.cross_compiled = compiled
      <3> HIDE DEF spirv, map, req
      <3> QED  BY DEF BackEnd
    <2>6. Map(LAMBDA c : c.target, compiled) = [j \in DOMAIN d.targets |-> d.targets[j]]
      <3> HIDE DEF spirv, map, req
      <3> QED  BY DEF Map, CrossCompiled
    <2>7. stages[i].spirv = FrontEnd(f[i])
      <3> HIDE DEF art, f, map
      <3> QED  BY <2>2, <2>3
    <2> HIDE DEF spirv, map, made, art, compiled, f
    <2> QED  BY <2>1, <2>2, <2>4, <2>5, <2>6, <2>7 DEF req, TargetsIn
  <1> QED  BY <1>2, <1>3

\* The defines of a variant are macros.
LEMMA DefinesAreMacros ==
  ASSUME NEW a \in Invocations, ParseSpec(a.doc) # Missing,
         NEW k \in DOMAIN VariantsOf(ParseSpec(a.doc))
  PROVE  VariantsOf(ParseSpec(a.doc))[k].name # "" =>
           VariantsOf(ParseSpec(a.doc))[k].defines \in Macros
PROOF
  <1> DEFINE spec == ParseSpec(a.doc)
             w == [name |-> "", defines |-> <<>>]
  <1>1. CASE spec.variants = <<>>
    <2>1. VariantsOf(spec) = <<w>> /\ w.name = ""  BY <1>1 DEF VariantsOf
    <2>2. DOMAIN <<w>> = 1 .. 1 /\ <<w>>[1] = w
      <3> HIDE DEF w
      <3> QED  OBVIOUS
    <2>3. k \in 1 .. 1
      <3> HIDE DEF w
      <3> QED  BY <2>1, <2>2
    <2>4. k = 1  BY <2>3
    <2>5. VariantsOf(spec)[k].name = ""
      <3> HIDE DEF w
      <3> QED  BY <2>1, <2>2, <2>4
    <2> QED  BY <2>5
  <1>2. CASE spec.variants # <<>>
    <2>1. VariantsOf(spec) = spec.variants  BY <1>2 DEF VariantsOf
    <2>2. spec.variants \in Seq([name : STRING, defines : Macros])  BY VectorsAssumption
    <2>3. spec.variants[k] \in [name : STRING, defines : Macros]
      <3>1. k \in 1 .. Len(spec.variants)  BY <2>1, <2>2
      <3> HIDE DEF spec
      <3> QED  BY <2>2, <3>1, ElementOfSeq
    <2> QED  BY <2>1, <2>3
  <1> QED  BY <1>1, <1>2

\* A request with these macros.
RequestWith(a, s, macros) ==
  [file_path    |-> InSpecDir(a.spec_dir, s.file),
   entry_point  |-> Or(s.entry_point, Or(s.entry, "main")),
   stage        |-> StageNames[s.stage],
   lang         |-> "eGLSL",
   include_dirs |-> Map(LAMBDA p : InSpecDir(a.spec_dir, p), Strings(a.doc.include_paths)),
   macros       |-> macros]

\* The request with more macros.
AddMacros(req, more) == [req EXCEPT !.macros = @ \o more]

\* Where there are none, they are its macros and nothing else changes.
LEMMA MacrosAppended ==
  ASSUME NEW a, NEW s, NEW more \in Macros, NEW req, req = RequestWith(a, s, <<>>)
  PROVE  AddMacros(req, more) = RequestWith(a, s, more)
PROOF
  <1> DEFINE file == InSpecDir(a.spec_dir, s.file)
             entry == Or(s.entry_point, Or(s.entry, "main"))
             stage == StageNames[s.stage]
             dirs == Map(LAMBDA p : InSpecDir(a.spec_dir, p), Strings(a.doc.include_paths))
  <1>1. \A k : RequestWith(a, s, k) = [file_path |-> file, entry_point |-> entry, stage |-> stage,
                                       lang |-> "eGLSL", include_dirs |-> dirs, macros |-> k]
    BY DEF RequestWith, Map
  <1> HIDE DEF file, entry, stage, dirs
  <1>2. \A k, h : [[file_path |-> file, entry_point |-> entry, stage |-> stage, lang |-> "eGLSL",
                    include_dirs |-> dirs, macros |-> k] EXCEPT !.macros = h]
                   = [file_path |-> file, entry_point |-> entry, stage |-> stage, lang |-> "eGLSL",
                      include_dirs |-> dirs, macros |-> h]
    OBVIOUS
  <1>3. req.macros = <<>> /\ <<>> \o more = more  BY <1>1, ConcatEmptySeq DEF Macros
  <1>4. \A h : [req EXCEPT !.macros = h] = RequestWith(a, s, h)  BY <1>1, <1>2
  <1> QED  BY <1>3, <1>4 DEF AddMacros

\* A variant whose defines do not count.
Nameless(v) == v.name = ""

\* Each stage of the description of a variant is the request the document writes.
LEMMA RequestsWritten ==
  ASSUME NEW a \in Invocations, Usable(ParseSpec(a.doc)), ParseSpec(a.doc).source_lang = "eGLSL",
         NEW w, NEW v, w.name = v.name, ~Nameless(v) => w.defines = Or(v.defines, <<>>),
         ~Nameless(v) => w.defines \in Macros
  PROVE  LET d == DescOf(a, w) IN
         /\ DOMAIN d.stages = DOMAIN a.doc.stages
         /\ d.targets = Targets(a.doc)
         /\ \A i \in DOMAIN a.doc.stages : d.stages[i] = WrittenRequest(a, a.doc.stages[i], v)
PROOF
  <1> DEFINE spec == ParseSpec(a.doc)
             plain == ToBuildDesc(spec, a.spec_dir)
             d == DescOf(a, w)
             Req(i, macros) == RequestWith(a, a.doc.stages[i], macros)
  <1>1. /\ spec.stages = Stages(a.doc) /\ spec.targets = Targets(a.doc)
        /\ spec.include_paths = Strings(a.doc.include_paths)
    BY ErrorsNone DEF ParseSpec
  <1>2. /\ DOMAIN spec.stages = DOMAIN a.doc.stages
        /\ \A i \in DOMAIN a.doc.stages : spec.stages[i] = TakenStage(a.doc.stages[i])
    BY <1>1, StagesWritten
  <1>3. /\ DOMAIN plain.stages = DOMAIN a.doc.stages /\ plain.targets = Targets(a.doc)
        /\ \A i \in DOMAIN a.doc.stages : plain.stages[i] = Req(i, <<>>)
    <2>1. plain.targets = Targets(a.doc)  BY <1>1 DEF ToBuildDesc
    <2>2. plain.stages = [i \in DOMAIN spec.stages |->
                            [file_path    |-> InSpecDir(a.spec_dir, spec.stages[i].file),
                             entry_point  |-> spec.stages[i].entry_point,
                             stage        |-> spec.stages[i].stage,
                             lang         |-> spec.source_lang,
                             include_dirs |-> Map(LAMBDA p : InSpecDir(a.spec_dir, p), spec.include_paths),
                             macros       |-> <<>>]]
      BY DEF ToBuildDesc, Map
    <2>3. ASSUME NEW i \in DOMAIN a.doc.stages
          PROVE  plain.stages[i] = Req(i, <<>>)
      <3>1. /\ spec.stages[i].file = a.doc.stages[i].file
            /\ spec.stages[i].stage = StageNames[a.doc.stages[i].stage]
            /\ spec.stages[i].entry_point
                 = Or(a.doc.stages[i].entry_point, Or(a.doc.stages[i].entry, "main"))
        <4> HIDE DEF spec, plain
        <4>1. spec.stages[i] = TakenStage(a.doc.stages[i])  BY <1>2
        <4>2. /\ TakenStage(a.doc.stages[i]).file = a.doc.stages[i].file
              /\ TakenStage(a.doc.stages[i]).stage = StageNames[a.doc.stages[i].stage]
              /\ TakenStage(a.doc.stages[i]).entry_point
                   = Or(a.doc.stages[i].entry_point, Or(a.doc.stages[i].entry, "main"))
          BY DEF TakenStage
        <4> QED  BY <4>1, <4>2
      <3>2. i \in DOMAIN spec.stages  BY <1>2
      <3> HIDE DEF spec, plain
      <3>3. spec.source_lang = "eGLSL"  BY DEF spec
      <3> QED  BY <1>1, <2>2, <3>1, <3>2, <3>3 DEF RequestWith, Map
    <2>4. DOMAIN plain.stages = DOMAIN a.doc.stages  BY <1>2, <2>2
    <2> QED  BY <2>1, <2>3, <2>4
  <1>4. CASE Nameless(v)
    <2>1. d = plain  BY <1>4 DEF DescOf, Nameless
    <2>2. \A i : WrittenRequest(a, a.doc.stages[i], v) = Req(i, <<>>)
      BY <1>4 DEF WrittenRequest, RequestWith, Map, Nameless
    <2> HIDE DEF plain, Req, d
    <2>3. /\ DOMAIN d.stages = DOMAIN a.doc.stages /\ d.targets = Targets(a.doc)
          /\ \A i \in DOMAIN a.doc.stages : d.stages[i] = WrittenRequest(a, a.doc.stages[i], v)
      BY <1>3, <2>1, <2>2
    <2> QED  BY <2>3 DEF d
  <1>5. CASE ~Nameless(v)
    <2> DEFINE M == w.defines
    <2>1. d = [plain EXCEPT !.name = <<spec.name, w.name>>,
                            !.stages = Map(LAMBDA s : [s EXCEPT !.macros = @ \o M], plain.stages)]
      BY <1>5 DEF DescOf, Nameless
    <2>2. /\ d.targets = plain.targets
          /\ d.stages = [i \in DOMAIN plain.stages |-> AddMacros(plain.stages[i], M)]
      BY <2>1 DEF Map, ToBuildDesc, AddMacros
    <2>3. M \in Macros /\ M = Or(v.defines, <<>>)  BY <1>5
    <2>4. \A i : WrittenRequest(a, a.doc.stages[i], v) = Req(i, M)
      BY <1>5, <2>3 DEF WrittenRequest, RequestWith, Map, Nameless
    <2>5. ASSUME NEW i \in DOMAIN a.doc.stages
          PROVE  d.stages[i] = Req(i, M)
      <3>1. plain.stages[i] = Req(i, <<>>) /\ i \in DOMAIN plain.stages  BY <1>3
      <3>2. AddMacros(plain.stages[i], M) = Req(i, M)
        <4> HIDE DEF plain, M
        <4> QED  BY <2>3, <3>1, MacrosAppended
      <3> HIDE DEF plain, Req, d, M
      <3> QED  BY <2>2, <3>1, <3>2
    <2>6. \A i \in DOMAIN a.doc.stages : d.stages[i] = Req(i, M)  BY <2>5
    <2> HIDE DEF plain, Req, d, M
    <2>7. /\ DOMAIN d.stages = DOMAIN a.doc.stages /\ d.targets = Targets(a.doc)
          /\ \A i \in DOMAIN a.doc.stages : d.stages[i] = WrittenRequest(a, a.doc.stages[i], v)
      BY <1>3, <2>2, <2>4, <2>6
    <2> QED  BY <2>7 DEF d
  <1> QED  BY <1>4, <1>5

(***************************************************************************)
(* Whatever the documents, the front end and the cache: a successful       *)
(* invocation leaves a bundle of every variant its document lists, with    *)
(* every stage and every target listed, compiled with the variant's own    *)
(* defines; what the parser drops is reported and stops main (parser lines *)
(* 144-154, 258-312, main lines 62-67, 87-139).                            *)
(***************************************************************************)
THEOREM AlwaysPublishedAsWritten == Spec => []PublishedAsWritten
PROOF
  <1>1. PInv => PublishedAsWritten
    <2> SUFFICES ASSUME PInv, pc = "exit", status = 0, NEW v \in WrittenVariants(args.doc)
                 PROVE  /\ BundlePath(args.output, v) \in DOMAIN bundles
                        /\ LET stages  == bundles[BundlePath(args.output, v)].stages
                               written == args.doc.stages
                           IN  /\ Len(stages) = Len(written)
                               /\ \A i \in DOMAIN written :
                                    /\ \E q \in HashedAlike(WrittenRequest(args, written[i], v)) : stages[i].spirv = FrontEnd(q)
                                    /\ TargetsIn(stages[i])
                                         = Map(LAMBDA t : TargetNames[t], Strings(args.doc.targets))
      BY DEF PublishedAsWritten, TargetsIn
    <2>1. /\ args \in Invocations /\ manifest = ParseSpec(args.doc) /\ Usable(ParseSpec(args.doc))
          /\ VariantList = VariantsOf(ParseSpec(args.doc))
          /\ \A k \in DOMAIN VariantList : Released(k)
      BY VariantsAtExit DEF VariantList
    <2>2. PICK k \in DOMAIN VariantList :
            /\ VariantList[k].name = v.name
            /\ v.name # "" => VariantList[k].defines = Or(v.defines, <<>>)
      BY <2>1, VariantsWritten
    <2> DEFINE w == VariantList[k]
               d == DescOf(args, w)
               stages == bundles[BundlePath(args.output, v)].stages
               written == args.doc.stages
    <2>3. Released(k)  BY <2>1
    <2>4. BundlePath(args.output, v) = PathOf(k)  BY <2>2 DEF PathOf, BundlePath
    <2>5. PathOf(k) \in DOMAIN bundles /\ manifest.source_lang = "eGLSL"
      BY <2>3 DEF Released
    <2>6. MadeFor(d, stages)  BY <2>3, <2>4, ReleasedIsMade
    <2>7. ~Nameless(v) => w.defines \in Macros  BY <2>1, <2>2, DefinesAreMacros DEF Usable, Nameless
    <2>8. /\ DOMAIN d.stages = DOMAIN written /\ d.targets = Targets(args.doc)
          /\ \A i \in DOMAIN written : d.stages[i] = WrittenRequest(args, written[i], v)
      <3> HIDE DEF w
      <3>1. w.name = v.name /\ (~Nameless(v) => w.defines = Or(v.defines, <<>>))
        BY <2>2 DEF w, Nameless
      <3> QED  BY <2>1, <2>5, <2>7, <3>1, RequestsWritten
    <2>9. PICK n \in Nat : n = Len(written) /\ DOMAIN written = 1 .. n
      BY <2>1, StagesWritten
    <2>10. /\ Len(stages) = n
           /\ \A i \in 1 .. n :
                /\ \E q \in HashedAlike(d.stages[i]) : stages[i].spirv = FrontEnd(q)
                /\ TargetsIn(stages[i])
                     = [j \in DOMAIN d.targets |-> d.targets[j]]
      <3> HIDE DEF d, stages, written
      <3>1. DOMAIN d.stages = 1 .. n  BY <2>8, <2>9
      <3> QED  BY <2>6, <2>9, <3>1, MadeStages
    <2>11. [j \in DOMAIN d.targets |-> d.targets[j]]
             = Map(LAMBDA t : TargetNames[t], Strings(args.doc.targets))
      <3>1. d.targets = Map(LAMBDA t : TargetNames[t], Strings(args.doc.targets))
        BY <2>1, <2>8, TargetsWritten
      <3> QED  BY <3>1 DEF Map
    <2> HIDE DEF d, stages, written
    <2>12. /\ Len(stages) = Len(written)
           /\ \A i \in DOMAIN written :
                /\ \E q \in HashedAlike(WrittenRequest(args, written[i], v)) : stages[i].spirv = FrontEnd(q)
                /\ TargetsIn(stages[i])
                     = Map(LAMBDA t : TargetNames[t], Strings(args.doc.targets))
      BY <2>8, <2>9, <2>10, <2>11
    <2> QED  BY <2>4, <2>5, <2>12 DEF stages, written
  <1> QED  BY <1>1, ProgressInvariance, PTL
------------------------------------------------------------------------------
(***************************************************************************)
(* Slots: the reflection of a stage and its sources, made apart, agree.    *)
(***************************************************************************)

\* What has been built came from a compilation that succeeded.
AllCompiled(stages) == \A i \in DOMAIN stages : stages[i].spirv # Missing

Compiles ==
  /\ \A k \in DOMAIN cache : cache[k].spirv # Missing
  /\ pc \in {"check", "write", "emit"} => AllCompiled(artifact)
  /\ \A p \in DOMAIN bundles : AllCompiled(bundles[p].stages)

\* A build whose misses compile makes such stages, and stores no others.
LEMMA BuiltCompiles ==
  ASSUME Compiles, NEW a, NEW d, ~CompileFails(a, d)
  PROVE  AllCompiled(Built(a, d))
PROOF
  <1> DEFINE art(i) == StageArtifact(d.stages[i], SpirvOf(a, d)[i], ProgramMap(d, SpirvOf(a, d)), d.targets)
  <1>1. ASSUME NEW i \in DOMAIN d.stages  PROVE Built(a, d)[i].spirv # Missing
    <2>1. CASE Hit(a, d, i)
      <3>1. Built(a, d)[i] = cache[KeyAt(d, i)]  BY <1>1, <2>1 DEF Built
      <3> QED  BY <2>1, <3>1 DEF Hit, Compiles
    <2>2. CASE ~Hit(a, d, i)
      <3>1. Built(a, d)[i] = art(i)  BY <1>1, <2>2 DEF Built
      <3>2. art(i).spirv = SpirvOf(a, d)[i]  BY ArtifactSpirv
      <3>3. SpirvOf(a, d)[i] = FrontEnd(d.stages[i])  BY <1>1, <2>2 DEF SpirvOf
      <3>4. FrontEnd(d.stages[i]) # Missing  BY <1>1, <2>2 DEF CompileFails, Misses
      <3> HIDE DEF art
      <3> QED  BY <3>1, <3>2, <3>3, <3>4
    <2> QED  BY <2>1, <2>2
  <1>2. DOMAIN Built(a, d) = DOMAIN d.stages  BY DEF Built
  <1> QED  BY <1>1, <1>2 DEF AllCompiled

\* So does what is stored of it.
LEMMA StoredCompiles ==
  ASSUME Compiles, NEW a, NEW d, ~CompileFails(a, d), NEW done, done \subseteq DOMAIN d.stages,
         cache' = Stored(a, d, done)
  PROVE  \A k \in DOMAIN cache' : cache'[k].spirv # Missing
PROOF
  <1> DEFINE missed == done \cap Misses(a, d)
             keys == {KeyAt(d, i) : i \in missed}
  <1>1. CASE ~a.cache
    <2>1. cache' = cache  BY <1>1 DEF Stored
    <2> QED  BY <2>1 DEF Compiles
  <1>2. CASE a.cache
    <2>1. cache' = [k \in DOMAIN cache \cup keys |->
                      IF k \in keys THEN Built(a, d)[CHOOSE i \in missed : KeyAt(d, i) = k]
                      ELSE cache[k]]
      BY <1>2 DEF Stored
    <2>2. ASSUME NEW k \in DOMAIN cache'  PROVE cache'[k].spirv # Missing
      <3>1. CASE k \in keys
        <4> DEFINE i == CHOOSE n \in missed : KeyAt(d, n) = k
        <4>1. i \in missed /\ i \in DOMAIN d.stages
          <5>1. \E n \in missed : KeyAt(d, n) = k  BY <3>1
          <5> QED  BY <5>1
        <4>2. cache'[k] = Built(a, d)[i]  BY <2>1, <2>2, <3>1
        <4> HIDE DEF i
        <4>3. DOMAIN Built(a, d) = DOMAIN d.stages  BY DEF Built
        <4> QED  BY <4>1, <4>2, <4>3, BuiltCompiles DEF AllCompiled
      <3>2. CASE k \notin keys
        <4>1. k \in DOMAIN cache /\ cache'[k] = cache[k]  BY <2>1, <2>2, <3>2
        <4> QED  BY <4>1 DEF Compiles
      <3> QED  BY <3>1, <3>2
    <2> QED  BY <2>2
  <1> QED  BY <1>1, <1>2

\* Nothing that does not compile is ever kept.
LEMMA AlwaysCompiles == Spec => []Compiles
PROOF
  <1>1. Init => Compiles
    BY DEF Init, Compiles, AllCompiled
  <1>2. Compiles /\ [Next]_vars => Compiles'
    <2> SUFFICES ASSUME Compiles, [Next]_vars PROVE Compiles'  OBVIOUS
    <2>1. CASE Build
      <3>1. ~CompileFails(args, Desc) /\ artifact' = Built(args, Desc) /\ bundles' = bundles
            /\ cache' = Stored(args, Desc, DOMAIN Desc.stages)
        BY <2>1 DEF Build
      <3>2. \A k \in DOMAIN cache' : cache'[k].spirv # Missing  BY <3>1, StoredCompiles
      <3>3. AllCompiled(artifact)'  BY <3>1, BuiltCompiles DEF AllCompiled
      <3> QED  BY <3>1, <3>2, <3>3 DEF Compiles, AllCompiled
    <2>2. CASE BuildFailsLate
      <3> DEFINE done == {i \in DOMAIN Desc.stages : \A j \in BackEndFailures(args, Desc) : i < j}
      <3>1. /\ ~CompileFails(args, Desc) /\ bundles' = bundles /\ pc' = "exit"
            /\ cache' = Stored(args, Desc, done) /\ done \subseteq DOMAIN Desc.stages
        BY <2>2 DEF BuildFailsLate, Exit
      <3> HIDE DEF done
      <3>2. \A k \in DOMAIN cache' : cache'[k].spirv # Missing  BY <3>1, StoredCompiles
      <3> QED  BY <3>1, <3>2 DEF Compiles, AllCompiled
    <2>3. CASE WriteBundle
      <3> DEFINE path == BundlePath(args.output, Variant)
                 bundle == [stages     |-> artifact,
                            reflection |-> SerializeProgram(Map(LAMBDA s : s.reflection, artifact)),
                            desc       |-> Desc]
      <3>1. bundle.stages = artifact /\ AllCompiled(artifact)  BY <2>3 DEF WriteBundle, Compiles
      <3>2. bundles' = [p \in DOMAIN bundles \cup {path} |-> IF p = path THEN bundle ELSE bundles[p]]
        BY <2>3 DEF WriteBundle, Update
      <3> HIDE DEF path, bundle
      <3>3. ASSUME NEW p \in DOMAIN bundles'  PROVE AllCompiled(bundles'[p].stages)
        BY <3>1, <3>2, <3>3 DEF Compiles
      <3>4. cache' = cache /\ artifact' = artifact  BY <2>3 DEF WriteBundle
      <3> QED  BY <3>1, <3>3, <3>4 DEF Compiles, AllCompiled
    <2>4. CASE CheckLayouts
      BY <2>4 DEF CheckLayouts, Compiles, AllCompiled
    <2>5. CASE Invoke \/ Load \/ EmitDecls \/ SkipDecls
      <3>1. UNCHANGED <<cache, bundles>> /\ pc' \in {"load", "build", "exit"}
        BY <2>5 DEF Invoke, Load, EmitDecls, SkipDecls, NextVariant, Exit
      <3> QED  BY <3>1 DEF Compiles, AllCompiled
    <2>6. CASE LoadFails \/ BuildFailsEarly \/ LayoutsRejected \/ WriteBundleFails \/ EmitDeclsFails
      <3>1. UNCHANGED <<cache, bundles>> /\ pc' = "exit"
        BY <2>6 DEF LoadFails, BuildFailsEarly, LayoutsRejected, WriteBundleFails, EmitDeclsFails, Exit
      <3> QED  BY <3>1 DEF Compiles, AllCompiled
    <2>7. CASE UNCHANGED vars
      BY <2>7 DEF vars, Compiles, AllCompiled
    <2> QED  BY <2>1, <2>2, <2>3, <2>4, <2>5, <2>6, <2>7 DEF Next
  <1> QED  BY <1>1, <1>2, PTL DEF Spec
------------------------------------------------------------------------------
\* The minimum of some numbers is one of them.
LEMMA MinOfSome ==
  ASSUME NEW S \in SUBSET Nat, S # {}
  PROVE  Min(S) \in S
PROOF
  <1> DEFINE K == {m \in Nat : \A Q \in SUBSET Nat :
                     (\E x \in Q : x <= m) => \E x \in Q : \A y \in Q : x <= y}
  <1>1. 0 \in K  OBVIOUS
  <1>2. ASSUME NEW m \in Nat, m \in K  PROVE m + 1 \in K
    <2>1. ASSUME NEW Q \in SUBSET Nat, NEW x \in Q, x <= m + 1
          PROVE  \E z \in Q : \A y \in Q : z <= y
      <3>1. CASE \E z \in Q : z <= m  BY <3>1, <1>2
      <3>2. CASE ~\E z \in Q : z <= m  BY <3>2, <2>1
      <3> QED  BY <3>1, <3>2
    <2> QED  BY <2>1
  <1>3. PICK n \in S : TRUE  OBVIOUS
  <1>4. n \in K
    <2> HIDE DEF K
    <2> QED  BY <1>1, <1>2, <1>3, SetInduction
  <1>5. \E x \in S : \A y \in S : x <= y  BY <1>3, <1>4
  <1> QED  BY <1>5 DEF Min

\* Two sequences one after the other have the values of both.
LEMMA RangeOfConcat ==
  ASSUME NEW T, NEW a \in Seq(T), NEW b \in Seq(T)
  PROVE  Range(a) \subseteq Range(a \o b) /\ Range(b) \subseteq Range(a \o b)
PROOF
  <1>1. /\ a \o b \in Seq(T) /\ Len(a \o b) = Len(a) + Len(b)
        /\ \A i \in 1 .. Len(a) + Len(b) : (a \o b)[i] = IF i <= Len(a) THEN a[i] ELSE b[i - Len(a)]
    BY ConcatProperties, Zenon
  <1>2. /\ Len(a) \in Nat /\ Len(b) \in Nat
        /\ DOMAIN a = 1 .. Len(a) /\ DOMAIN b = 1 .. Len(b) /\ DOMAIN (a \o b) = 1 .. Len(a) + Len(b)
    BY <1>1, LenProperties
  <1>3. \A i \in DOMAIN a : i \in DOMAIN (a \o b) /\ (a \o b)[i] = a[i]  BY <1>1, <1>2
  <1>4. \A i \in DOMAIN b : i + Len(a) \in DOMAIN (a \o b) /\ (a \o b)[i + Len(a)] = b[i]
    BY <1>1, <1>2
  <1> QED  BY <1>3, <1>4 DEF Range

\* A concatenation of sequences over a set is one, and has all their values.
LEMMA FlattenElements ==
  ASSUME NEW T, NEW N \in Nat \ {0}, NEW ss, ss = [i \in 1 .. N |-> ss[i]],
         \A i \in 1 .. N : ss[i] \in Seq(T)
  PROVE  FlattenSeq(ss) \in Seq(T) /\ \A i \in 1 .. N : Range(ss[i]) \subseteq Range(FlattenSeq(ss))
PROOF
  <1>1. PICK flatten : /\ \A i \in 1 .. N : flatten[i] = IF i = 1 THEN ss[i] ELSE flatten[i - 1] \o ss[i]
                       /\ FlattenSeq(ss) = flatten[N]
    BY FlattenSteps
  <1> DEFINE Has(n) == flatten[n] \in Seq(T) /\ \A i \in 1 .. n : Range(ss[i]) \subseteq Range(flatten[n])
             M == {n \in Nat : n < N => Has(n + 1)}
  <1>2. 0 \in M
    <2>1. 1 \in 1 .. N /\ 0 + 1 = 1 /\ 1 .. 1 = {1}  OBVIOUS
    <2>2. flatten[1] = ss[1]  BY <1>1, <2>1
    <2> QED  BY <2>1, <2>2
  <1>3. ASSUME NEW n \in Nat, n \in M  PROVE n + 1 \in M
    <2> SUFFICES ASSUME n + 1 < N PROVE Has(n + 2)
      <3>1. n + 1 + 1 = n + 2  OBVIOUS
      <3> HIDE DEF Has
      <3> QED  BY <3>1
    <2>1. n + 2 \in 1 .. N /\ n + 2 - 1 = n + 1 /\ n + 2 # 1  OBVIOUS
    <2>2. flatten[n + 2] = flatten[n + 1] \o ss[n + 2]  
      <3>1. \A i \in 1 .. N : flatten[i] = IF i = 1 THEN ss[i] ELSE flatten[i - 1] \o ss[i]
        BY <1>1, Zenon
      <3>2. flatten[n + 2] = IF n + 2 = 1 THEN ss[n + 2] ELSE flatten[n + 2 - 1] \o ss[n + 2]
        <4> DEFINE k == n + 2
        <4>1. k \in 1 .. N  BY <2>1
        <4> HIDE DEF k
        <4>2. flatten[k] = IF k = 1 THEN ss[k] ELSE flatten[k - 1] \o ss[k]  BY <3>1, <4>1
        <4> QED  BY <4>2 DEF k
      <3> QED  BY <2>1, <3>2, Zenon
    <2>3. flatten[n + 1] \in Seq(T) /\ ss[n + 2] \in Seq(T)
          /\ \A i \in 1 .. n + 1 : Range(ss[i]) \subseteq Range(flatten[n + 1])
      BY <1>3, <2>1
    <2>4. Range(flatten[n + 1]) \subseteq Range(flatten[n + 2]) /\ Range(ss[n + 2]) \subseteq Range(flatten[n + 2])
      BY <2>2, <2>3, RangeOfConcat
    <2>5. \A i \in 1 .. n + 2 : i \in 1 .. n + 1 \/ i = n + 2  OBVIOUS
    <2>6. flatten[n + 2] \in Seq(T)  BY <2>2, <2>3, ConcatProperties
    <2> QED  BY <2>3, <2>4, <2>5, <2>6
  <1>4. Has(N)
    <2>1. N - 1 \in M
      <3>1. N - 1 \in Nat  OBVIOUS
      <3> HIDE DEF M
      <3> QED  BY <1>2, <1>3, <3>1, SetInduction
    <2>2. N - 1 < N /\ N - 1 + 1 = N  OBVIOUS
    <2> HIDE DEF Has
    <2> QED  BY <2>1, <2>2
  <1> QED  BY <1>1, <1>4
------------------------------------------------------------------------------
\* The name and the WebGPU indices that a binding starts with.
LEMMA BindingSlots ==
  ASSUME NEW m, NEW map, NEW targets, NEW stage, NEW r
  PROVE  LET b == Binding(m, map, targets, stage, r) IN
         /\ DOMAIN b = {"name", "type", "set", "binding", "array_size", "stages", "slots", "struct_members",
                       "storage_format_hint", "storage_access_hint", "multisampled", "depth_texture",
                       "dynamic_offset"}
         /\ b.name = r.name
         /\ DOMAIN b.slots = {"metal", "webgpu"}
         /\ "eWGSL" \in targets => b.slots.webgpu = [group |-> r.set, binding |-> r.binding]
PROOF BY DEF Binding

\* An active resource has the indices that it is compiled with.
LEMMA BindingMetal ==
  ASSUME NEW m, NEW map, NEW targets, NEW stage, NEW r, "eMSL" \in targets, r.active
  PROVE  Binding(m, map, targets, stage, r).slots.metal = Compiled(m, map, r)
PROOF BY DEF Binding

\* The WebGPU indices a binding ends with.
Patched(m, r) ==
  LET first == m.wgsl[Min(EntriesNamed(m, r.name))]
  IN  IF EntriesNamed(m, r.name) = {} THEN [group |-> r.set, binding |-> r.binding]
      ELSE [group |-> first.group, binding |-> first.binding]

\* The builder's patch changes the WebGPU indices only.
LEMMA RemappedSlots ==
  ASSUME NEW m, NEW map, NEW targets, NEW stage, NEW r
  PROVE  LET b == Binding(m, map, targets, stage, r)
             p == Remapped(m, targets, b)
         IN  /\ p.name = r.name
             /\ p.slots.metal = b.slots.metal
             /\ "eWGSL" \in targets => p.slots.webgpu = Patched(m, r)
PROOF
  <1> DEFINE b == Binding(m, map, targets, stage, r)
             none == EntriesNamed(m, r.name) = {}
             first == m.wgsl[Min(EntriesNamed(m, r.name))]
             slot == [group |-> first.group, binding |-> first.binding]
  <1>1. /\ "name" \in DOMAIN b /\ b.name = r.name /\ "slots" \in DOMAIN b /\ "webgpu" \in DOMAIN b.slots
        /\ "eWGSL" \in targets => b.slots.webgpu = [group |-> r.set, binding |-> r.binding]
    BY BindingSlots
  <1>2. Remapped(m, targets, b) =
          IF "eWGSL" \notin targets \/ none THEN b ELSE [b EXCEPT !.slots.webgpu = slot]
    BY <1>1 DEF Remapped
  <1>3. Patched(m, r) = IF none THEN [group |-> r.set, binding |-> r.binding] ELSE slot
    BY DEF Patched
  <1> HIDE DEF b, none, slot
  <1>4. /\ [b EXCEPT !.slots.webgpu = slot].name = b.name
        /\ [b EXCEPT !.slots.webgpu = slot].slots = [b.slots EXCEPT !.webgpu = slot]
    BY <1>1
  <1>5. /\ [b.slots EXCEPT !.webgpu = slot].metal = b.slots.metal
        /\ [b.slots EXCEPT !.webgpu = slot].webgpu = slot
    BY <1>1
  <1>6. /\ Remapped(m, targets, b).name = r.name
        /\ Remapped(m, targets, b).slots.metal = b.slots.metal
        /\ "eWGSL" \in targets => Remapped(m, targets, b).slots.webgpu = Patched(m, r)
    BY <1>1, <1>2, <1>3, <1>4, <1>5
  <1> QED  BY <1>6 DEF b

\* The bindings of a reflection are those of resources, one after the other.
LEMMA ReflectedInOrder ==
  ASSUME NEW m, m.resources \in Seq(Range(m.resources)), NEW map, NEW targets, NEW stage
  PROVE  Reflect(m, map, targets, stage).bindings
           \in Seq({Binding(m, map, targets, stage, r) : r \in Range(m.resources)})
PROOF
  <1> DEFINE R == Range(m.resources)
             T == {Binding(m, map, targets, stage, r) : r \in R}
             of(i) == Of(m, Lists[i])
             part(i) == [j \in DOMAIN of(i) |-> Binding(m, map, targets, stage, of(i)[j])]
             parts == [i \in 1 .. 6 |-> part(i)]
  <1>1. Reflect(m, map, targets, stage).bindings = FlattenSeq(parts)
    <2>1. DOMAIN Lists = 1 .. 6  BY DEF Lists
    <2> QED  BY <2>1 DEF Reflect
  <1>2. ASSUME NEW i \in 1 .. 6  PROVE part(i) \in Seq(T)
    <2>1. of(i) \in Seq(R)  BY OnlyProperties DEF Of
    <2> HIDE DEF of
    <2>2. Len(of(i)) \in Nat /\ DOMAIN of(i) = 1 .. Len(of(i)) /\ \A j \in 1 .. Len(of(i)) : of(i)[j] \in R
      BY <2>1, LenProperties, ElementOfSeq
    <2>3. \A j \in 1 .. Len(of(i)) : Binding(m, map, targets, stage, of(i)[j]) \in T  BY <2>2
    <2> HIDE DEF T, R
    <2> QED  BY <2>2, <2>3, SeqDef
  <1> HIDE DEF part
  <1>3. FlattenSeq(parts) \in Seq(T)
    <2>1. parts = [i \in 1 .. 6 |-> parts[i]]  OBVIOUS
    <2>2. \A i \in 1 .. 6 : parts[i] \in Seq(T)  BY <1>2
    <2> HIDE DEF parts, T
    <2>3. 6 \in Nat \ {0}  OBVIOUS
    <2> QED  BY <2>1, <2>2, <2>3, FlattenElements
  <1> HIDE DEF parts
  <1> QED  BY <1>1, <1>3

\* Each binding of a reflection is that of a resource.
LEMMA ReflectedBindings ==
  ASSUME NEW m, m.resources \in Seq(Range(m.resources)), NEW map, NEW targets, NEW stage
  PROVE  \A b \in Range(Reflect(m, map, targets, stage).bindings) :
           \E r \in Range(m.resources) : b = Binding(m, map, targets, stage, r)
PROOF
  <1> DEFINE T == {Binding(m, map, targets, stage, r) : r \in Range(m.resources)}
             s == Reflect(m, map, targets, stage).bindings
  <1>1. s \in Seq(T)  BY ReflectedInOrder
  <1>2. Range(s) \subseteq T
    <2> HIDE DEF s, T
    <2>1. DOMAIN s = 1 .. Len(s) /\ \A i \in 1 .. Len(s) : s[i] \in T  BY <1>1, LenProperties, ElementOfSeq
    <2> QED  BY <2>1 DEF Range
  <1> HIDE DEF s
  <1> QED  BY <1>2 DEF s

LEMMA ReflectedAt ==
  ASSUME NEW m, m.resources \in Seq(Range(m.resources)), NEW map, NEW targets, NEW stage,
         NEW i \in DOMAIN Reflect(m, map, targets, stage).bindings
  PROVE  \E r \in Range(m.resources) :
           Reflect(m, map, targets, stage).bindings[i] = Binding(m, map, targets, stage, r)
PROOF
  <1> DEFINE T == {Binding(m, map, targets, stage, r) : r \in Range(m.resources)}
             s == Reflect(m, map, targets, stage).bindings
  <1>1. s \in Seq(T)  BY ReflectedInOrder
  <1>2. s[i] \in T
    <2> HIDE DEF s, T
    <2>1. DOMAIN s = 1 .. Len(s)  BY <1>1, LenProperties
    <2>2. i \in DOMAIN s  BY DEF s
    <2> QED  BY <1>1, <2>1, <2>2, ElementOfSeq
  <1> HIDE DEF s
  <1> QED  BY <1>2 DEF s

LEMMA ReflectedIsSeq ==
  ASSUME NEW m, m.resources \in Seq(Range(m.resources)), NEW map, NEW targets, NEW stage
  PROVE  IsSeq(Reflect(m, map, targets, stage).bindings)
PROOF
  <1> DEFINE T == {Binding(m, map, targets, stage, r) : r \in Range(m.resources)}
             s == Reflect(m, map, targets, stage).bindings
  <1>1. s \in Seq(T)  BY ReflectedInOrder
  <1> HIDE DEF s, T
  <1>2. Len(s) \in Nat /\ s = [i \in 1 .. Len(s) |-> s[i]]  BY <1>1, LenProperties, SeqDef
  <1>3. IsSeq(s)  BY <1>2, FunctionIsSeq
  <1> QED  BY <1>3 DEF s

\* And every resource has its binding there.
LEMMA ReflectedAll ==
  ASSUME NEW m, m.resources \in Seq(Range(m.resources)), NEW map, NEW targets, NEW stage,
         NEW r \in Range(m.resources), r.list \in Range(Lists)
  PROVE  \E i \in DOMAIN Reflect(m, map, targets, stage).bindings :
           Reflect(m, map, targets, stage).bindings[i] = Binding(m, map, targets, stage, r)
PROOF
  <1> DEFINE R == Range(m.resources)
             T == {Binding(m, map, targets, stage, q) : q \in R}
             of(i) == Of(m, Lists[i])
             part(i) == [j \in DOMAIN of(i) |-> Binding(m, map, targets, stage, of(i)[j])]
             parts == [i \in 1 .. 6 |-> part(i)]
  <1>1. DOMAIN Lists = 1 .. 6  BY DEF Lists
  <1>2. Reflect(m, map, targets, stage).bindings = FlattenSeq(parts)  BY <1>1 DEF Reflect
  <1>3. PICK k \in 1 .. 6 : r.list = Lists[k]  BY <1>1 DEF Range
  <1>4. \A i \in 1 .. 6 : of(i) \in Seq(R)
    <2>1. ASSUME NEW i \in 1 .. 6  PROVE of(i) \in Seq(R)  BY OnlyProperties DEF Of
    <2> QED  BY <2>1
  <1>5. PICK j \in DOMAIN of(k) : of(k)[j] = r
    <2> DEFINE A == {q \in R : q.list = Lists[k]}
    <2>1. PICK n \in DOMAIN m.resources : m.resources[n] = r  BY DEF Range
    <2>2. r \in A  BY <1>3
    <2>3. of(k) = Only(m.resources, A)  BY DEF Of
    <2> HIDE DEF A, of
    <2>4. \A i \in DOMAIN m.resources : m.resources[i] \in A =>
            \E h \in DOMAIN Only(m.resources, A) : Only(m.resources, A)[h] = m.resources[i]
      BY OnlyProperties
    <2> QED  BY <2>1, <2>2, <2>3, <2>4
  <1>6. ASSUME NEW i \in 1 .. 6  PROVE part(i) \in Seq(T)
    <2>1. of(i) \in Seq(R)  BY <1>4
    <2> HIDE DEF of
    <2>2. Len(of(i)) \in Nat /\ DOMAIN of(i) = 1 .. Len(of(i)) /\ \A h \in 1 .. Len(of(i)) : of(i)[h] \in R
      BY <2>1, LenProperties, ElementOfSeq
    <2>3. \A h \in 1 .. Len(of(i)) : Binding(m, map, targets, stage, of(i)[h]) \in T  BY <2>2
    <2> HIDE DEF T, R
    <2> QED  BY <2>2, <2>3, SeqDef
  <1>7. part(k)[j] = Binding(m, map, targets, stage, r) /\ j \in DOMAIN part(k)
    <2> HIDE DEF of
    <2> QED  BY <1>5
  <1> HIDE DEF part, of
  <1>8. Range(part(k)) \subseteq Range(FlattenSeq(parts))
    <2>1. parts = [i \in 1 .. 6 |-> parts[i]]  OBVIOUS
    <2>2. (\A i \in 1 .. 6 : parts[i] \in Seq(T)) /\ parts[k] = part(k)  BY <1>6
    <2> HIDE DEF parts, T
    <2>3. 6 \in Nat \ {0}  OBVIOUS
    <2>4. \A i \in 1 .. 6 : Range(parts[i]) \subseteq Range(FlattenSeq(parts))
      BY <2>1, <2>2, <2>3, FlattenElements
    <2> QED  BY <2>2, <2>4
  <1> HIDE DEF parts
  <1>9. Binding(m, map, targets, stage, r) \in Range(FlattenSeq(parts))  BY <1>7, <1>8 DEF Range
  <1> QED  BY <1>2, <1>9 DEF Range

\* The tables of the lists.
LEMMA Tables ==
  /\ TablesOf("sampled_images") = {"texture", "sampler"}
  /\ TablesOf("separate_samplers") = {"sampler"}
  /\ \A list \in Range(Lists) \ {"sampled_images", "separate_samplers"} : "sampler" \notin TablesOf(list)
PROOF
  <1>1. \A list \in Range(Lists) :
          list \in {"uniform_buffers", "storage_buffers", "separate_images", "storage_images",
                   "separate_samplers", "sampled_images"}
    BY DEF Lists, Range
  <1>2. /\ TablesOf("uniform_buffers") = {"buffer"} /\ TablesOf("storage_buffers") = {"buffer"}
        /\ TablesOf("separate_images") = {"texture"} /\ TablesOf("storage_images") = {"texture"}
        /\ TablesOf("sampled_images") = {"texture", "sampler"} /\ TablesOf("separate_samplers") = {"sampler"}
    BY DEF TablesOf, KindOf
  <1> QED  BY <1>1, <1>2

\* A combined image that has its key to itself has both indices of its key.
LEMMA CombinedRegistration ==
  ASSUME NEW m, NEW map, NEW r \in Range(m.resources), r.list = "sampled_images",
         \A q \in Range(m.resources) : KeyOf(r) = KeyOf(q) => q.list = r.list,
         Slot(map, "texture", KeyOf(r)) = Slot(map, "sampler", KeyOf(r))
  PROVE  Compiled(m, map, r).texture = Compiled(m, map, r).sampler
PROOF
  <1> DEFINE lists == {q.list : q \in {p \in Range(m.resources) : KeyOf(p) = KeyOf(r)}}
             found == {i \in DOMAIN RegistrationOrder : RegistrationOrder[i] \in lists}
             tables == TablesOf(RegistrationOrder[Max(found)])
  <1>1. lists = {"sampled_images"}  OBVIOUS
  <1>2. DOMAIN RegistrationOrder = 1 .. 6 /\ RegistrationOrder[1] = "sampled_images"
        /\ \A i \in 2 .. 6 : RegistrationOrder[i] # "sampled_images"
    BY DEF RegistrationOrder
  <1>3. found = {1}
    <2> HIDE DEF lists
    <2> QED  BY <1>1, <1>2
  <1>4. Max(found) = 1
    <2>1. 1 \in Nat /\ {1} \in SUBSET (1 .. 1) /\ {1} # {}  OBVIOUS
    <2>2. Max({1}) \in {1}  BY <2>1, MaxOfSome
    <2> HIDE DEF found
    <2> QED  BY <1>3, <2>2
  <1>5. tables = {"texture", "sampler"}  BY <1>2, <1>4, Tables
  <1>6. Registration(m, map, r) = MetalSlot(map, r, tables)  BY DEF Registration
  <1> HIDE DEF tables
  <1>7. Registration(m, map, r).texture = Registration(m, map, r).sampler
    BY <1>5, <1>6 DEF MetalSlot
  <1>8. TablesOf(r.list) = {"texture", "sampler"}  BY Tables
  <1> QED  BY <1>7, <1>8 DEF Compiled

\* The repair of samplers gives a combined image the index it has, where it has
\* its set and binding to itself.
LEMMA CombinedEmitted ==
  ASSUME NEW m, NEW map, NEW stage, NEW r \in Range(m.resources), r.list = "sampled_images",
         Alone(m, r), OwnKey(m, r),
         Slot(map, "texture", KeyOf(r)) = Slot(map, "sampler", KeyOf(r))
  PROVE  EmittedSlot(m, map, stage, r) = Compiled(m, map, r)
PROOF
  <1> DEFINE named == TexturesNamed(m, r.name)
             slot == Compiled(m, map, r)
             texture == Compiled(m, map, CHOOSE t \in named : TRUE).texture
  <1>1. EmittedSlot(m, map, stage, r) =
          IF stage = "eFragment" /\ "sampler" \in TablesOf(r.list) /\ named # {}
          THEN [slot EXCEPT !.sampler = texture] ELSE slot
    BY DEF EmittedSlot
  <1>2. CASE named # {}
    <2>1. named = {r}
      <3>1. \A t \in named : t \in Range(m.resources) /\ t.name = r.name  BY DEF TexturesNamed, Active
      <3>2. \A t \in named : t = r  BY <3>1 DEF Alone
      <3> QED  BY <1>2, <3>2
    <2>2. (CHOOSE t \in named : TRUE) = r
      <3> HIDE DEF named
      <3> QED  BY <2>1
    <2>3. texture = slot.sampler
      <3>1. \A q \in Range(m.resources) : KeyOf(r) = KeyOf(q) => q.list = r.list  BY DEF OwnKey
      <3> QED  BY <2>2, <3>1, CombinedRegistration
    <2>4. slot = [table \in DOMAIN slot |-> slot[table]] /\ "sampler" \in DOMAIN slot  BY DEF Compiled
    <2> HIDE DEF named, slot, texture
    <2>5. [slot EXCEPT !.sampler = texture] = slot  BY <2>3, <2>4
    <2>6. EmittedSlot(m, map, stage, r) = slot  BY <1>1, <2>5
    <2> QED  BY <2>6 DEF slot
  <1>3. CASE named = {}
    <2> HIDE DEF named, slot, texture
    <2>1. EmittedSlot(m, map, stage, r) = slot  BY <1>1, <1>3
    <2> QED  BY <2>1 DEF slot
  <1> QED  BY <1>2, <1>3

\* The map of a program has one index for both parts of a combined image.
LEMMA CombinedInMap ==
  ASSUME NEW modules, NEW m \in modules, NEW layout,
         NEW r \in Range(m.resources), r.list = "sampled_images"
  PROVE  Slot(MapOf(modules, layout), "texture", KeyOf(r)) = Slot(MapOf(modules, layout), "sampler", KeyOf(r))
PROOF
  <1> DEFINE all == UNION {AllocatorKeys(q) : q \in modules}
             textures == KeysAmong(all, {"sampled_image", "image"})
             combined == KeysAmong(all, {"sampled_image"})
             separate == KeysAmong(all, {"sampler"})
             map == MetalMapOf(all, layout.buffer_base, IndexMod)
             k == KeyOf(r)
  <1>1. <<"sampled_image", k>> \in all
    <2>1. PICK i \in DOMAIN m.resources : r = m.resources[i]  BY DEF Range
    <2>2. KindOf["sampled_images"] = "sampled_image"  BY DEF KindOf
    <2>3. <<"sampled_image", k>> \in AllocatorKeys(m)  BY <2>1, <2>2 DEF AllocatorKeys
    <2> QED  BY <2>3
  <1> HIDE DEF all, k
  <1>2. k \in textures /\ k \in combined  BY <1>1 DEF KeysAmong
  <1>3. map.texture = [j \in textures |-> Rank(j, textures)]  BY DEF MetalMapOf
  <1>4. k \in DOMAIN map.sampler /\ map.sampler[k] = Rank(k, textures)
    <2> HIDE DEF textures, combined, separate
    <2>1. map.sampler = [j \in combined \cup separate |->
                           IF j \in combined THEN Rank(j, textures)
                           ELSE FreeSlot(Rank(j, separate), {Rank(i, textures) : i \in combined})]
      BY DEF MetalMapOf, textures, combined, separate
    <2> HIDE DEF map
    <2> QED  BY <1>2, <2>1
  <1>5. map = MapOf(modules, layout)  BY DEF MapOf, all
  <1> HIDE DEF map, textures, combined
  <1>6. Slot(map, "texture", k) = Rank(k, textures) /\ Slot(map, "sampler", k) = Rank(k, textures)
    BY <1>2, <1>3, <1>4 DEF Slot
  <1> QED  BY <1>5, <1>6 DEF k

\* They are those of a declaration that was entered under its name, if any was.
LEMMA PatchedAsEntered ==
  ASSUME NEW m, m.wgsl \in Seq(Range(m.wgsl)), NEW r, NEW c, c.wgsl = Range(m.wgsl)
  PROVE  Patched(m, r) \in WebGpuIndices(c, r)
PROOF
  <1> DEFINE entries == EntriesNamed(m, r.name)
             first == m.wgsl[Min(entries)]
             entered == {d \in c.wgsl : ScanName(d) = r.name /\ r.name # NoText}
             slot(d) == [group |-> d.group, binding |-> d.binding]
             own == [group |-> r.set, binding |-> r.binding]
  <1>1. Len(m.wgsl) \in Nat /\ DOMAIN m.wgsl = 1 .. Len(m.wgsl)  BY LenProperties
  <1>2. \A i : i \in entries <=>
                 i \in DOMAIN m.wgsl /\ ScanName(m.wgsl[i]) # NoText /\ ScanName(m.wgsl[i]) = r.name
    BY DEF EntriesNamed, Remaps
  <1>3. Patched(m, r) = IF entries = {} THEN own ELSE slot(first)  BY DEF Patched
  <1>4. WebGpuIndices(c, r) = IF entered = {} THEN {own} ELSE {slot(d) : d \in entered}
    BY DEF WebGpuIndices
  <1> HIDE DEF entries, own, slot
  <1>5. CASE entries = {}
    <2>1. ASSUME NEW d \in entered  PROVE FALSE
      <3>1. PICK i \in DOMAIN m.wgsl : d = m.wgsl[i]  BY DEF Range
      <3>2. i \in entries  BY <1>2, <3>1
      <3> QED  BY <1>5, <3>2
    <2>2. entered = {}
      <3> HIDE DEF entered
      <3> QED  BY <2>1
    <2> HIDE DEF entered
    <2> QED  BY <1>3, <1>4, <1>5, <2>2
  <1>6. CASE entries # {}
    <2>1. entries \in SUBSET Nat  BY <1>1, <1>2
    <2>2. Min(entries) \in entries  BY <1>6, <2>1, MinOfSome
    <2>3. first \in entered  BY <1>2, <2>2 DEF Range
    <2> HIDE DEF entered, first
    <2> QED  BY <1>3, <1>4, <1>6, <2>3
  <1> QED  BY <1>5, <1>6

\* What SlotsAsEmitted says of a resource, its binding and a source.
Agree(s, r, b, c) ==
  /\ \A x \in c.msl : x.name = r.name =>
       /\ x.slot \in MetalIndices(s, r, b)
       /\ r.list = "sampled_images" /\ OwnKey(Modules[s.spirv], r) => x.slot = b.slots.metal
  /\ c.target = "eWGSL" => b.slots.webgpu \in WebGpuIndices(c, r)

\* What an engine reads of a stage that was made anew is what the sources of
\* the stage declare.
LEMMA StageSlots ==
  ASSUME NEW id \in DOMAIN Modules, NEW req, NEW map, NEW targets,
         \A r \in Range(Modules[id].resources) :
           "eMSL" \in Range(targets) /\ r.list = "sampled_images" =>
             Slot(map, "texture", KeyOf(r)) = Slot(map, "sampler", KeyOf(r))
  PROVE  LET s == StageArtifact(req, id, map, targets) IN
         \A r \in Range(Modules[id].resources), b \in Range(s.reflection.bindings),
            c \in Range(s.cross_compiled) :
           Alone(Modules[id], r) /\ b.name = r.name => Agree(s, r, b, c)
PROOF
  <1> DEFINE m == Modules[id]
             R == Range(m.resources)
             kinds == Range(targets)
             stage == req.stage
             s == StageArtifact(req, id, map, targets)
             refl == Reflect(m, map, kinds, stage)
             patched == [i \in DOMAIN refl.bindings |-> Remapped(m, kinds, refl.bindings[i])]
             compiled == [j \in DOMAIN targets |-> CrossCompiled(m, map, targets[j], stage)]
             Of1(r) == Remapped(m, kinds, Binding(m, map, kinds, stage, r))
  <1>1. /\ m.resources \in Seq(R) /\ m.wgsl \in Seq(Range(m.wgsl))
        /\ \A r \in R : r.list \in Range(Lists)
    BY ModulesAssumption
  <1>2. s.stage = stage /\ s.spirv = id  BY DEF StageArtifact
  <1>3. s.reflection.bindings = patched /\ s.cross_compiled = compiled
    <2>1. s.reflection = [refl EXCEPT !.bindings = patched] /\ s.cross_compiled = compiled
      BY DEF StageArtifact, BackEnd
    <2>2. "bindings" \in DOMAIN refl  BY DEF Reflect
    <2> HIDE DEF s, refl, patched, compiled
    <2> QED  BY <2>1, <2>2
  <1>4. ASSUME NEW b \in Range(patched)
        PROVE  \E r \in R : b = Of1(r)
    <2>1. PICK i \in DOMAIN refl.bindings : b = Remapped(m, kinds, refl.bindings[i])  BY DEF Range
    <2>2. \E r \in R : refl.bindings[i] = Binding(m, map, kinds, stage, r)
      <3> HIDE DEF m, kinds, stage
      <3>1. m.resources \in Seq(Range(m.resources))  BY <1>1
      <3> QED  BY <3>1, ReflectedAt
    <2> QED  BY <2>1, <2>2
  <1>5. ASSUME NEW r \in R
        PROVE  Of1(r) \in Range(patched)
    <2> HIDE DEF m, kinds, stage
    <2>1. PICK i \in DOMAIN refl.bindings : refl.bindings[i] = Binding(m, map, kinds, stage, r)
      <3>1. m.resources \in Seq(Range(m.resources)) /\ r \in Range(m.resources) /\ r.list \in Range(Lists)
        BY <1>1
      <3> QED  BY <3>1, ReflectedAll
    <2> HIDE DEF refl
    <2> QED  BY <2>1 DEF Range
  <1>6. ASSUME NEW c \in Range(compiled)
        PROVE  \E t \in kinds : c = CrossCompiled(m, map, t, stage)
    <2>1. PICK j \in DOMAIN targets : c = CrossCompiled(m, map, targets[j], stage)  BY DEF Range
    <2>2. targets[j] \in kinds  BY DEF Range
    <2> QED  BY <2>1, <2>2
  <1>7. ASSUME NEW r \in R
        PROVE  /\ Of1(r).name = r.name
               /\ r.active /\ "eMSL" \in kinds => Of1(r).slots.metal = Compiled(m, map, r)
               /\ "eWGSL" \in kinds => Of1(r).slots.webgpu = Patched(m, r)
    <2> HIDE DEF m, R, kinds, stage
    <2> QED  BY RemappedSlots, BindingMetal
  <1> HIDE DEF m, R, kinds, stage, s, refl, patched, compiled, Of1
  <1>8. ASSUME NEW r \in R, Alone(m, r), NEW t \in kinds,
               NEW x \in CrossCompiled(m, map, t, stage).msl, x.name = r.name
        PROVE  /\ x.slot \in MetalIndices(s, r, Of1(r))
               /\ r.list = "sampled_images" /\ OwnKey(m, r) => x.slot = Of1(r).slots.metal
    <2> DEFINE name == IF r.list = "sampled_images" THEN r.name ELSE r.smplr_of
               named == TexturesNamed(m, name)
               slot == Compiled(m, map, r)
               lender == CHOOSE q \in named : TRUE
               lends == stage = "eFragment" /\ "sampler" \in TablesOf(r.list)
    <2>1. t = "eMSL" /\ x \in MslIndices(m, map, stage)  BY <1>8 DEF CrossCompiled
    <2>2. PICK q \in Active(m) : x = [name |-> q.name, slot |-> EmittedSlot(m, map, stage, q)]
      BY <2>1 DEF MslIndices
    <2>3. q = r /\ r.active  BY <1>8, <2>2 DEF Active, Alone, R
    <2>4. x.slot = EmittedSlot(m, map, stage, r) /\ "eMSL" \in kinds  BY <1>8, <2>1, <2>2, <2>3
    <2>5. Of1(r).slots.metal = slot  BY <1>7, <2>3, <2>4
    <2>6. EmittedSlot(m, map, stage, r) =
            IF lends /\ named # {} THEN [slot EXCEPT !.sampler = Compiled(m, map, lender).texture] ELSE slot
      BY DEF EmittedSlot
    <2>7. Lenders(s, r) = IF lends THEN {b \in Range(patched) : \E q1 \in named : b.name = q1.name} ELSE {}
      BY <1>2, <1>3 DEF Lenders, m
    <2>8. ASSUME lends /\ named # {}  PROVE x.slot \in MetalIndices(s, r, Of1(r))
      <3>1. lender \in named
        <4> HIDE DEF named
        <4> QED  BY <2>8
      <3>2. lender \in R /\ lender.active  BY <3>1 DEF TexturesNamed, Active, R
      <3> HIDE DEF named, lends, slot, lender
      <3>3. /\ Of1(lender) \in Range(patched) /\ Of1(lender).name = lender.name
            /\ Of1(lender).slots.metal = Compiled(m, map, lender)
        BY <1>5, <1>7, <2>4, <3>2
      <3>4. Of1(lender) \in Lenders(s, r)  BY <2>7, <2>8, <3>1, <3>3
      <3>5. x.slot = [Of1(r).slots.metal EXCEPT !.sampler = Of1(lender).slots.metal.texture]
        BY <2>4, <2>5, <2>6, <2>8, <3>3
      <3>6. Lenders(s, r) # {}  BY <3>4
      <3> QED  BY <3>4, <3>5, <3>6 DEF MetalIndices
    <2>9. ASSUME ~(lends /\ named # {})  PROVE x.slot \in MetalIndices(s, r, Of1(r))
      <3> HIDE DEF named, lends, slot
      <3>1. Lenders(s, r) = {}  BY <2>7, <2>9
      <3>2. x.slot = Of1(r).slots.metal  BY <2>4, <2>5, <2>6, <2>9
      <3> QED  BY <3>1, <3>2 DEF MetalIndices
    <2>10. x.slot \in MetalIndices(s, r, Of1(r))  BY <2>8, <2>9
    <2>11. ASSUME r.list = "sampled_images", OwnKey(m, r)  PROVE x.slot = Of1(r).slots.metal
      <3>1. Slot(map, "texture", KeyOf(r)) = Slot(map, "sampler", KeyOf(r))
        BY <1>8, <2>4, <2>11 DEF m, R, kinds
      <3>2. EmittedSlot(m, map, stage, r) = Compiled(m, map, r)
        <4>1. r \in Range(m.resources)  BY DEF R
        <4> QED  BY <1>8, <2>11, <3>1, <4>1, CombinedEmitted
      <3> QED  BY <2>4, <2>5, <3>2
    <2> QED  BY <2>10, <2>11
  <1>9. ASSUME NEW r \in R, NEW b \in Range(patched), NEW c \in Range(compiled), Alone(m, r), b.name = r.name
        PROVE  Agree(s, r, b, c)
    <2>1. PICK q \in R : b = Of1(q)  BY <1>4
    <2>2. b = Of1(r)  BY <1>7, <1>9, <2>1 DEF Alone, R
    <2>3. PICK t \in kinds : c = CrossCompiled(m, map, t, stage)  BY <1>6
    <2>4. ASSUME c.target = "eWGSL"  PROVE b.slots.webgpu \in WebGpuIndices(c, r)
      <3>1. t = "eWGSL" /\ c.wgsl = Range(m.wgsl)  BY <2>3, <2>4 DEF CrossCompiled
      <3>2. b.slots.webgpu = Patched(m, r)  BY <1>7, <2>2, <3>1
      <3> QED  BY <1>1, <3>1, <3>2, PatchedAsEntered
    <2>5. ASSUME NEW x \in c.msl, x.name = r.name
          PROVE  /\ x.slot \in MetalIndices(s, r, b)
                 /\ r.list = "sampled_images" /\ OwnKey(m, r) => x.slot = b.slots.metal
      BY <1>8, <1>9, <2>2, <2>3, <2>5
    <2> QED  BY <1>2, <2>4, <2>5 DEF Agree, m
  <1>10. \A r \in R, b \in Range(s.reflection.bindings), c \in Range(s.cross_compiled) :
           Alone(m, r) /\ b.name = r.name => Agree(s, r, b, c)
    BY <1>3, <1>9
  <1> QED  BY <1>10 DEF s, R, m

\* Stage i of a program, made of SPIR-V and a map which gives the texture and
\* the sampler of a combined image one index.
MadeOf(d, i, s, id, map) ==
  /\ s = StageArtifact(d.stages[i], id, map, d.targets)
  /\ \A r \in Range(Modules[id].resources) :
       "eMSL" \in Range(d.targets) /\ r.list = "sampled_images" =>
         Slot(map, "texture", KeyOf(r)) = Slot(map, "sampler", KeyOf(r))

\* A stage of a bundle is made of SPIR-V that exists, with the map of a program
\* that has its module.
LEMMA StageOfBundle ==
  ASSUME NEW d \in Descs, NEW stages, MadeFor(d, stages), AllCompiled(stages), NEW i \in DOMAIN stages
  PROVE  \E id \in DOMAIN Modules : \E map : MadeOf(d, i, stages[i], id, map)
PROOF
  <1>1. PICK made \in [DOMAIN d.stages -> Programs(d)] :
          stages = [k \in DOMAIN d.stages |-> BuiltAs(d, made[k], k)]
    BY DEF MadeFor
  <1> DEFINE f == made[i]
             spirv == Map(FrontEnd, f)
             id == FrontEnd(f[i])
             map == MapFor(d, f)
  <1>2. i \in DOMAIN d.stages /\ stages[i] = BuiltAs(d, f, i)  BY <1>1
  <1>3. DOMAIN f = DOMAIN d.stages /\ f[i] \in HashedAlike(d.stages[i])
    <2>1. f \in Programs(d)  BY <1>1, <1>2
    <2> HIDE DEF f
    <2> QED  BY <1>2, <2>1, ProgramElements
  <1> HIDE DEF f
  <1>4. stages[i] = StageArtifact(d.stages[i], id, map, d.targets)  BY <1>2, <1>3, BuiltAsArtifact
  <1>5. id \in DOMAIN Modules
    <2>1. stages[i].spirv = id
      <3> HIDE DEF id, map
      <3> QED  BY <1>4, ArtifactSpirv
    <2>2. id # Missing  BY <2>1 DEF AllCompiled
    <2>3. f[i] \in Requests  BY <1>3 DEF HashedAlike
    <2> QED  BY <2>2, <2>3, VectorsAssumption
  <1>6. ASSUME NEW r \in Range(Modules[id].resources), "eMSL" \in Range(d.targets), r.list = "sampled_images"
        PROVE  Slot(map, "texture", KeyOf(r)) = Slot(map, "sampler", KeyOf(r))
    <2> DEFINE modules == {Modules[spirv[k]] : k \in DOMAIN d.stages}
    <2>1. map = MapOf(modules, d.metal_layout)  BY <1>6 DEF MapFor, ProgramMap, WantsMsl
    <2>2. spirv[i] = id  BY <1>2, <1>3 DEF Map
    <2>3. Modules[id] \in modules  BY <1>2, <2>2
    <2> HIDE DEF modules, map, id
    <2> QED  BY <1>6, <2>1, <2>3, CombinedInMap
  <1> HIDE DEF id, map
  <1>7. MadeOf(d, i, stages[i], id, map)  BY <1>4, <1>6 DEF MadeOf
  <1> QED  BY <1>5, <1>7

(***************************************************************************)
(* Whatever the shaders, the names in them and what Tint does: the indices *)
(* an engine reads from the reflection of a published bundle are those in  *)
(* the bundle's own Metal and WebGPU sources, but for samplers whose       *)
(* texture the source names and declarations the scan takes for another's  *)
(* or does not take, and there it is told which they are (reflector lines  *)
(* 204-247, cross-compiler lines 35-55, Tint lines 101-122, builder lines  *)
(* 233-242).                                                               *)
(***************************************************************************)
THEOREM SlotsAlwaysAsEmitted == Spec => []SlotsAsEmitted
PROOF
  <1>1. IInv /\ Compiles => SlotsAsEmitted
    <2> SUFFICES ASSUME IInv, Compiles, NEW p \in DOMAIN bundles, NEW s \in Range(bundles[p].stages)
                 PROVE  \A r \in Range(Modules[s.spirv].resources), b \in Range(s.reflection.bindings),
                           c \in Range(s.cross_compiled) :
                          Alone(Modules[s.spirv], r) /\ b.name = r.name => Agree(s, r, b, c)
      BY DEF SlotsAsEmitted, Agree
    <2> DEFINE d == bundles[p].desc
               stages == bundles[p].stages
    <2>1. d \in Descs /\ MadeFor(d, stages) /\ AllCompiled(stages)
      BY DEF IInv, TypeOK, BundlesFresh, MadeFor, Compiles
    <2>2. PICK i \in DOMAIN stages : s = stages[i]  BY DEF Range
    <2> HIDE DEF d, stages
    <2>3. PICK id \in DOMAIN Modules : \E map : MadeOf(d, i, stages[i], id, map)
      BY <2>1, StageOfBundle
    <2>4. PICK map : MadeOf(d, i, stages[i], id, map)  BY <2>3
    <2>5. s.spirv = id  BY <2>2, <2>4, ArtifactSpirv DEF MadeOf
    <2> QED  BY <2>2, <2>4, <2>5, StageSlots DEF MadeOf
  <1>2. [](IInv /\ Compiles) => []SlotsAsEmitted  BY <1>1, PTL
  <1> QED  BY <1>2, Invariance, AlwaysCompiles, PTL
------------------------------------------------------------------------------
(***************************************************************************)
(* What is in reflection.bin.  What the reflector makes has the fields     *)
(* that the codec writes (ReflectionIsStage), so that the codec's theorem  *)
(* is about it.                                                            *)
(***************************************************************************)

\* A record with the fields of a list, given value by value.
LEMMA SlotRecords ==
  ASSUME NEW map, NEW r, NEW tables, NEW g, NEW c
  PROVE  /\ IsOptional(MetalSlot(map, r, tables), MetalFields)
         /\ IsOptional([group |-> g, binding |-> c], WebGpuFields)
         /\ IsOptional(NoSlot, MetalFields) /\ IsOptional(NoSlot, WebGpuFields)
PROOF
  <1>1. MetalSlot(map, r, tables) = Part(MetalSlot(map, r, tables), {"buffer", "texture", "sampler"})
    BY DEF MetalSlot, Part
  <1>2. [group |-> g, binding |-> c] = Part([group |-> g, binding |-> c], {"group", "binding"})
    BY DEF Part
  <1>3. NoSlot = NoReflection  BY OptionalsAssumption
  <1> QED  BY <1>1, <1>2, <1>3, FieldLists DEF IsOptional, HasFields

LEMMA CompiledIsSlot ==
  ASSUME NEW m, NEW map, NEW r
  PROVE  IsOptional(Compiled(m, map, r), MetalFields)
PROOF
  <1>1. Compiled(m, map, r) = Part(Compiled(m, map, r), {"buffer", "texture", "sampler"})
    BY DEF Compiled, Part
  <1> QED  BY <1>1, FieldLists DEF IsOptional, HasFields

\* What the reflector makes of a resource is a binding.
LEMMA BindingIsRight ==
  ASSUME NEW m, NEW map, NEW targets, NEW stage, NEW r, r.members \in Seq(Range(r.members)),
         \A x \in Range(r.members) : HasFields(x, MemberFields)
  PROVE  IsBinding(Binding(m, map, targets, stage, r))
PROOF
  <1> DEFINE b == Binding(m, map, targets, stage, r)
             metal == IF "eMSL" \notin targets THEN NoSlot
                      ELSE IF r.active THEN Compiled(m, map, r) ELSE MetalSlot(map, r, TablesOf(r.list))
             webgpu == IF "eWGSL" \in targets THEN [group |-> r.set, binding |-> r.binding] ELSE NoSlot
             members == IF KindOf[r.list] = "buffer" THEN r.members ELSE <<>>
  <1>1. b = Part(b, BindingFields)
    <2> DEFINE slots == [metal |-> metal, webgpu |-> webgpu]
               type == TypeOf(r)
               format == IF r.list = "storage_images" THEN FormatNames[r.format] ELSE NoText
               access == IF r.list = "storage_images" THEN Access(r) ELSE NoText
               ms == IsTexture(r) /\ r.ms
               depth == IsTexture(r) /\ r.list # "storage_images" /\ r.depth
    <2>1. b = [name |-> r.name, type |-> type, set |-> r.set, binding |-> r.binding,
               array_size |-> r.array_size, stages |-> {stage}, slots |-> slots, struct_members |-> members,
               storage_format_hint |-> format, storage_access_hint |-> access, multisampled |-> ms,
               depth_texture |-> depth, dynamic_offset |-> FALSE]
      BY Zenon DEF Binding
    <2> HIDE DEF b, slots, type, format, access, ms, depth, members
    <2> QED  BY <2>1 DEF Part, BindingFields
  <1>2. b.slots = [metal |-> metal, webgpu |-> webgpu] /\ b.struct_members = members  BY DEF Binding
  <1>3. IsOptional(metal, MetalFields)  BY SlotRecords, CompiledIsSlot
  <1>4. IsOptional(webgpu, WebGpuFields)  BY SlotRecords
  <1>5. IsSeq(members) /\ \A i \in 1 .. Len(members) : HasFields(members[i], MemberFields)
    <2>1. CASE KindOf[r.list] = "buffer"
      <3>1. members = r.members  BY <2>1
      <3>2. DOMAIN members = 1 .. Len(members)  BY <3>1, LenProperties
      <3>3. \A i \in 1 .. Len(members) : members[i] \in Range(r.members)  BY <3>1, <3>2 DEF Range
      <3> HIDE DEF members
      <3> QED  BY <3>1, <3>3 DEF IsSeq
    <2>2. CASE KindOf[r.list] # "buffer"
      <3>1. members = <<>>  BY <2>2
      <3>2. <<>> = [i \in 1 .. 0 |-> <<>>[i]]  OBVIOUS
      <3>3. IsSeq(<<>>) /\ Len(<<>>) = 0  BY <3>2, FunctionIsSeq
      <3> HIDE DEF members
      <3> QED  BY <3>1, <3>3
    <2> QED  BY <2>1, <2>2
  <1> HIDE DEF b, metal, webgpu, members
  <1>6. AreSlots(b.slots)
    <2>1. b.slots.metal = metal /\ b.slots.webgpu = webgpu /\ b.slots = Part(b.slots, {"metal", "webgpu"})
      BY <1>2 DEF Part
    <2> QED  BY <1>3, <1>4, <2>1 DEF AreSlots
  <1>7. IsBinding(b)  BY <1>1, <1>2, <1>5, <1>6 DEF IsBinding
  <1> QED  BY <1>7 DEF b

\* So is what the builder corrects.
LEMMA RemappedIsRight ==
  ASSUME NEW m, NEW targets, NEW b, IsBinding(b)
  PROVE  IsBinding(Remapped(m, targets, b))
PROOF
  <1> DEFINE first == m.wgsl[Min(EntriesNamed(m, b.name))]
             slot == [group |-> first.group, binding |-> first.binding]
             new == [b EXCEPT !.slots.webgpu = slot]
             slots == [b.slots EXCEPT !.webgpu = slot]
  <1>1. Remapped(m, targets, b) = b \/ Remapped(m, targets, b) = new  BY DEF Remapped
  <1>2. IsOptional(slot, WebGpuFields)  BY SlotRecords
  <1> HIDE DEF slot
  <1>3. DOMAIN b = BindingFields /\ b = Part(b, BindingFields)  BY DEF IsBinding, Part
  <1>4. DOMAIN b.slots = {"metal", "webgpu"}  BY DEF IsBinding, AreSlots, Part
  <1>5. /\ new = Part(new, BindingFields)
        /\ new.slots = slots /\ new.struct_members = b.struct_members
    BY <1>3 DEF Part, BindingFields
  <1>6. slots.metal = b.slots.metal /\ slots.webgpu = slot /\ slots = Part(slots, {"metal", "webgpu"})
    BY <1>4 DEF Part
  <1> HIDE DEF new, slots
  <1>7. AreSlots(slots)
    <2>1. IsOptional(b.slots.metal, MetalFields)  BY DEF IsBinding, AreSlots
    <2> QED  BY <1>2, <1>6, <2>1 DEF AreSlots
  <1>8. IsBinding(new)  BY <1>5, <1>7 DEF IsBinding
  <1> QED  BY <1>1, <1>8

\* What the reflector makes of a module is a stage.
LEMMA ReflectionIsStage ==
  ASSUME NEW id \in DOMAIN Modules, NEW req, NEW map, NEW targets
  PROVE  IsStage(StageArtifact(req, id, map, targets).reflection)
PROOF
  <1> DEFINE m == Modules[id]
             kinds == Range(targets)
             stage == req.stage
             refl == Reflect(m, map, kinds, stage)
             patched == [i \in DOMAIN refl.bindings |-> Remapped(m, kinds, refl.bindings[i])]
             s == StageArtifact(req, id, map, targets)
  <1>1. /\ m.resources \in Seq(Range(m.resources))
        /\ \A r \in Range(m.resources) : r.list \in Range(Lists) /\ r.members \in Seq(Range(r.members))
    BY ModulesAssumption
  <1>2. \A r \in Range(m.resources) : \A x \in Range(r.members) : HasFields(x, MemberFields)
    BY MembersAssumption, FieldLists DEF HasFields, Part
  <1>3. s.reflection = [refl EXCEPT !.bindings = patched]  BY DEF StageArtifact, BackEnd
  <1>4. DOMAIN refl = StageFields /\ refl = Part(refl, StageFields)  BY DEF Reflect, StageFields, Part
  <1> HIDE DEF s, kinds, m
  <1>5. \A x \in Range(refl.bindings) : IsBinding(x)
    <2> SUFFICES ASSUME NEW x \in Range(refl.bindings)  PROVE IsBinding(x)  OBVIOUS
    <2> HIDE DEF stage
    <2>1. \A y \in Range(refl.bindings) : \E r \in Range(m.resources) : y = Binding(m, map, kinds, stage, r)
      BY <1>1, ReflectedBindings
    <2>2. PICK r \in Range(m.resources) : x = Binding(m, map, kinds, stage, r)
      <3> HIDE DEF refl
      <3> QED  BY <2>1, Zenon
    <2> HIDE DEF refl
    <2>3. r.members \in Seq(Range(r.members)) /\ \A y \in Range(r.members) : HasFields(y, MemberFields)
      BY <1>1, <1>2
    <2> QED  BY <2>2, <2>3, BindingIsRight
  <1>6. IsSeq(refl.bindings)
    <2> QED  BY <1>1, ReflectedIsSeq
  <1> HIDE DEF refl
  <1>7. Len(refl.bindings) \in Nat /\ DOMAIN refl.bindings = 1 .. Len(refl.bindings)  BY <1>6, SeqLen
  <1>8. \A i \in 1 .. Len(refl.bindings) : IsBinding(patched[i])
    <2> SUFFICES ASSUME NEW i \in 1 .. Len(refl.bindings)  PROVE IsBinding(Remapped(m, kinds, refl.bindings[i]))
      BY <1>7
    <2>1. refl.bindings[i] \in Range(refl.bindings)  BY <1>7 DEF Range
    <2>2. IsBinding(refl.bindings[i])  BY <1>5, <2>1
    <2> QED  BY <2>2, RemappedIsRight
  <1>9. IsSeq(patched) /\ Len(patched) = Len(refl.bindings)
    <2>1. patched = [i \in 1 .. Len(refl.bindings) |-> patched[i]]  BY <1>7
    <2> HIDE DEF patched
    <2> QED  BY <1>7, <2>1, FunctionIsSeq
  <1> HIDE DEF patched
  <1>10. s.reflection = Part(s.reflection, StageFields) /\ s.reflection.bindings = patched
    BY <1>3, <1>4 DEF Part, StageFields
  <1>11. IsStage(s.reflection)  BY <1>8, <1>9, <1>10 DEF IsStage
  <1> QED  BY <1>11 DEF s

\* A description has the stages of the document.
LEMMA StagesOfDesc ==
  ASSUME NEW a \in Invocations, Usable(ParseSpec(a.doc)), NEW v
  PROVE  DOMAIN DescOf(a, v).stages = DOMAIN a.doc.stages
PROOF
  <1> DEFINE spec == ParseSpec(a.doc)
             plain == ToBuildDesc(spec, a.spec_dir)
             stages == Map(LAMBDA s : [s EXCEPT !.macros = @ \o v.defines], plain.stages)
  <1>1. spec.stages = Stages(a.doc)  BY ErrorsNone DEF ParseSpec
  <1>2. DOMAIN spec.stages = DOMAIN a.doc.stages  BY <1>1, StagesWritten
  <1>3. DOMAIN plain.stages = DOMAIN spec.stages /\ {"name", "stages"} \subseteq DOMAIN plain
    <2> HIDE DEF spec
    <2> QED  BY DEF ToBuildDesc, Map
  <1>4. DOMAIN stages = DOMAIN plain.stages
    <2> HIDE DEF plain
    <2> QED  BY DEF Map
  <1>5. DescOf(a, v) = IF v.name = "" THEN plain
                       ELSE [plain EXCEPT !.name = <<spec.name, v.name>>, !.stages = stages]
    BY DEF DescOf
  <1> HIDE DEF plain, stages, spec
  <1> QED  BY <1>2, <1>3, <1>4, <1>5

\* What reflection.bin of the bundle just written holds.
BlobWritten ==
  pc = "emit" => bundles[BundlePath(args.output, Variant)].reflection
                   = SerializeProgram(Map(LAMBDA s : s.reflection, artifact))

LEMMA AlwaysBlobWritten == Spec => []BlobWritten
PROOF
  <1>1. Init => BlobWritten  BY DEF Init, BlobWritten
  <1>2. BlobWritten /\ [Next]_vars => BlobWritten'
    <2> SUFFICES ASSUME BlobWritten, [Next]_vars  PROVE BlobWritten'  OBVIOUS
    <2>1. CASE WriteBundle
      <3> DEFINE path == BundlePath(args.output, Variant)
                 blob == SerializeProgram(Map(LAMBDA s : s.reflection, artifact))
                 bundle == [stages |-> artifact, reflection |-> blob, desc |-> Desc]
      <3>1. bundles' = [p \in DOMAIN bundles \cup {path} |-> IF p = path THEN bundle ELSE bundles[p]]
        BY <2>1 DEF WriteBundle, Update
      <3>2. bundle.reflection = blob  OBVIOUS
      <3>3. path' = path /\ artifact' = artifact  BY <2>1 DEF WriteBundle, Variant, VariantList
      <3>4. blob' = blob  BY <3>3 DEF Map
      <3> HIDE DEF path, bundle
      <3>5. bundles'[path].reflection = blob  BY <3>1, <3>2
      <3>6. bundles'[path'].reflection = blob'
        <4> HIDE DEF blob
        <4> QED  BY <3>3, <3>4, <3>5
      <3> QED  BY <3>6 DEF BlobWritten, path
    <2>2. CASE Invoke \/ Load \/ Build \/ CheckLayouts \/ EmitDecls \/ SkipDecls
      BY <2>2 DEF Invoke, Load, Build, CheckLayouts, EmitDecls, SkipDecls, NextVariant, Exit, BlobWritten
    <2>3. CASE LoadFails \/ BuildFailsEarly \/ BuildFailsLate \/ LayoutsRejected \/ WriteBundleFails
               \/ EmitDeclsFails
      BY <2>3 DEF LoadFails, BuildFailsEarly, BuildFailsLate, LayoutsRejected, WriteBundleFails,
                  EmitDeclsFails, Exit, BlobWritten
    <2>4. CASE UNCHANGED vars
      <3>1. BundlePath(args.output, Variant)' = BundlePath(args.output, Variant)
            /\ pc' = pc /\ bundles' = bundles /\ artifact' = artifact
        BY <2>4 DEF vars, Variant, VariantList
      <3> QED  BY <3>1 DEF BlobWritten, Map
    <2> QED  BY <2>1, <2>2, <2>3, <2>4 DEF Next
  <1> QED  BY <1>1, <1>2, PTL DEF Spec

(***************************************************************************)
(* The reflection.bin that was just written reads back as what was         *)
(* reflected, field by field, exactly when it is within the reader's       *)
(* limits, and cut anywhere it is refused (codec lines 46-362), whatever   *)
(* the shaders have.                                                       *)
(***************************************************************************)
THEOREM ReflectionAlwaysLoads == Spec => []ReflectionLoads
PROOF
  <1>1. IInv /\ Compiles /\ BlobWritten => ReflectionLoads
    <2> SUFFICES ASSUME IInv, Compiles, BlobWritten, pc = "emit"  PROVE ReflectionLoads
      BY DEF ReflectionLoads
    <2> DEFINE written == Map(LAMBDA s : s.reflection, artifact)
               blob == bundles[BundlePath(args.output, Variant)].reflection
               whole == SerializeProgram(written)
               d == Desc
    <2>1. MadeFor(d, artifact) /\ AllCompiled(artifact)  BY DEF IInv, ArtifactRight, Compiles
    <2>2. d \in Descs
      <3>1. InManifest  BY DEF InManifest
      <3> QED  BY <3>1, DescKnown DEF IInv
    <2>3. blob = whole  BY DEF BlobWritten
    <2> DEFINE N == Len(args.doc.stages)
    <2>4. N \in Nat /\ DOMAIN d.stages = 1 .. N
      <3>1. args \in Invocations /\ Usable(ParseSpec(args.doc))  BY DEF IInv, TypeOK
      <3> QED  BY <3>1, StagesWritten, StagesOfDesc DEF Desc
    <2> HIDE DEF d, N
    <2>5. written = [i \in 1 .. N |-> artifact[i].reflection] /\ DOMAIN artifact = 1 .. N
      BY <2>1, <2>4 DEF MadeFor, Map
    <2>6. IsSeq(written) /\ Len(written) = N
      <3>1. written = [i \in 1 .. N |-> written[i]]  BY <2>5
      <3> HIDE DEF written
      <3> QED  BY <2>4, <3>1, FunctionIsSeq
    <2>7. ASSUME NEW i \in 1 .. N  PROVE IsStage(written[i])
      <3>1. PICK id \in DOMAIN Modules : \E map : MadeOf(d, i, artifact[i], id, map)
        <4>1. i \in DOMAIN artifact  BY <2>5
        <4> QED  BY <2>1, <2>2, <4>1, StageOfBundle
      <3>2. PICK map : artifact[i] = StageArtifact(d.stages[i], id, map, d.targets)
        BY <3>1 DEF MadeOf
      <3>3. written[i] = artifact[i].reflection  BY <2>5
      <3> HIDE DEF written
      <3> QED  BY <3>2, <3>3, ReflectionIsStage
    <2> HIDE DEF written
    <2>8. ASSUME NEW n \in 0 .. Len(whole)
          PROVE  DeserializeProgram(SubSeq(whole, 1, n))
                   = IF n = Len(whole) /\ ReadableProgram(written) THEN written ELSE NoReflection
      BY <2>6, <2>7, ProgramRoundTrip
    <2>9. whole \in Seq(Range(whole)) /\ Len(whole) \in Nat
      <3>1. IsSeq(whole)
        <4> DEFINE one == <<Version>>
                   w == WriteList(WriteStage, written)
        <4>1. IsSeq(w)  BY <2>6, <2>7, StagesIsSeq
        <4>2. IsSeq(one)  BY OneValue
        <4>3. whole = one \o w  BY DEF SerializeProgram
        <4> HIDE DEF one, w, whole
        <4> QED  BY <4>1, <4>2, <4>3, ConcatValues
      <3> HIDE DEF whole
      <3> QED  BY <3>1, SeqLen DEF IsSeq
    <2> HIDE DEF whole
    <2>10. SubSeq(whole, 1, Len(whole)) = whole  BY <2>9
    <2>11. DeserializeProgram(whole) = IF ReadableProgram(written) THEN written ELSE NoReflection
      <3>1. Len(whole) \in 0 .. Len(whole)  BY <2>9
      <3> QED  BY <2>8, <2>10, <3>1
    <2>12. \A n \in 0 .. Len(whole) - 1 : DeserializeProgram(SubSeq(whole, 1, n)) = NoReflection
      <3> TAKE n \in 0 .. Len(whole) - 1
      <3>1. n \in 0 .. Len(whole) /\ n # Len(whole)  BY <2>9
      <3> QED  BY <2>8, <3>1
    <2> QED  BY <2>3, <2>11, <2>12 DEF ReflectionLoads, written
  <1>2. [](IInv /\ Compiles /\ BlobWritten) => []ReflectionLoads  BY <1>1, PTL
  <1> QED  BY <1>2, Invariance, AlwaysCompiles, AlwaysBlobWritten, PTL
==============================================================================
