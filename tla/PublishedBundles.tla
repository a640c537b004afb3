--------------------------- MODULE PublishedBundles ---------------------------
(***************************************************************************)
(* What a reader of the output directories sees while a manifest is        *)
(* compiled for the first time: of each variant, nothing or a whole bundle *)
(* with the contents of its files.  Bundles appear in the order of their   *)
(* variants; one that naga completes disappears and comes back.  There are *)
(* no files and no headers in this module.                                 *)
(***************************************************************************)
EXTENDS Naturals, Sequences

CONSTANTS
  Job, Manifests,  \* as in CompileShaders
  Naga,            \* the script completes what the compiler has published
  Absent,          \* there is no bundle
  None             \* a stage has no text for a target

VARIABLES
  status,          \* "waiting", "compiling", "completing", "done" or "failed"
  program,         \* the manifest of each job
  published        \* what is seen of each variant

vars == <<status, program, published>>

Variants == UNION {DOMAIN m : m \in Manifests}

\* The bundle of a with WGSL for some of its stages.
Bundle(a, wgsl) ==
  [name |-> a.name,
   stages |-> [i \in DOMAIN a.stages |->
                 [kind  |-> a.stages[i].kind,
                  spirv |-> a.stages[i].spirv,
                  msl   |-> IF "eMSL" \in a.stages[i].targets THEN a.stages[i].spirv ELSE None,
                  wgsl  |-> IF i \in wgsl THEN a.stages[i].spirv ELSE None]],
   reflection |-> [i \in DOMAIN a.stages |-> <<a.stages[i].kind, a.stages[i].spirv>>]]

AskedFor(a) == {i \in DOMAIN a.stages : "eWGSL" \in a.stages[i].targets}
AsCompiled(a) == Bundle(a, AskedFor(a))
Completed(a) == Bundle(a, DOMAIN a.stages)

Init ==
  /\ status = [j \in Job |-> "waiting"]
  /\ program \in [Job -> Manifests]
  /\ published = [v \in Variants |-> Absent]

Becomes(j, there) == status' = [status EXCEPT ![j] = there]

Start(j) ==
  /\ \A k \in Job : status[k] = "waiting"
  /\ Becomes(j, "compiling")
  /\ \E m \in Manifests : program' = [program EXCEPT ![j] = m]
  /\ UNCHANGED published

\* A bundle appears as it was compiled, after those before it.
Publish(j) == \E v \in DOMAIN program[j] :
  /\ status[j] = "compiling"
  /\ \A u \in DOMAIN program[j] :
       published[u] = IF u < v THEN AsCompiled(program[j][u]) ELSE Absent
  /\ published' = [published EXCEPT ![v] = AsCompiled(program[j][v])]
  /\ UNCHANGED <<status, program>>

CompilerEnds(j) ==
  /\ status[j] = "compiling"
  /\ \A v \in DOMAIN program[j] : published[v] = AsCompiled(program[j][v])
  /\ Becomes(j, IF Naga THEN "completing" ELSE "done")
  /\ UNCHANGED <<program, published>>

\* The bundles before v are complete, those after it as they were compiled.
CompletedUpTo(j, v) == \A u \in DOMAIN program[j] \ {v} :
  published[u] = IF u < v THEN Completed(program[j][u]) ELSE AsCompiled(program[j][u])

Withdraw(j) == \E v \in DOMAIN program[j] :
  /\ status[j] = "completing"
  /\ AskedFor(program[j][v]) # DOMAIN program[j][v].stages
  /\ published[v] = AsCompiled(program[j][v]) /\ CompletedUpTo(j, v)
  /\ published' = [published EXCEPT ![v] = Absent]
  /\ UNCHANGED <<status, program>>

Complete(j) == \E v \in DOMAIN program[j] :
  /\ status[j] = "completing"
  /\ published[v] = Absent /\ CompletedUpTo(j, v)
  /\ published' = [published EXCEPT ![v] = Completed(program[j][v])]
  /\ IF v = Len(program[j]) THEN Becomes(j, "done") ELSE UNCHANGED status
  /\ UNCHANGED program

\* Success is reported for complete bundles only.
ScriptEnds(j) ==
  /\ status[j] = "completing"
  /\ \A v \in DOMAIN program[j] : published[v] = Completed(program[j][v])
  /\ Becomes(j, "done")
  /\ UNCHANGED <<program, published>>

\* What is published by then stays.
Fail(j) == status[j] \in {"compiling", "completing"} /\ Becomes(j, "failed") /\ UNCHANGED <<program, published>>

Next ==
  \E j \in Job :
    \/ Start(j) \/ Publish(j) \/ CompilerEnds(j)
    \/ Withdraw(j) \/ Complete(j) \/ ScriptEnds(j) \/ Fail(j)

Spec == Init /\ [][Next]_vars
===============================================================================
