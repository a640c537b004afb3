--------------------------- MODULE LibraryLifetime ---------------------------
(***************************************************************************)
(* What the owners of GlslangFrontEnd objects may rely on: the library is  *)
(* on from the construction of the first available front end to the        *)
(* destruction of the last one.  Constructors and destructors are one step *)
(* each: there is no count and no mutex in this module.                    *)
(***************************************************************************)
CONSTANT Owner

VARIABLES
  library,   \* "on" between InitializeProcess and FinalizeProcess
  life       \* of each owner's front end: "none", "unavailable", "available" or "compiling"

InUse(f) == life[f] \in {"available", "compiling"}

Init == library = "off" /\ life = [f \in Owner |-> "none"]

Becomes(f, what) == life' = [life EXCEPT ![f] = what]

\* isAvailable() is certain when another front end is available.
CreateAvailable(f) ==
  /\ life[f] = "none"
  /\ Becomes(f, "available")
  /\ library' = "on"

CreateUnavailable(f) ==
  /\ life[f] = "none"
  /\ \A g \in Owner : ~InUse(g)
  /\ Becomes(f, "unavailable")
  /\ UNCHANGED library

Compile(f) == life[f] = "available" /\ Becomes(f, "compiling") /\ UNCHANGED library
Compiled(f) == life[f] = "compiling" /\ Becomes(f, "available") /\ UNCHANGED library

DestroyUnavailable(f) == life[f] = "unavailable" /\ Becomes(f, "none") /\ UNCHANGED library

Destroy(f) ==
  /\ life[f] = "available"
  /\ Becomes(f, "none")
  /\ library' = IF \E g \in Owner \ {f} : InUse(g) THEN library ELSE "off"

Next ==
  \E f \in Owner :
    \/ CreateAvailable(f) \/ CreateUnavailable(f) \/ Compile(f) \/ Compiled(f)
    \/ DestroyUnavailable(f) \/ Destroy(f)

Spec == Init /\ [][Next]_<<library, life>>
==============================================================================
