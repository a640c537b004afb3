---------------------------- MODULE UncachedBuild ----------------------------
(***************************************************************************)
(* What a caller of build() may rely on: a request is answered with a      *)
(* result code and artifact that its texts determine, or the process dies. *)
(* There is no cache, no other builder and no phase in this module.        *)
(***************************************************************************)
CONSTANTS
  Builder, Requests, Backends,
  Answers(_, _, _)         \* Answers(a, b, r): a is an answer of components b to r

VARIABLES
  backend,                 \* the components the program was built with
  status, request, reply

NoReply == "no reply"

Init ==
  /\ backend \in Backends
  /\ status = [p \in Builder |-> "idle"]
  /\ request \in [Builder -> Requests]
  /\ reply = [p \in Builder |-> NoReply]

Ask(p) ==
  /\ status[p] # "busy"
  /\ status' = [status EXCEPT ![p] = "busy"]
  /\ \E r \in Requests : request' = [request EXCEPT ![p] = r]
  /\ reply' = [reply EXCEPT ![p] = NoReply]
  /\ UNCHANGED backend

Reply(p) ==
  /\ status[p] = "busy"
  /\ status' = [status EXCEPT ![p] = "done"]
  /\ reply' = [reply EXCEPT ![p] = reply'[p]] /\ Answers(reply'[p], backend, request[p])
  /\ UNCHANGED <<backend, request>>

Die(p) ==
  /\ status[p] = "busy"
  /\ status' = [status EXCEPT ![p] = "idle"]
  /\ UNCHANGED <<backend, request, reply>>

Next == \E p \in Builder : Ask(p) \/ Reply(p) \/ Die(p)

Spec == Init /\ [][Next]_<<backend, status, request, reply>>
==============================================================================
