------------------------ MODULE MCGlslangProcessGuard ------------------------
(***************************************************************************)
(* Instance of GlslangProcessGuard: three front ends, constructed up to    *)
(* five times in all, so that one is constructed again while another is    *)
(* being destroyed and after a failed initialization.                      *)
(***************************************************************************)
EXTENDS GlslangProcessGuard
==============================================================================
