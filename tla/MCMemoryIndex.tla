---------------------------- MODULE MCMemoryIndex ----------------------------
(* MemoryIndex for TLC; see MemoryIndex.cfg. *)
EXTENDS MemoryIndex

=============================================================================
