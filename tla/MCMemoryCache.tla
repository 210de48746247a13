--------------------------- MODULE MCMemoryCache ---------------------------
(***************************************************************************)
(* An instance of MemoryCache for TLC.                                     *)
(***************************************************************************)
EXTENDS MemoryCache

\* The limit zero, which with_limits raises to one, and a limit of two.
MCConfigured == {0, 2}
=============================================================================
