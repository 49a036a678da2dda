-------------------------- MODULE MCProfilerRuntime --------------------------
(***************************************************************************)
(* Two loops and up to five records; the array starts with one slot, so    *)
(* that it grows to two, four and eight.                                   *)
(***************************************************************************)
EXTENDS ProfilerRuntime

CONSTANTS a, b
=============================================================================
