------------------------------ MODULE OmpCodegen ------------------------------
(***************************************************************************)
(* OmpCodegen::buildPragmaText(): the OpenMP directive of a loop, without  *)
(* its wording.  And what its map clauses do: OpenMP copies the sections   *)
(* of `to' and `tofrom' to the device before the loop and those of `from'  *)
(* and `tofrom' back after it.                                             *)
(***************************************************************************)
EXTENDS Integers, Sequences

CONSTANT Arrays

(***************************************************************************)
(* ArrayAccess.  The elements it touches in all iterations, and whether it *)
(* is made in every iteration, are not known to the code.                  *)
(***************************************************************************)
Access == [arrayName : Arrays, isWrite : BOOLEAN,
           elements : SUBSET Int, always : BOOLEAN]

Names(loop, isWrite) ==
    {loop.arrayAccesses[k].arrayName :
        k \in {j \in DOMAIN loop.arrayAccesses : loop.arrayAccesses[j].isWrite = isWrite}}

\* With what is read and written among what is written only.
ClassifyByWrite(loop) ==
    [to |-> Names(loop, FALSE) \ Names(loop, TRUE), from |-> Names(loop, TRUE), tofrom |-> {}]

ClassifyArrays(loop) ==
    [to |-> Names(loop, FALSE) \ Names(loop, TRUE),
     from |-> Names(loop, TRUE) \ Names(loop, FALSE),
     tofrom |-> Names(loop, FALSE) \cap Names(loop, TRUE)]

NoMaps == [to |-> {}, from |-> {}, tofrom |-> {}]

\* With reductions on the CPU only.
BuildPragmaCpuReduction(loop, decision) ==
    [gpu |-> decision.gpuProfitable,
     maps |-> IF decision.gpuProfitable THEN ClassifyArrays(loop) ELSE NoMaps,
     size |-> loop.bound,
     reduction |-> decision.hasReduction /\ ~decision.gpuProfitable]

\* All sections are [0:size].
BuildPragmaText(loop, decision) ==
    [gpu |-> decision.gpuProfitable,
     maps |-> IF decision.gpuProfitable THEN ClassifyArrays(loop) ELSE NoMaps,
     size |-> loop.bound,
     reduction |-> decision.hasReduction]

-----------------------------------------------------------------------------
(* What the clauses have to do.                                            *)

\* All that the iterations of a loop surely write of an array.
Filled(loop, array) ==
    UNION {loop.arrayAccesses[k].elements :
              k \in {j \in DOMAIN loop.arrayAccesses :
                        /\ loop.arrayAccesses[j].arrayName = array
                        /\ loop.arrayAccesses[j].isWrite /\ loop.arrayAccesses[j].always}}

\* Each element is on the device when it is read and back when it was written,
\* and no element comes back that the device never had.
TransfersSuffice(pragma, loop) ==
    LET section == 0..(pragma.size - 1)
    IN  /\ \A k \in DOMAIN loop.arrayAccesses :
              LET a == loop.arrayAccesses[k]
              IN  /\ a.elements \subseteq section
                  /\ a.arrayName \in pragma.maps.tofrom \cup
                        (IF a.isWrite THEN pragma.maps.from ELSE pragma.maps.to)
        /\ \A array \in pragma.maps.from : section \subseteq Filled(loop, array)

\* The loop accesses nothing but the elements below its bound.
StaysBelowBound(loop) ==
    \A k \in DOMAIN loop.arrayAccesses :
        loop.arrayAccesses[k].elements \subseteq 0..(loop.bound - 1)

\* What the loop writes and never reads, it writes up to its bound.
FillsItsResults(loop) ==
    \A k \in DOMAIN loop.arrayAccesses :
        loop.arrayAccesses[k].isWrite =>
            \/ \E j \in DOMAIN loop.arrayAccesses :
                  /\ ~loop.arrayAccesses[j].isWrite
                  /\ loop.arrayAccesses[j].arrayName = loop.arrayAccesses[k].arrayName
            \/ 0..(loop.bound - 1) \subseteq Filled(loop, loop.arrayAccesses[k].arrayName)
=============================================================================
