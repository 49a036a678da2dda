---------------------------- MODULE GpuSuitability ----------------------------
(***************************************************************************)
(* GpuSuitabilityEngine and the estimates of ProfilingInstrumentor: whether*)
(* a loop is worth offloading.  Work and traffic are whole numbers; the    *)
(* quotients the code computes in floating point are compared exactly, by  *)
(* cross-multiplication.                                                   *)
(*                                                                         *)
(* A loop has its accesses to arrays and a bound, which is `constant' when *)
(* its text is a numeric literal.                                          *)
(***************************************************************************)
EXTENDS Integers, FiniteSets

\* GpuHardwareParams; the command line may set any value.
Hardware == [peakFlops : Int, peakBandwidth : Int, minGpuTrips : Int]

\* The number of a loop's reads, or writes.
Accesses(loop, isWrite) ==
    Cardinality({k \in DOMAIN loop.arrayAccesses : loop.arrayAccesses[k].isWrite = isWrite})

\* estimateLoop(), and the same formulas in classifyStatic().
EstimateLoop(loop) ==
    LET trips == IF loop.constant THEN loop.bound ELSE 1
    IN  [trips |-> trips,
         flops |-> (Accesses(loop, FALSE) + Accesses(loop, TRUE)) * 2 * trips,
         bytesRead |-> Accesses(loop, FALSE) * 8 * trips,
         bytesWritten |-> Accesses(loop, TRUE) * 8 * trips]

\* flop_intensity >= ridge_point, where a quotient is 0 unless its divisor
\* is positive.
ReachesRidge(estimate, hw) ==
    LET bytes == estimate.bytesRead + estimate.bytesWritten
        work == IF bytes > 0 THEN estimate.flops ELSE 0
        traffic == IF bytes > 0 THEN bytes ELSE 1
        peak == IF hw.peakBandwidth > 0 THEN hw.peakFlops ELSE 0
        bandwidth == IF hw.peakBandwidth > 0 THEN hw.peakBandwidth ELSE 1
    IN  work * bandwidth >= peak * traffic

\* classifyOne(): GPU_PROFITABLE.
Profitable(estimate, hw) ==
    ReachesRidge(estimate, hw) /\ estimate.trips >= hw.minGpuTrips

\* classifyStatic(): a bound that is no literal rules the GPU out.
StaticallyProfitable(loop, hw) ==
    loop.constant /\ Profitable(EstimateLoop(loop), hw)
=============================================================================
