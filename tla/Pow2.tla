-------------------------------- MODULE Pow2 --------------------------------
(***************************************************************************)
(* ceil_to_pow_2 (include/AxleUtil/math.h), by which an Array and a block  *)
(* of the DenseBlockAllocator find a capacity.                             *)
(***************************************************************************)
EXTENDS Integers, SequencesExt

PowersOf2[n \in Nat] == IF n = 0 THEN 1 ELSE 2 * PowersOf2[n - 1]

CeilToPow2(v) == PowersOf2[Min({n \in 0..v : PowersOf2[n] >= v})]
=============================================================================
