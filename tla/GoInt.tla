-------------------------------- MODULE GoInt --------------------------------
(* Go's int64: two's complement arithmetic that wraps silently. *)
EXTENDS Integers

CONSTANT MaxInt  \* math.MaxInt64

ASSUME MaxIntAssumption == MaxInt \in Nat

Int64 == -MaxInt - 1 .. MaxInt

Wrap(n) ==
  IF n \in Int64 THEN n
  ELSE ((n + MaxInt + 1) % (2 * (MaxInt + 1))) - MaxInt - 1
=============================================================================
