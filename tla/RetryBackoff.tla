---------------------------- MODULE RetryBackoff ----------------------------
(***************************************************************************)
(* The delay the worker puts between a failed attempt of a job and the     *)
(* next one: a base doubled once per earlier attempt and cut off at a      *)
(* maximum (internal/app/worker/app.go, retryBackoff).  A duration is a    *)
(* signed integer of a fixed width.                                        *)
(***************************************************************************)
EXTENDS Integers

CONSTANT MaxDuration   (* the largest time.Duration; 2^63 - 1 in the code  *)

ASSUME BackoffAssumption == MaxDuration \in Nat \ {0}

(* Multiplication of durations wraps around. *)
Wrapped(x) ==
  LET r == x % (2 * (MaxDuration + 1))
  IN  IF r <= MaxDuration THEN r ELSE r - 2 * (MaxDuration + 1)

(* Variant: the loop without its test against max / 2.                     *)
DoubledUnchecked(base, max) ==
  LET backoff[n \in Nat] ==
        IF n = 0 THEN base
        ELSE LET b == backoff[n - 1] IN IF b >= max THEN b ELSE Wrapped(2 * b)
  IN  backoff

(* One turn of the loop, which turns only below max; a turn that would     *)
(* pass max returns it instead.                                            *)
Turn(max, b) ==
  IF b >= max THEN b ELSE IF b > max \div 2 THEN max ELSE Wrapped(2 * b)

(* The variable backoff after n turns. *)
Doubled(base, max) ==
  LET backoff[n \in Nat] == IF n = 0 THEN base ELSE Turn(max, backoff[n - 1])
  IN  backoff

CutOff(b, max) == IF b > max THEN max ELSE b

(* retryBackoff(attempt) of a worker with these bounds: attempt is the     *)
(* number of the attempt that failed.                                      *)
DelayUnchecked(base, max, attempt) ==
  CutOff(DoubledUnchecked(base, max)[attempt - 1], max)

retryBackoff(base, max, attempt) == CutOff(Doubled(base, max)[attempt - 1], max)

(* What it stands for: doubling in the integers.                           *)
DoubledExactly(base) ==
  LET backoff[n \in Nat] == IF n = 0 THEN base ELSE 2 * backoff[n - 1]
  IN  backoff
=============================================================================
