-------------------------- MODULE JobWorkerProofs ---------------------------
(***************************************************************************)
(* Proofs about module JobWorker, for any jobs, workers, clocks and bounds *)
(* its assumptions admit.                                                  *)
(***************************************************************************)
EXTENDS JobWorker, FiniteSetTheorems, WellFoundedInduction, TLAPS

-----------------------------------------------------------------------------
(* Recursive functions over Nat, without induction over an operator.       *)

LEMMA AllNat ==
  ASSUME NEW P \in SUBSET Nat, 0 \in P, \A n \in P : n + 1 \in P
  PROVE  P = Nat
  <1> SUFFICES ASSUME NEW n \in Nat \ P PROVE FALSE
    OBVIOUS
  <1> DEFINE R == OpToRel(<, Nat)
  <1>1. IsWellFoundedOn(R, Nat)
    BY NatLessThanWellFounded
  <1>2. \A x, y \in Nat : x < y => <<x, y>> \in R
    BY DEF OpToRel
  <1> HIDE DEF R
  <1>3. Nat \ P \in SUBSET Nat /\ Nat \ P # {}
    OBVIOUS
  <1>4. PICK x \in Nat \ P : \A y \in Nat \ P : ~ (<<y, x>> \in R)
    BY <1>1, <1>3, WFMin
  <1>5. x # 0 /\ x \in Nat
    OBVIOUS
  <1>6. x - 1 \in Nat /\ x - 1 < x
    BY <1>5
  <1>7. x - 1 \in P
    BY <1>2, <1>4, <1>5, <1>6
  <1>8. x - 1 + 1 \in P
    BY <1>7
  <1>9. QED
    BY <1>5, <1>8

(* f is what a start leads to, step by step. *)
From(f, start, step) == f[0] = start /\ \A n \in Nat : f[n + 1] = step[f[n]]

LEMMA Iterates ==
  ASSUME NEW S, NEW start \in S, NEW step \in [S -> S]
  PROVE  \E f \in [Nat -> S] : From(f, start, step)
  <1> DEFINE Upto(g, n) == /\ g \in [0 .. n -> S] /\ g[0] = start
                           /\ \A k \in Nat : k + 1 \in 0 .. n => g[k + 1] = step[g[k]]
             P == {n \in Nat : \E g : Upto(g, n)}
             Q(n) == \A g, h : Upto(g, n) /\ Upto(h, n) => g[n] = h[n]
  <1>1. P = Nat
    <2>1. 0 \in P
      <3>1. PICK g : g = [k \in 0 .. 0 |-> start]
        OBVIOUS
      <3>2. Upto(g, 0)
        BY <3>1
      <3>3. QED
        BY <3>2
    <2>2. ASSUME NEW n \in P PROVE n + 1 \in P
      <3>1. PICK g : Upto(g, n)
        OBVIOUS
      <3>2. PICK h : h = [k \in 0 .. (n + 1) |-> IF k = n + 1 THEN step[g[n]] ELSE g[k]]
        OBVIOUS
      <3>3. n \in Nat /\ n \in 0 .. n /\ g[n] \in S
        BY <3>1
      <3>4. h[n + 1] = step[g[n]] /\ \A k \in 0 .. n : h[k] = g[k]
        BY <3>2, <3>3
      <3>5. h \in [0 .. (n + 1) -> S]
        BY <3>1, <3>2, <3>3
      <3>6. h[0] = start
        BY <3>1, <3>3, <3>4
      <3>7. ASSUME NEW k \in Nat, k + 1 \in 0 .. (n + 1) PROVE h[k + 1] = step[h[k]]
        <4>1. CASE k = n
          BY <3>3, <3>4, <4>1
        <4>2. CASE k # n
          <5>1. k + 1 \in 0 .. n /\ k \in 0 .. n
            BY <3>3, <3>7, <4>2
          <5>2. QED
            BY <3>1, <3>4, <5>1
        <4>3. QED
          BY <4>1, <4>2
      <3>8. Upto(h, n + 1)
        BY <3>5, <3>6, <3>7
      <3>9. QED
        BY <3>3, <3>8
    <2> HIDE DEF P
    <2>3. P \in SUBSET Nat
      BY DEF P
    <2>4. QED
      BY <2>1, <2>2, <2>3, AllNat
  <1>2. ASSUME NEW n \in Nat, NEW g, Upto(g, n + 1)
        PROVE  /\ Upto([k \in 0 .. n |-> g[k]], n)
               /\ g[n + 1] = step[g[n]] /\ g[n + 1] \in S
               /\ [k \in 0 .. n |-> g[k]][n] = g[n]
    <2>1. n + 1 \in 0 .. (n + 1) /\ 0 .. n \subseteq 0 .. (n + 1) /\ 0 \in 0 .. n /\ n \in 0 .. n
      OBVIOUS
    <2>2. g \in [0 .. (n + 1) -> S] /\ g[0] = start
          /\ \A k \in Nat : k + 1 \in 0 .. (n + 1) => g[k + 1] = step[g[k]]
      BY <1>2
    <2>3. \A k \in Nat : k + 1 \in 0 .. n => k \in 0 .. n
      OBVIOUS
    <2>4. PICK h : h = [k \in 0 .. n |-> g[k]]
      OBVIOUS
    <2>5. h \in [0 .. n -> S] /\ \A k \in 0 .. n : h[k] = g[k]
      BY <2>1, <2>2, <2>4
    <2>6. \A k \in Nat : k + 1 \in 0 .. n => h[k + 1] = step[h[k]]
      BY <2>1, <2>2, <2>3, <2>5
    <2>7. QED
      BY <2>1, <2>2, <2>4, <2>5, <2>6
  <1>3. \A n \in Nat : Q(n)
    <2> DEFINE U == {n \in Nat : Q(n)}
    <2>1. 0 \in U
      OBVIOUS
    <2>2. ASSUME NEW n \in U PROVE n + 1 \in U
      <3>1. n \in Nat /\ Q(n)
        OBVIOUS
      <3>2. ASSUME NEW g, NEW h, Upto(g, n + 1), Upto(h, n + 1)
            PROVE  g[n + 1] = h[n + 1]
        <4> HIDE DEF Upto
        <4>1. /\ Upto([k \in 0 .. n |-> g[k]], n) /\ Upto([k \in 0 .. n |-> h[k]], n)
              /\ g[n + 1] = step[g[n]] /\ h[n + 1] = step[h[n]]
              /\ [k \in 0 .. n |-> g[k]][n] = g[n] /\ [k \in 0 .. n |-> h[k]][n] = h[n]
          BY <1>2, <3>1, <3>2
        <4>2. g[n] = h[n]
          BY <3>1, <4>1
        <4>3. QED
          BY <4>1, <4>2
      <3>3. QED
        BY <3>1, <3>2
    <2> HIDE DEF U
    <2>3. U \in SUBSET Nat
      BY DEF U
    <2>4. U = Nat
      BY <2>1, <2>2, <2>3, AllNat
    <2>5. QED
      BY <2>4 DEF U
  <1>4. PICK f : f = [n \in Nat |-> (CHOOSE g : Upto(g, n))[n]]
    OBVIOUS
  <1>5. ASSUME NEW n \in Nat, NEW g, Upto(g, n)
        PROVE  f[n] = g[n]
    <2> HIDE DEF Upto
    <2>1. PICK h : h = CHOOSE x : Upto(x, n)
      OBVIOUS
    <2>2. Upto(h, n)
      BY <1>5, <2>1
    <2>3. h[n] = g[n]
      BY <1>3, <1>5, <2>2
    <2>4. QED
      BY <1>4, <2>1, <2>3
  <1>6. ASSUME NEW n \in Nat PROVE f[n] \in S /\ f[n + 1] = step[f[n]]
    <2>1. PICK g : Upto(g, n + 1)
      <3>1. n + 1 \in P
        BY <1>1
      <3>2. QED
        BY <3>1
    <2> HIDE DEF Upto
    <2>2. PICK h : h = [k \in 0 .. n |-> g[k]]
      OBVIOUS
    <2>3. Upto(h, n) /\ g[n + 1] = step[g[n]] /\ h[n] = g[n]
      BY <1>2, <2>1, <2>2
    <2>4. f[n + 1] = g[n + 1] /\ f[n] = h[n]
      BY <1>5, <2>1, <2>3
    <2>5. h[n] \in S
      BY <2>3 DEF Upto
    <2>6. QED
      BY <2>3, <2>4, <2>5
  <1>7. f[0] = start
    <2>1. 0 \in P
      BY <1>1
    <2>2. PICK g : Upto(g, 0)
      BY <2>1
    <2>3. f[0] = g[0]
      BY <1>5, <2>2
    <2>4. QED
      BY <2>2, <2>3
  <1>8. f \in [Nat -> S]
    BY <1>4, <1>6
  <1>9. QED
    BY <1>6, <1>7, <1>8 DEF From

LEMMA DoubledChosen ==
  ASSUME NEW base, NEW max
  PROVE  Doubled(base, max) =
           CHOOSE f : f = [n \in Nat |-> IF n = 0 THEN base ELSE Turn(max, f[n - 1])]
BY DEF Doubled

LEMMA ExactChosen ==
  ASSUME NEW base
  PROVE  DoubledExactly(base) =
           CHOOSE f : f = [n \in Nat |-> IF n = 0 THEN base ELSE 2 * f[n - 1]]
BY DEF DoubledExactly

LEMMA WrappedType ==
  ASSUME NEW x \in Int
  PROVE  Wrapped(x) \in Int /\ (x \in 0 .. MaxDuration => Wrapped(x) = x)
BY BackoffAssumption DEF Wrapped

LEMMA ExactTurns ==
  ASSUME NEW base \in Nat
  PROVE  /\ DoubledExactly(base) \in [Nat -> Nat]
         /\ DoubledExactly(base)[0] = base
         /\ \A n \in Nat : DoubledExactly(base)[n + 1] = 2 * DoubledExactly(base)[n]
  <1>1. PICK step : step = [x \in Nat |-> 2 * x]
    OBVIOUS
  <1>2. step \in [Nat -> Nat] /\ \A x \in Nat : step[x] = 2 * x
    BY <1>1
  <1>3. PICK f \in [Nat -> Nat] : f[0] = base /\ \A n \in Nat : f[n + 1] = step[f[n]]
    <2>1. step \in [Nat -> Nat]
      BY <1>2
    <2>2. \E f \in [Nat -> Nat] : From(f, base, step)
      BY <2>1, Iterates, Zenon
    <2>3. QED
      BY <2>2 DEF From
  <1>4. ASSUME NEW n \in Nat PROVE f[n] = IF n = 0 THEN base ELSE 2 * f[n - 1]
    <2>1. CASE n = 0
      BY <1>3, <2>1
    <2>2. CASE n # 0
      <3>1. n - 1 \in Nat /\ n - 1 + 1 = n
        BY <2>2
      <3>2. f[n - 1 + 1] = step[f[n - 1]] /\ f[n - 1] \in Nat
        BY <1>3, <3>1
      <3>3. QED
        BY <1>2, <2>2, <3>1, <3>2
    <2>3. QED
      BY <2>1, <2>2
  <1>5. f = [n \in Nat |-> IF n = 0 THEN base ELSE 2 * f[n - 1]]
    BY <1>4
  <1>6. PICK g : g = DoubledExactly(base)
    OBVIOUS
  <1>7. g = [n \in Nat |-> IF n = 0 THEN base ELSE 2 * g[n - 1]]
    BY <1>5, <1>6, ExactChosen
  <1>8. g[0] = base /\ \A n \in Nat : g[n + 1] = 2 * g[n]
    <2>1. \A n \in Nat : n + 1 \in Nat /\ n + 1 # 0 /\ n + 1 - 1 = n
      OBVIOUS
    <2>2. QED
      BY <1>7, <2>1
  <1>9. g \in [Nat -> Nat]
    <2>1. PICK U : U = {n \in Nat : g[n] \in Nat}
      OBVIOUS
    <2>2. 0 \in U /\ \A n \in U : n + 1 \in U
      BY <1>8, <2>1
    <2>3. U = Nat
      BY <2>1, <2>2, AllNat
    <2>4. \A n \in Nat : g[n] \in Nat
      BY <2>1, <2>3
    <2>5. g = [n \in Nat |-> g[n]]
      BY <1>7, Zenon
    <2>6. QED
      BY <2>4, <2>5, Zenon
  <1>10. QED
    BY <1>6, <1>8, <1>9

LEMMA DoubledTurns ==
  ASSUME NEW max \in 1 .. MaxDuration, NEW base \in 1 .. max
  PROVE  /\ Doubled(base, max)[0] = base
         /\ \A n \in Nat : Doubled(base, max)[n + 1] = Turn(max, Doubled(base, max)[n])
  <1>1. PICK step : step = [x \in Int |-> Turn(max, x)]
    OBVIOUS
  <1>2. \A x \in Int : Turn(max, x) \in Int
    BY BackoffAssumption, WrappedType DEF Turn
  <1>3. step \in [Int -> Int] /\ \A x \in Int : step[x] = Turn(max, x)
    BY <1>1, <1>2
  <1>4. base \in Int
    BY BackoffAssumption
  <1>5. PICK f \in [Nat -> Int] : f[0] = base /\ \A n \in Nat : f[n + 1] = step[f[n]]
    <2>1. step \in [Int -> Int]
      BY <1>3
    <2>2. \E f \in [Nat -> Int] : From(f, base, step)
      BY <2>1, <1>4, Iterates, Zenon
    <2>3. QED
      BY <2>2 DEF From
  <1>6. ASSUME NEW n \in Nat PROVE f[n] = IF n = 0 THEN base ELSE Turn(max, f[n - 1])
    <2>1. CASE n = 0
      BY <1>5, <2>1
    <2>2. CASE n # 0
      <3>1. n - 1 \in Nat /\ n - 1 + 1 = n
        BY <2>2
      <3>2. f[n - 1 + 1] = step[f[n - 1]] /\ f[n - 1] \in Int
        BY <1>5, <3>1
      <3>3. QED
        BY <1>3, <2>2, <3>1, <3>2
    <2>3. QED
      BY <2>1, <2>2
  <1>7. f = [n \in Nat |-> IF n = 0 THEN base ELSE Turn(max, f[n - 1])]
    BY <1>6
  <1>8. PICK g : g = Doubled(base, max)
    OBVIOUS
  <1>9. g = [n \in Nat |-> IF n = 0 THEN base ELSE Turn(max, g[n - 1])]
    BY <1>7, <1>8, DoubledChosen
  <1>10. \A n \in Nat : n + 1 \in Nat /\ n + 1 # 0 /\ n + 1 - 1 = n
    OBVIOUS
  <1>11. g[0] = base
    BY <1>9
  <1>12. ASSUME NEW n \in Nat PROVE g[n + 1] = Turn(max, g[n])
    <2>1. g[n + 1] = IF n + 1 = 0 THEN base ELSE Turn(max, g[n + 1 - 1])
      BY <1>9, <1>10
    <2>2. QED
      BY <1>10, <2>1
  <1>13. QED
    BY <1>8, <1>11, <1>12

(* A turn of the loop doubles up to the maximum, and does not overflow.    *)
LEMMA TurnDoubles ==
  ASSUME NEW max \in 1 .. MaxDuration, NEW b \in Nat, NEW x \in Nat,
         b = CutOff(x, max)
  PROVE  Turn(max, b) = CutOff(2 * x, max)
  <1>1. max \in Nat /\ MaxDuration \in Nat /\ max <= MaxDuration
    BY BackoffAssumption
  <1>2. CASE x >= max
    BY <1>1, <1>2 DEF CutOff, Turn
  <1>3. CASE x < max /\ x > max \div 2
    BY <1>1, <1>3 DEF CutOff, Turn
  <1>4. CASE x < max /\ ~(x > max \div 2)
    <2>1. 2 * x <= max /\ b = x
      BY <1>1, <1>4 DEF CutOff
    <2>2. 2 * x \in 0 .. MaxDuration /\ 2 * x \in Int
      BY <1>1, <2>1
    <2>3. Wrapped(2 * b) = 2 * x
      BY <2>1, <2>2, WrappedType
    <2>4. QED
      BY <1>1, <1>4, <2>1, <2>3 DEF CutOff, Turn
  <1>5. QED
    BY <1>1, <1>2, <1>3, <1>4

(* Whatever the number of the attempt. *)
LEMMA DoubledIsExact ==
  ASSUME NEW max \in 1 .. MaxDuration, NEW base \in 1 .. max, NEW n \in Nat
  PROVE  Doubled(base, max)[n] = CutOff(DoubledExactly(base)[n], max)
  <1>1. PICK f : f = Doubled(base, max)
    OBVIOUS
  <1>2. PICK g : g = DoubledExactly(base)
    OBVIOUS
  <1>3. base \in Nat /\ max \in Nat /\ base <= max
    BY BackoffAssumption
  <1>4. f[0] = base /\ \A k \in Nat : f[k + 1] = Turn(max, f[k])
    BY <1>1, DoubledTurns
  <1>5. g \in [Nat -> Nat] /\ g[0] = base /\ \A k \in Nat : g[k + 1] = 2 * g[k]
    BY <1>2, <1>3, ExactTurns
  <1>6. PICK U : U = {k \in Nat : f[k] = CutOff(g[k], max)}
    OBVIOUS
  <1>7. 0 \in U
    BY <1>3, <1>4, <1>5, <1>6 DEF CutOff
  <1>8. ASSUME NEW k \in U PROVE k + 1 \in U
    <2>1. k \in Nat /\ f[k] = CutOff(g[k], max) /\ g[k] \in Nat /\ g[k + 1] = 2 * g[k]
          /\ f[k + 1] = Turn(max, f[k])
      BY <1>4, <1>5, <1>6
    <2>2. f[k] \in Nat
      BY <1>3, <2>1 DEF CutOff
    <2>3. Turn(max, f[k]) = CutOff(2 * g[k], max)
      BY <2>1, <2>2, TurnDoubles
    <2>4. QED
      BY <1>6, <2>1, <2>3
  <1>9. U = Nat
    BY <1>6, <1>7, <1>8, AllNat
  <1>10. QED
    BY <1>1, <1>2, <1>6, <1>9

(***************************************************************************)
(* After any attempt the delay is the base doubled once per earlier        *)
(* attempt, cut off at the maximum: positive and never beyond it, however  *)
(* often a job is tried and however wide a duration is.                    *)
(***************************************************************************)
THEOREM BackoffExact ==
  ASSUME NEW max \in 1 .. MaxDuration, NEW base \in 1 .. max, NEW attempt \in Nat \ {0}
  PROVE  /\ retryBackoff(base, max, attempt) = CutOff(DoubledExactly(base)[attempt - 1], max)
         /\ retryBackoff(base, max, attempt) \in 1 .. max
  <1>1. attempt - 1 \in Nat
    OBVIOUS
  <1>2. max \in Nat /\ base \in Nat /\ base >= 1 /\ base <= max
    BY BackoffAssumption
  <1>3. PICK g : g = DoubledExactly(base)
    OBVIOUS
  <1>4. g \in [Nat -> Nat] /\ g[0] = base /\ \A k \in Nat : g[k + 1] = 2 * g[k]
    BY <1>2, <1>3, ExactTurns
  <1>5. PICK U : U = {k \in Nat : g[k] >= 1}
    OBVIOUS
  <1>6. U = Nat
    <2>1. 0 \in U /\ \A k \in U : k + 1 \in U
      BY <1>2, <1>4, <1>5
    <2>2. QED
      BY <1>5, <2>1, AllNat
  <1>7. g[attempt - 1] \in Nat /\ g[attempt - 1] >= 1
    BY <1>1, <1>4, <1>5, <1>6
  <1>8. Doubled(base, max)[attempt - 1] = CutOff(g[attempt - 1], max)
    BY <1>1, <1>3, DoubledIsExact
  <1>9. QED
    BY <1>2, <1>3, <1>7, <1>8 DEF retryBackoff, CutOff

(***************************************************************************)
(* The retry delay, for every width of a duration: the loop's test against *)
(* half the maximum keeps each doubling within the width, so the delay     *)
(* after any attempt is the exact power cut off at the maximum.            *)
(***************************************************************************)
THEOREM BackoffAlwaysExact == Spec => []BackoffIsCappedDoubling
  <1>1. BackoffIsCappedDoubling
    <2> SUFFICES ASSUME NEW max \in 1 .. MaxDuration, NEW base \in 1 .. max,
                        NEW attempt \in 1 .. (MaxDuration + 1)
                 PROVE  retryBackoff(base, max, attempt) =
                          CutOff(DoubledExactly(base)[attempt - 1], max)
      BY DEF BackoffIsCappedDoubling
    <2>1. attempt \in Nat \ {0}
      BY BackoffAssumption
    <2>2. QED
      BY <2>1, BackoffExact
  <1>2. QED
    BY <1>1, PTL

-----------------------------------------------------------------------------
(* Every timely step is a step. *)
LEMMA TimelyStep == [TimelyNext]_vars => [Next]_vars
BY DEF TimelyNext, Next

LEMMA ClockType ==
  ASSUME TypeOK, NEW w \in Workers
  PROVE  /\ Clock(w) \in Nat \ {0}
         /\ Skew[w] \in 0..MaxSkew
         /\ Skew[w] \in Nat
BY WorkerAssumption DEF TypeOK, Clock

(* The rows a claim leaves behind: j is started once more, the jobs out of *)
(* attempts and out of lease are buried, the rest stays.                   *)
LEMMA TakeRows ==
  ASSUME TypeOK, NEW w \in Workers, NEW j \in Jobs, Take(w, j)
  PROVE  /\ job' \in [Jobs -> Row]
         /\ j \in Due(claimAt[w])
         /\ job'[j].state = "RUNNING"
         /\ job'[j].attempts = job[j].attempts + 1
         /\ job'[j].attempts \in 1..MaxAttempts
         /\ job'[j].leaseOwner = w
         /\ job'[j].leaseExpiresAt = claimAt[w] + LeaseDuration
         /\ \A k \in Jobs \ {j} :
              job'[k] = IF k \in Exhausted(claimAt[w])
                        THEN Unleased(job[k], "DEAD") ELSE job[k]
         /\ claimAt[w] \in Nat \ {0}
         /\ claimAt' = [claimAt EXCEPT ![w] = Null]
  <1> DEFINE t == claimAt[w]
             n == job[j].attempts + 1
             x == t + LeaseDuration
  <1>1. PICK locked :
          /\ j \in Candidates(t, locked)
          /\ job' = [k \in Jobs |->
                       IF k = j
                       THEN [job[k] EXCEPT !.state = "RUNNING",
                                           !.attempts = @ + 1,
                                           !.leaseOwner = w,
                                           !.leaseExpiresAt = x]
                       ELSE IF k \in Exhausted(t) THEN Unleased(job[k], "DEAD")
                       ELSE job[k]]
    BY DEF Take, ClaimTx
  <1>2. /\ t \in Nat \ {0}
        /\ claimAt' = [claimAt EXCEPT ![w] = Null]
    BY DEF Take, TypeOK, Null
  <1>3. j \in Due(t)
    BY <1>1 DEF Candidates
  <1>4. /\ job[j].attempts \in 0..MaxAttempts
        /\ job[j].attempts < MaxAttempts
    BY <1>3 DEF Due, Row, TypeOK
  <1>5. n \in 1..MaxAttempts /\ n \in 0..MaxAttempts /\ x \in Nat
    BY <1>2, <1>4, JobStoreAssumption, WorkerAssumption
  <1>6. job'[j] = [job[j] EXCEPT !.state = "RUNNING", !.attempts = n,
                                 !.leaseOwner = w, !.leaseExpiresAt = x]
    BY <1>1
  <1>7. \A k \in Jobs \ {j} :
          job'[k] = IF k \in Exhausted(t) THEN Unleased(job[k], "DEAD")
                    ELSE job[k]
    BY <1>1
  <1>8. job' = [k \in Jobs |-> job'[k]]
    BY <1>1
  <1> HIDE DEF t, n, x
  <1>9. job[j] \in Row /\ job'[j] \in Row
    <2>1. job[j] \in Row
      BY DEF TypeOK
    <2>2. QED
      BY <1>5, <1>6, <2>1 DEF Row, States
  <1>10. ASSUME NEW k \in Jobs \ {j} PROVE job'[k] \in Row
    <2>1. job[k] \in Row
      BY DEF TypeOK
    <2>2. Unleased(job[k], "DEAD") \in Row
      BY <2>1 DEF Row, States, Unleased, Null
    <2>3. QED
      BY <1>7, <2>1, <2>2
  <1>11. job' \in [Jobs -> Row]
    <2>1. \A k \in Jobs : job'[k] \in Row
      BY <1>9, <1>10
    <2>2. QED
      BY <1>8, <2>1
  <1>12. /\ job'[j].state = "RUNNING"
         /\ job'[j].attempts = n
         /\ job'[j].leaseOwner = w
         /\ job'[j].leaseExpiresAt = x
    BY <1>6, <1>9 DEF Row
  <1>13. QED
    BY <1>2, <1>3, <1>5, <1>7, <1>11, <1>12 DEF t, n, x

(* What Report does to the row of its own job and to all the others. *)
LEMMA ReportRows ==
  ASSUME TypeOK, NEW e \in running, Report(e)
  PROVE  /\ job' \in [Jobs -> Row]
         /\ \A k \in Jobs \ {e.job} : job'[k] = job[k]
         /\ \/ job'[e.job] = job[e.job]
            \/ /\ Leased(e.job, e.worker, e.opAt)
               /\ e.op = "complete"
               /\ job'[e.job] = Unleased(job[e.job], "SUCCEEDED")
            \/ /\ Leased(e.job, e.worker, e.opAt)
               /\ e.op # "complete"
               /\ job'[e.job].attempts = job[e.job].attempts
               /\ job'[e.job].leaseOwner = NoWorker
               /\ job'[e.job].leaseExpiresAt = Null
               /\ job'[e.job].state =
                    IF e.op = "terminal" \/ job[e.job].attempts >= MaxAttempts
                    THEN "DEAD" ELSE "QUEUED"
  <1> DEFINE retryAt == e.opAt + retryBackoff(RetryBase, RetryMax, e.attempt)
  <1>1. /\ e \in Execution /\ e.job \in Jobs /\ job[e.job] \in Row
        /\ retryAt \in Nat
    <2>1. /\ e \in Execution /\ e.opAt \in Nat /\ e.attempt \in Nat \ {0}
          /\ e.job \in Jobs /\ job[e.job] \in Row
      BY JobStoreAssumption DEF TypeOK, Execution
    <2>2. retryBackoff(RetryBase, RetryMax, e.attempt) \in 1 .. RetryMax
      BY <2>1, BackoffExact, WorkerAssumption
    <2>3. QED
      BY <2>1, <2>2, BackoffAssumption, WorkerAssumption
  <1>2. CASE e.op = "complete" /\ CompleteTx(e.job, e.worker, e.opAt)
    BY <1>1, <1>2 DEF CompleteTx, TypeOK, Unleased, Row, States, Null
  <1>3. CASE /\ e.op # "complete"
             /\ FailTx(e.job, e.worker, e.opAt, retryAt, e.op = "terminal")
    <2> DEFINE s == IF e.op = "terminal" \/ job[e.job].attempts >= MaxAttempts
                    THEN "DEAD" ELSE "QUEUED"
               r == [Unleased(job[e.job], s) EXCEPT
                       !.availableAt = retryAt]
    <2>1. job' = [job EXCEPT ![e.job] = r] /\ Leased(e.job, e.worker, e.opAt)
      BY <1>3 DEF FailTx
    <2>2. s \in States
      BY DEF States
    <2> HIDE DEF s, retryAt
    <2>3. /\ r \in Row
          /\ r.attempts = job[e.job].attempts
          /\ r.leaseOwner = NoWorker /\ r.leaseExpiresAt = Null
          /\ r.state = s
      BY <1>1, <2>2 DEF Unleased, Row, Null
    <2> HIDE DEF r
    <2>4. QED
      BY <1>1, <1>3, <2>1, <2>3 DEF TypeOK, s
  <1>4. CASE LeaseLostTx(e.job, e.worker, e.opAt)
    BY <1>4 DEF LeaseLostTx, TypeOK
  <1>5. QED
    BY <1>2, <1>3, <1>4 DEF Report

(***************************************************************************)
(* Type correctness: every row, execution and clock keeps its type; in     *)
(* particular no attempt beyond MaxAttempts is ever started.               *)
(***************************************************************************)
LEMMA TypeStep == TypeOK /\ [Next]_vars => TypeOK'
  <1> SUFFICES ASSUME TypeOK, [Next]_vars PROVE TypeOK'
    OBVIOUS
  <1> USE DEF procVars
  <1>1. ASSUME NEW j \in Jobs, Enqueue(j) PROVE TypeOK'
    <2>1. [AbsentRow EXCEPT !.state = "QUEUED", !.availableAt = now] \in Row
      <3>1. 0 \in 0..MaxAttempts /\ now \in Nat
        BY JobStoreAssumption DEF TypeOK
      <3>2. QED
        BY <3>1 DEF AbsentRow, Row, States, Null
    <2>2. QED
      BY <1>1, <2>1 DEF Enqueue, EnqueueTx, TypeOK
  <1>2. ASSUME NEW w \in Workers, BeginClaim(w) PROVE TypeOK'
    BY <1>2, ClockType DEF BeginClaim, TypeOK
  <1>3. ASSUME NEW w \in Workers, NEW j \in Jobs, Take(w, j)
        PROVE  /\ job' \in [Jobs -> Row]
               /\ claimAt' \in [Workers -> Nat]
               /\ job'[j].attempts \in 1..MaxAttempts
               /\ job'[j].leaseExpiresAt \in Nat
    <2>1. /\ job' \in [Jobs -> Row]
          /\ job'[j].attempts \in 1..MaxAttempts
          /\ job'[j].leaseExpiresAt = claimAt[w] + LeaseDuration
          /\ claimAt[w] \in Nat \ {0}
          /\ claimAt' = [claimAt EXCEPT ![w] = Null]
      BY <1>3, TakeRows
    <2>2. QED
      BY <2>1, WorkerAssumption DEF TypeOK, Null
  <1>4. ASSUME NEW w \in Workers, NEW j \in Jobs, Claim(w, j) PROVE TypeOK'
    <2> DEFINE e == [job |-> j, attempt |-> job'[j].attempts, worker |-> w,
                     leaseExpiresAt |-> job'[j].leaseExpiresAt,
                     deadline |-> now + JobTimeout, op |-> "none", opAt |-> Null]
    <2>1. e \in Execution
      BY <1>3, <1>4, WorkerAssumption DEF Claim, Execution, TypeOK, Null
    <2>2. running' = running \cup {e}
      BY <1>4 DEF Claim
    <2>3. QED
      BY <1>3, <1>4, <2>1, <2>2 DEF Claim, TypeOK
  <1>5. ASSUME NEW w \in Workers, NEW j \in Jobs, LoseClaim(w, j) PROVE TypeOK'
    BY <1>3, <1>5 DEF LoseClaim, TypeOK
  <1>6. ASSUME NEW w \in Workers, FindNoJob(w) \/ FailClaim(w) PROVE TypeOK'
    BY <1>6 DEF FindNoJob, FailClaim, ClaimNoneTx, TypeOK, Null
  <1>7. ASSUME NEW w \in Workers, Stop(w) \/ Exit(w) PROVE TypeOK'
    BY <1>7 DEF Stop, Exit, TypeOK, Null
  <1>8. ASSUME NEW e \in running, NEW op \in {"complete", "retry", "terminal"},
               HandlerReturns(e, op)
        PROVE  TypeOK'
    <2>1. [e EXCEPT !.op = op, !.opAt = Clock(e.worker)] \in Execution
      BY ClockType DEF TypeOK, Execution
    <2>2. verdicts' \in [Jobs -> SUBSET {"complete", "terminal"}]
      BY <1>8 DEF HandlerReturns, TypeOK, Execution
    <2>3. QED
      BY <1>8, <2>1, <2>2 DEF HandlerReturns, TypeOK
  <1>9. ASSUME NEW e \in running, HandlerTimesOut(e) PROVE TypeOK'
    <2>1. [e EXCEPT !.op = "retry", !.opAt = Clock(e.worker)] \in Execution
      BY ClockType DEF TypeOK, Execution
    <2>2. QED
      BY <1>9, <2>1 DEF HandlerTimesOut, TypeOK
  <1>10. ASSUME NEW e \in running, Defer(e) \/ LoseReport(e) PROVE TypeOK'
    BY <1>10 DEF Defer, LoseReport, TypeOK
  <1>11. ASSUME NEW e \in running, Report(e) PROVE TypeOK'
    BY <1>11, ReportRows DEF Report, TypeOK
  <1>12. CASE Tick
    BY <1>12 DEF Tick, TypeOK
  <1>13. CASE UNCHANGED vars
    BY <1>13 DEF vars, TypeOK
  <1>14. QED
    BY <1>1, <1>2, <1>4, <1>5, <1>6, <1>7, <1>8, <1>9, <1>10, <1>11, <1>12,
       <1>13 DEF Next, Step

LEMMA TypeInit == Init => TypeOK
BY JobStoreAssumption DEF Init, StoreInit, TypeOK, Row, AbsentRow, Null

THEOREM TypeCorrect == Spec => []TypeOK
  <1>1. QED
    BY TypeInit, TypeStep, PTL DEF Spec

-----------------------------------------------------------------------------
(***************************************************************************)
(* Exclusive leases.  Nothing in the code compares LeaseDuration with more *)
(* than JobTimeout; what exclusivity needs is that a lease also covers the *)
(* delay of the claim, the report and the differences between clocks.      *)
(***************************************************************************)
AmpleLease == LeaseDuration > ClaimDelay + JobTimeout + OpTimeout + MaxSkew

(* A claim in flight is at most ClaimDelay old. *)
ClaimsFresh ==
  \A w \in Workers : claimAt[w] # Null =>
    /\ claimAt[w] <= now + Skew[w]
    /\ now + Skew[w] <= claimAt[w] + ClaimDelay

(* What an execution may still take ends before its lease does.            *)
WithinLease(e) ==
  IF e.op = "none"
  THEN /\ now <= e.deadline
       /\ e.deadline + OpTimeout + MaxSkew < e.leaseExpiresAt
  ELSE /\ now + Skew[e.worker] <= e.opAt + OpTimeout
       /\ e.opAt + OpTimeout + MaxSkew < e.leaseExpiresAt + Skew[e.worker]

(* The row of an execution is the row its claim wrote. *)
OwnsRow(e) ==
  /\ job[e.job].state = "RUNNING"
  /\ job[e.job].attempts = e.attempt
  /\ job[e.job].leaseOwner = e.worker
  /\ job[e.job].leaseExpiresAt = e.leaseExpiresAt

TimelyInv ==
  /\ TypeOK
  /\ ClaimsFresh
  /\ ExclusiveLease
  /\ \A e \in running : WithinLease(e) /\ OwnsRow(e)

(* Every execution's lease has more than the clocks' differences to go. *)
LEMMA LeaseLeft ==
  ASSUME TypeOK, NEW e \in running, WithinLease(e)
  PROVE  now + MaxSkew < e.leaseExpiresAt
  <1>1. /\ e \in Execution /\ now \in Nat
        /\ Skew[e.worker] \in 0..MaxSkew /\ MaxSkew \in Nat /\ OpTimeout \in Nat
    BY WorkerAssumption DEF TypeOK, Execution
  <1>2. /\ e.deadline \in Nat /\ e.opAt \in Nat /\ e.leaseExpiresAt \in Nat
    BY <1>1 DEF Execution
  <1>3. QED
    BY <1>1, <1>2 DEF WithinLease

LEMMA TimelyInvImplies == TimelyInv => ExclusiveLease /\ LeaseHeld
  <1> SUFFICES ASSUME TimelyInv PROVE LeaseHeld
    BY DEF TimelyInv
  <1>1. ASSUME NEW e \in running PROVE now + MaxSkew < e.leaseExpiresAt
    BY LeaseLeft DEF TimelyInv
  <1>2. QED
    BY <1>1 DEF TimelyInv, LeaseHeld, OwnsRow

(* A claim takes no job that is being executed, nor buries one. *)
LEMMA HeldNotTaken ==
  ASSUME TimelyInv, NEW w \in Workers, claimAt[w] # Null, NEW e \in running
  PROVE  e.job \notin Due(claimAt[w]) /\ e.job \notin Exhausted(claimAt[w])
  <1>1. now + MaxSkew < e.leaseExpiresAt
    BY LeaseLeft DEF TimelyInv
  <1>2. /\ claimAt[w] <= now + Skew[w]
        /\ Skew[w] \in 0..MaxSkew /\ MaxSkew \in Nat
        /\ claimAt[w] \in Nat /\ now \in Nat /\ e \in Execution
    BY WorkerAssumption DEF TimelyInv, ClaimsFresh, TypeOK
  <1>3. e.leaseExpiresAt \in Nat
    BY <1>2 DEF Execution
  <1>4. claimAt[w] < e.leaseExpiresAt
    BY <1>1, <1>2, <1>3
  <1>5. /\ job[e.job].state = "RUNNING"
        /\ ~(job[e.job].leaseExpiresAt <= claimAt[w])
    BY <1>2, <1>3, <1>4 DEF TimelyInv, OwnsRow
  <1>6. QED
    BY <1>5 DEF Due, Exhausted, LeaseExpired

(* So the rows of all executions survive the claim as they are. *)
LEMMA TakeKeepsRows ==
  ASSUME TimelyInv, NEW w \in Workers, NEW j \in Jobs, Take(w, j),
         NEW e \in running
  PROVE  e.job # j /\ job'[e.job] = job[e.job]
  <1>1. claimAt[w] # Null /\ TypeOK /\ e.job \in Jobs
    BY DEF Take, TimelyInv, TypeOK, Execution
  <1>2. e.job \notin Due(claimAt[w]) /\ e.job \notin Exhausted(claimAt[w])
    BY <1>1, HeldNotTaken
  <1>3. /\ j \in Due(claimAt[w])
        /\ \A k \in Jobs \ {j} :
              job'[k] = IF k \in Exhausted(claimAt[w])
                        THEN Unleased(job[k], "DEAD") ELSE job[k]
    BY <1>1, TakeRows
  <1>4. QED
    BY <1>1, <1>2, <1>3

LEMMA TimelyInit == Init => TimelyInv
BY TypeInit DEF Init, TimelyInv, ClaimsFresh, ExclusiveLease

LEMMA TimelyInvStep ==
  ASSUME AmpleLease, TimelyInv, [TimelyNext]_vars
  PROVE  TimelyInv'
  <1> USE DEF procVars
  <1>1. TypeOK /\ TypeOK'
    BY TypeStep, TimelyStep DEF TimelyInv
  <1>2. /\ now \in Nat /\ MaxSkew \in Nat /\ OpTimeout \in Nat
        /\ JobTimeout \in Nat /\ ClaimDelay \in Nat /\ LeaseDuration \in Nat
        /\ \A w \in Workers : Skew[w] \in Nat /\ claimAt[w] \in Nat
        /\ \A e \in running : /\ e \in Execution /\ e.worker \in Workers
                             /\ e.job \in Jobs /\ e.deadline \in Nat
                             /\ e.opAt \in Nat /\ e.leaseExpiresAt \in Nat
    BY <1>1, WorkerAssumption DEF TypeOK, Execution
  (* Steps that leave clock, claims and executions alone. *)
  <1>3. ASSUME UNCHANGED <<now, claimAt, running>>,
               \A e \in running : job'[e.job] = job[e.job]
        PROVE  TimelyInv'
    <2>1. \A e \in running : WithinLease(e)' /\ OwnsRow(e)'
      BY <1>3 DEF TimelyInv, WithinLease, OwnsRow
    <2>2. QED
      BY <1>1, <1>3, <2>1 DEF TimelyInv, ClaimsFresh, ExclusiveLease
  (* Steps that only end executions or claims. *)
  <1>4. ASSUME now' = now, running' \subseteq running,
               \A w \in Workers : claimAt'[w] \in {claimAt[w], Null},
               \A e \in running' : job'[e.job] = job[e.job]
        PROVE  TimelyInv'
    <2>1. \A e \in running' : WithinLease(e)' /\ OwnsRow(e)'
      BY <1>4 DEF TimelyInv, WithinLease, OwnsRow
    <2>2. ClaimsFresh'
      BY <1>4 DEF TimelyInv, ClaimsFresh
    <2>3. QED
      BY <1>1, <1>4, <2>1, <2>2 DEF TimelyInv, ExclusiveLease
  <1>5. ASSUME NEW j \in Jobs, Enqueue(j) PROVE TimelyInv'
    <2>1. \A e \in running : e.job # j
      BY <1>5 DEF Enqueue, EnqueueTx, TimelyInv, OwnsRow
    <2>2. \A e \in running : job'[e.job] = job[e.job]
      BY <1>1, <1>2, <1>5, <2>1 DEF Enqueue, EnqueueTx, TypeOK
    <2>3. QED
      BY <1>3, <1>5, <2>2 DEF Enqueue
  <1>6. ASSUME NEW w \in Workers, BeginClaim(w) PROVE TimelyInv'
    <2>1. ClaimsFresh'
      BY <1>1, <1>2, <1>6 DEF BeginClaim, Clock, ClaimsFresh, TimelyInv, TypeOK
    <2>2. \A e \in running' : WithinLease(e)' /\ OwnsRow(e)'
      BY <1>6 DEF BeginClaim, TimelyInv, WithinLease, OwnsRow
    <2>3. QED
      BY <1>1, <1>6, <2>1, <2>2 DEF BeginClaim, TimelyInv, ExclusiveLease
  <1>7. ASSUME NEW w \in Workers, NEW j \in Jobs, Claim(w, j) PROVE TimelyInv'
    <2> PICK d : d = [job |-> j, attempt |-> job'[j].attempts, worker |-> w,
                      leaseExpiresAt |-> job'[j].leaseExpiresAt,
                      deadline |-> now + JobTimeout, op |-> "none", opAt |-> Null]
      OBVIOUS
    <2>1. Take(w, j) /\ running' = running \cup {d} /\ now' = now
      BY <1>7 DEF Claim
    <2>2. \A e \in running : e.job # j /\ job'[e.job] = job[e.job]
      BY <2>1, TakeKeepsRows
    <2>3. /\ claimAt[w] # Null
          /\ job'[j].state = "RUNNING" /\ job'[j].leaseOwner = w
          /\ job'[j].leaseExpiresAt = claimAt[w] + LeaseDuration
          /\ claimAt' = [claimAt EXCEPT ![w] = Null]
      BY <1>1, <2>1, TakeRows DEF Take
    <2>4. now + Skew[w] <= claimAt[w] + ClaimDelay
      BY <2>3 DEF TimelyInv, ClaimsFresh
    <2>5. now + JobTimeout + OpTimeout + MaxSkew < claimAt[w] + LeaseDuration
      BY <1>2, <2>4 DEF AmpleLease
    <2>6. WithinLease(d)' /\ OwnsRow(d)'
      BY <1>2, <2>1, <2>3, <2>5 DEF WithinLease, OwnsRow
    <2>7. \A e \in running : WithinLease(e)' /\ OwnsRow(e)'
      BY <2>1, <2>2 DEF TimelyInv, WithinLease, OwnsRow
    <2>8. ClaimsFresh'
      BY <1>1, <2>1, <2>3 DEF TimelyInv, ClaimsFresh, TypeOK
    <2>9. ExclusiveLease'
      BY <2>1, <2>2 DEF TimelyInv, ExclusiveLease
    <2>10. QED
      BY <1>1, <2>1, <2>6, <2>7, <2>8, <2>9 DEF TimelyInv
  <1>8. ASSUME NEW w \in Workers, NEW j \in Jobs, LoseClaim(w, j) PROVE TimelyInv'
    <2>1. Take(w, j) /\ running' = running /\ now' = now
      BY <1>8 DEF LoseClaim
    <2>2. \A e \in running : job'[e.job] = job[e.job]
      BY <2>1, TakeKeepsRows
    <2>3. \A v \in Workers : claimAt'[v] \in {claimAt[v], Null}
      BY <1>1, <2>1, TakeRows DEF TypeOK
    <2>4. QED
      BY <1>4, <2>1, <2>2, <2>3
  <1>9. ASSUME NEW w \in Workers, FindNoJob(w) \/ FailClaim(w) PROVE TimelyInv'
    <2>1. /\ UNCHANGED <<job, now, running>>
          /\ \A v \in Workers : claimAt'[v] \in {claimAt[v], Null}
      BY <1>1, <1>9 DEF FindNoJob, FailClaim, ClaimNoneTx, TypeOK
    <2>2. QED
      BY <1>4, <2>1
  <1>10. ASSUME NEW w \in Workers, Stop(w) PROVE TimelyInv'
    BY <1>3, <1>10 DEF Stop
  <1>11. ASSUME NEW w \in Workers, Exit(w) PROVE TimelyInv'
    <2>1. /\ UNCHANGED <<job, now>>
          /\ running' \subseteq running
          /\ \A v \in Workers : claimAt'[v] \in {claimAt[v], Null}
      BY <1>1, <1>11 DEF Exit, TypeOK
    <2>2. QED
      BY <1>4, <2>1
  (* A handler returns, or its context ends: the report is sampled now. *)
  <1>12. ASSUME NEW e \in running, e.op = "none", now <= e.deadline,
                NEW op \in {"complete", "retry", "terminal"},
                running' = (running \ {e}) \cup
                             {[e EXCEPT !.op = op, !.opAt = Clock(e.worker)]},
                UNCHANGED <<job, now, claimAt>>
         PROVE  TimelyInv'
    <2> PICK d : d = [e EXCEPT !.op = op, !.opAt = Clock(e.worker)]
      OBVIOUS
    <2>1. /\ d.job = e.job /\ d.worker = e.worker /\ d.attempt = e.attempt
          /\ d.leaseExpiresAt = e.leaseExpiresAt /\ d.op = op
          /\ d.opAt = now + Skew[e.worker]
      BY <1>2 DEF Execution, Clock
    <2>2. e.deadline + OpTimeout + MaxSkew < e.leaseExpiresAt
      BY <1>12 DEF TimelyInv, WithinLease
    <2>3. WithinLease(d)'
      BY <1>2, <1>12, <2>1, <2>2 DEF WithinLease
    <2>4. OwnsRow(d)'
      BY <1>12, <2>1 DEF TimelyInv, OwnsRow
    <2>5. \A f \in running : WithinLease(f)' /\ OwnsRow(f)'
      BY <1>12 DEF TimelyInv, WithinLease, OwnsRow
    <2>6. \A f \in running \ {e} : f.job # d.job
      BY <2>1 DEF TimelyInv, ExclusiveLease
    <2>7. ExclusiveLease'
      BY <1>12, <2>6 DEF TimelyInv, ExclusiveLease
    <2>8. ClaimsFresh'
      BY <1>12 DEF TimelyInv, ClaimsFresh
    <2>9. QED
      BY <1>1, <1>12, <2>3, <2>4, <2>5, <2>7, <2>8 DEF TimelyInv
  <1>13. ASSUME NEW e \in running, NEW op \in {"complete", "retry", "terminal"},
                HandlerReturns(e, op)
         PROVE  TimelyInv'
    <2>1. /\ e.op = "none" /\ now <= e.deadline
          /\ running' = (running \ {e}) \cup
                           {[e EXCEPT !.op = op, !.opAt = Clock(e.worker)]}
          /\ UNCHANGED <<job, now, claimAt>>
      BY <1>2, <1>13 DEF HandlerReturns
    <2>2. QED
      BY <1>12, <2>1
  <1>14. ASSUME NEW e \in running, HandlerTimesOut(e) PROVE TimelyInv'
    <2>1. e.op = "none" /\ now <= e.deadline
      BY <1>14 DEF HandlerTimesOut, TimelyInv, WithinLease
    <2>2. QED
      BY <1>12, <1>14, <2>1 DEF HandlerTimesOut
  <1>15. ASSUME NEW e \in running, Defer(e) \/ LoseReport(e) PROVE TimelyInv'
    BY <1>4, <1>15 DEF Defer, LoseReport
  <1>16. ASSUME NEW e \in running, Report(e) PROVE TimelyInv'
    <2>1. /\ UNCHANGED <<now, claimAt>>
          /\ running' = running \ {e}
      BY <1>16 DEF Report
    <2>2. \A f \in running \ {e} : f.job # e.job
      BY DEF TimelyInv, ExclusiveLease
    <2>3. \A k \in Jobs \ {e.job} : job'[k] = job[k]
      BY <1>1, <1>16, ReportRows
    <2>4. QED
      BY <1>2, <1>4, <2>1, <2>2, <2>3
  <1>17. CASE OnTime /\ Tick
    <2>1. now' = now + 1 /\ UNCHANGED <<job, claimAt, running>>
      BY <1>17 DEF Tick
    <2>2. ClaimsFresh'
      BY <1>2, <1>17, <2>1 DEF OnTime, TimelyInv, ClaimsFresh
    <2>3. ASSUME NEW e \in running PROVE WithinLease(e)' /\ OwnsRow(e)'
      <3>1. WithinLease(e)'
        BY <1>2, <1>17, <2>1 DEF OnTime, TimelyInv, WithinLease
      <3>2. QED
        BY <2>1, <3>1 DEF TimelyInv, OwnsRow
    <2>4. QED
      BY <1>1, <2>1, <2>2, <2>3 DEF TimelyInv, ExclusiveLease
  <1>18. CASE UNCHANGED vars
    BY <1>3, <1>18 DEF vars
  <1>19. QED
    BY <1>5, <1>6, <1>7, <1>8, <1>9, <1>10, <1>11, <1>13, <1>14, <1>15, <1>16,
       <1>17, <1>18 DEF TimelyNext, Step

(***************************************************************************)
(* With an ample lease and timers that fire on time, no two executions of  *)
(* one job ever overlap, and an execution holds its lease until its report *)
(* is settled: every report is accepted.                                   *)
(***************************************************************************)
THEOREM LeasesExclusive ==
  ASSUME AmpleLease
  PROVE  TimelySpec => [](ExclusiveLease /\ LeaseHeld)
  <1>1. TimelyInv /\ [TimelyNext]_vars => TimelyInv'
    BY TimelyInvStep
  <1>2. QED
    BY <1>1, TimelyInit, TimelyInvImplies, PTL DEF TimelySpec

(* The second half of it, for a reader of LeaseHeld alone. *)
THEOREM LeasesStayHeld ==
  ASSUME AmpleLease
  PROVE  TimelySpec => []LeaseHeld
BY LeasesExclusive, PTL

(* Every report under way will be accepted: its worker's lease on the row  *)
(* runs beyond the moment the report was sampled at.                       *)
ReportsAccepted ==
  \A e \in running : e.op # "none" => Leased(e.job, e.worker, e.opAt)

(***************************************************************************)
(* With an ample lease no report is refused, and none settles an attempt   *)
(* that is not its own, whatever the number of slots in a process: the     *)
(* comparison of the worker alone is then enough.                          *)
(***************************************************************************)
THEOREM TimelyReportsSettleOwnAttempt ==
  ASSUME AmpleLease
  PROVE  TimelySpec => [](ReportsAccepted /\ ReportsOwnAttempt)
  <1>1. TimelyInv /\ [TimelyNext]_vars => TimelyInv'
    BY TimelyInvStep
  <1>2. TimelyInv => ReportsAccepted
    <2> SUFFICES ASSUME TimelyInv, NEW e \in running, e.op # "none"
                 PROVE  Leased(e.job, e.worker, e.opAt)
      BY DEF ReportsAccepted
    <2>1. /\ e \in Execution /\ OpTimeout \in Nat /\ MaxSkew \in Nat
          /\ Skew[e.worker] \in 0 .. MaxSkew
      BY WorkerAssumption DEF TimelyInv, TypeOK, Execution
    <2>2. e.opAt \in Nat /\ e.leaseExpiresAt \in Nat
      BY <2>1 DEF Execution
    <2>3. e.opAt + OpTimeout + MaxSkew < e.leaseExpiresAt + Skew[e.worker]
      BY DEF TimelyInv, WithinLease
    <2>4. e.leaseExpiresAt > e.opAt
      BY <2>1, <2>2, <2>3
    <2>5. QED
      BY <2>4 DEF TimelyInv, OwnsRow, Leased
  <1>3. TimelyInv => ReportsOwnAttempt
    BY DEF TimelyInv, OwnsRow, ReportsOwnAttempt
  <1>4. QED
    BY <1>1, <1>2, <1>3, TimelyInit, PTL DEF TimelySpec

-----------------------------------------------------------------------------
(* A process that runs one job at a time has one execution or one claim    *)
(* under way, never both; and a row it holds a lease on is that of its     *)
(* execution's own attempt, or of an attempt it does not know it has.      *)
OneSlotInv ==
  /\ TypeOK
  /\ \A e, f \in running : e.worker = f.worker => e = f
  /\ \A e \in running : claimAt[e.worker] = Null
  /\ \A e \in running :
       job[e.job].state = "RUNNING" /\ job[e.job].leaseOwner = e.worker =>
         e.attempt = job[e.job].attempts

(* An empty slot: below a MaxConcurrency of one, nothing runs. *)
LEMMA FreeSlot ==
  ASSUME MaxConcurrency = 1, OneSlotInv, NEW w \in Workers,
         Cardinality(Active(w)) < MaxConcurrency
  PROVE  \A e \in running : e.worker # w
  <1> SUFFICES ASSUME NEW e \in running, e.worker = w PROVE FALSE
    OBVIOUS
  <1>1. Active(w) = {e}
    BY DEF Active, OneSlotInv
  <1>2. Cardinality({e}) = 1
    BY FS_Singleton
  <1>3. QED
    BY <1>1, <1>2

(* Whatever a claim takes or buries, executions of other processes keep    *)
(* their rows or lose them for good.                                       *)
LEMMA OneSlotTake ==
  ASSUME OneSlotInv, NEW w \in Workers, NEW j \in Jobs, Take(w, j)
  PROVE  /\ \A e \in running : e.worker # w
         /\ \A e \in running : claimAt'[e.worker] = Null
         /\ \A e \in running :
              job'[e.job].state = "RUNNING" /\ job'[e.job].leaseOwner = e.worker =>
                e.attempt = job'[e.job].attempts
  <1>1. /\ job'[j].leaseOwner = w /\ claimAt' = [claimAt EXCEPT ![w] = Null]
        /\ \A k \in Jobs \ {j} :
             job'[k] = IF k \in Exhausted(claimAt[w])
                       THEN Unleased(job[k], "DEAD") ELSE job[k]
    BY TakeRows DEF OneSlotInv
  <1>2. claimAt[w] # Null /\ claimAt \in [Workers -> Nat] /\ job \in [Jobs -> Row]
    BY DEF Take, OneSlotInv, TypeOK
  <1>3. ASSUME NEW e \in running PROVE e.worker # w /\ e.worker \in Workers /\ e.job \in Jobs
    BY <1>2 DEF OneSlotInv, TypeOK, Execution
  <1>4. ASSUME NEW e \in running, job'[e.job].state = "RUNNING",
               job'[e.job].leaseOwner = e.worker
        PROVE  e.attempt = job'[e.job].attempts
    <2>1. e.job # j
      BY <1>1, <1>3, <1>4
    <2>2. Unleased(job[e.job], "DEAD").state = "DEAD"
      BY <1>2, <1>3 DEF Unleased, Row
    <2>3. job'[e.job] = job[e.job]
      BY <1>1, <1>3, <1>4, <2>1, <2>2
    <2>4. QED
      BY <1>4, <2>3 DEF OneSlotInv
  <1>5. \A e \in running : claimAt'[e.worker] = Null
    BY <1>1, <1>2, <1>3 DEF OneSlotInv
  <1>6. QED
    BY <1>3, <1>4, <1>5

LEMMA OneSlotStep ==
  ASSUME MaxConcurrency = 1
  PROVE  OneSlotInv /\ [Next]_vars => OneSlotInv'
  <1> SUFFICES ASSUME OneSlotInv, [Next]_vars PROVE OneSlotInv'
    OBVIOUS
  <1> USE DEF procVars
  <1>1. TypeOK /\ TypeOK'
    BY TypeStep DEF OneSlotInv
  <1>2. \A e \in running : e \in Execution /\ e.worker \in Workers /\ e.job \in Jobs
    BY <1>1 DEF TypeOK, Execution
  (* Steps that end executions or claims and start none. *)
  <1>3. ASSUME running' \subseteq running,
               \A w \in Workers : claimAt'[w] \in {claimAt[w], Null},
               \A e \in running' :
                 job'[e.job] = job[e.job] \/ job'[e.job].state # "RUNNING"
        PROVE  OneSlotInv'
    BY <1>1, <1>2, <1>3 DEF OneSlotInv
  <1>4. ASSUME NEW j \in Jobs, Enqueue(j) PROVE OneSlotInv'
    <2>1. /\ UNCHANGED <<claimAt, running>>
          /\ job' = [job EXCEPT ![j] = [AbsentRow EXCEPT !.state = "QUEUED",
                                                         !.availableAt = now]]
      BY <1>4 DEF Enqueue, EnqueueTx
    <2>2. job'[j].state = "QUEUED" /\ \A k \in Jobs \ {j} : job'[k] = job[k]
      BY <1>1, <2>1 DEF TypeOK, AbsentRow
    <2>3. QED
      BY <1>2, <1>3, <2>1, <2>2
  <1>5. ASSUME NEW w \in Workers, BeginClaim(w) PROVE OneSlotInv'
    <2>1. /\ UNCHANGED <<job, running>>
          /\ claimAt' = [claimAt EXCEPT ![w] = Clock(w)]
          /\ Cardinality(Active(w)) < MaxConcurrency
      BY <1>5 DEF BeginClaim
    <2>2. \A e \in running : e.worker # w
      BY <2>1, FreeSlot
    <2>3. \A e \in running : claimAt'[e.worker] = claimAt[e.worker]
      BY <1>1, <1>2, <2>1, <2>2 DEF TypeOK
    <2>4. QED
      BY <1>1, <2>1, <2>3 DEF OneSlotInv
  <1>6. ASSUME NEW w \in Workers, NEW j \in Jobs, Claim(w, j) PROVE OneSlotInv'
    <2> PICK d : d = [job |-> j, attempt |-> job'[j].attempts, worker |-> w,
                      leaseExpiresAt |-> job'[j].leaseExpiresAt,
                      deadline |-> now + JobTimeout, op |-> "none", opAt |-> Null]
      OBVIOUS
    <2>1. Take(w, j) /\ running' = running \cup {d}
      BY <1>6 DEF Claim
    <2>2. d.job = j /\ d.attempt = job'[j].attempts /\ d.worker = w
      OBVIOUS
    <2>3. /\ \A e \in running : e.worker # w
          /\ \A e \in running : claimAt'[e.worker] = Null
          /\ \A e \in running :
               job'[e.job].state = "RUNNING" /\ job'[e.job].leaseOwner = e.worker =>
                 e.attempt = job'[e.job].attempts
      BY <2>1, OneSlotTake
    <2>4. claimAt'[w] = Null
      BY <1>1, <2>1 DEF Take, TypeOK
    <2>5. QED
      BY <1>1, <2>1, <2>2, <2>3, <2>4 DEF OneSlotInv
  <1>7. ASSUME NEW w \in Workers, NEW j \in Jobs, LoseClaim(w, j) PROVE OneSlotInv'
    <2>1. Take(w, j) /\ running' = running
      BY <1>7 DEF LoseClaim
    <2>2. QED
      BY <1>1, <2>1, OneSlotTake DEF OneSlotInv
  <1>8. ASSUME NEW w \in Workers, FindNoJob(w) \/ FailClaim(w) \/ Stop(w) \/ Exit(w)
        PROVE  OneSlotInv'
    <2>1. running' \subseteq running /\ job' = job
      BY <1>8 DEF FindNoJob, FailClaim, Stop, Exit, ClaimNoneTx
    <2>2. \A v \in Workers : claimAt'[v] \in {claimAt[v], Null}
      BY <1>1, <1>8 DEF FindNoJob, FailClaim, Stop, Exit, TypeOK
    <2>3. QED
      BY <1>3, <2>1, <2>2
  <1>9. ASSUME NEW e \in running, NEW op,
               running' = (running \ {e}) \cup
                            {[e EXCEPT !.op = op, !.opAt = Clock(e.worker)]},
               UNCHANGED <<job, claimAt>>
        PROVE  OneSlotInv'
    <2> PICK d : d = [e EXCEPT !.op = op, !.opAt = Clock(e.worker)]
      OBVIOUS
    <2>1. d.job = e.job /\ d.worker = e.worker /\ d.attempt = e.attempt
      BY <1>2 DEF Execution
    <2>2. running' = (running \ {e}) \cup {d}
      BY <1>9
    <2>3. QED
      BY <1>1, <1>9, <2>1, <2>2 DEF OneSlotInv
  <1>10. ASSUME NEW e \in running, Report(e) PROVE OneSlotInv'
    <2>1. claimAt' = claimAt /\ running' \subseteq running
      BY <1>10 DEF Report
    <2>2. /\ \A k \in Jobs \ {e.job} : job'[k] = job[k]
          /\ \/ job'[e.job] = job[e.job]
             \/ job'[e.job] = Unleased(job[e.job], "SUCCEEDED")
             \/ job'[e.job].state \in {"DEAD", "QUEUED"}
      BY <1>1, <1>10, ReportRows
    <2>3. Unleased(job[e.job], "SUCCEEDED").state # "RUNNING"
      BY <1>1, <1>2 DEF Unleased, TypeOK, Row
    <2>4. QED
      BY <1>2, <1>3, <2>1, <2>2, <2>3
  <1>11. ASSUME NEW e \in running, Defer(e) \/ LoseReport(e) PROVE OneSlotInv'
    BY <1>3, <1>11 DEF Defer, LoseReport
  <1>12. CASE Tick \/ UNCHANGED vars
    BY <1>3, <1>12 DEF Tick, vars
  <1>13. ASSUME NEW e \in running, HandlerTimesOut(e) PROVE OneSlotInv'
    BY <1>9, <1>13 DEF HandlerTimesOut
  <1>14. ASSUME NEW e \in running, NEW op, HandlerReturns(e, op) PROVE OneSlotInv'
    BY <1>9, <1>14 DEF HandlerReturns
  <1>15. QED
    BY <1>4, <1>5, <1>6, <1>7, <1>8, <1>10, <1>11, <1>12, <1>13, <1>14
       DEF Next, Step

(***************************************************************************)
(* Complete and Fail compare the worker, not the attempt; with one slot in *)
(* each process that is enough, however long anything is paused: a report  *)
(* the database accepts is that of the attempt it settles.                 *)
(***************************************************************************)
THEOREM ReportsSettleOwnAttempt ==
  ASSUME MaxConcurrency = 1
  PROVE  Spec => []ReportsOwnAttempt
  <1>1. Init => OneSlotInv
    BY TypeInit DEF Init, OneSlotInv
  <1>2. OneSlotInv => ReportsOwnAttempt
    BY DEF OneSlotInv, ReportsOwnAttempt, Leased
  <1>3. QED
    BY <1>1, <1>2, OneSlotStep, PTL DEF Spec

-----------------------------------------------------------------------------
(***************************************************************************)
(* What a step does to one row, whatever the timing.  The four ways in     *)
(* which a row can change are all the later theorems need.                 *)
(***************************************************************************)
Started(j) ==
  /\ job[j].state \in {"QUEUED", "RUNNING"} /\ job'[j].state = "RUNNING"
  /\ job[j].attempts < MaxAttempts
  /\ job'[j].attempts = job[j].attempts + 1

Buried(j) ==
  /\ job[j].state = "RUNNING" /\ job'[j].state = "DEAD"
  /\ job[j].attempts = MaxAttempts
  /\ job'[j].attempts = job[j].attempts

Reported(j, e) ==
  /\ job[j].state = "RUNNING"
  /\ job'[j].attempts = job[j].attempts
  /\ \/ e.op = "complete" /\ job'[j].state = "SUCCEEDED"
     \/ e.op = "terminal" /\ job'[j].state = "DEAD"
     \/ job[j].attempts = MaxAttempts /\ job'[j].state = "DEAD"
     \/ job[j].attempts < MaxAttempts /\ job'[j].state = "QUEUED"

LEMMA TakeStep ==
  ASSUME TypeOK, NEW w \in Workers, NEW j \in Jobs, Take(w, j)
  PROVE  /\ job' \in [Jobs -> Row]
         /\ Started(j)
         /\ \A k \in Jobs \ {j} : job'[k] = job[k] \/ Buried(k)
  <1>1. j \in Due(claimAt[w])
    BY TakeRows
  <1>2. job[j].state \in {"QUEUED", "RUNNING"} /\ job[j].attempts < MaxAttempts
    BY <1>1 DEF Due, LeaseExpired
  <1>3. Started(j) /\ job' \in [Jobs -> Row]
    BY <1>2, TakeRows DEF Started
  <1>4. ASSUME NEW k \in Jobs \ {j} PROVE job'[k] = job[k] \/ Buried(k)
    <2>1. job'[k] = IF k \in Exhausted(claimAt[w])
                    THEN Unleased(job[k], "DEAD") ELSE job[k]
      BY TakeRows
    <2>2. CASE k \in Exhausted(claimAt[w])
      <3>1. job[k] \in Row /\ job[k].attempts >= MaxAttempts
            /\ job[k].state = "RUNNING"
        BY <2>2 DEF Exhausted, LeaseExpired, TypeOK
      <3>2. job[k].attempts = MaxAttempts
        BY <3>1, JobStoreAssumption DEF Row
      <3>3. job'[k] = Unleased(job[k], "DEAD")
        BY <2>1, <2>2
      <3>4. QED
        BY <3>1, <3>2, <3>3 DEF Unleased, Row, Buried
    <2>3. QED
      BY <2>1, <2>2
  <1>5. QED
    BY <1>3, <1>4

LEMMA ReportStep ==
  ASSUME TypeOK, NEW e \in running, Report(e)
  PROVE  /\ job' \in [Jobs -> Row]
         /\ job'[e.job] = job[e.job] \/ Reported(e.job, e)
         /\ \A k \in Jobs \ {e.job} : job'[k] = job[k]
  <1>1. /\ e \in Execution /\ e.job \in Jobs /\ job[e.job] \in Row
        /\ job[e.job].attempts \in 0..MaxAttempts /\ MaxAttempts \in Nat
    BY JobStoreAssumption DEF TypeOK, Execution, Row
  <1>2. CASE /\ Leased(e.job, e.worker, e.opAt)
             /\ e.op = "complete"
             /\ job'[e.job] = Unleased(job[e.job], "SUCCEEDED")
    <2>1. /\ job'[e.job].state = "SUCCEEDED"
          /\ job'[e.job].attempts = job[e.job].attempts
      BY <1>1, <1>2 DEF Unleased, Row
    <2>2. QED
      BY <1>2, <2>1, ReportRows DEF Reported, Leased
  <1>3. CASE /\ Leased(e.job, e.worker, e.opAt)
             /\ e.op # "complete"
             /\ job'[e.job].attempts = job[e.job].attempts
             /\ job'[e.job].state =
                  IF e.op = "terminal" \/ job[e.job].attempts >= MaxAttempts
                  THEN "DEAD" ELSE "QUEUED"
    <2>1. Reported(e.job, e)
      BY <1>1, <1>3 DEF Reported, Leased
    <2>2. QED
      BY <2>1, ReportRows
  <1>4. QED
    BY <1>2, <1>3, ReportRows

-----------------------------------------------------------------------------
(* A report under way says what a handler returned. *)
VerdictInv ==
  /\ TypeOK
  /\ VerdictEarned
  /\ \A e \in running :
       e.op \in {"complete", "terminal"} => e.op \in verdicts[e.job]

LEMMA VerdictInit == Init => VerdictInv
BY TypeInit DEF Init, StoreInit, AbsentRow, VerdictInv, VerdictEarned

LEMMA VerdictStep == VerdictInv /\ [Next]_vars => VerdictInv'
  <1> SUFFICES ASSUME VerdictInv, [Next]_vars PROVE VerdictInv'
    OBVIOUS
  <1> USE DEF procVars
  <1>1. TypeOK /\ TypeOK'
    BY TypeStep DEF VerdictInv
  (* Steps that record no verdict and end none. *)
  <1>2. ASSUME verdicts' = verdicts, VerdictEarned',
               \A e \in running' : e \in running \/ e.op \notin {"complete", "terminal"}
        PROVE  VerdictInv'
    BY <1>1, <1>2 DEF VerdictInv
  <1>3. ASSUME UNCHANGED <<job, verdicts>> PROVE VerdictEarned'
    BY <1>3 DEF VerdictInv, VerdictEarned
  <1>4. ASSUME NEW j \in Jobs, Enqueue(j) PROVE VerdictInv'
    <2>1. VerdictEarned'
      BY <1>1, <1>4 DEF Enqueue, EnqueueTx, AbsentRow, VerdictInv, VerdictEarned,
                        TypeOK
    <2>2. QED
      BY <1>2, <1>4, <2>1 DEF Enqueue
  <1>5. ASSUME NEW w \in Workers, NEW j \in Jobs, Take(w, j), verdicts' = verdicts
        PROVE  VerdictEarned'
    BY <1>1, <1>5, TakeStep DEF Started, Buried, VerdictInv, VerdictEarned
  <1>6. ASSUME NEW w \in Workers, NEW j \in Jobs, Claim(w, j) \/ LoseClaim(w, j)
        PROVE  VerdictInv'
    BY <1>2, <1>5, <1>6 DEF Claim, LoseClaim
  <1>7. ASSUME NEW w \in Workers,
               \/ BeginClaim(w) \/ FindNoJob(w) \/ FailClaim(w)
               \/ Stop(w) \/ Exit(w)
        PROVE  VerdictInv'
    BY <1>2, <1>3, <1>7
       DEF BeginClaim, FindNoJob, ClaimNoneTx, FailClaim, Stop, Exit
  <1>8. ASSUME NEW e \in running, NEW op \in {"complete", "retry", "terminal"},
               HandlerReturns(e, op)
        PROVE  VerdictInv'
    <2>1. e.job \in Jobs /\ e \in Execution
      BY <1>1 DEF TypeOK, Execution
    <2>2. /\ \A j \in Jobs : verdicts[j] \subseteq verdicts'[j]
          /\ op # "retry" => op \in verdicts'[e.job]
      BY <1>1, <1>8, <2>1 DEF HandlerReturns, TypeOK
    <2>3. VerdictEarned'
      BY <1>8, <2>2 DEF HandlerReturns, VerdictInv, VerdictEarned
    <2> PICK d : d = [e EXCEPT !.op = op, !.opAt = Clock(e.worker)]
      OBVIOUS
    <2>4. d.op = op /\ d.job = e.job
      BY <2>1 DEF Execution
    <2>5. running' = (running \ {e}) \cup {d}
      BY <1>8 DEF HandlerReturns
    <2>6. \A f \in running : f.job \in Jobs
      BY <1>1 DEF TypeOK, Execution
    <2>7. QED
      BY <1>1, <2>2, <2>3, <2>4, <2>5, <2>6 DEF VerdictInv
  <1>9. ASSUME NEW e \in running, HandlerTimesOut(e) PROVE VerdictInv'
    <2>1. [e EXCEPT !.op = "retry", !.opAt = Clock(e.worker)].op = "retry"
      BY <1>1 DEF TypeOK, Execution
    <2>2. QED
      BY <1>2, <1>3, <1>9, <2>1 DEF HandlerTimesOut
  <1>10. ASSUME NEW e \in running, Defer(e) \/ LoseReport(e) PROVE VerdictInv'
    BY <1>2, <1>3, <1>10 DEF Defer, LoseReport
  <1>11. ASSUME NEW e \in running, Report(e) PROVE VerdictInv'
    <2>1. verdicts' = verdicts /\ running' = running \ {e}
      BY <1>11 DEF Report
    <2>2. e.job \in Jobs
      BY <1>1 DEF TypeOK, Execution
    <2>3. VerdictEarned'
      BY <1>1, <1>11, <2>1, <2>2, ReportStep
         DEF Reported, VerdictInv, VerdictEarned
    <2>4. QED
      BY <1>2, <2>1, <2>3
  <1>12. CASE Tick
    BY <1>2, <1>3, <1>12 DEF Tick
  <1>13. CASE UNCHANGED vars
    BY <1>2, <1>3, <1>13 DEF vars
  <1>14. QED
    BY <1>4, <1>6, <1>7, <1>8, <1>9, <1>10, <1>11, <1>12, <1>13 DEF Next, Step

(***************************************************************************)
(* However late timers fire and whatever processes die, SUCCEEDED means    *)
(* that a handler succeeded, and DEAD that one failed for good or that the *)
(* attempts are used up.                                                   *)
(***************************************************************************)
THEOREM VerdictsEarned == Spec => []VerdictEarned
  <1>1. VerdictInv => VerdictEarned
    BY DEF VerdictInv
  <1>2. QED
    BY <1>1, VerdictInit, VerdictStep, PTL DEF Spec

-----------------------------------------------------------------------------
(***************************************************************************)
(* The table behaves like the abstract life cycle.                         *)
(***************************************************************************)
LEMMA LifecycleInit == Init => Lifecycle!Init
BY DEF Init, StoreInit, AbsentRow, Lifecycle!Init

(* A step that keeps every row is a stutter of the life cycle. *)
LEMMA LifecycleStutter == job' = job => UNCHANGED Lifecycle!vars
BY DEF Lifecycle!vars

LEMMA LifecycleStep == TypeOK /\ [Next]_vars => [Lifecycle!Next]_Lifecycle!vars
  <1> SUFFICES ASSUME TypeOK, [Next]_vars
               PROVE  Lifecycle!Next \/ job' = job
    BY LifecycleStutter
  <1> USE DEF procVars
  <1>1. ASSUME NEW j \in Jobs, Enqueue(j) PROVE Lifecycle!Next
    <2>1. /\ job[j].state = "ABSENT" /\ job'[j].state = "QUEUED"
          /\ job'[j].attempts = 0
          /\ \A k \in Jobs \ {j} : job'[k] = job[k]
      BY <1>1 DEF Enqueue, EnqueueTx, AbsentRow, TypeOK
    <2>2. Lifecycle!Enqueue(j) /\ ~Lifecycle!Start(j)
      BY <2>1 DEF Lifecycle!Enqueue, Lifecycle!Start
    <2>3. \A k \in Jobs : job[k].attempts \in Nat
      BY JobStoreAssumption DEF TypeOK, Row
    <2>4. \A k \in Jobs \ {j} : Lifecycle!Stay(k) /\ ~Lifecycle!Start(k)
      BY <2>1, <2>3 DEF Lifecycle!Stay, Lifecycle!Start
    <2>5. QED
      BY <2>2, <2>4 DEF Lifecycle!Next
  <1>2. ASSUME NEW w \in Workers, NEW j \in Jobs, Take(w, j)
        PROVE  Lifecycle!Next
    <2>1. /\ Started(j)
          /\ \A k \in Jobs \ {j} : job'[k] = job[k] \/ Buried(k)
      BY <1>2, TakeStep
    <2>2. \A k \in Jobs : job[k].attempts \in Nat
      BY JobStoreAssumption DEF TypeOK, Row
    <2>3. \A k \in Jobs \ {j} : Lifecycle!Stay(k) \/ Lifecycle!Die(k)
      BY <2>1 DEF Buried, Lifecycle!Stay, Lifecycle!Die
    <2>4. Lifecycle!Start(j)
      BY <2>1 DEF Started, Lifecycle!Start
    <2>5. \A k \in Jobs \ {j} : ~Lifecycle!Start(k)
      BY <2>1, <2>2 DEF Buried, Lifecycle!Start
    <2>6. QED
      BY <2>3, <2>4, <2>5 DEF Lifecycle!Next
  <1>3. ASSUME NEW e \in running, Report(e) PROVE Lifecycle!Next \/ job' = job
    <2>1. /\ e.job \in Jobs
          /\ job' \in [Jobs -> Row] /\ job \in [Jobs -> Row]
          /\ job'[e.job] = job[e.job] \/ Reported(e.job, e)
          /\ \A k \in Jobs \ {e.job} : job'[k] = job[k]
      BY <1>3, ReportStep DEF TypeOK, Execution
    <2>2. CASE job'[e.job] = job[e.job]
      BY <2>1, <2>2
    <2>3. CASE Reported(e.job, e)
      <3>1. \A k \in Jobs : job[k].attempts \in Nat
        BY JobStoreAssumption DEF TypeOK, Row
      <3>2. \/ Lifecycle!Succeed(e.job) \/ Lifecycle!Requeue(e.job)
            \/ Lifecycle!Die(e.job)
        BY <2>1, <2>3 DEF Reported, Lifecycle!Succeed, Lifecycle!Requeue,
                          Lifecycle!Die
      <3>3. \A k \in Jobs \ {e.job} : Lifecycle!Stay(k)
        BY <2>1 DEF Lifecycle!Stay
      <3>4. \A k \in Jobs : ~Lifecycle!Start(k)
        BY <2>1, <2>3, <3>1 DEF Reported, Lifecycle!Start
      <3>5. QED
        BY <3>2, <3>3, <3>4 DEF Lifecycle!Next
    <2>4. QED
      BY <2>1, <2>2, <2>3
  <1>4. ASSUME NEW w \in Workers,
               \/ BeginClaim(w) \/ FindNoJob(w) \/ FailClaim(w)
               \/ Stop(w) \/ Exit(w)
        PROVE  job' = job
    BY <1>4 DEF BeginClaim, FindNoJob, ClaimNoneTx, FailClaim, Stop, Exit
  <1>5. ASSUME NEW e \in running,
               \/ \E op \in {"complete", "retry", "terminal"} : HandlerReturns(e, op)
               \/ HandlerTimesOut(e) \/ Defer(e) \/ LoseReport(e)
        PROVE  job' = job
    BY <1>5 DEF HandlerReturns, HandlerTimesOut, Defer, LoseReport
  <1>6. CASE Tick \/ UNCHANGED vars
    BY <1>6 DEF Tick, vars
  <1>7. QED
    BY <1>1, <1>2, <1>3, <1>4, <1>5, <1>6 DEF Next, Step, Claim, LoseClaim

(***************************************************************************)
(* The detailed specification implements the abstract one: an intent is    *)
(* queued once, started at most MaxAttempts times, one start per step, and *)
(* never leaves SUCCEEDED or DEAD.                                         *)
(***************************************************************************)
THEOREM ImplementsLifecycle == Spec => RefinesLifecycle
  <1>1. QED
    BY LifecycleInit, LifecycleStep, TypeCorrect, PTL
       DEF Spec, RefinesLifecycle, Lifecycle!Spec
-----------------------------------------------------------------------------
(***************************************************************************)
(* What stays and what is ruled out, whatever the timing.                  *)
(***************************************************************************)

(* The constraints of the jobs table (ck_jobs_attempts and                 *)
(* ck_jobs_lifecycle of backend/migrations/jobs.go:42-45, without the      *)
(* timestamps no guard reads): a lease exactly while RUNNING, and at least *)
(* one attempt by then.                                                    *)
RowLawful(j) ==
  /\ job[j].state = "ABSENT" => job[j].attempts = 0
  /\ job[j].state = "RUNNING" =>
       /\ job[j].leaseOwner \in Workers
       /\ job[j].leaseExpiresAt # Null
       /\ job[j].attempts > 0
  /\ job[j].state # "RUNNING" =>
       /\ job[j].leaseOwner = NoWorker
       /\ job[j].leaseExpiresAt = Null

RowsLawful == \A j \in Jobs : RowLawful(j)

(* No attempt is executed twice, in one process or in two. *)
AttemptsDistinct ==
  \A e, f \in running : e.job = f.job /\ e.attempt = f.attempt => e = f

(* An execution's attempt has been counted. *)
AttemptsInv ==
  /\ TypeOK
  /\ RowsLawful
  /\ AttemptsDistinct
  /\ \A e \in running : e.attempt <= job[e.job].attempts

LEMMA TakeLawful ==
  ASSUME AttemptsInv, NEW w \in Workers, NEW j \in Jobs, Take(w, j)
  PROVE  /\ RowsLawful'
         /\ job'[j].attempts = job[j].attempts + 1
         /\ \A k \in Jobs \ {j} : job'[k].attempts = job[k].attempts
  <1>1. TypeOK
    BY DEF AttemptsInv
  <1>2. /\ job'[j].state = "RUNNING"
        /\ job'[j].attempts = job[j].attempts + 1
        /\ job'[j].attempts \in 1 .. MaxAttempts
        /\ job'[j].leaseOwner = w
        /\ job'[j].leaseExpiresAt = claimAt[w] + LeaseDuration
        /\ claimAt[w] \in Nat \ {0} /\ LeaseDuration \in Nat
        /\ \A k \in Jobs \ {j} :
             job'[k] = IF k \in Exhausted(claimAt[w])
                       THEN Unleased(job[k], "DEAD") ELSE job[k]
    BY <1>1, TakeRows, WorkerAssumption
  <1>3. RowLawful(j)'
    BY <1>2, JobStoreAssumption DEF RowLawful, Null
  <1>4. ASSUME NEW k \in Jobs \ {j}
        PROVE  RowLawful(k)' /\ job'[k].attempts = job[k].attempts
    <2>1. /\ Unleased(job[k], "DEAD").state = "DEAD"
          /\ Unleased(job[k], "DEAD").leaseOwner = NoWorker
          /\ Unleased(job[k], "DEAD").leaseExpiresAt = Null
          /\ Unleased(job[k], "DEAD").attempts = job[k].attempts
      BY <1>1 DEF TypeOK, Row, Unleased
    <2>2. CASE job'[k] = job[k]
      BY <2>2 DEF AttemptsInv, RowsLawful, RowLawful
    <2>3. CASE job'[k] = Unleased(job[k], "DEAD")
      BY <2>1, <2>3 DEF RowLawful
    <2>4. QED
      BY <1>2, <2>2, <2>3
  <1>5. QED
    BY <1>2, <1>3, <1>4 DEF RowsLawful

LEMMA ReportLawful ==
  ASSUME AttemptsInv, NEW e \in running, Report(e)
  PROVE  RowsLawful' /\ \A k \in Jobs : job'[k].attempts = job[k].attempts
  <1>1. TypeOK /\ e.job \in Jobs /\ job[e.job] \in Row /\ RowLawful(e.job)
    BY DEF AttemptsInv, RowsLawful, TypeOK, Execution
  <1>2. \A k \in Jobs \ {e.job} : job'[k] = job[k]
    BY <1>1, ReportRows
  <1>3. RowLawful(e.job)' /\ job'[e.job].attempts = job[e.job].attempts
    <2>1. CASE job'[e.job] = job[e.job]
      BY <1>1, <2>1 DEF RowLawful
    <2>2. CASE job'[e.job] = Unleased(job[e.job], "SUCCEEDED")
      BY <1>1, <2>2 DEF RowLawful, Unleased, Row
    <2>3. CASE /\ job'[e.job].attempts = job[e.job].attempts
               /\ job'[e.job].leaseOwner = NoWorker
               /\ job'[e.job].leaseExpiresAt = Null
               /\ job'[e.job].state \in {"DEAD", "QUEUED"}
      BY <2>3 DEF RowLawful
    <2>4. QED
      BY <1>1, <2>1, <2>2, <2>3, ReportRows
  <1>4. QED
    BY <1>2, <1>3 DEF AttemptsInv, RowsLawful, RowLawful

LEMMA AttemptsStart == Init => AttemptsInv
  <1> SUFFICES ASSUME Init PROVE AttemptsInv
    OBVIOUS
  <1>1. RowsLawful
    BY DEF Init, StoreInit, RowsLawful, RowLawful, AbsentRow
  <1>2. QED
    BY <1>1, TypeInit DEF Init, AttemptsInv, AttemptsDistinct

LEMMA AttemptsStep == AttemptsInv /\ [Next]_vars => AttemptsInv'
  <1> SUFFICES ASSUME AttemptsInv, [Next]_vars PROVE AttemptsInv'
    OBVIOUS
  <1> USE DEF procVars
  <1>1. TypeOK /\ TypeOK'
    BY TypeStep DEF AttemptsInv
  <1>2. \A e \in running : /\ e \in Execution /\ e.job \in Jobs
                           /\ e.attempt \in Nat \ {0}
                           /\ job[e.job].attempts \in Nat
    BY <1>1, JobStoreAssumption DEF TypeOK, Execution, Row
  (* Steps that end executions and start none. *)
  <1>3. ASSUME running' \subseteq running, RowsLawful',
               \A e \in running : job'[e.job].attempts = job[e.job].attempts
        PROVE  AttemptsInv'
    BY <1>1, <1>3 DEF AttemptsInv, AttemptsDistinct
  <1>4. ASSUME UNCHANGED job PROVE RowsLawful'
    BY <1>4 DEF AttemptsInv, RowsLawful, RowLawful
  <1>5. ASSUME NEW j \in Jobs, Enqueue(j) PROVE AttemptsInv'
    <2>1. /\ job[j].state = "ABSENT" /\ running' = running
          /\ job' = [job EXCEPT ![j] = [AbsentRow EXCEPT !.state = "QUEUED",
                                                         !.availableAt = now]]
      BY <1>5 DEF Enqueue, EnqueueTx
    <2>2. /\ job'[j].state = "QUEUED" /\ job'[j].attempts = 0
          /\ job'[j].leaseOwner = NoWorker /\ job'[j].leaseExpiresAt = Null
          /\ \A k \in Jobs \ {j} : job'[k] = job[k]
      BY <1>1, <2>1 DEF TypeOK, AbsentRow
    <2>3. RowsLawful'
      BY <2>2 DEF AttemptsInv, RowsLawful, RowLawful
    <2>4. \A e \in running : e.job # j
      BY <1>2, <2>1 DEF AttemptsInv, RowsLawful, RowLawful
    <2>5. QED
      BY <1>2, <1>3, <2>1, <2>2, <2>3, <2>4
  <1>6. ASSUME NEW w \in Workers, NEW j \in Jobs, Claim(w, j) PROVE AttemptsInv'
    <2> PICK d : d = [job |-> j, attempt |-> job'[j].attempts, worker |-> w,
                      leaseExpiresAt |-> job'[j].leaseExpiresAt,
                      deadline |-> now + JobTimeout, op |-> "none", opAt |-> Null]
      OBVIOUS
    <2>1. Take(w, j) /\ running' = running \cup {d}
      BY <1>6 DEF Claim
    <2>2. d.job = j /\ d.attempt = job'[j].attempts
      OBVIOUS
    <2>3. /\ RowsLawful'
          /\ job'[j].attempts = job[j].attempts + 1
          /\ \A k \in Jobs \ {j} : job'[k].attempts = job[k].attempts
      BY <2>1, TakeLawful
    <2>4. job[j].attempts \in Nat
      BY <1>1, JobStoreAssumption DEF TypeOK, Row
    <2>5. ASSUME NEW e \in running
          PROVE  /\ e.attempt <= job'[e.job].attempts
                 /\ e.job = j => e.attempt # d.attempt
      <3>1. e.attempt <= job[e.job].attempts
        BY DEF AttemptsInv
      <3>2. CASE e.job = j
        BY <1>2, <2>2, <2>3, <2>4, <3>1, <3>2
      <3>3. CASE e.job # j
        BY <1>2, <2>3, <3>1, <3>3
      <3>4. QED
        BY <3>2, <3>3
    <2>6. AttemptsDistinct'
      BY <2>1, <2>2, <2>5 DEF AttemptsInv, AttemptsDistinct
    <2>7. d.attempt <= job'[d.job].attempts
      BY <2>2, <2>3, <2>4
    <2>8. QED
      BY <1>1, <2>1, <2>3, <2>5, <2>6, <2>7 DEF AttemptsInv
  <1>7. ASSUME NEW w \in Workers, NEW j \in Jobs, LoseClaim(w, j) PROVE AttemptsInv'
    <2>1. Take(w, j) /\ running' = running
      BY <1>7 DEF LoseClaim
    <2>2. /\ RowsLawful'
          /\ job'[j].attempts = job[j].attempts + 1
          /\ \A k \in Jobs \ {j} : job'[k].attempts = job[k].attempts
      BY <2>1, TakeLawful
    <2>3. ASSUME NEW e \in running PROVE e.attempt <= job'[e.job].attempts
      <3>1. e.attempt <= job[e.job].attempts
        BY DEF AttemptsInv
      <3>2. QED
        BY <1>2, <2>2, <3>1
    <2>4. QED
      BY <1>1, <2>1, <2>2, <2>3 DEF AttemptsInv, AttemptsDistinct
  <1>8. ASSUME NEW w \in Workers,
               \/ BeginClaim(w) \/ FindNoJob(w) \/ FailClaim(w)
               \/ Stop(w) \/ Exit(w)
        PROVE  AttemptsInv'
    <2>1. job' = job /\ running' \subseteq running
      BY <1>8 DEF BeginClaim, FindNoJob, ClaimNoneTx, FailClaim, Stop, Exit
    <2>2. QED
      BY <1>3, <1>4, <2>1
  <1>9. ASSUME NEW e \in running, NEW op,
               running' = (running \ {e}) \cup
                            {[e EXCEPT !.op = op, !.opAt = Clock(e.worker)]},
               UNCHANGED job
        PROVE  AttemptsInv'
    <2> PICK d : d = [e EXCEPT !.op = op, !.opAt = Clock(e.worker)]
      OBVIOUS
    <2>1. d.job = e.job /\ d.attempt = e.attempt
      BY <1>2 DEF Execution
    <2>2. running' = (running \ {e}) \cup {d}
      BY <1>9
    <2>3. RowsLawful'
      BY <1>4, <1>9
    <2>4. QED
      BY <1>1, <1>9, <2>1, <2>2, <2>3 DEF AttemptsInv, AttemptsDistinct
  <1>10. ASSUME NEW e \in running, Report(e) PROVE AttemptsInv'
    <2>1. running' \subseteq running
      BY <1>10 DEF Report
    <2>2. QED
      BY <1>2, <1>3, <1>10, <2>1, ReportLawful
  <1>11. ASSUME NEW e \in running, Defer(e) \/ LoseReport(e) PROVE AttemptsInv'
    BY <1>3, <1>4, <1>11 DEF Defer, LoseReport
  <1>12. CASE Tick \/ UNCHANGED vars
    BY <1>3, <1>4, <1>12 DEF Tick, vars
  <1>13. ASSUME NEW e \in running, HandlerTimesOut(e) PROVE AttemptsInv'
    BY <1>9, <1>13 DEF HandlerTimesOut
  <1>14. ASSUME NEW e \in running, NEW op, HandlerReturns(e, op) PROVE AttemptsInv'
    BY <1>9, <1>14 DEF HandlerReturns
  <1>15. QED
    BY <1>5, <1>6, <1>7, <1>8, <1>10, <1>11, <1>12, <1>13, <1>14 DEF Next, Step

LEMMA AttemptsInvariance == Spec => []AttemptsInv
BY AttemptsStart, AttemptsStep, PTL DEF Spec

(***************************************************************************)
(* No interleaving of claims, reports, takeovers and burials writes a row  *)
(* that the table's constraints refuse.                                    *)
(***************************************************************************)
THEOREM ConstraintsNeverViolated == Spec => []RowsLawful
BY AttemptsInvariance, PTL DEF AttemptsInv

(***************************************************************************)
(* However long processes pause and whatever replies are lost, an attempt  *)
(* of a job is executed at most once: a takeover is always a new attempt.  *)
(***************************************************************************)
THEOREM AttemptsNeverShared == Spec => []AttemptsDistinct
BY AttemptsInvariance, PTL DEF AttemptsInv

(* A row that is SUCCEEDED or DEAD is not written again, and no attempt is *)
(* taken back from any row.                                                *)
OnlyAdvance ==
  \A j \in Jobs :
    /\ job[j].state \in {"SUCCEEDED", "DEAD"} => job'[j] = job[j]
    /\ job'[j].attempts >= job[j].attempts

SettledForGood == [][OnlyAdvance]_vars

(***************************************************************************)
(* No report, claim or repeated enqueueing, however late, touches a job    *)
(* that has been settled.                                                  *)
(***************************************************************************)
THEOREM SettledJobsStay == Spec => SettledForGood
  <1>1. AttemptsInv /\ [Next]_vars => [OnlyAdvance]_vars
    <2> SUFFICES ASSUME AttemptsInv, Next, NEW j \in Jobs
                 PROVE  /\ job[j].state \in {"SUCCEEDED", "DEAD"} => job'[j] = job[j]
                        /\ job'[j].attempts >= job[j].attempts
      BY DEF OnlyAdvance
    <2> USE DEF procVars
    <2>1. TypeOK /\ job[j].attempts \in Nat
      BY JobStoreAssumption DEF AttemptsInv, TypeOK, Row
    <2>2. CASE job'[j] = job[j]
      BY <2>1, <2>2
    <2>3. CASE Started(j)
      BY <2>1, <2>3 DEF Started
    <2>4. CASE Buried(j)
      BY <2>1, <2>4 DEF Buried
    <2>5. ASSUME NEW e, Reported(j, e)
          PROVE  /\ job[j].state \notin {"SUCCEEDED", "DEAD"}
                 /\ job'[j].attempts >= job[j].attempts
      BY <2>1, <2>5 DEF Reported
    <2>6. CASE job[j].state = "ABSENT" /\ job'[j].attempts = 0
      BY <2>1, <2>6 DEF AttemptsInv, RowsLawful, RowLawful
    <2>7. ASSUME NEW i \in Jobs, Enqueue(i)
          PROVE  job'[j] = job[j] \/ (job[j].state = "ABSENT" /\ job'[j].attempts = 0)
      BY <2>1, <2>7 DEF Enqueue, EnqueueTx, AbsentRow, TypeOK
    <2>8. ASSUME NEW w \in Workers, NEW i \in Jobs, Take(w, i)
          PROVE  job'[j] = job[j] \/ Started(j) \/ Buried(j)
      BY <2>1, <2>8, TakeStep
    <2>9. ASSUME NEW e \in running, Report(e)
          PROVE  job'[j] = job[j] \/ Reported(j, e)
      BY <2>1, <2>9, ReportStep
    <2>10. ASSUME NEW w \in Workers,
                  \/ BeginClaim(w) \/ FindNoJob(w) \/ FailClaim(w)
                  \/ Stop(w) \/ Exit(w)
           PROVE  job' = job
      BY <2>10 DEF BeginClaim, FindNoJob, ClaimNoneTx, FailClaim, Stop, Exit
    <2>11. ASSUME NEW e \in running,
                  \/ \E op \in {"complete", "retry", "terminal"} : HandlerReturns(e, op)
                  \/ HandlerTimesOut(e) \/ Defer(e) \/ LoseReport(e)
           PROVE  job' = job
      BY <2>11 DEF HandlerReturns, HandlerTimesOut, Defer, LoseReport
    <2>12. CASE Tick
      BY <2>2, <2>12 DEF Tick
    <2>13. QED
      BY <2>2, <2>3, <2>4, <2>5, <2>6, <2>7, <2>8, <2>9, <2>10, <2>11, <2>12
         DEF Next, Step, Claim, LoseClaim
  <1>2. QED
    BY <1>1, AttemptsInvariance, PTL DEF Spec, SettledForGood
-----------------------------------------------------------------------------
(***************************************************************************)
(* The executions behave as module JobExecutions says, as soon as accepted *)
(* reports are those of their own attempts.                                *)
(***************************************************************************)
Done == {e \in running : e.op = "complete"}

(* What a step has to do for its jobs and executions to be a step there.   *)
Undecided(j) ==
  ~ /\ job[j].state = "RUNNING"
    /\ \/ job'[j].state \in {"SUCCEEDED", "QUEUED"}
       \/ job'[j].state = "DEAD" /\ job[j].attempts < MaxAttempts

SettledByReport(j) ==
  /\ <<j, job[j].attempts>> \in Attempts(running) \ Attempts(running')
  /\ job'[j].state = "SUCCEEDED" => <<j, job[j].attempts>> \in Attempts(Done)

OnlyStarts ==
  \A x \in Attempts(running') \ Attempts(running) :
    \E j \in Jobs : Started(j) /\ x = <<j, job'[j].attempts>>

DoneGrows ==
  /\ Attempts(Done') \subseteq Attempts(Done) \cup Attempts(running)
  /\ Attempts(Done) \cap Attempts(running') \subseteq Attempts(Done')

LEMMA LifecycleIsExecutions ==
  ASSUME Lifecycle!Next \/ UNCHANGED Lifecycle!vars
  PROVE  Executions!Next \/ UNCHANGED Executions!vars
  <1>1. CASE Lifecycle!Next
    <2>1. Executions!Next
      BY <1>1 DEF Lifecycle!Next, Lifecycle!Enqueue, Lifecycle!Start,
                  Lifecycle!Succeed, Lifecycle!Requeue, Lifecycle!Die,
                  Lifecycle!Stay, Executions!Next, Executions!Enqueue,
                  Executions!Start, Executions!Succeed, Executions!Requeue,
                  Executions!Die, Executions!Stay
    <2>2. QED
      BY <2>1
  <1>2. CASE UNCHANGED Lifecycle!vars
    BY <1>2 DEF Lifecycle!vars, Executions!vars
  <1>3. QED
    BY <1>1, <1>2

LEMMA ExecutionsFrom ==
  ASSUME Lifecycle!Next \/ UNCHANGED Lifecycle!vars,
         \A j \in Jobs : Undecided(j) \/ SettledByReport(j),
         OnlyStarts, DoneGrows
  PROVE  Executions!ExecNext
  <1>1. Executions!Next \/ UNCHANGED Executions!vars
    BY LifecycleIsExecutions
  <1>2. ASSUME NEW j \in Jobs, Executions!Decided(j) PROVE Executions!Settles(j)
    <2>1. ~Undecided(j)
      BY <1>2 DEF Executions!Decided, Undecided
    <2>2. SettledByReport(j)
      BY <2>1
    <2>3. QED
      BY <2>2 DEF SettledByReport, Executions!Settles, Executions!Newest, Done
  <1>3. ASSUME NEW x \in Attempts(running') \ Attempts(running)
        PROVE  \E j \in Jobs :
                 /\ Executions!Start(j)
                 /\ x = <<j, ([k \in Jobs |-> job[k].attempts])'[j]>>
    <2>1. PICK j \in Jobs : Started(j) /\ x = <<j, job'[j].attempts>>
      BY <1>3 DEF OnlyStarts
    <2>2. Executions!Start(j)
      BY <2>1 DEF Started, Executions!Start
    <2>3. QED
      BY <2>1, <2>2
  <1>4. QED
    BY <1>1, <1>2, <1>3 DEF Executions!ExecNext, DoneGrows, Done, Attempts

(* Steps that leave the table alone and start no execution. *)
LEMMA ExecutionsQuiet ==
  ASSUME job' = job, Attempts(running') \subseteq Attempts(running), DoneGrows
  PROVE  Executions!ExecNext
  <1>1. \A j \in Jobs : Undecided(j)
    BY DEF Undecided
  <1>2. OnlyStarts
    BY DEF OnlyStarts
  <1>3. QED
    BY <1>1, <1>2, ExecutionsFrom, LifecycleStutter

LEMMA EndsQuietly ==
  ASSUME AttemptsDistinct, running' \subseteq running
  PROVE  Attempts(running') \subseteq Attempts(running) /\ DoneGrows
  <1>1. Attempts(running') \subseteq Attempts(running)
    BY DEF Attempts
  <1>2. Attempts(Done') \subseteq Attempts(Done)
    BY DEF Attempts, Done
  <1>3. ASSUME NEW x \in Attempts(Done), x \in Attempts(running') PROVE x \in Attempts(Done')
    <2>1. PICK e \in running : e.op = "complete" /\ x = <<e.job, e.attempt>>
      BY DEF Attempts, Done
    <2>2. PICK f \in running' : x = <<f.job, f.attempt>>
      BY <1>3 DEF Attempts
    <2>3. e = f
      BY <2>1, <2>2 DEF AttemptsDistinct
    <2>4. QED
      BY <2>1, <2>2, <2>3 DEF Attempts, Done
  <1>4. QED
    BY <1>1, <1>2, <1>3 DEF DoneGrows

(* A handler returns or is cut off. *)
LEMMA ReturnsQuietly ==
  ASSUME AttemptsDistinct, NEW e \in running, NEW op, e.op = "none",
         e \in Execution,
         running' = (running \ {e}) \cup
                      {[e EXCEPT !.op = op, !.opAt = Clock(e.worker)]}
  PROVE  Attempts(running') \subseteq Attempts(running) /\ DoneGrows
  <1> PICK d : d = [e EXCEPT !.op = op, !.opAt = Clock(e.worker)]
    OBVIOUS
  <1>1. d.job = e.job /\ d.attempt = e.attempt /\ d.op = op
    BY DEF Execution
  <1>2. running' = (running \ {e}) \cup {d}
    OBVIOUS
  <1>3. Attempts(running') \subseteq Attempts(running)
    BY <1>1, <1>2 DEF Attempts
  <1>4. Attempts(Done') \subseteq Attempts(running)
    BY <1>1, <1>2 DEF Attempts, Done
  <1>5. ASSUME NEW x \in Attempts(Done), x \in Attempts(running') PROVE x \in Attempts(Done')
    <2>1. PICK f \in running : f.op = "complete" /\ x = <<f.job, f.attempt>>
      BY DEF Attempts, Done
    <2>2. f # e
      BY <2>1
    <2>3. f \in running'
      BY <1>2, <2>2
    <2>4. QED
      BY <2>1, <2>3 DEF Attempts, Done
  <1>6. QED
    BY <1>3, <1>4, <1>5 DEF DoneGrows

LEMMA ExecutionsStep ==
  AttemptsInv /\ ReportsOwnAttempt /\ [Next]_vars
    => [Executions!ExecNext]_Executions!execVars
  <1> SUFFICES ASSUME AttemptsInv, ReportsOwnAttempt, Next
               PROVE  Executions!ExecNext
    BY DEF vars, Executions!execVars, Attempts
  <1> USE DEF procVars
  <1>1. /\ TypeOK /\ AttemptsDistinct
        /\ Lifecycle!Next \/ UNCHANGED Lifecycle!vars
        /\ \A e \in running : e \in Execution /\ e.job \in Jobs
        /\ \A j \in Jobs : job[j].attempts \in 0 .. MaxAttempts
        /\ MaxAttempts \in Nat
    <2>1. TypeOK /\ AttemptsDistinct
      BY DEF AttemptsInv
    <2>2. Lifecycle!Next \/ UNCHANGED Lifecycle!vars
      BY <2>1, LifecycleStep, LifecycleStutter
    <2>3. \A e \in running : e \in Execution /\ e.job \in Jobs
      BY <2>1 DEF TypeOK, Execution
    <2>4. \A j \in Jobs : job[j].attempts \in 0 .. MaxAttempts
      BY <2>1 DEF TypeOK, Row
    <2>5. QED
      BY <2>1, <2>2, <2>3, <2>4, JobStoreAssumption
  <1>2. ASSUME NEW j \in Jobs, Enqueue(j) PROVE Executions!ExecNext
    <2>1. running' = running
      BY <1>2 DEF Enqueue
    <2>2. \A k \in Jobs : Undecided(k)
      <3>1. job[j].state = "ABSENT" /\ \A k \in Jobs \ {j} : job'[k] = job[k]
        BY <1>1, <1>2 DEF Enqueue, EnqueueTx, TypeOK
      <3>2. QED
        BY <3>1 DEF Undecided
    <2>3. OnlyStarts /\ DoneGrows
      BY <1>1, <2>1, EndsQuietly DEF OnlyStarts
    <2>4. QED
      BY <1>1, <2>2, <2>3, ExecutionsFrom
  <1>3. ASSUME NEW w \in Workers, NEW j \in Jobs, Take(w, j)
        PROVE  Started(j) /\ \A k \in Jobs : Undecided(k)
    <2>1. Started(j) /\ \A k \in Jobs \ {j} : job'[k] = job[k] \/ Buried(k)
      BY <1>1, <1>3, TakeStep
    <2>2. ASSUME NEW k \in Jobs PROVE Undecided(k)
      <3>1. CASE k = j
        BY <2>1, <3>1 DEF Started, Undecided
      <3>2. CASE job'[k] = job[k]
        BY <3>2 DEF Undecided
      <3>3. CASE Buried(k)
        BY <1>1, <3>3 DEF Buried, Undecided
      <3>4. QED
        BY <2>1, <3>1, <3>2, <3>3
    <2>3. QED
      BY <2>1, <2>2
  <1>4. ASSUME NEW w \in Workers, NEW j \in Jobs, Claim(w, j) PROVE Executions!ExecNext
    <2> PICK d : d = [job |-> j, attempt |-> job'[j].attempts, worker |-> w,
                      leaseExpiresAt |-> job'[j].leaseExpiresAt,
                      deadline |-> now + JobTimeout, op |-> "none", opAt |-> Null]
      OBVIOUS
    <2>1. Take(w, j) /\ running' = running \cup {d}
      BY <1>4 DEF Claim
    <2>2. d.job = j /\ d.attempt = job'[j].attempts /\ d.op = "none"
      OBVIOUS
    <2>3. Started(j) /\ \A k \in Jobs : Undecided(k)
      BY <1>3, <2>1
    <2>4. OnlyStarts
      <3>1. \A x \in Attempts(running') \ Attempts(running) : x = <<j, job'[j].attempts>>
        BY <2>1, <2>2 DEF Attempts
      <3>2. QED
        BY <2>3, <3>1 DEF OnlyStarts
    <2>5. DoneGrows
      <3>1. Done' = Done
        BY <2>1, <2>2 DEF Done
      <3>2. QED
        BY <3>1 DEF DoneGrows
    <2>6. QED
      BY <1>1, <2>3, <2>4, <2>5, ExecutionsFrom
  <1>5. ASSUME NEW w \in Workers, NEW j \in Jobs, LoseClaim(w, j) PROVE Executions!ExecNext
    <2>1. Take(w, j) /\ running' = running
      BY <1>5 DEF LoseClaim
    <2>2. OnlyStarts /\ DoneGrows
      BY <1>1, <2>1, EndsQuietly DEF OnlyStarts
    <2>3. QED
      BY <1>1, <1>3, <2>1, <2>2, ExecutionsFrom
  <1>6. ASSUME job' = job, running' \subseteq running PROVE Executions!ExecNext
    BY <1>1, <1>6, EndsQuietly, ExecutionsQuiet
  <1>7. ASSUME NEW w \in Workers,
               \/ BeginClaim(w) \/ FindNoJob(w) \/ FailClaim(w)
               \/ Stop(w) \/ Exit(w)
        PROVE  Executions!ExecNext
    <2>1. job' = job /\ running' \subseteq running
      BY <1>7 DEF BeginClaim, FindNoJob, ClaimNoneTx, FailClaim, Stop, Exit
    <2>2. QED
      BY <1>6, <2>1
  <1>8. ASSUME NEW e \in running, NEW op, HandlerReturns(e, op)
        PROVE  Executions!ExecNext
    <2>1. /\ e.op = "none" /\ job' = job
          /\ running' = (running \ {e}) \cup
                          {[e EXCEPT !.op = op, !.opAt = Clock(e.worker)]}
      BY <1>8 DEF HandlerReturns
    <2>2. Attempts(running') \subseteq Attempts(running) /\ DoneGrows
      BY <1>1, <2>1, ReturnsQuietly
    <2>3. QED
      BY <2>1, <2>2, ExecutionsQuiet
  <1>9. ASSUME NEW e \in running, HandlerTimesOut(e) PROVE Executions!ExecNext
    <2>1. /\ e.op = "none" /\ job' = job
          /\ running' = (running \ {e}) \cup
                          {[e EXCEPT !.op = "retry", !.opAt = Clock(e.worker)]}
      BY <1>9 DEF HandlerTimesOut
    <2>2. Attempts(running') \subseteq Attempts(running) /\ DoneGrows
      BY <1>1, <2>1, ReturnsQuietly
    <2>3. QED
      BY <2>1, <2>2, ExecutionsQuiet
  <1>10. ASSUME NEW e \in running, Defer(e) \/ LoseReport(e) PROVE Executions!ExecNext
    <2>1. job' = job /\ running' \subseteq running
      BY <1>10 DEF Defer, LoseReport
    <2>2. QED
      BY <1>6, <2>1
  (* The report: whatever it decides, it decides of its own attempt. *)
  <1>11. ASSUME NEW e \in running, Report(e) PROVE Executions!ExecNext
    <2>1. running' = running \ {e} /\ e.op # "none"
      BY <1>11 DEF Report
    <2>2. OnlyStarts /\ DoneGrows
      BY <1>1, <2>1, EndsQuietly DEF OnlyStarts
    <2>3. ASSUME NEW j \in Jobs PROVE Undecided(j) \/ SettledByReport(j)
      <3>1. CASE job'[j] = job[j]
        BY <3>1 DEF Undecided
      <3>2. CASE j = e.job /\ job'[j] # job[j]
        <4>1. Leased(e.job, e.worker, e.opAt)
          BY <1>1, <1>11, <3>2, ReportRows
        <4>2. e.attempt = job[j].attempts
          BY <2>1, <3>2, <4>1 DEF ReportsOwnAttempt
        <4>3. <<j, job[j].attempts>> \in Attempts(running)
          BY <3>2, <4>2 DEF Attempts
        <4>4. <<j, job[j].attempts>> \notin Attempts(running')
          <5>1. \A f \in running \ {e} : <<j, job[j].attempts>> # <<f.job, f.attempt>>
            BY <1>1, <3>2, <4>2 DEF AttemptsDistinct
          <5>2. QED
            BY <2>1, <5>1 DEF Attempts
        <4>5. job'[j].state = "SUCCEEDED" => e.op = "complete"
          BY <1>1, <1>11, <3>2, ReportStep DEF Reported
        <4>6. job'[j].state = "SUCCEEDED" => <<j, job[j].attempts>> \in Attempts(Done)
          BY <3>2, <4>2, <4>5 DEF Attempts, Done
        <4>7. QED
          BY <4>3, <4>4, <4>6 DEF SettledByReport
      <3>3. QED
        BY <1>1, <1>11, <3>1, <3>2, ReportRows
    <2>4. QED
      BY <1>1, <2>2, <2>3, ExecutionsFrom
  <1>12. CASE Tick
    <2>1. job' = job /\ running' \subseteq running
      BY <1>12 DEF Tick
    <2>2. QED
      BY <1>6, <2>1
  <1>13. QED
    BY <1>2, <1>4, <1>5, <1>7, <1>8, <1>9, <1>10, <1>11, <1>12 DEF Next, Step

LEMMA ExecutionsInit == Init => Executions!ExecInit
  <1> SUFFICES ASSUME Init PROVE Executions!ExecInit
    OBVIOUS
  <1>1. Executions!Init
    BY DEF Init, StoreInit, AbsentRow, Executions!Init
  <1>2. QED
    BY <1>1 DEF Init, Attempts, Executions!ExecInit

(***************************************************************************)
(* What the modules about handlers assume of the engine holds of worker    *)
(* and table: if each process runs one job at a time, whatever is paused   *)
(* and lost; ...                                                           *)
(***************************************************************************)
THEOREM ImplementsExecutions ==
  ASSUME MaxConcurrency = 1
  PROVE  Spec => RefinesExecutions
BY ExecutionsInit, ExecutionsStep, AttemptsInvariance, ReportsSettleOwnAttempt, PTL
   DEF Spec, RefinesExecutions, Executions!ExecSpec

(***************************************************************************)
(* ... and with any number of slots, if leases are ample and timers fire   *)
(* on time.                                                                *)
(***************************************************************************)
THEOREM TimelyImplementsExecutions ==
  ASSUME AmpleLease
  PROVE  TimelySpec => RefinesExecutions
  <1>1. TimelySpec => Spec
    BY TimelyStep, PTL DEF TimelySpec, Spec
  <1>2. QED
    BY <1>1, ExecutionsInit, ExecutionsStep, AttemptsInvariance,
       TimelyReportsSettleOwnAttempt, PTL
       DEF Spec, RefinesExecutions, Executions!ExecSpec
=============================================================================
