---------------------------- MODULE RandomNumGen ----------------------------
(***************************************************************************)
(* The arithmetic of the class RandomNumGen: a multiplicative generator    *)
(* whose whole state is one kernel, and the draws computed from it.        *)
(*                                                                         *)
(* The code computes kA * kernel mod kM in 32-bit integers by splitting    *)
(* the modulus as kM = kA * kQ + kR.  A draw divides the kernel by kM; a   *)
(* draw that is rounded to an integer is modelled by the integer division  *)
(* that gives the same value.                                              *)
(***************************************************************************)
EXTENDS Integers, FiniteSets

CONSTANTS
    kA,     \* multiplier
    kM,     \* modulus
    kQ,     \* quotient of the modulus and the multiplier
    kR      \* its remainder

(* The split of the modulus, with a remainder smaller than the quotient    *)
(* (16807 * 127773 + 2836 = 2147483647 in the code), and what being prime  *)
(* gives: no product of two kernels is a multiple of the modulus.          *)
ASSUME SplitAssumption ==
    /\ kA \in Nat \ {0} /\ kQ \in Nat \ {0} /\ kR \in Nat /\ kM \in Nat
    /\ kM = kA * kQ + kR
    /\ kR < kQ
    /\ kA < kM

ASSUME PrimeAssumption ==
    \A a, b \in 1 .. kM - 1 : (a * b) % kM # 0

(* The kernels a seed may be; 0 and kM would be fixed points.              *)
Kernel == 1 .. kM - 1

DefaultKernel == -1     \* given by the constructors, before seeds are loaded

-----------------------------------------------------------------------------
(* Division of C++ rounds towards 0.                                       *)
Quotient(k) == IF k < 0 THEN -((-k) \div kQ) ELSE k \div kQ

(* The two products, whose difference is the new kernel up to kM.          *)
LowProduct(k)  == kA * (k - kQ * Quotient(k))
HighProduct(k) == kR * Quotient(k)

(* Seeded defect: a difference of 0 or less is not told from one above.    *)
KernelUncorrected(k) == LowProduct(k) - HighProduct(k)

NextKernel(k) ==
    LET difference == LowProduct(k) - HighProduct(k)
    IN  IF difference < 0 THEN difference + kM ELSE difference

-----------------------------------------------------------------------------
(* The draws, as functions of the kernel a step left.                      *)

(* Seeded defect: the upper end is left out of the range.                  *)
RoundedBelow(k, min, max) == (k * (max - min)) \div kM + min

randRoundedInt(k, min, max) == (k * (max - min + 1)) \div kM + min

(* probability is a whole number of percents.                              *)
randZeroOne(k, probability) == 100 * k < probability * kM

-----------------------------------------------------------------------------
(* The kernel never runs into a fixed point, and neither product leaves    *)
(* the integers: both stay below the modulus.                              *)
StepFits(k) ==
    /\ NextKernel(k) \in Kernel
    /\ LowProduct(k) \in 0 .. kM - 1
    /\ HighProduct(k) \in 0 .. kM - 1

(* What the split is for: the product modulo kM.                           *)
StepIsProduct(k) == NextKernel(k) = (kA * k) % kM

-----------------------------------------------------------------------------
(* The products that follow each other from 1 on, and the place of each.   *)
Period == kM - 1

Power[n \in 0 .. Period - 1] == IF n = 0 THEN 1 ELSE (kA * Power[n - 1]) % kM

Place == [k \in Kernel |-> CHOOSE n \in 0 .. Period - 1 : Power[n] = k]

(* kA is a primitive root of kM, as 16807 is of 2147483647: its powers go  *)
(* through every kernel before one returns.                                *)
ASSUME PeriodAssumption ==
    /\ Place \in [Kernel -> 0 .. Period - 1]
    /\ \A j, k \in Kernel : Place[j] = Place[k] => j = k
    /\ \A k \in Kernel :
          Place[(kA * k) % kM] = IF Place[k] = Period - 1 THEN 0 ELSE Place[k] + 1
=============================================================================
