---------------------------- MODULE ProgramProofs ---------------------------
(***************************************************************************)
(* Proofs about what main does around the scan loop.  The generator        *)
(* computes kA * kernel mod kM without leaving the integers, whatever the  *)
(* split of the modulus; the seeds serve the runs, for any number of pairs *)
(* and of runs; and for any number of pairs, runs and addresses, also      *)
(* addresses that are used again while stale pointers hold them, no object *)
(* is deleted twice, none is used after it was deleted, and what belongs   *)
(* to the network is gone at the end.                                      *)
(***************************************************************************)
EXTENDS MCProgram, SequenceTheorems, FiniteSetTheorems, TLAPS

(* Products grow with their factors.                                       *)
LEMMA ProductMonotone ==
  ASSUME NEW a \in Nat, NEW b \in Nat, NEW c \in Nat, b <= c
  PROVE  a * b <= a * c /\ a * b \in Nat /\ a * c \in Nat
OBVIOUS

(* A quotient and a remainder that fit are the quotient and the remainder. *)
LEMMA RemainderUnique ==
  ASSUME NEW n \in Nat, NEW m \in Nat \ {0}, NEW q \in Int, NEW r \in 0 .. m - 1,
         n = m * q + r
  PROVE  r = n % m
OBVIOUS

(* Where a kernel lies in the split of the modulus.                        *)
LEMMA SplitOfKernel ==
  ASSUME NEW k \in Kernel
  PROVE  /\ Quotient(k) \in 0 .. kA
         /\ k - kQ * Quotient(k) \in 0 .. kQ - 1
<1>1. kQ \in Nat \ {0} /\ k \in Nat /\ k < kA * kQ + kR /\ kR < kQ /\ kA \in Nat
      /\ kR \in Nat
  BY SplitAssumption DEF Kernel
<1> DEFINE h == k \div kQ
<1>2. h \in Nat /\ k - kQ * h \in 0 .. kQ - 1
  BY <1>1
<1>3. h <= kA
  <2> SUFFICES ASSUME h >= kA + 1 PROVE FALSE
    BY <1>1, <1>2
  <2>1. kQ * (kA + 1) <= kQ * h
    BY <1>1, <1>2, ProductMonotone
  <2>2. kQ * (kA + 1) = kA * kQ + kQ
    BY <1>1
  <2> QED
    BY <2>1, <2>2, <1>1, <1>2
<1>4. Quotient(k) = h
  BY <1>1 DEF Quotient
<1> QED
  BY <1>2, <1>3, <1>4

(* The two products of a step stay below the modulus, and their difference *)
(* is the product but for a multiple of it.                                *)
LEMMA ProductsOfKernel ==
  ASSUME NEW k \in Kernel
  PROVE  /\ LowProduct(k) \in 0 .. kM - 1
         /\ HighProduct(k) \in 0 .. kM - 1
         /\ kA * k = kM * Quotient(k) + (LowProduct(k) - HighProduct(k))
<1> DEFINE h == Quotient(k)
           r == k - kQ * h
<1>1. h \in 0 .. kA /\ r \in 0 .. kQ - 1
  BY SplitOfKernel
<1>2. kA \in Nat \ {0} /\ kQ \in Nat \ {0} /\ kR \in Nat /\ kM \in Nat
      /\ kM = kA * kQ + kR /\ kR < kQ /\ k \in Nat
  BY SplitAssumption DEF Kernel
<1> HIDE DEF h, r
<1>3. kA * r \in 0 .. kM - 1
  <2>1. kA * r <= kA * (kQ - 1) /\ kA * r \in Nat
    BY <1>1, <1>2, ProductMonotone
  <2>2. kA * (kQ - 1) = kA * kQ - kA
    BY <1>2
  <2> QED
    BY <2>1, <2>2, <1>2
<1>4. kR * h \in 0 .. kM - 1
  <2>1. kR * h <= kR * kA /\ kR * h \in Nat
    BY <1>1, <1>2, ProductMonotone
  <2>2. kA * kR <= kA * (kQ - 1)
    BY <1>2, ProductMonotone
  <2>3. kA * (kQ - 1) = kA * kQ - kA /\ kR * kA = kA * kR
    BY <1>2
  <2> QED
    BY <2>1, <2>2, <2>3, <1>2
<1>5. kA * k = kM * h + (kA * r - kR * h)
  <2>1. k = kQ * h + r
    BY <1>1, <1>2 DEF r
  <2>2. kA * k = kA * (kQ * h) + kA * r
    BY <2>1, <1>1, <1>2
  <2>3. kM * h = (kA * kQ) * h + kR * h
    BY <1>1, <1>2
  <2>4. kA * (kQ * h) = (kA * kQ) * h
    BY <1>1, <1>2
  <2> QED
    BY <2>2, <2>3, <2>4, <1>1, <1>2
<1> QED
  BY <1>3, <1>4, <1>5 DEF LowProduct, HighProduct, h, r

(* rand() steps from kernel to kernel, by the product modulo kM, and       *)
(* nothing it computes on the way leaves the range of int.                 *)
THEOREM SchrageStep == \A k \in Kernel : StepFits(k) /\ StepIsProduct(k)
<1> SUFFICES ASSUME NEW k \in Kernel PROVE StepFits(k) /\ StepIsProduct(k)
  OBVIOUS
<1> DEFINE d == LowProduct(k) - HighProduct(k)
           h == Quotient(k)
<1>1. /\ LowProduct(k) \in 0 .. kM - 1
      /\ HighProduct(k) \in 0 .. kM - 1
      /\ kA * k = kM * h + d
  BY ProductsOfKernel
<1>2. kM \in Nat \ {0} /\ kA * k \in Nat /\ h \in Int /\ k \in Nat
  BY SplitAssumption, SplitOfKernel DEF Kernel
<1>3. NextKernel(k) = IF d < 0 THEN d + kM ELSE d
  BY DEF NextKernel
<1>4. d \in Int /\ d > -kM /\ d < kM
  BY <1>1, <1>2
<1>5. (kA * k) % kM # 0
  <2>1. kA \in 1 .. kM - 1 /\ k \in 1 .. kM - 1
    BY SplitAssumption DEF Kernel
  <2> QED
    BY <2>1, PrimeAssumption
<1> HIDE DEF d, h
<1>6. NextKernel(k) = (kA * k) % kM
  <2>1. CASE d >= 0
    <3>1. d \in 0 .. kM - 1
      BY <2>1, <1>4, <1>2
    <3>2. d = (kA * k) % kM
      BY <3>1, <1>1, <1>2, RemainderUnique
    <3> QED
      BY <3>2, <2>1, <1>3, <1>4
  <2>2. CASE d < 0
    <3>1. d + kM \in 0 .. kM - 1
      BY <2>2, <1>4, <1>2
    <3>2. kA * k = kM * (h - 1) + (d + kM) /\ h - 1 \in Int
      BY <1>1, <1>2, <1>4
    <3>3. d + kM = (kA * k) % kM
      BY <3>1, <3>2, <1>2, RemainderUnique
    <3> QED
      BY <3>3, <2>2, <1>3
  <2> QED
    BY <2>1, <2>2, <1>4
<1>7. NextKernel(k) \in Kernel
  <2>1. (kA * k) % kM \in 0 .. kM - 1
    BY <1>2
  <2> QED
    BY <2>1, <1>5, <1>6, <1>2 DEF Kernel
<1> QED
  BY <1>1, <1>6, <1>7 DEF StepFits, StepIsProduct

-----------------------------------------------------------------------------
(* The state of the seeds keeps its type, and loadRNGSeeds lets no run     *)
(* begin with a generator it has not seeded.                               *)
SeedsInv == TypeOK /\ RunsAreSeeded

LEMMA SeedIndexType ==
  \A g \in Generator : SeedIndex(g) \in Nat \ {0}
<1> SUFFICES ASSUME NEW g \in Generator PROVE SeedIndex(g) \in Nat \ {0}
  OBVIOUS
<1>1. RxTxCount \in Nat \ {0}
  BY SeedsAssumption
<1>2. CASE g = <<"msg_corrupted_by_channel", 0>>
  BY <1>1, <1>2 DEF SeedIndex
<1>3. CASE g \in {"packet_generation", "packet_transmit_time", "sleep_time"} \X Pair
  <2>1. PICK kind \in {"packet_generation", "packet_transmit_time", "sleep_time"},
             i \in Pair : g = <<kind, i>>
    BY <1>3
  <2>2. i \in Nat
    BY <1>1 DEF Pair
  <2>3. CASE kind = "packet_generation"
    BY <1>1, <2>1, <2>2, <2>3 DEF SeedIndex
  <2>4. CASE kind = "packet_transmit_time"
    BY <1>1, <2>1, <2>2, <2>4 DEF SeedIndex
  <2>5. CASE kind = "sleep_time"
    BY <1>1, <2>1, <2>2, <2>5 DEF SeedIndex
  <2> QED
    BY <2>1, <2>3, <2>4, <2>5
<1> QED
  BY <1>2, <1>3 DEF Generator

LEMMA LoadedType ==
  ASSUME TypeOK, NEW seedLine \in Seq(Kernel)
  PROVE  /\ Loaded(seedLine) \in [Generator -> Kernel \union {DefaultKernel}]
         /\ (\A g \in Generator : SeedIndex(g) <= Len(seedLine)) =>
                Loaded(seedLine) \in [Generator -> Kernel]
<1>1. \A g \in Generator : SeedIndex(g) <= Len(seedLine) => seedLine[SeedIndex(g)] \in Kernel
  BY SeedIndexType
<1> QED
  BY <1>1 DEF Loaded, TypeOK

LEMMA SeedsInit == Init => SeedsInv
<1> SUFFICES ASSUME Init PROVE SeedsInv
  OBVIOUS
<1>1. NumericalDistance \in Nat /\ Repeats \in Nat
  BY SeedsAssumption
<1>2. file \in Seq(Seq(Kernel)) /\ prime \in Kernel
  BY SeedsAssumption DEF Init
<1>3. seedSet \in Seq(Kernel) /\ seeds \in Seq(Seq(Kernel))
  BY DEF Init
<1>4. kernel \in [Generator -> Kernel \union {DefaultKernel}]
  BY DEF Init
<1>5. used \in [Generator -> SUBSET Kernel] /\ past \subseteq Kernel
  BY DEF Init
<1>6. drawn \in 0 .. NumericalDistance /\ line \in 0 .. Repeats /\ run \in 0 .. Repeats
  BY <1>1 DEF Init
<1>7. phase = "open" /\ written = FALSE
  BY DEF Init
<1> QED
  BY <1>2, <1>3, <1>4, <1>5, <1>6, <1>7 DEF SeedsInv, TypeOK, RunsAreSeeded

LEMMA SeedsStep == SeedsInv /\ [Next]_vars => SeedsInv'
<1> SUFFICES ASSUME SeedsInv, [Next]_vars PROVE SeedsInv'
  OBVIOUS
<1> USE SeedsAssumption DEF SeedsInv
<1>1. CASE OpenSeedFile
  <2>1. file' \in Seq(Seq(Kernel))
    <3>1. file' = file \/ file' = <<>>
      BY <1>1 DEF OpenSeedFile
    <3>2. file \in Seq(Seq(Kernel)) /\ << >> \in Seq(Seq(Kernel))
      BY DEF TypeOK
    <3> QED
      BY <3>1, <3>2
  <2>2. written' \in BOOLEAN /\ phase' = "generate"
    BY <1>1 DEF OpenSeedFile
  <2> QED
    BY <1>1, <2>1, <2>2 DEF OpenSeedFile, TypeOK, RunsAreSeeded
<1>2. CASE DrawPrime
  BY <1>2, SchrageStep DEF DrawPrime, TypeOK, RunsAreSeeded, StepFits
<1>3. CASE SaveSeed
  BY <1>3 DEF SaveSeed, TypeOK, RunsAreSeeded
<1>4. CASE WriteLine
  <2>1. file' \in Seq(Seq(Kernel)) /\ seedSet' \in Seq(Kernel)
    BY <1>4 DEF WriteLine, TypeOK
  <2>2. line' \in 0 .. Repeats
    BY <1>4 DEF WriteLine, TypeOK
  <2> QED
    BY <1>4, <2>1, <2>2 DEF WriteLine, TypeOK, RunsAreSeeded
<1>5. CASE ReadSeedFile
  BY <1>5 DEF ReadSeedFile, TypeOK, RunsAreSeeded
<1>6. CASE loadRNGSeeds
  <2>1. CASE run < Len(seeds)
    <3> DEFINE seedLine == seeds[run + 1]
    <3>1. seedLine \in Seq(Kernel)
      BY <2>1 DEF TypeOK
    <3>2. NewRun(seedLine)
          /\ phase' = IF \A g \in Generator : SeedIndex(g) <= Len(seedLine)
                        THEN "running" ELSE "failed"
      BY <1>6, <2>1 DEF loadRNGSeeds, TypeOK
    <3>3. kernel' \in [Generator -> Kernel \union {DefaultKernel}]
          /\ (phase' = "running" => kernel' \in [Generator -> Kernel])
      BY <3>1, <3>2, LoadedType DEF NewRun
    <3>4. used' \in [Generator -> SUBSET Kernel] /\ past' \subseteq Kernel
      BY <3>2 DEF NewRun, TypeOK
    <3>5. run' \in 0 .. Repeats
      BY <1>6, <3>2 DEF loadRNGSeeds, NewRun, TypeOK
    <3>6. phase' \in {"running", "failed"}
      BY <3>2
    <3> HIDE DEF seedLine
    <3> QED
      BY <3>2, <3>3, <3>4, <3>5, <3>6 DEF NewRun, TypeOK, RunsAreSeeded
  <2>2. CASE ~(run < Len(seeds))
    BY <1>6, <2>2 DEF loadRNGSeeds, TypeOK, RunsAreSeeded
  <2> QED
    BY <2>1, <2>2
<1>7. CASE EndRun
  BY <1>7 DEF EndRun, TypeOK, RunsAreSeeded
<1>8. ASSUME NEW g \in Generator, Draw(g) PROVE SeedsInv'
  BY <1>8, SchrageStep DEF Draw, TypeOK, RunsAreSeeded, StepFits
<1>9. CASE UNCHANGED vars
  BY <1>9 DEF vars, TypeOK, RunsAreSeeded
<1> QED
  BY <1>1, <1>2, <1>3, <1>4, <1>5, <1>6, <1>7, <1>8, <1>9 DEF Next

(* No run draws from a generator that has the default kernel.              *)
THEOREM EveryRunIsSeeded == Spec => []RunsAreSeeded
<1>1. SeedsInv => RunsAreSeeded
  BY DEF SeedsInv
<1> QED
  BY <1>1, SeedsInit, SeedsStep, PTL DEF Spec

(* Every draw, in every run and from whatever file, is a step to a kernel, *)
(* by the product modulo kM.                                               *)
THEOREM DrawsAreProductsAlways == Spec => []DrawsAreProducts
<1>1. DrawsAreProducts
  BY SchrageStep DEF DrawsAreProducts
<1> QED
  BY <1>1, PTL

-----------------------------------------------------------------------------
(* Kernels, and how far they are from each other.                          *)

(* The kernel that n draws after s make, and those that so many make.      *)
Follows(k, s, n) == Place[k] = Place[s] + n \/ Place[k] = Place[s] + n - Period
Stream(s, n) == {k \in Kernel : \E m \in 1 .. n : Follows(k, s, m)}

LEMMA Constants ==
  /\ Period \in Nat \ {0}
  /\ SeedCount \in Nat \ {0} /\ Repeats \in Nat \ {0} /\ NumericalDistance \in Nat \ {0}
  /\ NumericalDistance <= Period
  /\ MaxDraws \in 0 .. NumericalDistance
<1>1. Period \in Nat \ {0}
  BY SplitAssumption DEF Period
<1>2. SeedCount \in Nat \ {0}
  BY SeedsAssumption DEF SeedCount
<1>3. /\ Repeats \in Nat \ {0} /\ NumericalDistance \in Nat \ {0}
      /\ MaxDraws \in 0 .. NumericalDistance
  BY SeedsAssumption
<1>4. Repeats * SeedCount \in Nat \ {0}
  BY <1>2, <1>3
<1>5. NumericalDistance <= Repeats * SeedCount * NumericalDistance
  BY <1>3, <1>4
<1>6. Repeats * SeedCount * NumericalDistance <= Period
  BY DistanceAssumption
<1>7. Repeats * SeedCount * NumericalDistance \in Nat
  BY <1>3, <1>4
<1>8. NumericalDistance <= Period
  BY <1>1, <1>3, <1>5, <1>6, <1>7
<1> QED
  BY <1>1, <1>2, <1>3, <1>8

(* A kernel is in its place, and no other is.                              *)
LEMMA Places ==
  ASSUME NEW j \in Kernel, NEW k \in Kernel
  PROVE  /\ Place[j] \in 0 .. Period - 1
         /\ Place[j] = Place[k] => j = k
BY PeriodAssumption

(* The next draw.                                                          *)
LEMMA NextFollows ==
  ASSUME NEW k \in Kernel, NEW s \in Kernel, NEW n \in Nat, n + 1 <= Period, Follows(k, s, n)
  PROVE  NextKernel(k) \in Kernel /\ Follows(NextKernel(k), s, n + 1)
<1>1. NextKernel(k) \in Kernel
  BY SchrageStep DEF StepFits
<1>2. Place[NextKernel(k)] = IF Place[k] = Period - 1 THEN 0 ELSE Place[k] + 1
  BY PeriodAssumption, SchrageStep DEF StepIsProduct
<1>3. Place[k] \in 0 .. Period - 1 /\ Place[s] \in 0 .. Period - 1
  BY Places
<1> DEFINE x == Place[k]
           y == Place[s]
           z == Place[NextKernel(k)]
<1>4. x = y + n \/ x = y + n - Period
  BY DEF Follows
<1>5. z = y + (n + 1) \/ z = y + (n + 1) - Period
  <2> HIDE DEF x, y, z
  <2> QED
    BY <1>2, <1>3, <1>4, Constants DEF x, y, z
<1> QED
  BY <1>1, <1>5 DEF Follows

LEMMA NoDrawYet ==
  ASSUME NEW s \in Kernel
  PROVE  Follows(s, s, 0) /\ Stream(s, 0) = {}
<1>1. Place[s] \in Int
  BY Places, Constants
<1> QED
  BY <1>1 DEF Follows, Stream

(* A draw adds one kernel to those of a stream.                            *)
LEMMA StreamGrows ==
  ASSUME NEW k \in Kernel, NEW s \in Kernel, NEW n \in Nat, n + 1 <= Period,
         Follows(k, s, n + 1)
  PROVE  Stream(s, n + 1) = Stream(s, n) \union {k} /\ k \notin Stream(s, n)
<1>1. \A j \in Kernel : Follows(j, s, n + 1) <=> j = k
  <2> SUFFICES ASSUME NEW j \in Kernel, Follows(j, s, n + 1) PROVE j = k
    OBVIOUS
  <2>1. Place[j] = Place[k]
    <3>1. /\ Place[j] \in 0 .. Period - 1 /\ Place[k] \in 0 .. Period - 1
          /\ Place[s] \in 0 .. Period - 1
      BY Places
    <3> QED
      BY <3>1, Constants DEF Follows
  <2> QED
    BY <2>1, Places
<1>2. \A m \in 1 .. n + 1 : m \in 1 .. n \/ m = n + 1
  OBVIOUS
<1>3. n + 1 \in 1 .. n + 1 /\ \A m \in 1 .. n : m \in 1 .. n + 1
  OBVIOUS
<1>4. k \notin Stream(s, n)
  <2> SUFFICES ASSUME NEW m \in 1 .. n, Follows(k, s, m) PROVE FALSE
    BY DEF Stream
  <2>1. Place[k] \in 0 .. Period - 1 /\ Place[s] \in 0 .. Period - 1
    BY Places
  <2> QED
    BY <2>1, Constants DEF Follows
<1> QED
  BY <1>1, <1>2, <1>3, <1>4 DEF Stream

(* Kernels that are apart begin draws that have nothing in common.         *)
LEMMA ApartStreams ==
  ASSUME NEW j \in Kernel, NEW k \in Kernel, Apart(j, k)
  PROVE  Stream(j, NumericalDistance) \intersect Stream(k, NumericalDistance) = {}
<1> SUFFICES ASSUME NEW l \in Kernel,
                    NEW m \in 1 .. NumericalDistance, NEW n \in 1 .. NumericalDistance,
                    Follows(l, j, m), Follows(l, k, n)
             PROVE  FALSE
  BY DEF Stream
<1>1. /\ Place[j] \in 0 .. Period - 1 /\ Place[k] \in 0 .. Period - 1
      /\ Place[l] \in 0 .. Period - 1
  BY Places
<1>2. NumericalDistance \in Nat /\ Period \in Nat
  BY Constants
<1>3. /\ Place[l] = Place[j] + m \/ Place[l] = Place[j] + m - Period
      /\ Place[l] = Place[k] + n \/ Place[l] = Place[k] + n - Period
  BY DEF Follows
<1>4. \/ Place[j] - Place[k] \in NumericalDistance .. Period - NumericalDistance
      \/ Place[k] - Place[j] \in NumericalDistance .. Period - NumericalDistance
  BY DEF Apart
<1> QED
  BY <1>1, <1>2, <1>3, <1>4

(* Kernels that follow the same one at that distance are apart.            *)
LEMMA FollowersApart ==
  ASSUME NEW j \in Kernel, NEW k \in Kernel, NEW s \in Kernel, NEW m \in Nat, NEW n \in Nat,
         Follows(j, s, m), Follows(k, s, n),
         m >= NumericalDistance, m + NumericalDistance <= n, n <= Period
  PROVE  Apart(j, k) /\ Apart(k, j)
<1>1. /\ Place[j] \in 0 .. Period - 1 /\ Place[k] \in 0 .. Period - 1
      /\ Place[s] \in 0 .. Period - 1
  BY Places
<1>2. NumericalDistance \in Nat /\ Period \in Nat
  BY Constants
<1>3. /\ Place[j] = Place[s] + m \/ Place[j] = Place[s] + m - Period
      /\ Place[k] = Place[s] + n \/ Place[k] = Place[s] + n - Period
  BY DEF Follows
<1>4. \/ Place[j] - Place[k] \in NumericalDistance .. Period - NumericalDistance
      \/ Place[k] - Place[j] \in NumericalDistance .. Period - NumericalDistance
  BY <1>1, <1>2, <1>3
<1> QED
  BY <1>4 DEF Apart

-----------------------------------------------------------------------------
(* Where the seeds of the file lie behind the kernel the program started   *)
(* from: seed p of the line after a lines.                                 *)
Draws(a, p) == (a * SeedCount + p) * NumericalDistance

LEMMA DrawsType ==
  ASSUME NEW a \in Nat, NEW p \in Nat
  PROVE  /\ Draws(a, p) \in Nat
         /\ Draws(a, p + 1) = Draws(a, p) + NumericalDistance
         /\ Draws(a + 1, 0) = Draws(a, SeedCount)
<1>1. a * SeedCount \in Nat /\ (a + 1) * SeedCount = a * SeedCount + SeedCount
  BY Constants
<1> DEFINE x == a * SeedCount
<1>2. (x + p) * NumericalDistance \in Nat
      /\ (x + (p + 1)) * NumericalDistance = (x + p) * NumericalDistance + NumericalDistance
  <2> HIDE DEF x
  <2> QED BY <1>1, Constants DEF x
<1> QED
  BY <1>1, <1>2, Constants DEF Draws

(* Later seeds lie further on, by the distance at least.                   *)
LEMMA DrawsGrow ==
  ASSUME NEW a \in Nat, NEW p \in Nat, NEW b \in Nat, NEW q \in Nat,
         (a = b /\ p < q) \/ (a < b /\ p <= SeedCount /\ q >= 1)
  PROVE  Draws(a, p) + NumericalDistance <= Draws(b, q)
<1> DEFINE x == a * SeedCount + p
           y == b * SeedCount + q
<1>1. /\ SeedCount \in Nat /\ NumericalDistance \in Nat
      /\ a * SeedCount \in Nat /\ b * SeedCount \in Nat
      /\ x \in Nat /\ y \in Nat
  BY Constants
<1>2. x + 1 <= y
  <2>1. CASE a = b /\ p < q
    BY <1>1, <2>1
  <2>2. CASE a < b /\ p <= SeedCount /\ q >= 1
    <3>1. SeedCount * (a + 1) <= SeedCount * b
      BY <1>1, <2>2, ProductMonotone
    <3>2. SeedCount * (a + 1) = a * SeedCount + SeedCount /\ SeedCount * b = b * SeedCount
      BY <1>1
    <3> QED
      BY <1>1, <2>2, <3>1, <3>2
  <2> QED
    BY <2>1, <2>2
<1>3. NumericalDistance * (x + 1) <= NumericalDistance * y
  BY <1>1, <1>2, ProductMonotone
<1> HIDE DEF x, y
<1>4. NumericalDistance * (x + 1) = x * NumericalDistance + NumericalDistance
      /\ NumericalDistance * y = y * NumericalDistance
  BY <1>1
<1> QED
  BY <1>3, <1>4 DEF Draws, x, y

(* All of them lie within one period.                                      *)
LEMMA DrawsWithinPeriod ==
  ASSUME NEW a \in 0 .. Repeats - 1, NEW p \in 0 .. SeedCount
  PROVE  /\ Draws(a, p) <= Period
         /\ p < SeedCount => Draws(a, p) + NumericalDistance <= Period
         /\ p > 0 => Draws(a, p) >= NumericalDistance
<1>1. /\ SeedCount \in Nat \ {0} /\ NumericalDistance \in Nat \ {0} /\ Repeats \in Nat \ {0}
      /\ Period \in Nat /\ a \in Nat /\ p \in Nat
  BY Constants
<1>2. Draws(a, p) \in Nat /\ Draws(a, p + 1) = Draws(a, p) + NumericalDistance
  BY <1>1, DrawsType
<1>3. ASSUME NEW q \in 0 .. SeedCount
      PROVE  Draws(a, q) <= Period
  <2>1. SeedCount * (a + 1) <= SeedCount * Repeats
    BY <1>1, ProductMonotone
  <2>2. SeedCount * (a + 1) = a * SeedCount + SeedCount /\ SeedCount * Repeats = Repeats * SeedCount
        /\ a * SeedCount \in Nat /\ Repeats * SeedCount \in Nat
    BY <1>1
  <2>3. a * SeedCount + q \in Nat /\ a * SeedCount + q <= Repeats * SeedCount
    BY <1>1, <2>1, <2>2
  <2> DEFINE x == a * SeedCount + q
             y == Repeats * SeedCount
  <2>4. NumericalDistance * x <= NumericalDistance * y
    BY <1>1, <2>2, <2>3, ProductMonotone
  <2>5. y * NumericalDistance <= Period
    BY DistanceAssumption
  <2>6. x \in Nat /\ y \in Nat
    BY <2>2, <2>3
  <2> HIDE DEF x, y
  <2>7. x * NumericalDistance <= Period
    BY <1>1, <2>4, <2>5, <2>6
  <2> QED
    BY <2>7 DEF Draws, x
<1>4. p < SeedCount => Draws(a, p) + NumericalDistance <= Period
  BY <1>1, <1>2, <1>3
<1>5. p > 0 => Draws(a, p) >= NumericalDistance
  <2>1. Draws(a, 0) \in Nat
    BY <1>1, DrawsType
  <2>2. p > 0 => Draws(a, 0) + NumericalDistance <= Draws(a, p)
    BY <1>1, DrawsGrow
  <2> QED
    BY <1>1, <1>2, <2>1, <2>2
<1> QED
  BY <1>3, <1>4, <1>5
-----------------------------------------------------------------------------
(* The inductive invariant of the seeds.  GeneratedInv is about the file:  *)
(* every seed follows the kernel the program started from by the draws     *)
(* before it, and a file that was written has its lines, or else it is an  *)
(* old one.  DrawnInv is about the draws: those of a run follow its seeds, *)
(* one for each kernel used, and those of earlier runs followed theirs.    *)

SeedsFollow(start) ==
    /\ Follows(prime, start, Draws(line, Len(seedSet)) + drawn)
    /\ \A p \in 1 .. Len(seedSet) : Follows(seedSet[p], start, Draws(line, p))
    /\ written => \A a \in 1 .. Len(file) : \A p \in 1 .. Len(file[a]) :
                      Follows(file[a][p], start, Draws(a - 1, p))

(* A seed is only drawn for a place of a line that is missing.             *)
LineInv ==
    /\ phase = "open" => line = 0 /\ drawn = 0 /\ seedSet = <<>> /\ ~written
    /\ Len(seedSet) <= SeedCount
    /\ drawn > 0 => Len(seedSet) < SeedCount /\ line < Repeats
    /\ seedSet # <<>> => line < Repeats

FileInv ==
    /\ written => Len(file) = line /\ \A a \in 1 .. Len(file) : Len(file[a]) = SeedCount
    /\ ~written => Spaced(file)

GeneratedInv == LineInv /\ FileInv /\ \E start \in Kernel : SeedsFollow(start)

ReadInv ==
    /\ phase \in {"open", "generate"} => seeds = <<>> /\ run = 0
    /\ phase \notin {"open", "generate"} => seeds = file /\ line = Repeats
    /\ phase = "failed" => ~written

(* Kernel k is one of those a generator may draw in a run.                 *)
DrawnIn(k, a, g) ==
    /\ a \in 1 .. Len(seeds)
    /\ SeedIndex(g) <= Len(seeds[a])
    /\ k \in Stream(seeds[a][SeedIndex(g)], NumericalDistance)

Drawing(g) ==
    /\ SeedIndex(g) <= Len(seeds[run])
    /\ Cardinality(used[g]) \in 0 .. MaxDraws
    /\ Follows(kernel[g], seeds[run][SeedIndex(g)], Cardinality(used[g]))
    /\ used[g] = Stream(seeds[run][SeedIndex(g)], Cardinality(used[g]))

DrawnInv ==
    /\ \A g \in Generator : \A k \in used[g] : DrawnIn(k, run, g)
    /\ \A k \in past : \E a \in 1 .. run - 1, g \in Generator : DrawnIn(k, a, g)
    /\ phase = "running" => run \in 1 .. Len(seeds) /\ \A g \in Generator : Drawing(g)

StreamsInv == TypeOK /\ RunsAreSeeded /\ GeneratedInv /\ ReadInv /\ DrawnInv

(* What the steps leave alone.                                             *)
LEMMA GeneratedKept ==
  ASSUME GeneratedInv, UNCHANGED <<file, written, prime, line, drawn, seedSet>>,
         phase' = phase \/ phase' # "open"
  PROVE  GeneratedInv'
<1>1. LineInv'
  BY DEF GeneratedInv, LineInv
<1>2. FileInv'
  BY DEF GeneratedInv, FileInv, Spaced
<1>3. PICK start \in Kernel : SeedsFollow(start)
  BY DEF GeneratedInv
<1>4. SeedsFollow(start)'
  BY <1>3 DEF SeedsFollow
<1> QED
  BY <1>1, <1>2, <1>4 DEF GeneratedInv

LEMMA DrawnKept ==
  ASSUME DrawnInv, UNCHANGED <<seeds, run, used, past>>, phase' # "running"
  PROVE  DrawnInv'
BY DEF DrawnInv, DrawnIn

(* A file that was opened is empty, or the old one.                        *)
LEMMA OpeningKeepsInv ==
  ASSUME TypeOK, GeneratedInv, OpenSeedFile
  PROVE  GeneratedInv'
<1> USE DEF OpenSeedFile
<1>1. line = 0 /\ drawn = 0 /\ seedSet = <<>> /\ ~written /\ Spaced(file)
  BY DEF GeneratedInv, LineInv, FileInv
<1>2. LineInv'
  BY DEF GeneratedInv, LineInv
<1>3. written' => file' = <<>> /\ Len(file') = 0
  BY <1>1
<1>4. ~written' => file' = file
  BY <1>1
<1>5. FileInv'
  BY <1>1, <1>3, <1>4 DEF FileInv, Spaced
<1>6. PICK start \in Kernel : SeedsFollow(start)
  BY DEF GeneratedInv
<1>7. SeedsFollow(start)'
  BY <1>3, <1>6 DEF SeedsFollow
<1> QED
  BY <1>2, <1>5, <1>7 DEF GeneratedInv

(* The kernel of the prime generator moves on.                             *)
LEMMA DrawPrimeKeepsInv ==
  ASSUME TypeOK, GeneratedInv, DrawPrime
  PROVE  GeneratedInv'
<1> USE DEF DrawPrime
<1>1. LineInv'
  BY Constants DEF GeneratedInv, LineInv, TypeOK
<1>2. FileInv'
  BY DEF GeneratedInv, FileInv, Spaced
<1>3. PICK start \in Kernel : SeedsFollow(start)
  BY DEF GeneratedInv
<1> DEFINE n == Draws(line, Len(seedSet))
<1>4. line \in 0 .. Repeats - 1 /\ Len(seedSet) \in 0 .. SeedCount
      /\ Len(seedSet) < SeedCount /\ drawn \in Nat /\ prime \in Kernel
  BY Constants, LenProperties DEF TypeOK
<1>5. n \in Nat /\ n + NumericalDistance <= Period
  <2>1. line \in Nat /\ Len(seedSet) \in Nat
    BY <1>4
  <2> QED
    BY <1>4, <2>1, DrawsType, DrawsWithinPeriod
<1>6. Follows(prime, start, n + drawn)
  BY <1>3 DEF SeedsFollow
<1> HIDE DEF n
<1>7. n + drawn \in Nat /\ (n + drawn) + 1 <= Period /\ n + (drawn + 1) = (n + drawn) + 1
  BY <1>4, <1>5, Constants
<1>8. Follows(NextKernel(prime), start, n + (drawn + 1))
  BY <1>4, <1>6, <1>7, NextFollows
<1>9. Follows(prime', start, Draws(line', Len(seedSet')) + drawn')
  BY <1>8 DEF n
<1>10. SeedsFollow(start)'
  BY <1>3, <1>9 DEF SeedsFollow
<1> QED
  BY <1>1, <1>2, <1>10 DEF GeneratedInv

(* The seed that is saved is as far on as its place says.                  *)
LEMMA SavingKeepsInv ==
  ASSUME TypeOK, GeneratedInv, SaveSeed
  PROVE  GeneratedInv'
<1> USE DEF SaveSeed
<1>1. /\ Len(seedSet) < SeedCount /\ line < Repeats /\ Len(seedSet) \in Nat
      /\ line \in Nat /\ prime \in Kernel /\ seedSet \in Seq(Kernel)
  BY Constants, LenProperties DEF GeneratedInv, LineInv, TypeOK
<1> DEFINE t == Append(seedSet, prime)
<1>2. /\ Len(t) = Len(seedSet) + 1
      /\ \A p \in 1 .. Len(seedSet) : t[p] = seedSet[p]
      /\ t[Len(seedSet) + 1] = prime
  BY <1>1, AppendProperties
<1>3. seedSet' = t
  OBVIOUS
<1> HIDE DEF t
<1>4. LineInv'
  BY <1>1, <1>2, <1>3, Constants DEF GeneratedInv, LineInv
<1>5. FileInv'
  BY DEF GeneratedInv, FileInv, Spaced
<1>6. PICK start \in Kernel : SeedsFollow(start)
  BY DEF GeneratedInv
<1>7. Draws(line, Len(seedSet) + 1) = Draws(line, Len(seedSet)) + drawn
  BY <1>1, DrawsType
<1>8. Follows(prime, start, Draws(line, Len(seedSet) + 1))
  BY <1>6, <1>7 DEF SeedsFollow
<1>9. Draws(line, Len(t)) + 0 = Draws(line, Len(seedSet) + 1)
  <2>1. Len(seedSet) + 1 \in Nat
    BY <1>1
  <2>2. Draws(line, Len(seedSet) + 1) \in Nat
    BY <1>1, <2>1, DrawsType
  <2> QED
    BY <1>2, <2>2
<1>10. Follows(prime', start, Draws(line', Len(seedSet')) + drawn')
  BY <1>3, <1>8, <1>9
<1>11. \A p \in 1 .. Len(t) : Follows(t[p], start, Draws(line, p))
  <2>1. \A p \in 1 .. Len(t) : p \in 1 .. Len(seedSet) \/ p = Len(seedSet) + 1
    BY <1>1, <1>2
  <2> QED
    BY <1>2, <1>6, <1>8, <2>1 DEF SeedsFollow
<1>12. SeedsFollow(start)'
  BY <1>3, <1>6, <1>10, <1>11 DEF SeedsFollow
<1> QED
  BY <1>4, <1>5, <1>12 DEF GeneratedInv

(* A line that is written has its number of seeds.                         *)
LEMMA WritingKeepsInv ==
  ASSUME TypeOK, GeneratedInv, WriteLine
  PROVE  GeneratedInv'
<1> USE DEF WriteLine
<1>1. /\ line \in Nat /\ drawn \in Nat /\ seedSet \in Seq(Kernel) /\ file \in Seq(Seq(Kernel))
      /\ Len(file) \in Nat
  BY Constants, LenProperties DEF TypeOK
<1>2. drawn = 0
  BY <1>1 DEF GeneratedInv, LineInv
<1>3. Len(seedSet') = 0
  OBVIOUS
<1>4. LineInv'
  BY <1>2, <1>3, Constants DEF GeneratedInv, LineInv
<1>5. PICK start \in Kernel : SeedsFollow(start)
  BY DEF GeneratedInv
<1>6. Draws(line + 1, 0) = Draws(line, Len(seedSet))
  BY <1>1, DrawsType
<1>7. Follows(prime', start, Draws(line', Len(seedSet')) + drawn')
  BY <1>3, <1>5, <1>6 DEF SeedsFollow
<1>8. CASE written
  <2> DEFINE t == Append(file, seedSet)
  <2>1. /\ Len(t) = Len(file) + 1
        /\ \A a \in 1 .. Len(file) : t[a] = file[a]
        /\ t[Len(file) + 1] = seedSet
    BY <1>1, AppendProperties
  <2>2. file' = t /\ written'
    BY <1>8
  <2>3. Len(file) = line
    BY <1>8 DEF GeneratedInv, FileInv
  <2> HIDE DEF t
  <2>4. \A a \in 1 .. Len(t) : a \in 1 .. Len(file) \/ a = Len(file) + 1
    BY <1>1, <2>1
  <2>5. FileInv'
    <3>1. \A a \in 1 .. Len(t) : Len(t[a]) = SeedCount
      BY <1>8, <2>1, <2>4 DEF GeneratedInv, FileInv
    <3> QED
      BY <2>1, <2>2, <2>3, <3>1 DEF FileInv
  <2>6. ASSUME NEW a \in 1 .. Len(t), NEW p \in 1 .. Len(t[a])
        PROVE  Follows(t[a][p], start, Draws(a - 1, p))
    <3>1. CASE a \in 1 .. Len(file)
      BY <1>5, <1>8, <2>1, <3>1 DEF SeedsFollow
    <3>2. CASE a = Len(file) + 1
      <4>1. a - 1 = line /\ t[a] = seedSet
        BY <1>1, <2>1, <2>3, <3>2
      <4> QED
        BY <1>5, <4>1 DEF SeedsFollow
    <3> QED
      BY <2>4, <3>1, <3>2
  <2>7. SeedsFollow(start)'
    BY <1>3, <1>7, <2>2, <2>6 DEF SeedsFollow
  <2> QED
    BY <1>4, <2>5, <2>7 DEF GeneratedInv
<1>9. CASE ~written
  <2>1. FileInv'
    BY <1>9 DEF GeneratedInv, FileInv, Spaced
  <2>2. SeedsFollow(start)'
    BY <1>3, <1>7, <1>9 DEF SeedsFollow
  <2> QED
    BY <1>4, <2>1, <2>2 DEF GeneratedInv
<1> QED
  BY <1>8, <1>9

-----------------------------------------------------------------------------
(* The seeds of a file that was written are apart, as those of an old one  *)
(* are.                                                                    *)
LEMMA FileIsSpaced ==
  ASSUME TypeOK, GeneratedInv
  PROVE  Spaced(file)
<1>1. CASE ~written
  BY <1>1 DEF GeneratedInv, FileInv
<1>2. CASE written
  <2> SUFFICES ASSUME NEW a \in 1 .. Len(file), NEW b \in 1 .. Len(file),
                      NEW p \in 1 .. Len(file[a]), NEW q \in 1 .. Len(file[b]),
                      ~(a = b /\ p = q)
               PROVE  Apart(file[a][p], file[b][q])
    BY DEF Spaced
  <2>1. PICK start \in Kernel : SeedsFollow(start)
    BY DEF GeneratedInv
  <2>2. /\ Len(file) = line /\ line \in 0 .. Repeats /\ Len(file[a]) = SeedCount
        /\ Len(file[b]) = SeedCount
    BY <1>2 DEF GeneratedInv, FileInv, TypeOK
  <2>3. /\ a - 1 \in 0 .. Repeats - 1 /\ b - 1 \in 0 .. Repeats - 1
        /\ a - 1 \in Nat /\ b - 1 \in Nat /\ p \in Nat /\ q \in Nat
        /\ p \in 0 .. SeedCount /\ q \in 0 .. SeedCount /\ p > 0 /\ q > 0
    BY <2>2, Constants
  <2>4. file[a] \in Seq(Kernel) /\ file[b] \in Seq(Kernel)
    <3>1. file \in Seq(Seq(Kernel))
      BY DEF TypeOK
    <3> QED
      BY <3>1
  <2>5. file[a][p] \in Kernel /\ file[b][q] \in Kernel
    BY <2>4
  <2> DEFINE m == Draws(a - 1, p)
             n == Draws(b - 1, q)
  <2>6. Follows(file[a][p], start, m) /\ Follows(file[b][q], start, n)
    BY <1>2, <2>1 DEF SeedsFollow
  <2>7. m \in Nat /\ n \in Nat
    BY <2>3, DrawsType
  <2>8. /\ m <= Period /\ m >= NumericalDistance
        /\ n <= Period /\ n >= NumericalDistance
    BY <2>3, DrawsWithinPeriod
  <2>9. m + NumericalDistance <= n \/ n + NumericalDistance <= m
    <3>1. CASE a - 1 < b - 1
      BY <2>3, <3>1, DrawsGrow
    <3>2. CASE b - 1 < a - 1
      BY <2>3, <3>2, DrawsGrow
    <3>3. CASE a = b /\ p < q
      BY <2>3, <3>3, DrawsGrow
    <3>4. CASE a = b /\ q < p
      BY <2>3, <3>4, DrawsGrow
    <3> QED
      BY <2>3, <3>1, <3>2, <3>3, <3>4
  <2> HIDE DEF m, n
  <2> QED
    BY <2>5, <2>6, <2>7, <2>8, <2>9, FollowersApart
<1> QED
  BY <1>1, <1>2

LEMMA SeedsAreSpaced ==
  ASSUME TypeOK, GeneratedInv, ReadInv
  PROVE  Spaced(seeds)
<1>1. seeds = file \/ seeds = <<>>
  BY DEF ReadInv
<1>2. CASE seeds = <<>>
  <2>1. Len(seeds) = 0
    BY <1>2
  <2> QED
    BY <2>1 DEF Spaced
<1> QED
  BY <1>1, <1>2, FileIsSpaced

(* Every generator has a seed of its own in a full line.                   *)
LEMMA SeedIndices ==
  /\ \A g \in Generator : SeedIndex(g) \in 1 .. SeedCount
  /\ \A g, h \in Generator : SeedIndex(g) = SeedIndex(h) => g = h
<1>1. RxTxCount \in Nat \ {0}
  BY SeedsAssumption
<1>2. ASSUME NEW g \in Generator
      PROVE  \/ \E i \in 0 .. RxTxCount - 1 :
                    \/ g = <<"packet_generation", i>> /\ SeedIndex(g) = i + 1
                    \/ g = <<"packet_transmit_time", i>> /\ SeedIndex(g) = RxTxCount + i + 1
                    \/ g = <<"sleep_time", i>> /\ SeedIndex(g) = 2 * RxTxCount + i + 1
             \/ g = <<"msg_corrupted_by_channel", 0>> /\ SeedIndex(g) = 3 * RxTxCount + 1
  <2>1. CASE g = <<"msg_corrupted_by_channel", 0>>
    BY <2>1 DEF SeedIndex
  <2>2. CASE g \in {"packet_generation", "packet_transmit_time", "sleep_time"} \X Pair
    <3>1. PICK kind \in {"packet_generation", "packet_transmit_time", "sleep_time"},
               i \in Pair : g = <<kind, i>>
      BY <2>2
    <3>2. i \in 0 .. RxTxCount - 1
      BY DEF Pair
    <3>3. kind = "packet_generation" => SeedIndex(g) = i + 1
      BY <3>1 DEF SeedIndex
    <3>4. kind = "packet_transmit_time" => SeedIndex(g) = RxTxCount + i + 1
      BY <3>1 DEF SeedIndex
    <3>5. kind = "sleep_time" => SeedIndex(g) = 2 * RxTxCount + i + 1
      BY <3>1 DEF SeedIndex
    <3> QED
      BY <3>1, <3>2, <3>3, <3>4, <3>5
  <2> QED
    BY <2>1, <2>2 DEF Generator
<1>3. \A g \in Generator : SeedIndex(g) \in 1 .. SeedCount
  <2> SUFFICES ASSUME NEW g \in Generator PROVE SeedIndex(g) \in 1 .. 3 * RxTxCount + 1
    BY DEF SeedCount
  <2> QED
    BY <1>1, <1>2
<1>4. ASSUME NEW g \in Generator, NEW h \in Generator, SeedIndex(g) = SeedIndex(h)
      PROVE  g = h
  BY <1>1, <1>2, <1>4
<1> QED
  BY <1>3, <1>4

(* No kernel is drawn in two runs or by two generators.                    *)
LEMMA DrawnOnce ==
  ASSUME TypeOK, Spaced(seeds), NEW k, NEW a, NEW b, NEW g \in Generator, NEW h \in Generator,
         DrawnIn(k, a, g), DrawnIn(k, b, h)
  PROVE  a = b /\ g = h
<1> SUFFICES ASSUME ~(a = b /\ g = h) PROVE FALSE
  OBVIOUS
<1> DEFINE p == SeedIndex(g)
           q == SeedIndex(h)
<1>1. /\ a \in 1 .. Len(seeds) /\ b \in 1 .. Len(seeds)
      /\ seeds[a] \in Seq(Kernel) /\ seeds[b] \in Seq(Kernel)
  BY DEF DrawnIn, TypeOK
<1>2. p \in 1 .. Len(seeds[a]) /\ q \in 1 .. Len(seeds[b])
  BY <1>1, SeedIndices, LenProperties, Constants DEF DrawnIn
<1>3. ~(a = b /\ p = q)
  BY SeedIndices
<1>4. /\ k \in Stream(seeds[a][p], NumericalDistance)
      /\ k \in Stream(seeds[b][q], NumericalDistance)
  BY DEF DrawnIn
<1> HIDE DEF p, q
<1>5. Apart(seeds[a][p], seeds[b][q])
  BY <1>1, <1>2, <1>3 DEF Spaced
<1>6. seeds[a][p] \in Kernel /\ seeds[b][q] \in Kernel
  BY <1>1, <1>2
<1> QED
  BY <1>4, <1>5, <1>6, ApartStreams

-----------------------------------------------------------------------------
(* Before the file is read there are no runs and no draws.                 *)
LEMMA ReadingKeepsInv ==
  ASSUME TypeOK, GeneratedInv, ReadInv, DrawnInv, ReadSeedFile
  PROVE  GeneratedInv' /\ ReadInv' /\ DrawnInv'
<1> USE DEF ReadSeedFile
<1>1. GeneratedInv'
  BY GeneratedKept
<1>2. run = 0 /\ seeds = <<>>
  BY DEF ReadInv
<1>3. \A g \in Generator : used[g] = {}
  <2>1. ASSUME NEW g \in Generator, NEW k \in used[g] PROVE FALSE
    BY <1>2 DEF DrawnInv, DrawnIn
  <2> QED
    BY <2>1
<1>4. past = {}
  <2>1. ASSUME NEW k \in past PROVE FALSE
    BY <1>2 DEF DrawnInv
  <2> QED
    BY <2>1
<1>5. DrawnInv'
  BY <1>3, <1>4 DEF DrawnInv
<1>6. phase' = "failed" => ~written
  <2> SUFFICES ASSUME written, file = <<>> PROVE FALSE
    OBVIOUS
  <2>1. Len(file) = Repeats
    BY DEF GeneratedInv, FileInv
  <2> QED
    BY <2>1, Constants
<1>7. ReadInv'
  BY <1>6 DEF ReadInv
<1> QED
  BY <1>1, <1>5, <1>7

(* A run gets a seed for every generator, or ends the program, which it    *)
(* does only if the file is an old one.                                    *)
LEMMA LoadingKeepsInv ==
  ASSUME TypeOK, RunsAreSeeded, GeneratedInv, ReadInv, DrawnInv, loadRNGSeeds
  PROVE  GeneratedInv' /\ ReadInv' /\ DrawnInv'
<1>1. phase = "ready" /\ run < Repeats /\ run \in Nat /\ Len(seeds) \in Nat
      /\ seeds \in Seq(Seq(Kernel))
  BY Constants, LenProperties DEF loadRNGSeeds, TypeOK
<1>2. seeds = file /\ line = Repeats
  BY <1>1 DEF ReadInv
<1>3. written => Len(seeds) = Repeats /\ \A a \in 1 .. Len(seeds) : Len(seeds[a]) = SeedCount
  BY <1>2 DEF GeneratedInv, FileInv
<1>4. CASE run < Len(seeds)
  <2> DEFINE seedLine == seeds[run + 1]
  <2>1. /\ NewRun(seedLine)
        /\ phase' = IF \A g \in Generator : SeedIndex(g) <= Len(seedLine)
                      THEN "running" ELSE "failed"
    BY <1>1, <1>4 DEF loadRNGSeeds
  <2>2. run + 1 \in 1 .. Len(seeds) /\ seedLine \in Seq(Kernel)
    BY <1>1, <1>4
  <2>3. /\ UNCHANGED <<file, written, prime, drawn, line, seedSet, seeds>>
        /\ run' = run + 1
        /\ past' = past \union UNION {used[g] : g \in Generator}
        /\ used' = [g \in Generator |-> {}]
        /\ kernel' = Loaded(seedLine)
        /\ phase' \in {"running", "failed"}
    BY <2>1 DEF NewRun
  <2>4. GeneratedInv'
    BY <2>3, GeneratedKept
  <2>5. phase' = "failed" => ~written
    <3> SUFFICES ASSUME written PROVE \A g \in Generator : SeedIndex(g) <= Len(seedLine)
      BY <2>1
    <3>1. Len(seedLine) = SeedCount
      BY <1>3, <2>2
    <3> HIDE DEF seedLine
    <3> QED
      BY <3>1, SeedIndices, Constants
  <2>6. ReadInv'
    BY <1>2, <2>3, <2>5 DEF ReadInv
  <2>7. ASSUME NEW k \in past'
        PROVE  \E a \in 1 .. run' - 1, g \in Generator : DrawnIn(k, a, g)'
    <3>1. CASE k \in past
      <4>1. PICK a \in 1 .. run - 1, g \in Generator : DrawnIn(k, a, g)
        BY <3>1 DEF DrawnInv
      <4>2. a \in 1 .. run' - 1 /\ DrawnIn(k, a, g)'
        BY <1>1, <2>3, <4>1 DEF DrawnIn
      <4> QED
        BY <4>2
    <3>2. CASE k \notin past
      <4>1. PICK g \in Generator : k \in used[g]
        BY <2>3, <3>2
      <4>2. DrawnIn(k, run, g)
        BY <4>1 DEF DrawnInv
      <4>3. PICK a \in Nat : a = run
        BY <1>1
      <4>4. DrawnIn(k, a, g)'
        BY <2>3, <4>2, <4>3 DEF DrawnIn
      <4>5. a \in 1 .. run' - 1
        BY <1>1, <2>3, <4>2, <4>3 DEF DrawnIn
      <4> QED
        BY <4>4, <4>5
    <3> QED
      BY <3>1, <3>2
  <2>8. ASSUME phase' = "running", NEW g \in Generator
        PROVE  Drawing(g)'
    <3> DEFINE s == seedLine[SeedIndex(g)]
    <3>1. SeedIndex(g) <= Len(seedLine)
      BY <2>1, <2>8
    <3>2. SeedIndex(g) \in 1 .. Len(seedLine)
      BY <2>2, <3>1, SeedIndices, Constants, LenProperties
    <3>3. s \in Kernel /\ kernel'[g] = s
      BY <2>2, <2>3, <3>1, <3>2 DEF Loaded
    <3>4. used'[g] = {} /\ Cardinality(used'[g]) = 0
      BY <2>3, FS_EmptySet
    <3>5. Follows(s, s, 0) /\ Stream(s, 0) = {}
      BY <3>3, NoDrawYet
    <3>6. seeds'[run'] = seedLine
      BY <2>3
    <3> HIDE DEF seedLine
    <3>7. 0 \in 0 .. MaxDraws
      BY Constants
    <3> QED
      BY <3>1, <3>3, <3>4, <3>5, <3>6, <3>7 DEF Drawing
  <2>9. \A g \in Generator : used'[g] = {}
    BY <2>3
  <2>10. run' \in 1 .. Len(seeds')
    BY <2>2, <2>3
  <2>11. DrawnInv'
    BY <2>7, <2>8, <2>9, <2>10 DEF DrawnInv
  <2> QED
    BY <2>4, <2>6, <2>11
<1>5. CASE ~(run < Len(seeds))
  <2>1. /\ phase' = "failed"
        /\ UNCHANGED <<file, written, prime, drawn, line, seedSet, seeds, run,
                       kernel, used, past>>
    BY <1>5 DEF loadRNGSeeds
  <2>2. ~written
    BY <1>1, <1>3, <1>5
  <2>3. GeneratedInv'
    BY <2>1, GeneratedKept
  <2>4. DrawnInv'
    BY <2>1, DrawnKept
  <2>5. ReadInv'
    BY <1>2, <2>1, <2>2 DEF ReadInv
  <2> QED
    BY <2>3, <2>4, <2>5
<1> QED
  BY <1>4, <1>5

(* A draw goes on behind the seed of its generator.                        *)
LEMMA DrawKeepsInv ==
  ASSUME TypeOK, RunsAreSeeded, GeneratedInv, ReadInv, DrawnInv, NEW g \in Generator, Draw(g)
  PROVE  GeneratedInv' /\ ReadInv' /\ DrawnInv'
<1> USE DEF Draw
<1>1. GeneratedInv'
  BY GeneratedKept
<1>2. ReadInv'
  BY DEF ReadInv
<1> DEFINE s == seeds[run][SeedIndex(g)]
           n == Cardinality(used[g])
           k == NextKernel(kernel[g])
<1>3. run \in 1 .. Len(seeds) /\ Drawing(g)
  BY DEF DrawnInv
<1>4. seeds[run] \in Seq(Kernel)
  BY <1>3 DEF TypeOK
<1>5. SeedIndex(g) \in 1 .. Len(seeds[run])
  BY <1>3, <1>4, SeedIndices, Constants, LenProperties DEF Drawing
<1>6. s \in Kernel /\ kernel[g] \in Kernel
  BY <1>4, <1>5 DEF RunsAreSeeded
<1>7. /\ n \in 0 .. MaxDraws /\ n < MaxDraws
      /\ Follows(kernel[g], s, n) /\ used[g] = Stream(s, n)
  BY <1>3 DEF Drawing
<1>8. n \in Nat /\ n + 1 <= Period /\ n + 1 \in 0 .. MaxDraws
      /\ n + 1 <= NumericalDistance
  <2> HIDE DEF n
  <2> QED
    BY <1>7, Constants
<1>9. k \in Kernel /\ Follows(k, s, n + 1)
  BY <1>6, <1>7, <1>8, NextFollows
<1>10. Stream(s, n + 1) = Stream(s, n) \union {k} /\ k \notin Stream(s, n)
  BY <1>6, <1>8, <1>9, StreamGrows
<1>11. used'[g] = used[g] \union {k} /\ kernel'[g] = k
       /\ \A h \in Generator \ {g} : used'[h] = used[h] /\ kernel'[h] = kernel[h]
  BY DEF TypeOK
<1>12. used'[g] = Stream(s, n + 1)
  BY <1>7, <1>10, <1>11
<1>13. Cardinality(used'[g]) = n + 1
  <2>1. IsFiniteSet(Kernel)
    BY FS_Interval, SplitAssumption DEF Kernel
  <2>2. IsFiniteSet(used[g])
    BY <2>1, FS_Subset DEF TypeOK
  <2>3. k \notin used[g]
    BY <1>7, <1>10
  <2>4. Cardinality(used[g] \union {k}) = n + 1
    BY <2>2, <2>3, FS_AddElement
  <2> QED
    BY <1>11, <2>4
<1>14. Drawing(g)'
  <2>1. /\ seeds' = seeds /\ run' = run
        /\ SeedIndex(g) <= Len(seeds[run])
    BY <1>3 DEF Drawing
  <2> HIDE DEF k, n
  <2> QED
    BY <1>8, <1>9, <1>11, <1>12, <1>13, <2>1 DEF Drawing
<1>15. ASSUME NEW h \in Generator \ {g} PROVE Drawing(h)'
  BY <1>11 DEF DrawnInv, Drawing
<1>16. ASSUME NEW h \in Generator, NEW j \in used'[h] PROVE DrawnIn(j, run, h)'
  <2>1. CASE j \in used[h]
    <3>1. DrawnIn(j, run, h)
      BY <2>1 DEF DrawnInv
    <3> QED
      BY <3>1 DEF DrawnIn
  <2>2. CASE j \notin used[h]
    <3>1. h = g /\ j = k
      BY <1>11, <2>2
    <3>2. n + 1 \in 1 .. NumericalDistance
      BY <1>8, Constants
    <3>3. k \in Stream(s, NumericalDistance)
      BY <1>9, <3>2 DEF Stream
    <3> HIDE DEF k
    <3> QED
      BY <1>3, <3>1, <3>3 DEF DrawnIn, Drawing
  <2> QED
    BY <2>1, <2>2
<1>17. ASSUME NEW j \in past'
       PROVE  \E a \in 1 .. run' - 1, h \in Generator : DrawnIn(j, a, h)'
  <2>1. PICK a \in 1 .. run - 1, h \in Generator : DrawnIn(j, a, h)
    BY <1>17 DEF DrawnInv
  <2> QED
    BY <2>1 DEF DrawnIn
<1>18. DrawnInv'
  <2>1. run' \in 1 .. Len(seeds') /\ \A h \in Generator : Drawing(h)'
    BY <1>3, <1>14, <1>15
  <2> QED
    BY <1>16, <1>17, <2>1 DEF DrawnInv
<1> QED
  BY <1>1, <1>2, <1>18

LEMMA StreamsInit == Init => StreamsInv
<1> SUFFICES ASSUME Init PROVE StreamsInv
  OBVIOUS
<1>1. TypeOK /\ RunsAreSeeded
  BY SeedsInit DEF SeedsInv
<1>2. LineInv /\ FileInv
  BY Constants, DistanceAssumption DEF Init, LineInv, FileInv
<1>3. SeedsFollow(prime)
  <2>1. prime \in Kernel
    BY <1>1 DEF TypeOK
  <2>2. Draws(0, 0) = 0
    BY Constants DEF Draws
  <2>3. Len(seedSet) = 0 /\ line = 0 /\ drawn = 0 /\ ~written
    BY DEF Init
  <2>4. Draws(line, Len(seedSet)) + drawn = 0
    BY <2>2, <2>3
  <2> QED
    BY <2>1, <2>3, <2>4, NoDrawYet DEF SeedsFollow
<1>4. ReadInv /\ DrawnInv
  BY DEF Init, ReadInv, DrawnInv
<1>5. prime \in Kernel
  BY <1>1 DEF TypeOK
<1> QED
  BY <1>1, <1>2, <1>3, <1>4, <1>5 DEF StreamsInv, GeneratedInv

LEMMA StreamsStep == StreamsInv /\ [Next]_vars => StreamsInv'
<1> SUFFICES ASSUME StreamsInv, [Next]_vars PROVE StreamsInv'
  OBVIOUS
<1> USE DEF StreamsInv
<1>1. TypeOK' /\ RunsAreSeeded'
  BY SeedsStep DEF SeedsInv
<1>2. CASE OpenSeedFile \/ DrawPrime \/ SaveSeed \/ WriteLine
  <2>1. /\ phase' = "generate" /\ phase \in {"open", "generate"}
        /\ UNCHANGED <<seeds, run, used, past>>
    BY <1>2 DEF OpenSeedFile, DrawPrime, SaveSeed, WriteLine
  <2>2. GeneratedInv'
    BY <1>2, OpeningKeepsInv, DrawPrimeKeepsInv, SavingKeepsInv, WritingKeepsInv
  <2>3. ReadInv'
    BY <2>1 DEF ReadInv
  <2>4. DrawnInv'
    BY <2>1, DrawnKept
  <2> QED
    BY <1>1, <2>2, <2>3, <2>4
<1>3. CASE ReadSeedFile
  BY <1>1, <1>3, ReadingKeepsInv
<1>4. CASE loadRNGSeeds
  BY <1>1, <1>4, LoadingKeepsInv
<1>5. CASE EndRun
  <2>1. GeneratedInv' /\ DrawnInv'
    BY <1>5, GeneratedKept, DrawnKept DEF EndRun
  <2>2. ReadInv'
    BY <1>5 DEF EndRun, ReadInv
  <2> QED
    BY <1>1, <2>1, <2>2
<1>6. ASSUME NEW g \in Generator, Draw(g) PROVE StreamsInv'
  BY <1>1, <1>6, DrawKeepsInv
<1>7. CASE UNCHANGED vars
  <2>1. GeneratedInv'
    BY <1>7, GeneratedKept DEF vars
  <2>2. ReadInv'
    BY <1>7 DEF vars, ReadInv
  <2>3. DrawnInv'
    BY <1>7 DEF vars, DrawnInv, DrawnIn, Drawing
  <2> QED
    BY <1>1, <2>1, <2>2, <2>3
<1> QED
  BY <1>2, <1>3, <1>4, <1>5, <1>6, <1>7 DEF Next

LEMMA StreamsDoNotMeet ==
  ASSUME StreamsInv
  PROVE  StreamsAreDisjoint
<1>1. TypeOK /\ Spaced(seeds) /\ DrawnInv
  BY SeedsAreSpaced DEF StreamsInv
<1>2. ASSUME NEW g \in Generator, NEW h \in Generator, g # h, NEW k \in used[g], k \in used[h]
      PROVE  FALSE
  <2>1. DrawnIn(k, run, g) /\ DrawnIn(k, run, h)
    BY <1>1, <1>2 DEF DrawnInv
  <2> QED
    BY <1>1, <1>2, <2>1, DrawnOnce
<1>3. ASSUME NEW g \in Generator, NEW k \in used[g], k \in past
      PROVE  FALSE
  <2>1. DrawnIn(k, run, g)
    BY <1>1 DEF DrawnInv
  <2>2. PICK a \in 1 .. run - 1, h \in Generator : DrawnIn(k, a, h)
    BY <1>1, <1>3 DEF DrawnInv
  <2>3. a = run
    BY <1>1, <2>1, <2>2, DrawnOnce
  <2> QED
    BY <1>1, <2>2, <2>3, Constants DEF TypeOK
<1> QED
  BY <1>2, <1>3 DEF StreamsAreDisjoint

-----------------------------------------------------------------------------
(* How draws are spread.                                                   *)

(* The smallest number that n times reaches x.                             *)
LEMMA Ceiling ==
  ASSUME NEW x \in Nat, NEW n \in Nat \ {0}
  PROVE  \E c \in Nat : /\ n * c >= x /\ n * c < x + n
                       /\ \A k \in Nat : n * k >= x <=> k >= c
<1> DEFINE c == (x + n - 1) \div n
<1>1. c \in Nat /\ n * c <= x + n - 1 /\ x + n - 1 < n * c + n /\ n * c \in Nat
  OBVIOUS
<1> HIDE DEF c
<1>2. n * c >= x /\ n * c < x + n
  BY <1>1
<1>3. ASSUME NEW k \in Nat PROVE n * k >= x <=> k >= c
  <2>1. k >= c => n * k >= n * c
    BY <1>1, ProductMonotone
  <2>2. k < c => n * k + n <= n * c
    <3>1. k < c => n * (k + 1) <= n * c
      BY <1>1, ProductMonotone
    <3> QED
      BY <3>1
  <2>3. n * k \in Nat
    OBVIOUS
  <2> QED
    BY <1>1, <1>2, <2>1, <2>2, <2>3
<1> QED
  BY <1>1, <1>2, <1>3

(* When a rounded draw is v.                                               *)
LEMMA RoundedIs ==
  ASSUME NEW k \in Kernel, NEW n \in Nat \ {0}, NEW v \in Nat
  PROVE  (k * n) \div kM = v <=> n * k >= v * kM /\ ~(n * k >= (v + 1) * kM)
<1> DEFINE y == n * k
           q == y \div kM
<1>1. kM \in Nat \ {0} /\ k \in Nat /\ y \in Nat /\ k * n = y
  BY SplitAssumption DEF Kernel
<1> HIDE DEF y
<1>2. q \in Nat /\ kM * q <= y /\ y < kM * q + kM /\ kM * q \in Nat
  BY <1>1
<1> HIDE DEF q
<1>3. q = v => y >= v * kM /\ y < (v + 1) * kM
  BY <1>1, <1>2
<1>4. q < v => y < v * kM
  <2>1. q < v => kM * (q + 1) <= kM * v
    BY <1>1, <1>2, ProductMonotone
  <2> QED
    BY <1>1, <1>2, <2>1
<1>5. v < q => y >= (v + 1) * kM
  <2>1. v < q => kM * (v + 1) <= kM * q
    BY <1>1, <1>2, ProductMonotone
  <2> QED
    BY <1>1, <1>2, <2>1
<1>6. q = v <=> y >= v * kM /\ ~(y >= (v + 1) * kM)
  BY <1>1, <1>2, <1>3, <1>4, <1>5
<1> QED
  BY <1>1, <1>6 DEF y, q

(* How many kernels round to v, in terms of the number of values.          *)
LEMMA RoundedTimes ==
  ASSUME NEW n \in Nat \ {0}, NEW v \in 0 .. n - 1
  PROVE  LET times == Cardinality({k \in Kernel : (k * n) \div kM = v})
         IN  /\ times \in Nat
             /\ n * times >= kM - n
             /\ n * times < kM + n
<1>1. kM \in Nat \ {0} /\ Kernel = 1 .. kM - 1 /\ v \in Nat /\ v * kM \in Nat
      /\ (v + 1) * kM \in Nat /\ (v + 1) * kM = v * kM + kM
  BY SplitAssumption DEF Kernel
<1>2. PICK c \in Nat : /\ n * c >= v * kM /\ n * c < v * kM + n
                       /\ \A k \in Nat : n * k >= v * kM <=> k >= c
  BY <1>1, Ceiling
<1>3. PICK d \in Nat : /\ n * d >= (v + 1) * kM /\ n * d < (v + 1) * kM + n
                       /\ \A k \in Nat : n * k >= (v + 1) * kM <=> k >= d
  BY <1>1, Ceiling
<1> DEFINE S == {k \in Kernel : (k * n) \div kM = v}
           low == IF c = 0 THEN 1 ELSE c
<1>4. d <= kM
  <2>1. kM * (v + 1) <= kM * n
    BY <1>1, ProductMonotone
  <2>2. n * kM >= (v + 1) * kM
    BY <1>1, <2>1
  <2> QED
    BY <1>1, <1>3, <2>2
<1>5. S = low .. d - 1
  <2>1. \A k \in Kernel : k \in S <=> k >= c /\ ~(k >= d)
    BY <1>1, <1>2, <1>3, RoundedIs
  <2>2. S \subseteq Kernel
    OBVIOUS
  <2>3. low \in Nat /\ low >= 1 /\ low >= c /\ (low = 1 \/ low = c)
    OBVIOUS
  <2> HIDE DEF S, low
  <2>4. ASSUME NEW k \in S PROVE k \in low .. d - 1
    BY <1>1, <2>1, <2>2, <2>3
  <2>5. ASSUME NEW k \in low .. d - 1 PROVE k \in S
    <3>1. k \in Kernel
      BY <1>1, <1>4, <2>3
    <3> QED
      BY <1>1, <2>1, <2>3, <3>1
  <2> QED
    BY <2>4, <2>5
<1>6. Cardinality(S) = IF low > d - 1 THEN 0 ELSE (d - 1) - low + 1
  <2>1. low \in Int /\ d - 1 \in Int
    OBVIOUS
  <2> HIDE DEF S, low
  <2> QED
    BY <1>5, <2>1, FS_Interval
<1> DEFINE t == Cardinality(S)
<1>7. c <= d /\ d >= 1
  <2>1. n * d >= v * kM
    BY <1>1, <1>3
  <2>2. n * 0 = 0
    OBVIOUS
  <2> QED
    BY <1>1, <1>2, <1>3, <2>1, <2>2
<1>8. t \in Nat /\ t = d - low
  <2> HIDE DEF S
  <2> QED
    BY <1>6, <1>7
<1>9. c = 0 <=> v * kM = 0
  <2>1. n * 0 = 0
    OBVIOUS
  <2> QED
    BY <1>1, <1>2, <2>1
<1>10. n * t = n * d - n * low
  <2> HIDE DEF t, low
  <2>1. low \in Nat
    BY DEF low
  <2> QED
    BY <1>8, <2>1
<1>11. n * low >= v * kM /\ n * low < v * kM + n + 1
  <2>1. CASE c = 0
    <3>1. n * low = n
      BY <2>1
    <3> QED
      BY <1>1, <1>9, <2>1, <3>1
  <2>2. CASE c # 0
    <3>1. low = c
      BY <2>2
    <3>2. n * c >= v * kM /\ n * c < v * kM + n /\ n * c \in Nat
      BY <1>2
    <3> HIDE DEF low
    <3> QED
      BY <1>1, <3>1, <3>2
  <2> QED
    BY <2>1, <2>2
<1>12. n * t >= kM - n /\ n * t < kM + n
  <2> DEFINE x == n * d
             y == n * low
             z == v * kM
             w == (v + 1) * kM
  <2>1. x \in Nat /\ y \in Nat /\ z \in Nat /\ w = z + kM
    BY <1>1
  <2>2. /\ x >= w /\ x < w + n
        /\ y >= z /\ y < z + n + 1
        /\ n * t = x - y
    BY <1>3, <1>10, <1>11
  <2> HIDE DEF x, y, z, w, t
  <2> QED
    BY <1>1, <2>1, <2>2
<1> HIDE DEF t
<1> QED
  BY <1>8, <1>12 DEF t

(* Two values have as many kernels, but for one.                           *)
LEMMA RoundedEvenly ==
  ASSUME NEW max \in Nat
  PROVE  LET times(v) == Cardinality({k \in Kernel : randRoundedInt(k, 0, max) = v})
         IN  /\ \A k \in Kernel : randRoundedInt(k, 0, max) \in 0 .. max
             /\ \A v, w \in 0 .. max : times(v) - times(w) \in -1 .. 1
<1> DEFINE n == max + 1
           times(v) == Cardinality({k \in Kernel : randRoundedInt(k, 0, max) = v})
<1>1. n \in Nat \ {0} /\ kM \in Nat \ {0}
  BY SplitAssumption
<1>2. ASSUME NEW k \in Kernel
      PROVE  randRoundedInt(k, 0, max) = (k * n) \div kM /\ (k * n) \div kM \in 0 .. max
  <2>1. k \in Nat /\ k <= kM - 1
    BY SplitAssumption DEF Kernel
  <2>2. k * n \in Nat /\ (k * n) \div kM \in Nat
    BY <1>1, <2>1
  <2>3. n * k <= n * (kM - 1)
    BY <1>1, <2>1, ProductMonotone
  <2>4. n * k < (max + 1) * kM
    BY <1>1, <2>1, <2>3
  <2> DEFINE q == (k * n) \div kM
             y == k * n
  <2>5. kM * q <= y
    BY <1>1, <2>2
  <2>6. q <= max
    <3>1. q >= max + 1 => kM * (max + 1) <= kM * q
      BY <1>1, <2>2, ProductMonotone
    <3>2. y < kM * (max + 1)
      BY <1>1, <2>1, <2>4
    <3> HIDE DEF q, y
    <3> QED
      BY <1>1, <2>2, <2>5, <3>1, <3>2 DEF q, y
  <2>7. max - 0 + 1 = n /\ q + 0 = q
    BY <2>2
  <2> QED
    BY <2>2, <2>6, <2>7 DEF randRoundedInt
<1>3. ASSUME NEW v \in 0 .. max
      PROVE  times(v) \in Nat /\ n * times(v) >= kM - n /\ n * times(v) < kM + n
  <2>1. {k \in Kernel : randRoundedInt(k, 0, max) = v} = {k \in Kernel : (k * n) \div kM = v}
    BY <1>2
  <2>2. v \in 0 .. n - 1
    OBVIOUS
  <2> HIDE DEF n
  <2> QED
    BY <1>1, <2>1, <2>2, RoundedTimes
<1>4. ASSUME NEW v \in 0 .. max, NEW w \in 0 .. max
      PROVE  times(v) - times(w) \in -1 .. 1
  <2> DEFINE s == times(v)
             t == times(w)
  <2>1. /\ s \in Nat /\ n * s >= kM - n /\ n * s < kM + n
        /\ t \in Nat /\ n * t >= kM - n /\ n * t < kM + n
    BY <1>3
  <2> HIDE DEF s, t, n
  <2>2. s >= t + 2 => n * (t + 2) <= n * s
    BY <1>1, <2>1, ProductMonotone
  <2>3. t >= s + 2 => n * (s + 2) <= n * t
    BY <1>1, <2>1, ProductMonotone
  <2>4. n * (t + 2) = n * t + 2 * n /\ n * (s + 2) = n * s + 2 * n
        /\ n * s \in Nat /\ n * t \in Nat
    BY <1>1, <2>1
  <2>5. s - t \in -1 .. 1
    BY <1>1, <2>1, <2>2, <2>3, <2>4
  <2> QED
    BY <2>5 DEF s, t
<1>5. \A k \in Kernel : randRoundedInt(k, 0, max) \in 0 .. max
  BY <1>2
<1> QED
  BY <1>4, <1>5

(* So many kernels in a hundred make a zero-one draw succeed, but for one. *)
LEMMA ZeroOneShare ==
  ASSUME NEW percents \in 0 .. 100
  PROVE  LET share == Cardinality({k \in Kernel : randZeroOne(k, percents)})
         IN  100 * share - percents * (kM - 1) \in -100 .. 100
<1> DEFINE x == percents * kM
           S == {k \in Kernel : randZeroOne(k, percents)}
           t == Cardinality(S)
<1>1. /\ kM \in Nat \ {0} /\ Kernel = 1 .. kM - 1 /\ x \in Nat
      /\ percents * (kM - 1) = x - percents
      /\ percents * kM <= 100 * kM
  BY SplitAssumption, ProductMonotone DEF Kernel
<1>2. PICK c \in Nat : /\ 100 * c >= x /\ 100 * c < x + 100
                       /\ \A k \in Nat : 100 * k >= x <=> k >= c
  <2> DEFINE n == 100
  <2>1. n \in Nat \ {0} /\ x \in Nat
    BY <1>1
  <2> HIDE DEF x, n
  <2>2. \E c \in Nat : /\ n * c >= x /\ n * c < x + n
                      /\ \A k \in Nat : n * k >= x <=> k >= c
    BY <2>1, Ceiling
  <2> QED
    BY <2>2 DEF n
<1>3. c <= kM
  BY <1>1, <1>2
<1>4. S = 1 .. c - 1
  <2>1. \A k \in Kernel : randZeroOne(k, percents) <=> ~(k >= c)
    <3> SUFFICES ASSUME NEW k \in Kernel PROVE (100 * k < x) <=> ~(k >= c)
      BY DEF randZeroOne
    <3>1. k \in Nat
      BY <1>1
    <3> HIDE DEF x
    <3> QED
      BY <1>1, <1>2, <3>1
  <2> QED
    BY <1>1, <1>3, <2>1
<1>5. t = IF 1 > c - 1 THEN 0 ELSE c - 1
  <2> HIDE DEF x, S
  <2>1. Cardinality(1 .. c - 1) = IF 1 > c - 1 THEN 0 ELSE (c - 1) - 1 + 1
    BY FS_Interval
  <2> QED
    BY <1>4, <2>1
<1>6. c = 0 => percents = 0
  <2>1. percents > 0 => kM * 1 <= kM * percents
    BY <1>1, ProductMonotone
  <2>2. kM * percents = x
    BY <1>1
  <2> QED
    BY <1>1, <1>2, <2>1, <2>2
<1>7. x = 0 <=> percents = 0
  BY <1>1
<1> HIDE DEF t, x, S
<1>8. 100 * t - (x - percents) \in -100 .. 100
  <2>1. CASE c = 0
    <3>1. t = 0 /\ x = 0 /\ percents = 0
      BY <1>5, <1>6, <1>7, <2>1
    <3> QED
      BY <3>1
  <2>2. CASE c >= 1
    <3>1. t = c - 1
      BY <1>5, <2>2
    <3> QED
      BY <1>1, <1>2, <2>2, <3>1
  <2> QED
    BY <2>1, <2>2
<1> QED
  BY <1>1, <1>8 DEF t, S

LEMMA DrawsAreSpread == DrawsAreEven
<1>1. \A max \in 0 .. 9 :
          LET times(v) == Cardinality({k \in Kernel : randRoundedInt(k, 0, max) = v})
          IN  /\ \A k \in Kernel : randRoundedInt(k, 0, max) \in 0 .. max
              /\ \A v, w \in 0 .. max : times(v) - times(w) \in -1 .. 1
  <2> SUFFICES ASSUME NEW max \in 0 .. 9
               PROVE  LET times(v) == Cardinality({k \in Kernel : randRoundedInt(k, 0, max) = v})
                      IN  /\ \A k \in Kernel : randRoundedInt(k, 0, max) \in 0 .. max
                          /\ \A v, w \in 0 .. max : times(v) - times(w) \in -1 .. 1
    OBVIOUS
  <2>1. max \in Nat
    OBVIOUS
  <2> QED
    BY <2>1, RoundedEvenly
<1>2. \A percents \in {0, 25, 80, 100} :
          LET share == Cardinality({k \in Kernel : randZeroOne(k, percents)})
          IN  100 * share - percents * (kM - 1) \in -100 .. 100
  <2> SUFFICES ASSUME NEW percents \in {0, 25, 80, 100}
               PROVE  LET share == Cardinality({k \in Kernel : randZeroOne(k, percents)})
                      IN  100 * share - percents * (kM - 1) \in -100 .. 100
    OBVIOUS
  <2>1. percents \in 0 .. 100
    OBVIOUS
  <2> QED
    BY <2>1, ZeroOneShare
<1> QED
  BY <1>1, <1>2 DEF DrawsAreEven

(* The seeds of a program run, written or left by an earlier one, lie so   *)
(* far apart that no two draws of its runs use the same kernel; a file it  *)
(* has written has a seed for every generator of every run, for any number *)
(* of pairs and of runs; and draws are spread as they should be.           *)
THEOREM SeedsServeEveryRun == Spec => []SeedsServeTheRuns
<1>1. StreamsInv => SeedsServeTheRuns
  BY StreamsDoNotMeet, DrawsAreSpread
  DEF StreamsInv, SeedsServeTheRuns, ReadInv, WrittenFileSuffices
<1> QED
  BY <1>1, StreamsInit, StreamsStep, PTL DEF Spec

-----------------------------------------------------------------------------
(* The inductive invariant of the objects.                                 *)

RunKinds == {"packet", "transmission"}
Passing(objects) == {o \in objects : o[1] \in RunKinds}
Standing(objects) == {o \in objects : o[1] \notin RunKinds}

NetworkKinds == {"network", "channel", "statistics"}
EndPointKinds == {"receiver", "transmitter"}
SimulationKinds == {"simulation", "msg_corrupted_rng"} \union Objects!ChannelEvents
VectorKinds == Objects!RngVectors \union Objects!EventVectors

(* The kinds of objects of which there is one, and one for every pair,     *)
(* wherever main is.  Those there are at the end are never deleted.        *)
SingleKinds ==
    CASE pc = "make_statistics" -> {}
      [] pc = "make_network" -> {"statistics"}
      [] pc = "make_simulation" -> NetworkKinds
      [] pc \in {"reset_timers", "reset_network", "run", "delete_network"} ->
             NetworkKinds \union SimulationKinds
      [] pc \in {"erase_rngs", "delete_rngs"} -> SimulationKinds
      [] pc = "delete_events" -> SimulationKinds \ {"msg_corrupted_rng"}
      [] pc = "delete_simulation" -> {"simulation"}
      [] pc = "end" -> {}

PairKinds ==
    CASE pc \in {"make_statistics", "make_network"} -> {}
      [] pc = "make_simulation" -> EndPointKinds
      [] pc \in {"reset_timers", "reset_network", "run", "delete_network"} ->
             EndPointKinds \union VectorKinds
      [] pc \in {"erase_rngs", "delete_rngs", "delete_events"} -> VectorKinds
      [] pc \in {"delete_simulation", "end"} -> Objects!RngVectors \union {"reduce_tx_down_counter"}

StandingInv == Standing(live) = Objects!Alone(SingleKinds) \union Objects!OfEveryPair(PairKinds)

Late == {"erase_rngs", "delete_rngs", "delete_events", "delete_simulation", "end"}

PhaseInv ==
    /\ pc = "reset_network" => \A i \in Objects!Pair : ~endTime[i]
    /\ pc \in Late => Passing(live) = {}
    /\ pc \in Late \ {"erase_rngs"} => rngs = {}
    /\ pc \notin Late \union {"delete_network"} => runs < ObjectRuns

OwnershipInv ==
    /\ Objects!TypeOK
    /\ Objects!NothingIsDeletedTwice
    /\ Objects!RunOwnsItsObjects
    /\ Objects!EndsItsTransmission
    /\ StandingInv
    /\ PhaseInv

-----------------------------------------------------------------------------
(* Objects that stand as long as main does not delete them.                *)

LEMMA KindsOf ==
    ASSUME NEW K
    PROVE  /\ \A o \in Objects!Alone(K) : o[1] \in K
           /\ \A o \in Objects!OfEveryPair(K) : o[1] \in K
BY DEF Objects!Alone, Objects!OfEveryPair

(* Main makes objects of kinds of its own, and deletes those there are.    *)
LEMMA MainMakes ==
    ASSUME NEW C, NEW D, (C \union D) \intersect RunKinds = {},
           Objects!Make(Objects!Alone(C) \union Objects!OfEveryPair(D)), StandingInv
    PROVE  /\ wrong' = wrong
           /\ Passing(live') = Passing(live)
           /\ Standing(live') = Objects!Alone(SingleKinds \union C) \union Objects!OfEveryPair(PairKinds \union D)
<1> DEFINE N == Objects!Alone(C) \union Objects!OfEveryPair(D)
<1>1. \A o \in N : o[1] \notin RunKinds
    BY KindsOf
<1>2. live' = live \union N /\ wrong' = wrong
    BY DEF Objects!Make
<1> HIDE DEF N
<1>3. Passing(live') = Passing(live) /\ Standing(live') = Standing(live) \union N
    BY <1>1, <1>2 DEF Passing, Standing
<1>4. Standing(live) \union N =
           Objects!Alone(SingleKinds \union C) \union Objects!OfEveryPair(PairKinds \union D)
  <2>1. Standing(live) = Objects!Alone(SingleKinds) \union Objects!OfEveryPair(PairKinds)
      BY DEF StandingInv
  <2>2. (Objects!Alone(SingleKinds) \union Objects!OfEveryPair(PairKinds)) \union N =
            Objects!Alone(SingleKinds \union C) \union Objects!OfEveryPair(PairKinds \union D)
      BY DEF N, Objects!Alone, Objects!OfEveryPair
  <2> QED BY <2>1, <2>2
<1> QED BY <1>2, <1>3, <1>4

LEMMA MainDeletes ==
    ASSUME NEW C, NEW D, NEW P, C \subseteq SingleKinds, D \subseteq PairKinds,
           SingleKinds \intersect D = {}, PairKinds \intersect C = {},
           P \subseteq Passing(live), StandingInv, wrong = {},
           Objects!Delete(P \union Objects!Alone(C) \union Objects!OfEveryPair(D))
    PROVE  /\ wrong' = {}
           /\ Passing(live') = Passing(live) \ P
           /\ Standing(live') = Objects!Alone(SingleKinds \ C) \union Objects!OfEveryPair(PairKinds \ D)
<1> DEFINE N == Objects!Alone(C) \union Objects!OfEveryPair(D)
<1>1. N \subseteq Standing(live)
    BY DEF StandingInv, Objects!Alone, Objects!OfEveryPair
<1>2. live' = live \ (P \union N) /\ wrong' = wrong \union ((P \union N) \ live)
    BY DEF Objects!Delete
<1> HIDE DEF N
<1>3. /\ Passing(live') = Passing(live) \ P
      /\ Standing(live') = Standing(live) \ N
      /\ wrong' = {}
    BY <1>1, <1>2 DEF Passing, Standing
<1>4. Standing(live) = Objects!Alone(SingleKinds) \union Objects!OfEveryPair(PairKinds)
    BY DEF StandingInv
<1>5. N = Objects!Alone(C) \union Objects!OfEveryPair(D)
    BY DEF N
<1>6. Standing(live) \ N =
           Objects!Alone(SingleKinds \ C) \union Objects!OfEveryPair(PairKinds \ D)
  <2> DEFINE A == SingleKinds
             B == PairKinds
  <2>1. A \intersect D = {} /\ B \intersect C = {}
      OBVIOUS
  <2> HIDE DEF A, B
  <2>2. (Objects!Alone(A) \union Objects!OfEveryPair(B))
            \ (Objects!Alone(C) \union Objects!OfEveryPair(D)) =
                Objects!Alone(A \ C) \union Objects!OfEveryPair(B \ D)
      BY <2>1 DEF Objects!Alone, Objects!OfEveryPair
  <2> QED BY <1>4, <1>5, <2>2 DEF A, B
<1> QED BY <1>3, <1>6

-----------------------------------------------------------------------------
(* Packets and transmissions.                                              *)

Queued == UNION {Objects!ToSet(buffer[i]) : i \in Objects!Pair}

LEMMA PassingObjects ==
    /\ Objects!Packets = {<<"packet", a>> : a \in Queued}
    /\ \A a : <<"packet", a>> \in Objects!Packets <=> a \in Queued
    /\ \A a : <<"transmission", a>> \in Objects!Transmissions <=> a \in Objects!OnChannel
    /\ \A a : <<"transmission", a>> \notin Objects!Packets /\ <<"packet", a>> \notin Objects!Transmissions
    /\ \A o \in Objects!Packets \union Objects!Transmissions : o[1] \in RunKinds
BY DEF Objects!Packets, Objects!Transmissions, Queued, RunKinds

LEMMA InQueue ==
    ASSUME Objects!TypeOK
    PROVE  \A a : a \in Queued <=> \E i \in Objects!Pair : \E m \in 1 .. Len(buffer[i]) : buffer[i][m] = a
<1>1. \A i \in Objects!Pair : DOMAIN buffer[i] = 1 .. Len(buffer[i])
    BY LenProperties DEF Objects!TypeOK
<1> QED BY <1>1 DEF Queued, Objects!ToSet

(* No address is in two places.                                            *)
NothingShared ==
    \A i, j \in Objects!Pair : \A m \in 1 .. Len(buffer[i]), n \in 1 .. Len(buffer[j]) :
        buffer[i][m] = buffer[j][n] => i = j /\ m = n

(* What a new packet, and the removal of the first one, do to the queues.  *)
LEMMA PacketQueued ==
    ASSUME Objects!TypeOK, NothingShared, NEW i \in Objects!Pair, NEW a \in Addresses, a \notin Queued,
           buffer' = [buffer EXCEPT ![i] = Append(@, a)]
    PROVE  /\ buffer' \in [Objects!Pair -> Seq(Addresses)]
           /\ Queued' = Queued \union {a}
           /\ NothingShared'
<1> DEFINE s == buffer[i]
           t == Append(s, a)
<1>1. s \in Seq(Addresses) /\ Len(s) \in Nat
    BY LenProperties DEF Objects!TypeOK
<1>2. /\ t \in Seq(Addresses) /\ Len(t) = Len(s) + 1
      /\ \A m \in 1 .. Len(s) : t[m] = s[m]
      /\ t[Len(s) + 1] = a
    BY <1>1, AppendProperties
<1>3. buffer'[i] = t /\ \A j \in Objects!Pair \ {i} : buffer'[j] = buffer[j]
    BY DEF Objects!TypeOK
<1>4. buffer' \in [Objects!Pair -> Seq(Addresses)]
    BY <1>2 DEF Objects!TypeOK
<1>5. \A j \in Objects!Pair : DOMAIN buffer[j] = 1 .. Len(buffer[j]) /\ DOMAIN buffer'[j] = 1 .. Len(buffer'[j])
    BY <1>4, LenProperties DEF Objects!TypeOK
<1> HIDE DEF s, t
<1>6. \A m \in 1 .. Len(t) : m \in 1 .. Len(s) \/ (m = Len(s) + 1 /\ t[m] = a)
    BY <1>1, <1>2
<1>7. \A j \in Objects!Pair : \A x :
         x \in Objects!ToSet(buffer'[j]) <=> x \in Objects!ToSet(buffer[j]) \/ (j = i /\ x = a)
  <2>1. Objects!ToSet(t) = Objects!ToSet(s) \union {a}
    <3>1. DOMAIN t = 1 .. Len(t) /\ DOMAIN s = 1 .. Len(s)
        BY <1>3, <1>5 DEF s
    <3>2. Len(s) + 1 \in 1 .. Len(t) /\ \A m \in 1 .. Len(s) : m \in 1 .. Len(t)
        BY <1>1, <1>2
    <3> QED BY <1>2, <1>6, <3>1, <3>2 DEF Objects!ToSet
  <2>2. Objects!ToSet(buffer'[i]) = Objects!ToSet(buffer[i]) \union {a}
      BY <1>3, <2>1 DEF s
  <2>3. ASSUME NEW j \in Objects!Pair, j # i
        PROVE  Objects!ToSet(buffer'[j]) = Objects!ToSet(buffer[j])
      BY <1>3, <2>3
  <2> QED BY <2>2, <2>3
<1>8. Queued' = Queued \union {a}
  <2>1. \A x : x \in Queued <=> \E j \in Objects!Pair : x \in Objects!ToSet(buffer[j])
      BY DEF Queued
  <2>2. \A x : x \in Queued' <=> \E j \in Objects!Pair : x \in Objects!ToSet(buffer'[j])
      BY DEF Queued
  <2>3. ASSUME NEW x, x \in Queued'
        PROVE  x \in Queued \/ x = a
    <3>1. PICK j \in Objects!Pair : x \in Objects!ToSet(buffer'[j])
        BY <2>2, <2>3
    <3> QED BY <1>7, <2>1, <3>1
  <2>4. ASSUME NEW x, x \in Queued
        PROVE  x \in Queued'
    <3>1. PICK j \in Objects!Pair : x \in Objects!ToSet(buffer[j])
        BY <2>1, <2>4
    <3> QED BY <1>7, <2>2, <3>1
  <2>5. a \in Queued'
      BY <1>7, <2>2
  <2> QED BY <2>3, <2>4, <2>5
<1>9. NothingShared'
  <2> SUFFICES ASSUME NEW j \in Objects!Pair, NEW k \in Objects!Pair,
                      NEW m \in 1 .. Len(buffer'[j]), NEW n \in 1 .. Len(buffer'[k]),
                      buffer'[j][m] = buffer'[k][n]
               PROVE  j = k /\ m = n
      BY DEF NothingShared
  <2>1. \A l \in Objects!Pair : \A x \in 1 .. Len(buffer'[l]) :
           \/ x \in 1 .. Len(buffer[l]) /\ buffer'[l][x] = buffer[l][x] /\ buffer'[l][x] # a
           \/ l = i /\ x = Len(s) + 1 /\ buffer'[l][x] = a
    <3>1. \A l \in Objects!Pair : \A x \in 1 .. Len(buffer[l]) : buffer[l][x] # a
        BY InQueue
    <3> QED BY <1>2, <1>3, <1>6, <3>1 DEF s
  <2> QED BY <2>1 DEF NothingShared
<1> QED BY <1>4, <1>8, <1>9

LEMMA PacketRemoved ==
    ASSUME Objects!TypeOK, NothingShared, NEW i \in Objects!Pair, buffer[i] # <<>>,
           buffer' = [buffer EXCEPT ![i] = Tail(@)]
    PROVE  /\ buffer' \in [Objects!Pair -> Seq(Addresses)]
           /\ Head(buffer[i]) \in Queued
           /\ Queued' = Queued \ {Head(buffer[i])}
           /\ NothingShared'
<1> DEFINE s == buffer[i]
           t == Tail(s)
<1>1. s \in Seq(Addresses) /\ s # <<>> /\ Len(s) \in Nat \ {0}
    BY LenProperties, EmptySeq DEF Objects!TypeOK
<1>2. /\ t \in Seq(Addresses) /\ Len(t) = Len(s) - 1
      /\ \A m \in 1 .. Len(t) : t[m] = s[m + 1]
      /\ Head(s) = s[1]
    BY <1>1, HeadTailProperties
<1>3. buffer'[i] = t /\ \A j \in Objects!Pair \ {i} : buffer'[j] = buffer[j]
    BY DEF Objects!TypeOK
<1>4. buffer' \in [Objects!Pair -> Seq(Addresses)]
    BY <1>2 DEF Objects!TypeOK
<1> HIDE DEF t
<1>5. Head(buffer[i]) \in Queued
    BY <1>1, <1>2, InQueue
<1>6. \A j \in Objects!Pair : \A m \in 1 .. Len(buffer'[j]) :
         \E n \in 1 .. Len(buffer[j]) : /\ buffer'[j][m] = buffer[j][n]
                                        /\ n = IF j = i THEN m + 1 ELSE m
  <2> SUFFICES ASSUME NEW j \in Objects!Pair, NEW m \in 1 .. Len(buffer'[j])
               PROVE  \E n \in 1 .. Len(buffer[j]) : /\ buffer'[j][m] = buffer[j][n]
                                                     /\ n = IF j = i THEN m + 1 ELSE m
      OBVIOUS
  <2>1. CASE j = i
    <3>1. m \in 1 .. Len(t) /\ m + 1 \in 1 .. Len(s) /\ t[m] = s[m + 1]
        BY <1>1, <1>2, <1>3, <2>1
    <3> QED BY <1>3, <2>1, <3>1
  <2>2. CASE j # i
      BY <1>3, <2>2
  <2> QED BY <2>1, <2>2
<1>7. \A a : (\E j \in Objects!Pair : \E m \in 1 .. Len(buffer'[j]) : buffer'[j][m] = a)
               <=> a \in Queued /\ a # s[1]
  <2>1. ASSUME NEW j \in Objects!Pair, NEW m \in 1 .. Len(buffer'[j])
        PROVE  buffer'[j][m] \in Queued /\ buffer'[j][m] # s[1]
    <3>1. PICK n \in 1 .. Len(buffer[j]) : /\ buffer'[j][m] = buffer[j][n]
                                           /\ n = IF j = i THEN m + 1 ELSE m
        BY <1>6
    <3>2. j = i => n # 1
        BY <3>1, <1>1, <1>2, <1>3
    <3>3. 1 \in 1 .. Len(s)
        BY <1>1
    <3> QED BY <3>1, <3>2, <3>3, InQueue DEF NothingShared
  <2>2. ASSUME NEW a, a \in Queued, a # s[1]
        PROVE  \E j \in Objects!Pair : \E m \in 1 .. Len(buffer'[j]) : buffer'[j][m] = a
    <3>1. PICK j \in Objects!Pair : \E n \in 1 .. Len(buffer[j]) : buffer[j][n] = a
        BY <2>2, InQueue
    <3>0. PICK n \in 1 .. Len(buffer[j]) : buffer[j][n] = a
        BY <3>1
    <3>2. CASE j = i
      <4>1. n - 1 \in 1 .. Len(t) /\ t[n - 1] = s[n]
          BY <1>1, <1>2, <2>2, <3>0, <3>2
      <4> QED BY <1>3, <3>0, <3>2, <4>1
    <3>3. CASE j # i
        BY <1>3, <3>0, <3>3
    <3> QED BY <3>2, <3>3
  <2>3. ASSUME NEW a, \E j \in Objects!Pair : \E m \in 1 .. Len(buffer'[j]) : buffer'[j][m] = a
        PROVE  a \in Queued /\ a # s[1]
    <3>1. PICK j \in Objects!Pair : \E m \in 1 .. Len(buffer'[j]) : buffer'[j][m] = a
        BY <2>3
    <3>2. PICK m \in 1 .. Len(buffer'[j]) : buffer'[j][m] = a
        BY <3>1
    <3> QED BY <2>1, <3>2
  <2> QED BY <2>2, <2>3
<1>8. Queued' = Queued \ {s[1]}
  <2>1. \A j \in Objects!Pair : DOMAIN buffer'[j] = 1 .. Len(buffer'[j])
      BY <1>4, LenProperties
  <2>2. \A a : a \in Queued' <=> \E j \in Objects!Pair : \E m \in 1 .. Len(buffer'[j]) : buffer'[j][m] = a
      BY <2>1 DEF Queued, Objects!ToSet
  <2> QED BY <1>7, <2>2
<1>9. NothingShared'
  <2> SUFFICES ASSUME NEW j \in Objects!Pair, NEW k \in Objects!Pair,
                      NEW m \in 1 .. Len(buffer'[j]), NEW n \in 1 .. Len(buffer'[k]),
                      buffer'[j][m] = buffer'[k][n]
               PROVE  j = k /\ m = n
      BY DEF NothingShared
  <2>1. PICK x \in 1 .. Len(buffer[j]) : /\ buffer'[j][m] = buffer[j][x]
                                         /\ x = IF j = i THEN m + 1 ELSE m
      BY <1>6
  <2>2. PICK y \in 1 .. Len(buffer[k]) : /\ buffer'[k][n] = buffer[k][y]
                                         /\ y = IF k = i THEN n + 1 ELSE n
      BY <1>6
  <2>3. j = k /\ x = y
      BY <2>1, <2>2 DEF NothingShared
  <2>4. m \in Int /\ n \in Int
      BY <1>4, LenProperties
  <2> QED BY <2>1, <2>2, <2>3, <2>4
<1> QED BY <1>2, <1>4, <1>5, <1>8, <1>9

(* A packet or transmission more, or fewer.                                *)
LEMMA PassingMade ==
    ASSUME NEW o, o[1] \in RunKinds, Objects!Make({o})
    PROVE  /\ wrong' = wrong
           /\ Passing(live') = Passing(live) \union {o}
           /\ Standing(live') = Standing(live)
BY DEF Objects!Make, Passing, Standing

LEMMA PassingDeleted ==
    ASSUME NEW P, P \subseteq Passing(live), Objects!Delete(P), wrong = {}
    PROVE  /\ wrong' = {}
           /\ Passing(live') = Passing(live) \ P
           /\ Standing(live') = Standing(live)
BY DEF Objects!Delete, Passing, Standing

(* What a run owns, in the words of the proofs.                            *)
Owned ==
    /\ Objects!Packets \union Objects!Transmissions = Passing(live)
    /\ \A a \in Addresses : channel[a] <= 1
    /\ NothingShared

LEMMA RunOwns ==
    /\ Objects!RunOwnsItsObjects <=> (pc \notin Late => Owned)
    /\ Objects!RunOwnsItsObjects' <=> (pc' \notin Late => Owned')
BY DEF Objects!RunOwnsItsObjects, Owned, NothingShared, Late, Passing, RunKinds

(* What keeps all of it is what main does with objects of its own.         *)
LEMMA StillOwned ==
    ASSUME Owned, UNCHANGED <<buffer, channel>>, Passing(live') = Passing(live)
    PROVE  Owned'
BY DEF Owned, NothingShared, Objects!Packets, Objects!Transmissions, Objects!OnChannel

LEMMA StillStanding ==
    ASSUME StandingInv, pc' = pc, Standing(live') = Standing(live)
    PROVE  StandingInv'
BY DEF StandingInv, SingleKinds, PairKinds

LEMMA InitHolds ==
    ASSUME Objects!OwnershipAssumption, Objects!Init
    PROVE  OwnershipInv
<1>1. Objects!TypeOK
    BY DEF Objects!Init, Objects!TypeOK, Objects!OwnershipAssumption
<1>2. Objects!Packets = {} /\ Objects!Transmissions = {} /\ Passing(live) = {} /\ Standing(live) = {}
  <2>1. \A i \in Objects!Pair : Objects!ToSet(buffer[i]) = {}
      BY DEF Objects!Init, Objects!ToSet
  <2>2. Objects!OnChannel = {}
      BY DEF Objects!Init, Objects!OnChannel
  <2> QED BY <2>1, <2>2 DEF Objects!Packets, Objects!Transmissions, Passing, Standing,
          Objects!Init
<1>3. Objects!RunOwnsItsObjects
  <2>1. NothingShared
      BY DEF Objects!Init, NothingShared
  <2>2. \A a \in Addresses : channel[a] <= 1
      BY DEF Objects!Init
  <2> QED BY <1>2, <2>1, <2>2, RunOwns DEF Owned
<1>4. StandingInv
    BY <1>2 DEF StandingInv, SingleKinds, PairKinds, Objects!Init, Objects!Alone,
           Objects!OfEveryPair
<1>5. Objects!NothingIsDeletedTwice /\ Objects!EndsItsTransmission /\ PhaseInv
    BY DEF Objects!Init, Objects!NothingIsDeletedTwice, Objects!EndsItsTransmission, PhaseInv,
           Late, Objects!OwnershipAssumption
<1> QED BY <1>1, <1>3, <1>4, <1>5 DEF OwnershipInv

-----------------------------------------------------------------------------
(* The steps of main.                                                      *)

LEMMA MakingKeepsInv ==
    ASSUME OwnershipInv, Objects!MakeStatistics \/ Objects!MakeNetwork \/ Objects!MakeSimulation
    PROVE  OwnershipInv'
<1>1. Objects!TypeOK'
    BY DEF OwnershipInv, Objects!TypeOK, Objects!MakeStatistics, Objects!MakeNetwork,
           Objects!MakeSimulation, Objects!runVars
<1>2. /\ wrong' = wrong
      /\ Passing(live') = Passing(live)
      /\ StandingInv'
  <2>1. CASE Objects!MakeStatistics
    <3>1. Objects!Make(Objects!Alone({"statistics"}) \union Objects!OfEveryPair({}))
        BY <2>1 DEF Objects!MakeStatistics, Objects!OfEveryPair, Objects!Alone
    <3>2. /\ wrong' = wrong
          /\ Passing(live') = Passing(live)
          /\ Standing(live') = Objects!Alone(SingleKinds \union {"statistics"})
                                   \union Objects!OfEveryPair(PairKinds \union {})
        BY <3>1, MainMakes DEF OwnershipInv, RunKinds
    <3>3. SingleKinds' = SingleKinds \union {"statistics"} /\ PairKinds' = PairKinds
        BY <2>1 DEF Objects!MakeStatistics, SingleKinds, PairKinds
    <3> QED BY <3>2, <3>3 DEF StandingInv
  <2>2. CASE Objects!MakeNetwork
    <3>1. Objects!Make(Objects!Alone({"network", "channel"}) \union Objects!OfEveryPair({"receiver", "transmitter"}))
        BY <2>2 DEF Objects!MakeNetwork
    <3>0. ({"network", "channel"} \union {"receiver", "transmitter"}) \intersect RunKinds = {}
        BY DEF RunKinds
    <3>2. /\ wrong' = wrong
          /\ Passing(live') = Passing(live)
          /\ Standing(live') = Objects!Alone(SingleKinds \union {"network", "channel"})
                                   \union Objects!OfEveryPair(PairKinds \union {"receiver", "transmitter"})
        BY <3>0, <3>1, MainMakes DEF OwnershipInv
    <3>3. /\ SingleKinds' = SingleKinds \union {"network", "channel"}
          /\ PairKinds' = PairKinds \union {"receiver", "transmitter"}
        BY <2>2 DEF Objects!MakeNetwork, SingleKinds, PairKinds, NetworkKinds, EndPointKinds
    <3> QED BY <3>2, <3>3 DEF StandingInv
  <2>3. CASE Objects!MakeSimulation
    <3>1. Objects!Make(Objects!Alone(SimulationKinds) \union Objects!OfEveryPair(VectorKinds))
        BY <2>3 DEF Objects!MakeSimulation, SimulationKinds, VectorKinds
    <3>2. (SimulationKinds \union VectorKinds) \intersect RunKinds = {}
        BY DEF SimulationKinds, VectorKinds, RunKinds, Objects!ChannelEvents,
               Objects!EventVectors, Objects!RngVectors
    <3>3. /\ wrong' = wrong
          /\ Passing(live') = Passing(live)
          /\ Standing(live') = Objects!Alone(SingleKinds \union SimulationKinds)
                                   \union Objects!OfEveryPair(PairKinds \union VectorKinds)
        BY <3>1, <3>2, MainMakes DEF OwnershipInv
    <3>4. /\ SingleKinds' = SingleKinds \union SimulationKinds
          /\ PairKinds' = PairKinds \union VectorKinds
        BY <2>3 DEF Objects!MakeSimulation, SingleKinds, PairKinds
    <3> QED BY <3>3, <3>4 DEF StandingInv
  <2> QED BY <2>1, <2>2, <2>3
<1>3. pc \notin Late /\ pc' \notin Late /\ UNCHANGED Objects!runVars /\ runs' = runs
    BY DEF Objects!MakeStatistics, Objects!MakeNetwork, Objects!MakeSimulation, Late
<1>4. Objects!RunOwnsItsObjects'
    BY <1>2, <1>3, RunOwns, StillOwned DEF OwnershipInv, Objects!runVars
<1>5. Objects!EndsItsTransmission' /\ PhaseInv'
    BY DEF Objects!MakeStatistics, Objects!MakeNetwork, Objects!MakeSimulation,
           Objects!EndsItsTransmission, PhaseInv, Late, OwnershipInv
<1> QED BY <1>1, <1>2, <1>4, <1>5 DEF OwnershipInv, Objects!NothingIsDeletedTwice

(* Between two runs nothing is scheduled when the channel is emptied, so   *)
(* that the stale pointers of the end events are used by none of them.     *)
LEMMA ResetKeepsInv ==
    ASSUME OwnershipInv, Objects!ResetTimers \/ Objects!ResetNetwork
    PROVE  OwnershipInv'
<1>1. CASE Objects!ResetTimers
  <2>1. Objects!TypeOK' /\ PhaseInv' /\ Objects!EndsItsTransmission'
      BY <1>1 DEF OwnershipInv, Objects!TypeOK, PhaseInv, Late, Objects!EndsItsTransmission,
             Objects!ResetTimers, Objects!heap
  <2>2. Objects!RunOwnsItsObjects'
      BY <1>1, RunOwns, StillOwned DEF OwnershipInv, Objects!ResetTimers, Objects!heap, Late
  <2>3. StandingInv'
      BY <1>1 DEF OwnershipInv, StandingInv, SingleKinds, PairKinds, Objects!ResetTimers,
             Objects!heap
  <2> QED BY <1>1, <2>1, <2>2, <2>3 DEF OwnershipInv, Objects!NothingIsDeletedTwice,
          Objects!ResetTimers, Objects!heap
<1>2. CASE Objects!ResetNetwork
  <2>1. Objects!TypeOK' /\ PhaseInv' /\ Objects!EndsItsTransmission'
      BY <1>2 DEF OwnershipInv, Objects!TypeOK, PhaseInv, Late, Objects!EndsItsTransmission,
             Objects!ResetNetwork
  <2>2. Owned
      BY <1>2, RunOwns DEF OwnershipInv, Objects!ResetNetwork, Late
  <2>3. /\ wrong' = {}
        /\ Passing(live') = {}
        /\ Standing(live') = Standing(live)
      BY <1>2, <2>2, PassingDeleted DEF OwnershipInv, Objects!NothingIsDeletedTwice,
             Objects!ResetNetwork, Owned
  <2>4. Objects!Packets' = {} /\ Objects!Transmissions' = {}
    <3>1. \A i \in Objects!Pair : Objects!ToSet(buffer'[i]) = {}
        BY <1>2 DEF Objects!ResetNetwork, Objects!ToSet
    <3>2. Objects!OnChannel' = {}
        BY <1>2 DEF Objects!ResetNetwork, Objects!OnChannel
    <3> QED BY <3>1, <3>2 DEF Objects!Packets, Objects!Transmissions
  <2>5. Owned'
    <3>1. NothingShared'
        BY <1>2 DEF Objects!ResetNetwork, NothingShared
    <3>2. \A a \in Addresses : channel'[a] <= 1
        BY <1>2 DEF Objects!ResetNetwork
    <3> QED BY <2>3, <2>4, <3>1, <3>2 DEF Owned
  <2>6. StandingInv'
      BY <1>2, <2>3 DEF OwnershipInv, StandingInv, SingleKinds, PairKinds, Objects!ResetNetwork
  <2> QED BY <2>1, <2>3, <2>5, <2>6, RunOwns DEF OwnershipInv, Objects!NothingIsDeletedTwice
<1> QED BY <1>1, <1>2

LEMMA DeletingKeepsInv ==
    ASSUME OwnershipInv, \/ Objects!DeleteNetwork \/ Objects!EraseRngs \/ Objects!DeleteRngs
                         \/ Objects!DeleteEvents \/ Objects!DeleteSimulation
    PROVE  OwnershipInv'
<1>1. Objects!TypeOK'
    BY DEF OwnershipInv, Objects!TypeOK, Objects!DeleteNetwork, Objects!EraseRngs,
           Objects!DeleteRngs, Objects!DeleteEvents,
           Objects!DeleteSimulation, Objects!runVars
<1>2. pc' \in Late \ {"run", "delete_network", "reset_network"} /\ Objects!EndsItsTransmission'
    BY DEF Objects!DeleteNetwork, Objects!EraseRngs, Objects!DeleteRngs, Objects!DeleteEvents,
           Objects!DeleteSimulation, Late,
           Objects!EndsItsTransmission
<1>3. /\ wrong' = {}
      /\ Passing(live') = {}
      /\ StandingInv'
      /\ pc' # "erase_rngs" => rngs' = {}
  <2>1. CASE Objects!DeleteNetwork
    <3>1. Owned
        BY <2>1, RunOwns DEF OwnershipInv, Objects!DeleteNetwork, Late
    <3>2. Objects!Delete(Passing(live) \union Objects!Alone(NetworkKinds) \union Objects!OfEveryPair(EndPointKinds))
      <4>1. Objects!Alone(NetworkKinds) \union Objects!Packets \union Objects!Transmissions \union Objects!OfEveryPair(EndPointKinds)
                = Passing(live) \union Objects!Alone(NetworkKinds) \union Objects!OfEveryPair(EndPointKinds)
          BY <3>1 DEF Owned
      <4> QED BY <2>1, <4>1 DEF Objects!DeleteNetwork, NetworkKinds, EndPointKinds
    <3>3. /\ SingleKinds = NetworkKinds \union SimulationKinds
          /\ PairKinds = EndPointKinds \union VectorKinds
          /\ SingleKinds' = SimulationKinds
          /\ PairKinds' = VectorKinds
        BY <2>1 DEF Objects!DeleteNetwork, SingleKinds, PairKinds
    <3>4. /\ NetworkKinds \intersect SimulationKinds = {}
          /\ EndPointKinds \intersect VectorKinds = {}
          /\ (NetworkKinds \union SimulationKinds) \intersect EndPointKinds = {}
          /\ (EndPointKinds \union VectorKinds) \intersect NetworkKinds = {}
        BY DEF NetworkKinds, SimulationKinds, EndPointKinds, VectorKinds, Objects!ChannelEvents,
               Objects!EventVectors, Objects!RngVectors
    <3>5. /\ wrong' = {}
          /\ Passing(live') = Passing(live) \ Passing(live)
          /\ Standing(live') = Objects!Alone(SingleKinds \ NetworkKinds)
                                   \union Objects!OfEveryPair(PairKinds \ EndPointKinds)
        BY <3>2, <3>3, <3>4, MainDeletes DEF OwnershipInv, Objects!NothingIsDeletedTwice
    <3>6. SingleKinds \ NetworkKinds = SingleKinds' /\ PairKinds \ EndPointKinds = PairKinds'
        BY <3>3, <3>4
    <3> QED BY <2>1, <3>5, <3>6 DEF StandingInv, Objects!DeleteNetwork
  <2>2. CASE Objects!EraseRngs
      BY <2>2 DEF OwnershipInv, Objects!EraseRngs, Objects!heap, PhaseInv, Late,
             Objects!NothingIsDeletedTwice,
                  StandingInv, SingleKinds, PairKinds
  <2>3. CASE Objects!DeleteRngs
    <3>1. /\ rngs = {}
          /\ Passing(live) = {}
        BY <2>3 DEF OwnershipInv, PhaseInv, Late, Objects!DeleteRngs
    <3>2. Objects!Delete({} \union Objects!Alone({"msg_corrupted_rng"}) \union Objects!OfEveryPair({}))
      <4>1. Objects!OfEveryPair({}) \union Objects!Alone({"msg_corrupted_rng"})
                = {} \union Objects!Alone({"msg_corrupted_rng"}) \union Objects!OfEveryPair({})
          OBVIOUS
      <4> QED BY <2>3, <3>1, <4>1 DEF Objects!DeleteRngs
    <3>3. /\ SingleKinds = SimulationKinds
          /\ PairKinds = VectorKinds
          /\ SingleKinds' = SimulationKinds \ {"msg_corrupted_rng"}
          /\ PairKinds' = VectorKinds
        BY <2>3 DEF Objects!DeleteRngs, SingleKinds, PairKinds
    <3>4. /\ {"msg_corrupted_rng"} \subseteq SingleKinds /\ {} \subseteq PairKinds
          /\ SingleKinds \intersect {} = {} /\ PairKinds \intersect {"msg_corrupted_rng"} = {}
          /\ {} \subseteq Passing(live)
        BY <3>3 DEF SimulationKinds, VectorKinds, Objects!EventVectors, Objects!RngVectors
    <3>5. /\ wrong' = {}
          /\ Passing(live') = Passing(live) \ {}
          /\ Standing(live') = Objects!Alone(SingleKinds \ {"msg_corrupted_rng"})
                                   \union Objects!OfEveryPair(PairKinds \ {})
        BY <3>2, <3>4, MainDeletes DEF OwnershipInv, Objects!NothingIsDeletedTwice
    <3> QED BY <2>3, <3>1, <3>3, <3>5 DEF StandingInv, Objects!DeleteRngs
  <2>4. CASE Objects!DeleteEvents
    <3> DEFINE D == Objects!EventVectors \ {"reduce_tx_down_counter"}
    <3>1. rngs = {} /\ Passing(live) = {}
        BY <2>4 DEF OwnershipInv, PhaseInv, Late, Objects!DeleteEvents
    <3>2. Objects!Delete({} \union Objects!Alone(Objects!ChannelEvents) \union Objects!OfEveryPair(D))
        BY <2>4 DEF Objects!DeleteEvents
    <3>3. /\ SingleKinds = SimulationKinds \ {"msg_corrupted_rng"}
          /\ PairKinds = VectorKinds
          /\ SingleKinds' = {"simulation"}
          /\ PairKinds' = Objects!RngVectors \union {"reduce_tx_down_counter"}
        BY <2>4 DEF Objects!DeleteEvents, SingleKinds, PairKinds
    <3>4. /\ Objects!ChannelEvents \subseteq SingleKinds /\ D \subseteq PairKinds
          /\ SingleKinds \intersect D = {} /\ PairKinds \intersect Objects!ChannelEvents = {}
          /\ SingleKinds \ Objects!ChannelEvents = SingleKinds'
        BY <3>3 DEF SimulationKinds, VectorKinds, Objects!EventVectors, Objects!RngVectors,
               Objects!ChannelEvents
    <3>5. PairKinds \ D = PairKinds'
        BY <3>3 DEF VectorKinds, Objects!EventVectors, Objects!RngVectors
    <3>6. /\ wrong' = {}
          /\ Passing(live') = Passing(live) \ {}
          /\ Standing(live') = Objects!Alone(SingleKinds \ Objects!ChannelEvents) \union Objects!OfEveryPair(PairKinds \ D)
        BY <3>2, <3>4, MainDeletes DEF OwnershipInv, Objects!NothingIsDeletedTwice
    <3> QED BY <2>4, <3>1, <3>4, <3>5, <3>6 DEF StandingInv, Objects!DeleteEvents
  <2>5. CASE Objects!DeleteSimulation
    <3>1. rngs = {} /\ Passing(live) = {}
        BY <2>5 DEF OwnershipInv, PhaseInv, Late, Objects!DeleteSimulation
    <3>2. Objects!Delete({} \union Objects!Alone({"simulation"}) \union Objects!OfEveryPair({}))
      <4>1. Objects!Alone({"simulation"}) = {} \union Objects!Alone({"simulation"}) \union Objects!OfEveryPair({})
          BY DEF Objects!OfEveryPair
      <4> QED BY <2>5, <4>1 DEF Objects!DeleteSimulation
    <3>3. /\ SingleKinds = {"simulation"} /\ SingleKinds' = {}
          /\ PairKinds = Objects!RngVectors \union {"reduce_tx_down_counter"}
          /\ PairKinds' = PairKinds
          /\ "simulation" \notin PairKinds
        BY <2>5 DEF Objects!DeleteSimulation, SingleKinds, PairKinds, Objects!RngVectors
    <3>5. /\ {"simulation"} \subseteq SingleKinds /\ {} \subseteq PairKinds
          /\ SingleKinds \intersect {} = {} /\ PairKinds \intersect {"simulation"} = {}
          /\ {} \subseteq Passing(live)
        BY <3>3
    <3>4. /\ wrong' = {}
          /\ Passing(live') = Passing(live) \ {}
          /\ Standing(live') = Objects!Alone(SingleKinds \ {"simulation"}) \union Objects!OfEveryPair(PairKinds \ {})
        BY <3>2, <3>5, MainDeletes DEF OwnershipInv, Objects!NothingIsDeletedTwice
    <3> QED BY <2>5, <3>1, <3>3, <3>4 DEF StandingInv, Objects!DeleteSimulation
  <2> QED BY <2>1, <2>2, <2>3, <2>4, <2>5
<1>4. Objects!RunOwnsItsObjects' /\ PhaseInv'
    BY <1>2, <1>3, RunOwns DEF PhaseInv
<1> QED BY <1>1, <1>2, <1>3, <1>4 DEF OwnershipInv, Objects!NothingIsDeletedTwice

-----------------------------------------------------------------------------
(* The steps of a run.                                                     *)

(* A packet is generated, received or lost; no transmission is concerned.  *)
LEMMA PacketsKeepInv ==
    ASSUME OwnershipInv, NEW i \in Objects!Pair, Objects!GeneratePacket(i) \/ Objects!RemovePacket(i)
    PROVE  OwnershipInv'
<1>0. /\ Objects!TypeOK /\ pc = "run" /\ wrong = {}
      /\ UNCHANGED <<pc, channel, endTran, endTime, rngs, runs>>
    BY DEF OwnershipInv, Objects!GeneratePacket, Objects!RemovePacket,
           Objects!NothingIsDeletedTwice
<1>1. Owned
    BY <1>0, RunOwns DEF OwnershipInv, Late
<1>2. Objects!OnChannel' = Objects!OnChannel /\ Objects!Transmissions' = Objects!Transmissions
    BY <1>0 DEF Objects!OnChannel, Objects!Transmissions
<1>3. Objects!Packets' = {<<"packet", a>> : a \in Queued'}
    BY DEF Objects!Packets, Queued
<1>4. /\ wrong' = {}
      /\ buffer' \in [Objects!Pair -> Seq(Addresses)]
      /\ Standing(live') = Standing(live)
      /\ \A a : <<"transmission", a>> \in Passing(live') <=> <<"transmission", a>> \in Passing(live)
      /\ Objects!Packets' \union Objects!Transmissions' = Passing(live')
      /\ NothingShared'
  <2>1. CASE Objects!GeneratePacket(i)
    <3>1. PICK a \in Objects!Fresh("packet") : /\ Objects!Make({<<"packet", a>>})
                                       /\ buffer' = [buffer EXCEPT ![i] = Append(@, a)]
        BY <2>1 DEF Objects!GeneratePacket
    <3>2. a \in Addresses /\ <<"packet", a>> \notin live
        BY DEF Objects!Fresh
    <3>3. a \notin Queued
        BY <1>1, <3>2, PassingObjects DEF Owned, Passing
    <3>4. /\ buffer' \in [Objects!Pair -> Seq(Addresses)]
          /\ Queued' = Queued \union {a}
          /\ NothingShared'
        BY <1>0, <1>1, <3>1, <3>2, <3>3, PacketQueued DEF Owned
    <3>5. /\ wrong' = wrong
          /\ Passing(live') = Passing(live) \union {<<"packet", a>>}
          /\ Standing(live') = Standing(live)
      <4>1. <<"packet", a>>[1] \in RunKinds
          BY DEF RunKinds
      <4> QED BY <3>1, <4>1, PassingMade
    <3>6. Objects!Packets' = Objects!Packets \union {<<"packet", a>>}
        BY <1>3, <3>4, PassingObjects
    <3> QED BY <1>0, <1>1, <1>2, <3>4, <3>5, <3>6 DEF Owned
  <2>2. CASE Objects!RemovePacket(i)
    <3> DEFINE a == Head(buffer[i])
    <3>1. /\ buffer[i] # <<>> /\ Objects!Delete({<<"packet", a>>})
          /\ buffer' = [buffer EXCEPT ![i] = Tail(@)]
        BY <2>2 DEF Objects!RemovePacket
    <3>2. /\ buffer' \in [Objects!Pair -> Seq(Addresses)]
          /\ a \in Queued
          /\ Queued' = Queued \ {a}
          /\ NothingShared'
        BY <1>0, <1>1, <3>1, PacketRemoved DEF Owned
    <3> HIDE DEF a
    <3>3. {<<"packet", a>>} \subseteq Passing(live)
        BY <1>1, <3>2, PassingObjects DEF Owned
    <3>4. /\ wrong' = {}
          /\ Passing(live') = Passing(live) \ {<<"packet", a>>}
          /\ Standing(live') = Standing(live)
        BY <1>0, <3>1, <3>3, PassingDeleted
    <3>5. Objects!Packets' = Objects!Packets \ {<<"packet", a>>}
        BY <1>3, <3>2, PassingObjects
    <3>6. <<"packet", a>> \notin Objects!Transmissions
        BY PassingObjects
    <3> QED BY <1>1, <1>2, <3>2, <3>4, <3>5, <3>6 DEF Owned
  <2> QED BY <2>1, <2>2
<1>5. Objects!TypeOK'
    BY <1>0, <1>4 DEF Objects!TypeOK
<1>6. Owned'
    BY <1>0, <1>1, <1>4 DEF Owned
<1>7. Objects!EndsItsTransmission'
  <2>1. \A a : <<"transmission", a>> \in live' <=> <<"transmission", a>> \in live
      BY <1>4 DEF Passing, RunKinds
  <2> QED BY <1>0, <1>2, <2>1 DEF Objects!EndsItsTransmission, OwnershipInv
<1>8. PhaseInv' /\ StandingInv'
    BY <1>0, <1>4, StillStanding DEF PhaseInv, Late, OwnershipInv
<1> QED BY <1>4, <1>5, <1>6, <1>7, <1>8, RunOwns DEF OwnershipInv, Objects!NothingIsDeletedTwice

LEMMA StartKeepsInv ==
    ASSUME OwnershipInv, Objects!OwnershipAssumption, NEW i \in Objects!Pair, Objects!StartTransmission(i)
    PROVE  OwnershipInv'
<1>0. /\ Objects!TypeOK /\ pc = "run" /\ wrong = {}
      /\ UNCHANGED <<pc, buffer, rngs, runs>>
      /\ endTime' = [endTime EXCEPT ![i] = TRUE]
    BY DEF OwnershipInv, Objects!StartTransmission, Objects!NothingIsDeletedTwice
<1>1. Owned
    BY <1>0, RunOwns DEF OwnershipInv, Late
<1>2. PICK a \in Objects!Fresh("transmission") : /\ Objects!Make({<<"transmission", a>>})
                                         /\ channel' = [channel EXCEPT ![a] = @ + 1]
                                         /\ endTran' = [endTran EXCEPT ![i] = a]
    BY DEF Objects!StartTransmission
<1>3. a \in Addresses /\ <<"transmission", a>> \notin live
    BY DEF Objects!Fresh
<1>4. a \notin Objects!OnChannel /\ channel[a] = 0
  <2>1. a \notin Objects!OnChannel
      BY <1>1, <1>3, PassingObjects DEF Owned, Passing
  <2> QED BY <1>0, <1>3, <2>1 DEF Objects!OnChannel, Objects!TypeOK
<1>5. channel'[a] = 1 /\ \A b \in Addresses \ {a} : channel'[b] = channel[b]
    BY <1>0, <1>2, <1>3, <1>4 DEF Objects!TypeOK
<1>6. Objects!OnChannel' = Objects!OnChannel \union {a}
    BY <1>3, <1>5 DEF Objects!OnChannel
<1>7. /\ Objects!Transmissions' = Objects!Transmissions \union {<<"transmission", a>>}
      /\ Objects!Packets' = Objects!Packets
    BY <1>0, <1>6 DEF Objects!Transmissions, Objects!Packets
<1>8. /\ wrong' = wrong
      /\ Passing(live') = Passing(live) \union {<<"transmission", a>>}
      /\ Standing(live') = Standing(live)
  <2>1. <<"transmission", a>>[1] \in RunKinds
      BY DEF RunKinds
  <2> QED BY <1>2, <2>1, PassingMade
<1>9. Objects!TypeOK'
  <2>1. channel' \in [Addresses -> Nat] /\ endTran' \in [Objects!Pair -> Addresses \union {0}]
      BY <1>0, <1>2, <1>3 DEF Objects!TypeOK
  <2> QED BY <1>0, <2>1 DEF Objects!TypeOK
<1>10. Owned'
  <2>1. \A b \in Addresses : channel'[b] <= 1
      BY <1>1, <1>5 DEF Owned
  <2> QED BY <1>0, <1>1, <1>7, <1>8, <2>1 DEF Owned, NothingShared
<1>11. Objects!EndsItsTransmission'
  <2>1. /\ endTran'[i] = a /\ endTime'[i]
        /\ \A j \in Objects!Pair \ {i} : endTran'[j] = endTran[j] /\ endTime'[j] = endTime[j]
      BY <1>0, <1>2 DEF Objects!TypeOK
  <2>2. live' = live \union {<<"transmission", a>>}
      BY <1>2 DEF Objects!Make
  <2> QED BY <1>0, <1>4, <1>6, <2>1, <2>2 DEF Objects!EndsItsTransmission, OwnershipInv
<1>12. PhaseInv' /\ StandingInv'
    BY <1>0, <1>8, StillStanding DEF PhaseInv, Late, OwnershipInv
<1> QED BY <1>0, <1>8, <1>9, <1>10, <1>11, <1>12, RunOwns DEF OwnershipInv,
        Objects!NothingIsDeletedTwice

LEMMA EndKeepsInv ==
    ASSUME OwnershipInv, NEW i \in Objects!Pair, Objects!EndTransmission(i)
    PROVE  OwnershipInv'
<1> DEFINE a == endTran[i]
<1>0. /\ Objects!TypeOK /\ pc = "run" /\ wrong = {} /\ endTime[i]
      /\ UNCHANGED <<pc, buffer, endTran, rngs, runs>>
      /\ endTime' = [endTime EXCEPT ![i] = FALSE]
      /\ Objects!Delete({<<"transmission", a>>})
    BY DEF OwnershipInv, Objects!EndTransmission, Objects!NothingIsDeletedTwice
<1>1. Owned
    BY <1>0, RunOwns DEF OwnershipInv, Late
<1>2. /\ <<"transmission", a>> \in live
      /\ a \in Objects!OnChannel
      /\ \A j \in Objects!Pair \ {i} : endTime[j] => endTran[j] # a
    BY <1>0 DEF OwnershipInv, Objects!EndsItsTransmission
<1>3. channel' = [channel EXCEPT ![a] = @ - 1]
    BY <1>2 DEF Objects!EndTransmission
<1> HIDE DEF a
<1>4. a \in Addresses /\ channel[a] = 1
    BY <1>0, <1>1, <1>2 DEF Objects!OnChannel, Objects!TypeOK, Owned
<1>5. channel'[a] = 0 /\ \A b \in Addresses \ {a} : channel'[b] = channel[b]
    BY <1>0, <1>3, <1>4 DEF Objects!TypeOK
<1>6. Objects!OnChannel' = Objects!OnChannel \ {a}
    BY <1>4, <1>5 DEF Objects!OnChannel
<1>7. /\ Objects!Transmissions' = Objects!Transmissions \ {<<"transmission", a>>}
      /\ Objects!Packets' = Objects!Packets
      /\ <<"transmission", a>> \notin Objects!Packets
  <2>1. Objects!Packets' = Objects!Packets
      BY <1>0 DEF Objects!Packets
  <2>2. Objects!Transmissions' = Objects!Transmissions \ {<<"transmission", a>>}
      BY <1>6 DEF Objects!Transmissions
  <2> QED BY <2>1, <2>2, PassingObjects
<1>8. /\ wrong' = {}
      /\ Passing(live') = Passing(live) \ {<<"transmission", a>>}
      /\ Standing(live') = Standing(live)
  <2>1. {<<"transmission", a>>} \subseteq Passing(live)
      BY <1>2 DEF Passing, RunKinds
  <2> QED BY <1>0, <2>1, PassingDeleted
<1>9. Objects!TypeOK'
  <2>1. channel' \in [Addresses -> Nat]
      BY <1>0, <1>3, <1>4 DEF Objects!TypeOK
  <2> QED BY <1>0, <2>1 DEF Objects!TypeOK
<1>10. Owned'
  <2>1. \A b \in Addresses : channel'[b] <= 1
      BY <1>1, <1>5 DEF Owned
  <2> QED BY <1>0, <1>1, <1>7, <1>8, <2>1 DEF Owned, NothingShared
<1>11. Objects!EndsItsTransmission'
  <2>1. ~ endTime'[i] /\ \A j \in Objects!Pair \ {i} : endTime'[j] = endTime[j]
      BY <1>0 DEF Objects!TypeOK
  <2>2. live' = live \ {<<"transmission", a>>}
      BY <1>0 DEF Objects!Delete
  <2> QED BY <1>0, <1>2, <1>6, <2>1, <2>2 DEF Objects!EndsItsTransmission, OwnershipInv
<1>12. PhaseInv' /\ StandingInv'
    BY <1>0, <1>8, StillStanding DEF PhaseInv, Late, OwnershipInv
<1> QED BY <1>8, <1>9, <1>10, <1>11, <1>12, RunOwns DEF OwnershipInv,
        Objects!NothingIsDeletedTwice

LEMMA EndRunKeepsInv ==
    ASSUME OwnershipInv, Objects!OwnershipAssumption, Objects!EndRun
    PROVE  OwnershipInv'
<1>1. Objects!TypeOK'
    BY DEF OwnershipInv, Objects!TypeOK, PhaseInv, Late, Objects!EndRun, Objects!heap,
           Objects!runVars, Objects!OwnershipAssumption
<1>2. Objects!EndsItsTransmission' /\ PhaseInv'
    BY DEF OwnershipInv, Objects!TypeOK, PhaseInv, Late, Objects!EndRun,
           Objects!EndsItsTransmission, Objects!OwnershipAssumption
<1>3. Objects!RunOwnsItsObjects'
    BY RunOwns, StillOwned DEF OwnershipInv, Objects!EndRun, Objects!heap, Objects!runVars, Late
<1>4. StandingInv'
    BY DEF OwnershipInv, StandingInv, SingleKinds, PairKinds, Objects!EndRun, Objects!heap
<1> QED BY <1>1, <1>2, <1>3, <1>4 DEF OwnershipInv, Objects!NothingIsDeletedTwice,
        Objects!EndRun, Objects!heap

-----------------------------------------------------------------------------
LEMMA NextKeepsInv ==
    ASSUME Objects!OwnershipAssumption, OwnershipInv, [Objects!Next]_(Objects!vars)
    PROVE  OwnershipInv'
<1>1. CASE Objects!MakeStatistics \/ Objects!MakeNetwork \/ Objects!MakeSimulation
    BY <1>1, MakingKeepsInv
<1>2. CASE Objects!ResetTimers \/ Objects!ResetNetwork
    BY <1>2, ResetKeepsInv
<1>3. CASE Objects!EndRun
    BY <1>3, EndRunKeepsInv
<1>4. ASSUME NEW i \in Objects!Pair, \/ Objects!GeneratePacket(i) \/ Objects!RemovePacket(i)
                             \/ Objects!StartTransmission(i) \/ Objects!EndTransmission(i)
      PROVE  OwnershipInv'
    BY <1>4, PacketsKeepInv, StartKeepsInv, EndKeepsInv
<1>5. CASE Objects!DeleteNetwork \/ Objects!EraseRngs \/ Objects!DeleteRngs \/ Objects!DeleteEvents \/ Objects!DeleteSimulation
    BY <1>5, DeletingKeepsInv
<1>6. CASE UNCHANGED Objects!vars
  <2>1. UNCHANGED <<pc, live, wrong, buffer, channel, endTran, endTime, rngs, runs>>
      BY <1>6 DEF Objects!vars, Objects!heap, Objects!runVars
  <2>2. Objects!TypeOK' /\ Objects!NothingIsDeletedTwice' /\ Objects!EndsItsTransmission' /\ PhaseInv'
      BY <2>1 DEF OwnershipInv, Objects!TypeOK, Objects!NothingIsDeletedTwice,
             Objects!EndsItsTransmission, PhaseInv,
                  Objects!OnChannel
  <2>3. Objects!RunOwnsItsObjects'
      BY <2>1, RunOwns, StillOwned DEF OwnershipInv
  <2>4. StandingInv'
      BY <2>1, StillStanding DEF OwnershipInv
  <2> QED BY <2>2, <2>3, <2>4 DEF OwnershipInv
<1> QED BY <1>1, <1>2, <1>3, <1>4, <1>5, <1>6 DEF Objects!Next

(* What belongs to the network is gone at the end: nothing stands but the  *)
(* generators and the events that reduce the counters.                     *)
LEMMA EndLeavesNoNetwork ==
    ASSUME OwnershipInv
    PROVE  Objects!NetworkIsDeleted
<1> SUFFICES ASSUME pc = "end", NEW o \in live
             PROVE  o[1] \notin {"network", "channel", "statistics", "receiver",
                                 "transmitter", "packet", "transmission"}
    BY DEF Objects!NetworkIsDeleted
<1>1. o[1] \notin RunKinds
    BY DEF OwnershipInv, PhaseInv, Late, Passing
<1>2. /\ SingleKinds = {}
      /\ PairKinds = Objects!RngVectors \union {"reduce_tx_down_counter"}
    BY DEF SingleKinds, PairKinds
<1>3. o \in Objects!Alone(SingleKinds) \union Objects!OfEveryPair(PairKinds)
    BY <1>1 DEF OwnershipInv, StandingInv, Standing
<1>4. o[1] \in Objects!RngVectors \union {"reduce_tx_down_counter"}
    BY <1>2, <1>3, KindsOf
<1> QED BY <1>1, <1>4 DEF RunKinds, Objects!RngVectors

(* Which objects there are is known at every point of main, and those of   *)
(* a run are exactly those its queues and its channel point to.            *)
THEOREM OwnershipInvariantHolds == ProgramSpec => []OwnershipInv
<1>1. ProgramInit => OwnershipInv
    BY ObjectsAssumption, InitHolds DEF ProgramInit
<1>2. OwnershipInv /\ [ProgramNext]_programVars => OwnershipInv'
  <2>1. [ProgramNext]_programVars => [Objects!Next]_(Objects!vars)
    <3>1. UNCHANGED objectVars => UNCHANGED Objects!vars
        BY DEF objectVars, Objects!vars, Objects!heap, Objects!runVars
    <3>2. UNCHANGED programVars => UNCHANGED objectVars
        BY DEF programVars
    <3> QED BY <3>1, <3>2 DEF ProgramNext
  <2> QED BY ObjectsAssumption, <2>1, NextKeepsInv
<1> QED BY <1>1, <1>2, PTL DEF ProgramSpec

(* Packets, transmissions and the objects of the network have one owner:   *)
(* nothing is deleted twice, also when packets are queued or sent at the   *)
(* end of a run and addresses are used again; an event that is scheduled   *)
(* ends a transmission that is live and on the channel; and when the       *)
(* program ends, nothing of the network is left.                           *)
THEOREM EveryObjectIsOwned == ProgramSpec => []ObjectsAreOwned
<1>1. OwnershipInv => ObjectsAreOwned
    BY EndLeavesNoNetwork DEF OwnershipInv, ObjectsAreOwned
<1> QED BY <1>1, OwnershipInvariantHolds, PTL
=============================================================================
