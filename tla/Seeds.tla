------------------------------- MODULE Seeds --------------------------------
(***************************************************************************)
(* The seeds of the simulation's random number generators: the file main   *)
(* writes and reads back before the first run, the hand-out of one line of *)
(* it to the generators before every run, and the draws of a run.          *)
(*                                                                         *)
(* A line of the file is a sequence of kernels.  Opening the file for      *)
(* writing may fail, and the stream then swallows what is written: the     *)
(* program goes on to read whatever file an earlier program run left.      *)
(***************************************************************************)
EXTENDS RandomNumGen, Sequences

CONSTANTS
    RxTxCount,          \* pairs of the network
    Repeats,            \* kSimulationRuns * kRepeatCount
    NumericalDistance,  \* draws from one seed to the next
    StartingKernels,    \* the values kStartingKernelVal may have
    OldFiles,           \* what an earlier program run may have left
    MaxDraws            \* bound: draws of one generator in one run

ASSUME SeedsAssumption ==
    /\ RxTxCount \in Nat \ {0}
    /\ Repeats \in Nat \ {0}
    /\ NumericalDistance \in Nat \ {0}
    /\ MaxDraws \in 0 .. NumericalDistance
    /\ StartingKernels \subseteq Kernel
    /\ OldFiles \subseteq Seq(Seq(Kernel))

Pair == 0 .. RxTxCount - 1

(* Every pair has three generators; the channel has one.                   *)
Generator == ({"packet_generation", "packet_transmit_time", "sleep_time"} \X Pair)
                \union {<<"msg_corrupted_by_channel", 0>>}

(* Seeded defect: the generator of the channel is not counted.             *)
SeedCountOfPairs == 3 * RxTxCount

SeedCount == 3 * RxTxCount + 1

(* Two kernels are at least NumericalDistance draws apart.                 *)
Apart(j, k) ==
    \/ Place[j] - Place[k] \in NumericalDistance .. Period - NumericalDistance
    \/ Place[k] - Place[j] \in NumericalDistance .. Period - NumericalDistance

Spaced(lines) ==
    \A a, b \in 1 .. Len(lines) : \A p \in 1 .. Len(lines[a]), q \in 1 .. Len(lines[b]) :
        Apart(lines[a][p], lines[b][q]) \/ (a = b /\ p = q)

(* The period is long enough for the seeds of all runs (735000000 draws of *)
(* 2147483646 in the code), and the seeds that earlier runs of the program *)
(* left have their distance.                                               *)
ASSUME DistanceAssumption ==
    /\ Repeats * SeedCount * NumericalDistance <= Period
    /\ \A lines \in OldFiles : Spaced(lines)

VARIABLES
    phase,      \* what main is doing
    file,       \* the lines of the seed file; <<>> if there is none
    written,    \* the file could be opened for writing
    prime,      \* kernel of prime_rng
    line,       \* lines generated
    drawn,      \* draws of prime_rng since the last seed
    seedSet,    \* the line being generated
    seeds,      \* RNG_seeds, read from the file
    run,        \* runs started
    kernel,     \* kernel_ of each generator
    \* history: kernels that became draws in this run and in earlier ones
    used, past

vars == <<phase, file, written, prime, line, drawn, seedSet, seeds, run, kernel, used, past>>

-----------------------------------------------------------------------------
Init ==
    /\ phase = "open"
    /\ file \in OldFiles
    /\ written = FALSE
    /\ prime \in StartingKernels
    /\ line = 0
    /\ drawn = 0
    /\ seedSet = <<>>
    /\ seeds = <<>>
    /\ run = 0
    /\ kernel = [g \in Generator |-> DefaultKernel]
    /\ used = [g \in Generator |-> {}]
    /\ past = {}

(* Opening truncates the file, or fails and leaves it as it is.            *)
OpenSeedFile ==
    /\ phase = "open"
    /\ phase' = "generate"
    /\ \/ written' = TRUE /\ file' = <<>>
       \/ written' = FALSE /\ UNCHANGED file
    /\ UNCHANGED <<prime, drawn, line, seedSet, seeds, run, kernel, used, past>>

(* One draw of the prime generator, at most NumericalDistance per seed.    *)
DrawPrime ==
    /\ phase = "generate"
    /\ line < Repeats
    /\ Len(seedSet) < SeedCount
    /\ drawn < NumericalDistance
    /\ prime' = NextKernel(prime)
    /\ drawn' = drawn + 1
    /\ UNCHANGED <<phase, file, written, line, seedSet, seeds, run, kernel, used, past>>

SaveSeed ==
    /\ phase = "generate"
    /\ drawn = NumericalDistance
    /\ seedSet' = Append(seedSet, prime)
    /\ drawn' = 0
    /\ UNCHANGED <<phase, file, written, prime, line, seeds, run, kernel, used, past>>

(* A full line goes to the file; a stream that is not open swallows it.    *)
WriteLine ==
    /\ phase = "generate"
    /\ line < Repeats
    /\ Len(seedSet) = SeedCount
    /\ file' = IF written THEN Append(file, seedSet) ELSE file
    /\ seedSet' = <<>>
    /\ line' = line + 1
    /\ UNCHANGED <<phase, written, prime, drawn, seeds, run, kernel, used, past>>

(* Without a file the stream is not at its end, which ends the program.    *)
ReadSeedFile ==
    /\ phase = "generate"
    /\ line = Repeats
    /\ phase' = IF file = <<>> THEN "failed" ELSE "ready"
    /\ seeds' = file
    /\ UNCHANGED <<file, written, prime, drawn, line, seedSet, run, kernel, used, past>>

-----------------------------------------------------------------------------
(* Seeded defect: the index is not carried on from one loop to the next.   *)
SeedIndexRestarted(g) ==
    IF g[1] = "msg_corrupted_by_channel" THEN SeedCount ELSE g[2] + 1

(* The place of a generator's seed in a line: the loops over the three     *)
(* kinds of generators, one after the other, then the channel's.           *)
SeedIndex(g) ==
    CASE g[1] = "packet_generation"        -> g[2] + 1
      [] g[1] = "packet_transmit_time"     -> RxTxCount + g[2] + 1
      [] g[1] = "sleep_time"               -> 2 * RxTxCount + g[2] + 1
      [] g[1] = "msg_corrupted_by_channel" -> 3 * RxTxCount + 1

Loaded(seedLine) ==
    [g \in Generator |-> IF SeedIndex(g) <= Len(seedLine) THEN seedLine[SeedIndex(g)]
                                                          ELSE kernel[g]]

NewRun(seedLine) ==
    /\ run' = run + 1
    /\ kernel' = Loaded(seedLine)
    /\ past' = past \union UNION {used[g] : g \in Generator}
    /\ used' = [g \in Generator |-> {}]
    /\ UNCHANGED <<file, written, prime, drawn, line, seedSet, seeds>>

(* Seeded defect: a line that is too short is loaded as far as it goes.    *)
LoadWhatThereIs ==
    /\ phase = "ready"
    /\ run < Repeats
    /\ run < Len(seeds)
    /\ NewRun(seeds[run + 1])
    /\ phase' = "running"

(* A line of the wrong length is only reported.  If it is too long the     *)
(* rest is ignored; if it is too short, or if there is no line, at()       *)
(* throws, half-way through the generators, and nothing catches it.        *)
loadRNGSeeds ==
    /\ phase = "ready"
    /\ run < Repeats
    /\ \/ /\ run < Len(seeds)
          /\ NewRun(seeds[run + 1])
          /\ phase' = IF \A g \in Generator : SeedIndex(g) <= Len(seeds[run + 1])
                       THEN "running" ELSE "failed"
       \/ /\ run >= Len(seeds)
          /\ phase' = "failed"
          /\ UNCHANGED <<file, written, prime, drawn, line, seedSet, seeds, run,
                         kernel, used, past>>

(* An event draws from its generator.                                      *)
Draw(g) ==
    /\ phase = "running"
    /\ Cardinality(used[g]) < MaxDraws
    /\ kernel' = [kernel EXCEPT ![g] = NextKernel(kernel[g])]
    /\ used' = [used EXCEPT ![g] = @ \union {NextKernel(kernel[g])}]
    /\ UNCHANGED <<phase, file, written, prime, drawn, line, seedSet, seeds, run, past>>

EndRun ==
    /\ phase = "running"
    /\ phase' = IF run = Repeats THEN "done" ELSE "ready"
    /\ UNCHANGED <<file, written, prime, drawn, line, seedSet, seeds, run,
                   kernel, used, past>>

Next ==
    \/ OpenSeedFile \/ DrawPrime \/ SaveSeed \/ WriteLine \/ ReadSeedFile
    \/ loadRNGSeeds \/ EndRun
    \/ \E g \in Generator : Draw(g)

Spec == Init /\ [][Next]_vars

-----------------------------------------------------------------------------
TypeOK ==
    /\ phase \in {"open", "generate", "ready", "running", "done", "failed"}
    /\ file \in Seq(Seq(Kernel))
    /\ written \in BOOLEAN
    /\ prime \in Kernel
    /\ drawn \in 0 .. NumericalDistance
    /\ line \in 0 .. Repeats
    /\ seedSet \in Seq(Kernel)
    /\ seeds \in Seq(Seq(Kernel))
    /\ run \in 0 .. Repeats
    /\ kernel \in [Generator -> Kernel \union {DefaultKernel}]
    /\ used \in [Generator -> SUBSET Kernel]
    /\ past \subseteq Kernel

(* No event draws from a generator that still has the default kernel, even *)
(* if the seeds came from a file of another network: loadRNGSeeds only     *)
(* reports a wrong count of seeds, and at() has to stop the rest.          *)
RunsAreSeeded ==
    phase = "running" => \A g \in Generator : kernel[g] \in Kernel

(* Every draw of every generator, from whatever seeds, is the product      *)
(* modulo kM and leaves the integers nowhere on the way (rand()).          *)
DrawsAreProducts ==
    \A g \in Generator :
        kernel[g] \in Kernel => StepFits(kernel[g]) /\ StepIsProduct(kernel[g])

(* The seeds are NumericalDistance draws apart, so that two generators, in *)
(* one run or in two, never go through the same kernels, as long as none   *)
(* draws more often than that in a run (generateRNGSeedsToFile).           *)
StreamsAreDisjoint ==
    /\ \A g, h \in Generator : g # h => used[g] \intersect used[h] = {}
    /\ \A g \in Generator : used[g] \intersect past = {}

(* The file the program has just written has a line for every run and a    *)
(* seed for every generator: only a file left from before ends it early.   *)
WrittenFileSuffices == phase = "failed" => ~written

(* A rounded draw takes every value from min to max and no other, each     *)
(* from the same number of kernels but for one (randRoundedInt), and a     *)
(* zero-one draw succeeds for the share of kernels that was asked for.     *)
(* What is said does not depend on the state: TLC looks at it when there   *)
(* are seeds.                                                              *)
DrawsAreEven ==
  phase = "ready" =>
    /\ \A max \in 0 .. 9 :
          LET times(v) == Cardinality({k \in Kernel : randRoundedInt(k, 0, max) = v})
          IN  /\ \A k \in Kernel : randRoundedInt(k, 0, max) \in 0 .. max
              /\ \A v, w \in 0 .. max : times(v) - times(w) \in -1 .. 1
    /\ \A percents \in {0, 25, 80, 100} :
          LET share == Cardinality({k \in Kernel : randZeroOne(k, percents)})
          IN  100 * share - percents * (kM - 1) \in -100 .. 100

(* What the seeds promise the runs of the program: there is one for every  *)
(* generator of every run, no two of them start the same draws, and draws  *)
(* are spread as they should be.                                           *)
SeedsServeTheRuns ==
    /\ TypeOK
    /\ StreamsAreDisjoint
    /\ WrittenFileSuffices
    /\ DrawsAreEven
=============================================================================
