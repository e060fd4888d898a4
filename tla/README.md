# TLA+ specification of the GPS acquisition project

The repository holds a C program that acquires a GPS signal
(`src/gpsAcquisition`) and a Kotlin runner (`src/rs2runner`) that simulates the
program on a RISC-V system with and without a CGRA accelerator. This directory
holds TLA+ modules translated from that source, TLC configurations that check
them on small instances, and proofs that TLAPS checks for every instance.

`PROJECT.json` maps every definition to the lines it stands for, and lists the
runs, the slips (mutants) each property catches, the hazards, the findings and
the theorems.

## 1. The system

### Components, their state and their operations

| component | state | operations | what makes it correct |
|---|---|---|---|
| acquisition object (`acquisition.c`, `acquisition.h`) | one heap object with samples, codes, frequencies, two matrices, work arrays, and the answer | `allocateAcquisition`, `enterSample`, `enterCode`, `startAcquisition`, `deleteAcquisition` | the answer is the first largest power of the circular cross-correlation; no block is left; everything is freed |
| radix-2 transform (`radix2`, `bitReversal`, ...) | `data`, the strides `mmax`, `istep`, the loop variables, the twiddle factor | one butterfly after another | the result is the Fourier transform; indices in range; each entry once per stage |
| Bluestein transform (`bluestein`, `complexConvolution`) | the tables, three temporaries and two buffers, which outlive a transform | chirp, convolve, unchirp | the result is the Fourier transform whatever earlier transforms left behind |
| peak search (`computeMaxValue`) | `sMax`, `codePhase`, `dopplerFrequency` | one matrix entry after another | the first maximum |
| test program (`main.c`, `testData.c`) | test case, loop counters, exit code | choose a case, load, start, compare, delete | the exit code tells whether the answer was the expected one |
| runner commands (`app/*.kt`) | the systems simulated, tracers of their memories, the kernel's trace, the mode of the CGRA | build, trace, run, report, twice for `speedup` | the trace is about the kernel; the verifier reports what the reference did not use; which files stay open is known however a run ends |
| CGRA configurations (`cgraConfigurations/*.kt`, `operatorCollections.kt`) | the inputs and operators of each processing element while a provider runs | `matrixStarInterconnect`, `forEachCoordinate`, `addInterconnectInput`, `operatorsFor`, `verifyRs2Constraints` | links in pairs and none twice; every operation can be fed and its result stored; the constraints hold |
| tests (`GpsAcquisitionTests.kt`) | two systems and what their program printed | build, run, verify, twice | accepted only when both systems printed success |
| build scripts | none | | |

### How they interact

`main` owns one acquisition object and calls it through `acquisition.h` in one
thread: allocate, a loop of `enterSample`, a loop of `enterCode`, one
`startAcquisition`, `deleteAcquisition`. `startAcquisition` calls `computeX`,
`fft` on the codes (in place) and conjugates them, `fft` on every row of the
X-matrix, `computeR`, `inverseFft` and `scaleIdft` on every row of the R-matrix,
then `computeMaxValue` and `estimatePIn`. `fft` chooses `radix2` for a number of
samples that is a power of two and `bluestein` otherwise; `bluestein` calls
`complexConvolution`, which calls `radix2` three times on arrays of `M` entries.
All transforms share one set of temporaries.

The runner builds a simulated system from the compiled program. `speedup` builds
a reference system, optionally installs trace points at the entry of a kernel
(callbacks of the simulated program that exchange the tracer of the system's
memory), simulates it, then builds a second system with an acceleration manager
that uses the first one's loop profile and kernel trace, and simulates that. The
tests build the same two systems without tracers and look at the program's last
lines after each. A system takes its CGRA from a registered provider, which lays
out a grid of processing elements; the model is verified before it is used.
Simulator, synthesis, tracers and the CGRA's model classes are libraries.

### What is hard

* State kept between transforms: `bluestein` clears nothing and relies on the
  zeros of the allocation.
* Three sizes that must fit: the number allocated for, the number entered, and
  the constants `M`, `N_SAMPLES`, `N_FREQ`; matrix rows are `N_SAMPLES` apart
  in blocks sized by the number allocated for.
* In-place index arithmetic of the butterflies, and the twiddle recurrence.
* Ties and silence in the peak search.
* In the runner: callbacks at every entry and return of the kernel, from
  wherever the program calls it, itself included; exceptions and timeouts in
  either run; combinations of options.
* In the configurations: links and operators written by hand, line by line,
  whose effect shows only when a kernel is placed.

The list with lines is `hazards` in `PROJECT.json`.

## 2. The modules

| module | models | depends on |
|---|---|---|
| `Signal` | complex arithmetic, angles, the reference transform | |
| `SignalProofs` | laws of the arithmetic, of sums and of angles; theorems about the reference transform | `Signal` |
| `Radix2` | `radix2` and its helpers, butterfly by butterfly | `Signal` |
| `Radix2Proofs` | theorems about `Radix2` | `SignalProofs` |
| `PeakSearch` | `computeMaxValue`, entry by entry | |
| `PeakSearchProofs` | theorems about `PeakSearch` | |
| `AcquisitionSpec` | what `acquisition.h` promises | `Signal` |
| `Acquisition` | the acquisition object, stage by stage | `Signal`; refines `AcquisitionSpec` |
| `AcquisitionProofs` | theorems about `Acquisition` | `SignalProofs` |
| `AcquisitionPromiseProofs` | that `Acquisition` implements `AcquisitionSpec` | `AcquisitionProofs`, `PeakSearchProofs` |
| `AcquisitionMain` | `main.c` and `testData.c` | `Acquisition`, `AcquisitionSpec` |
| `AcquisitionMainProofs` | theorems about `AcquisitionMain` | `AcquisitionPromiseProofs` |
| `RunnerCommand` | the commands `simulate` and `speedup`, and the test run | |
| `RunnerCommandProofs` | theorems about `RunnerCommand` | |
| `CgraConfig` | the configurations' grids, and the smallest kernel on them | |
| `CgraConfigProofs` | theorems about `CgraConfig` | |
| `MC...` | constants for TLC | |

### Signal

The code computes with floats and takes sines and cosines from libm. `Signal`
computes with pairs over the integers modulo a prime `P` with `P % 4 = 3`. These
pairs form a field with a conjugation; an element `Root` of norm 1 and order
`Order` plays the angle `2*pi/Order`, and half angles, `cos^2 + sin^2 = 1`, sums
of roots of unity, and division by `M` or by the number of samples all work as
in the complex numbers. An algorithm that computes a Fourier transform by such
identities computes it here exactly; one with a wrong index, sign, factor or
size does not, save by a coincidence, which the mutants show not to happen.

What this leaves out: rounding, overflow to infinity, NaN (0/0 when there are no
samples is modelled as "not acquired", which is what a comparison with NaN
gives), the conversion of the tested frequency to float and back (exact below
2^24), and the order of magnitudes, which have none in a finite field: they are
ordered by their representative. The comparisons of the code are therefore
checked as comparisons (strictness, ties, scan order, scaling by the same
factors), not for which physical signal wins.

### Radix2

`data` is the interleaved array, `m` and `i` the loop variables (1-based, as in
the code), `wr`, `wi` the twiddle factor. `Init` has `data` hold junk, as malloc
leaves it; `BitReversal` is one iteration of its loop, one exchange at most,
`ConcatArrays` the interleaving once that loop is done. `StartStage` sets
up a stage of the outer loop, `Butterfly` is the innermost body, `NextTwiddle`
the recurrence and the loop on `m`; `SeparateArrays` follows the outer loop. `Levels` is the literal 11 of `bitReversal`, and `InputAssumption` ties
it to `M`: a statement about the two macros, not about the inputs.

### Acquisition

One variable per field of `acquisitionInternal_t` (real and imaginary arrays in
pairs). Each function of the header is an action; `startAcquisition` is a
sequence of actions with `pc` naming the stage. The transform of one array is
four steps for Bluestein (chirp, spectra, product, unchirp), which share `table`,
`one`, `two`, `three`, `xBuffer`, `yBuffer` among all transforms, and one step
for `radix2`, which stands for what `Radix2` computes. Matrices are flat blocks
of `N_FREQ * nrOfSamples` entries addressed with stride `N_SAMPLES`, as the
pointer types have it. A step that would read or write outside a block leads to
`pc = "undefined"`, where C makes no further statement. A caller may allocate
for any number in `Capacities`, mix samples and codes, start with any list of
frequencies, start again, and delete. A row is a pointer to `N_SAMPLES` floats, so
`RowFits` asks that a row neither leaves its block nor runs into the next row.

`AcquisitionSpec` has no arrays but the caller's two sequences, and gives the
answer as the definition of a circular cross-correlation. `KeepsPromise` is the
refinement with the mapping at the end of `Acquisition`. The promise is made to
callers within `InContract`: allocated for `N_SAMPLES`, as many codes as samples,
at most `(M + 1) / 2` samples or exactly `M`, at most `N_FREQ` frequencies, the
first start. Of this, `acquisition.c` lines 9 to 11 state the relation of `M` to the
number of samples and that the latter is assumed to be 1000. The rest is what the code needs
and nowhere says: rows are `N_SAMPLES` apart (32-35), `computeR` runs over the codes
(204), `radix2` always transforms `M` entries (386), frequencies are copied into `N_FREQ`
places (459), and the codes are transformed in place (469), so only a first start sees
what was entered. Other calls lead the specification to `"unspecified"`.

### AcquisitionMain

The calls are actions of `Acquisition`; the module adds the program counter of
`main`, the loop counter, the command line and the exit code. The table of
`MCAcquisitionMain` has the kinds of entries `testData.c` has: cases with a
correct expectation, with and without acquisition, and a case that names more
samples than it has data. It adds one with a wrong expectation, so that both exit codes occur.

### RunnerCommand

The simulated program is a call stack over a call graph. Trace points are
guards in the actions `Call` and `Return`; `Access` is a memory access, with an
address that is a local of a frame or a global of a function. `open` is the set
of trace files opened and not closed, each with the system it was made for: that of
`--trace-memory`, the kernel's, the verifier's, and those of `--createCgraRefImage`, which
only `--cfgSim` makes with a trace, one for each function kernel and in every system with a
CGRA, the reference of `speedup` included. A tracer or verifier is taken to open its file
when it is made, and there is an output directory, as by default. `verifier` says whether
the verifier looks on; where the kernel gets a second tracer after it
(`BaseRunnerCommand.kt` 239-255) both outcomes are possible. The finally blocks are one action each (`FinallyOfSimulate`,
`FinallyOfReference`, `FinallyOfAcceleration`) over what they share: closing,
reporting, and the exception that leaves the command. `CgraBuilds` looks the
configuration up and applies `VerifyRs2Constraints` to its sizes and latencies,
`EnvAndStdioConfigured` and the test of the executable in `CheckOptions` are other
ways to fail before a simulation. Assumed of the
libraries: `runFullProgram` ends by the program's exit, by the timeout, or by
an exception; a verifier complains about an accelerated kernel's access to an
address its tracer has not seen and that is not ignored; a tracer given to a kernel before its
verifier (the hook branch) does not displace it; building a system may
fail only as the code around it says; the accelerated run calls the kernel at
depths at which the reference did. Only writes are flagged, since
`ignoreWritesTo` concerns writes and reads of an untouched local do not occur.

The third command, `test`, is `speedupRun` of `GpsAcquisitionTests`: the same
systems and the same simulation without tracers, where a run is followed by
`VerifyPassed` in place of a finally block. `PrintVerdict` is the `puts` of `main.c`, and `output`
keeps it per system, since `recordedStdOutLines` belongs to one.

### CgraConfig

A provider is a grid and a sequence of statements; a statement is one call that
adds inputs (the star, the wrap-around `when`, a single link) or operators, and
an action carries it out. An operator stands for one class of the library. `Verify`
follows, with the one bound of `verifyRs2Constraints` that the providers decide
themselves. Then the smallest kernel: two operands are loaded at memory ports,
`Route` passes a value to those processing elements that can route it and read it,
`Perform` does the operation, and the store after it. Wherever the model leaves the
library a choice, as with the diagonals of `matrixStarInterconnect`, both outcomes
are explored. All grids are those of the repository at full size; nothing is
scaled down.

## 3. The runs

All run with `CHECK_DEADLOCK FALSE`: each of these programs ends.

| run | bounds | shows |
|---|---|---|
| `radix2` | `M = 8`, 16 impulses and a ramp, both signs, two kinds of junk | the transform is the Fourier transform, each stage a set of smaller transforms; loops cover `data` exactly and end |
| `peak_search` | all matrices up to 2 x 3 with powers 0 to 2 | first maximum, whole matrix scanned, silence leaves the old answer |
| `acquisition` | `M = 8`, 3 samples from 3 values, codes 1 and -1, two frequencies or one too many, blocks allocated for 2, 3 and 4, two starts with any number of samples entered before each | the promise; every row right in either start, the codes in the first; answers among the candidates; padding stays zero; legal callers stay defined |
| `acquisition_radix2` | `M = N_SAMPLES = 4` | the promise on the other branch of `fft` |
| `main` | 5 cases, ids -1 to 6, sizes -1 to 4 | exit code, definedness of complete cases, termination, that of `startAcquisition` included |
| `runner` | 38 option records, seven configurations on both sides of the constraints, the call graph around the transforms with a loop and a function that calls itself, depth 4 | trace, what the verifier reports, verdict of the tests, files left open, termination |
| `cgra_config` | the twelve two-dimensional configurations, every operation, every pair of memory ports | links in pairs, none twice; ports within the bound; every operation can be fed and its result stored |

Why the bounds are enough: `M = 8` is the smallest size with three stages, so
one stage has neither the first nor the last twiddle; the impulses span the
inputs of a linear map. Three samples are the smallest number for Bluestein (1 and
2 are powers of two), and with `M = 8` its mirrored chirp leaves a gap of three
entries, so the gap has an inside. Two rows are the smallest number for which the stride matters, and
two starts for which anything is left behind. In the runner the kernel is called
from two callers at two depths and repeatedly, and one that calls itself at three
depths. The configurations are not scaled.

### Disagreements

Five runs check one statement of the repository's texts each, and TLC finds it
violated:

* `acquisition_delete`: `deleteAcquisition` is documented to free everything
  (`acquisition.h:16`); the four matrix blocks stay.
* `main_fewer`: `main.c:13` offers a number of samples on the command line; with
  fewer than 1000 the matrix rows leave their block.
* `runner_traces`: `--trace-memory` writes "all memory accesses", but with
  `--memCheckKernel` none after the first call of the kernel.
* `runner_locals`: locals of the kernel are to be ignored, but only those below
  the stack pointer of the kernel's last entry are.
* `cgra_torus`: the configuration named `4x4_toroidal` wraps its edges, but a
  corner lies on two of them and the `when` takes the first: the corners have no
  input around the upper and lower edge.

Two more disagreements need no model: README line 41 calls test data 0 the
default, `main.c:18` takes 2; and the speedup of two runs
(`Rs2SpeedupCommand.kt:140`) is printed in a finally block, also after a timeout
or an exception, when the two runs are not the same work.

## 4. Fairness

Weak fairness is assumed of the steps of a single running thread only: the
loop of `radix2`, the search, the whole of `main` (with the stages of
`startAcquisition` it waits for), and the runner's own thread. `Acquisition` by
itself assumes none: its caller may stop calling. In the runner the only further assumption is that a simulation with
`--timeout` reaches it; the program's own end, an exception and the arrival of a
debugger are not assumed. In `CgraConfig` a provider runs to its end, and the
schedule carries an operand on as long as it gets anywhere new and performs an operation
that can be: an assumption about the library's scheduler, which turns
`ResultIsStored` into a statement about the grid alone.

## 5. The proofs

TLAPS checks all theorems for every value of the constants that satisfies the
named assumptions, which TLC evaluates in the runs:

* `SignalAssumption`: `P` is a prime with `P % 4 = 3`, and `Root` has norm 1 and
  order `Order`. Nothing is assumed of sums, transforms or inverses.
* `SizeAssumption`: `M` is a power of two, said without powers: of the divisors of `2M`
  only 1 is odd.
* `InputAssumption`: the literal 11 of `bitReversal` belongs to `M`; the circle has the
  angles of `radix2`, half angles included; the types of the inputs.
* `AcquisitionAssumption`: the types of what a caller may enter, `N_SAMPLES <= M`.
* `TransformAssumption`: what stands for the reals having every angle and every
  reciprocal: `M < P`, the circle is divided by `M`, and by twice every length
  that `bluestein` transforms.
* `MainAssumption`: `M` and `N_SAMPLES` fit together (`acquisition.c` 9-11), and the
  table of cases and the command lines are of the kinds considered.
* `NamesAssumption`: the configurations are those `CgraConfig` has a provider for.
* `RunnerAssumption`: a call graph, option records and a registry.

**Induction.** The provers cannot instantiate the library's induction theorems,
but induction needs no operator parameter when it is stated about a set: a set of
numbers that holds 0 and every successor of a member holds all (`InductiveSet`).
`SignalProofs` proves this from the existence of a least number and uses it
with `{n \in Nat : ...}` for the recursive functions of the model. It shows that they
exist (`SumExists`, `PowExists`, `ReversedExists`) and are determined by their
recursions, and the laws they have: sums add, commute and may be exchanged; angles
add up, repeat after a circle, and are not One before.

* `SignalProofs`. `Complex` is a field with a conjugation; the inverse of `a` is its
  conjugate over its norm, which is not 0 because -1 has no square root
  (`PairInverse`). The reciprocal exists because the least remainder but 0 that
  multiples of a number leave modulo `P` divides `P`, and so is 1 (`InverseExists`). A product is
  Zero only if a factor is, so the powers of an angle other than One sum to Zero.
  Of the reference transform: the powers of an angle sum to 0 or to the length (orthogonality).
  From this: the inverse transform undoes the transform; the inverse of a
  product of spectra is the circular convolution (`Convolution`), and of a spectrum
  and a conjugated one the cross-correlation (`CrossCorrelation`). `BluesteinTransforms`
  is the identity `2kt = k^2 + t^2 - (k - t)^2` with the convolution in an array that
  is long enough for the two arms of the mirrored chirp not to meet.
* `Radix2Proofs`. `PowerStep` gives the powers of two their recursion by counting
  subsets. The inductive invariant `LoopInv` says that a stage's blocks
  divide `data`, where `m` and `i` stand in them, and that the touched entries
  are exactly those that come before `(m, i)` in the order of the loops
  (`TouchedIsVisited`). That an entry is not combined twice does not follow
  from its own negation: one must know which entries have been, and that
  division with remainder by the block size is unique; the lemmas on
  multiplication and division carry this. From it follow `ButterflyInRange`,
  `StageCoversData` and `EachEntryOncePerStage`. `TransformInv` says in addition what
  `data` holds: during the reversal, which entries are exchanged; at every
  butterfly, the transforms of the next stage in the blocks already combined and
  those of this stage in the others (`ButterflyInv`), and the twiddle factor the
  recurrence has reached. That the blocks belong together as they do is a fact
  about `ReverseBits`: reversed, the two halves of a block differ in one bit. It
  gives `StageTransforms` and `ReturnsTransform`.
* `PeakSearchProofs`. `PeakOfScanned` is inductive together with the ranges;
  the key lemma is that a step adds exactly the entry at hand to those scanned,
  and that all scanned before precede it. `SilenceKeeps` is its action property.
* `AcquisitionProofs`. `TypeOK` is inductive. `PaddingZero` is inductive with
  it: samples can only be entered between starts, the number of samples never
  decreases, and a chirp writes to `one` below the number of samples and to
  `two` outside the gap. `DefinedWithinContract` needs `ContractKept`: once a
  legal start runs, the sizes stay related until it returns. `AnswerIsCandidate`
  needs what the fields hold while the search has not run (`NoStartYet`) and after
  it (`FieldsAreCandidate`). `SpectraCorrect` needs three more invariants: what the caller
  entered is what the stages read (`InputsKept`); between the steps of a Bluestein
  transform its temporaries hold what that step computes of the one array it works
  on, whatever earlier transforms left (`TransformsKept`, where the zeros of
  `PaddingZero` come in); and the rows before `f` are transformed, those from `f` on are
  not (`SpectraKept`). The proof showed that the transforms of a number of samples
  that the sizes do not support are not the ones asked for, although the steps stay
  defined: `SpectraCorrect` says so with `LengthSupported`.
* `AcquisitionPromiseProofs`. `PromiseIsKept` is the refinement: the object before its
  allocation is that of `AcquisitionSpec`, and every step is a step of it or leaves
  it unchanged, one lemma for each call. `ResultsKept` carries the spectra on
  through the product, the inverse transform (`CrossCorrelation`) and the scaling;
  `SearchKept` is the invariant of `PeakSearch`, whose lemmas are used through
  an instance (`Scan`); `AnswerPromised` puts them together: the first largest power of
  the scan is the `CHOOSE` of the promise, also when all powers are 0.
* `AcquisitionMainProofs`. `OnTrack` relates where `main` stands to what the object has
  taken, so that a case with enough numbers stays within the contract and so within
  its blocks (`CompleteCasesRunToTheirEnd`). `Handed` relates the arrays to the numbers of
  the test case, one for one, and says that the fields `main` reads after the start
  are the answer of the promise to them (`AnswerPromised`), so the exit code tells whether the
  case notes the true answer (`ExitCodeIsTruth`).
* `RunnerCommandProofs`, for every set of option records, every call graph, every depth and
  every registry of configurations. `CommandInv` follows the command through both runs: when a
  trace exists (`TraceOnDemand`), how the first run ended (`SecondAfterFirst`) and what a
  test has passed so far (`TestPasses`), from which `AcceptedMeansPassed` follows.
  `FilesInv` says of every file of every system when it is open (`IsOpen`); what
  makes that inductive is `MemoryTraced`: the memory has the tracer of `--trace-memory`
  until the kernel is called, and a tracer is taken away only after such a call.
  It gives `OpenAtTheEnd` and `AccelerationAfterReference`. `TraceInv` carries `TracerFollowsKernel` and `ReferenceComplete`:
  every function on the stack is below every other under it in the call
  graph (`StackIsPath`), so a kernel that does not call itself is there once, and the
  return points are those of calls of the kernel (`ReturnPoints`), so the tracer goes
  exactly when that one call ends. `Reported` adds that a trace makes a verifier in whichever
  mode (`TraceMeansVerifier`) and that the verifier has reported what was written and is not
  in the trace; with `TraceInv` this is `UnseenIsReported`. The kernel must not be `main`, which the model
  has on the stack from the start.
* `CgraConfigProofs`, in two steps. The configurations are of one of two shapes
  (`ProvidersAreWellMade`): a star, with at most a torus closed on it when the grid
  has more than two rows and columns (`StarFirst`), or links by hand, each once and with
  its reverse (`ByHand`); and the statements that ask for memory name four PEs at
  most. `ConfigInv` holds of every provider of these shapes, for grids of every size: the
  star and the torus link both ways at every moment (`WrapIsMutual`), the torus
  adds none of the star's links, and by hand exactly the links of the statements
  done are there, so that only the finished grid has them in pairs.

Every invariant and every action property of the passing runs is a theorem. Only
model-checked: the liveness properties (`Terminates`, `Returns`, `MainEnds`, `CommandEnds`,
`ResultIsStored`), since fairness and ENABLED are out of the prover's reach. That `FftByRadix2` stands for what `Radix2` returns is a
correspondence of two statements, not a refinement: `Radix2` is proved to return the
transform that `FftByRadix2` puts in its place.

## 6. Not modelled

Float rounding and NaN beyond what section 2 says; a failing `malloc`, which
the code does not look for; the contents of the test data; logging, energy and
profile reports; option parsing; the simulator, synthesis and the CGRA library; the
build scripts. Of the configurations: the four cubes (`Std2x2x2...`), whose
links the library makes; condition PEs, register files and context memories; the
`legacy...` and `flopoco...` operator collections, which nothing uses. Of the tests: JUnit,
which runs the cases concurrently in directories that are distinct literals, and
the line `Overriding to ... samples`, which `main.c` prints only with a second
argument and the tests pass one. Of the kernels, tracing a range of
code: `--kernel` takes ranges such as `name:0x1200-0x1400` (`src/README.md` 137), which
`RunnerCommand` accepts and accelerates (`Ranges`), but with `--memCheckKernel` the kernel is taken to
be a function (`RunnerAssumption`). For a range the return address noted at its entry is that
of the function around it, and `TracerFollowsKernel`, `ReferenceComplete` and `UnseenIsReported`
say nothing of it. With `--cfgSim`, `--memCheckKernel` and `--createCgraRefImage` together the
library decides which of the kernel's two tracers counts, and `UnseenIsReported` leaves the
combination out. Whether the CGRA library closes the files of the tracers it is handed is
unknown: `OpenAtTheEnd` says only that the commands do not. The four files
`EnergyFocused*.kt` and `PerformanceFocused*.kt` declare two classes twice in one
package; `CgraConfig` has all four grids.

## 7. Plan

Done: all modules, and the proofs named above.

Next, in this order:

1. `radix2` as a step of `Acquisition` by refinement, in place of the correspondence above.
2. The safety half of the runner's properties about endings: that no run is left
   without its finally block.
