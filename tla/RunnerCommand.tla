---------------------------- MODULE RunnerCommand -----------------------------
(***************************************************************************)
(* The two commands of the runner (rs2runner, package rs.rs2.cgra.app):     *)
(* "simulate" runs a program once in a simulated RISC-V system, "speedup"   *)
(* runs it as a reference, then again with its kernels on the CGRA; and     *)
(* "test", the speedup run of GpsAcquisitionTests, which has its own way    *)
(* through the same steps and accepts or rejects what the program printed.  *)
(*                                                                          *)
(* The module follows the systems a command builds, the tracers attached to *)
(* their memory, and what happens to them when a simulation ends by itself, *)
(* by its timeout or with an exception.  The simulated program is a stack   *)
(* of function names driven by a call graph; simulator, synthesis and       *)
(* tracers are libraries and appear as the commands use them.  An address   *)
(* is <<function, depth>>: a local of the frame at that depth, or with      *)
(* depth 0 a global the function uses.  The stack grows downwards, so a     *)
(* greater depth is a smaller stack pointer.                                *)
(*                                                                          *)
(* There is an output directory, as by default, so every tracer that can    *)
(* write a trace has a file for it, which it opens when it is made.         *)
(*                                                                          *)
(* entered, touched, written, missed, refEnd and flagged are history        *)
(* variables.                                                               *)
(***************************************************************************)
EXTENDS Naturals, Sequences, FiniteSets

CONSTANTS
    OptionSets,       \* the command lines considered, as records
    Functions, Calls, \* the program: its functions, and whom each may call
    Ranges,           \* the other kernels --kernel accepts: loops, ranges of the code
    MaxDepth,         \* bound on the depth of calls
    Configs,          \* configuration name -> the model its provider returns; Custom's
                      \* provider is a TODO that throws, and so has none
    Shortest,         \* operation -> the latency verifyRs2Constraints names for it
    ProfiledTicks,    \* what the loop profiler attributes to each function
    Synthesizable,    \* the kernels synthesis succeeds for
    Blacklisted,      \* blacklistedFromAcceleration
    AliasingDisabled  \* disableMemoryAliasingDetection

\* The options that decide where a command goes, files and numbers as whether
\* they are given: executable, whether the first argument is a regular file;
\* envFormat, whether every -E holds to ENVNAME=value.
Options ==
    [command : {"simulate", "speedup", "test"}, executable : BOOLEAN, envFormat : BOOLEAN,
     cgra : STRING, kernels : Seq(STRING), timeout : BOOLEAN, debugger : BOOLEAN,
     traceMemory : BOOLEAN, memCheckKernel : BOOLEAN, noAutoAcc : BOOLEAN,
     aot : BOOLEAN, cgraVcd : BOOLEAN, cfgSim : BOOLEAN, cgraHook : BOOLEAN,
     refImage : BOOLEAN]

\* What speedupRun of the tests fixes: a timeout, automatic acceleration, no tracer.
TestCase(cgraName) ==
    [command |-> "test", executable |-> TRUE, envFormat |-> TRUE, cgra |-> cgraName,
     kernels |-> <<>>, timeout |-> TRUE, debugger |-> FALSE, traceMemory |-> FALSE,
     memCheckKernel |-> FALSE, noAutoAcc |-> FALSE, aot |-> FALSE, cgraVcd |-> FALSE,
     cfgSim |-> FALSE, cgraHook |-> FALSE, refImage |-> FALSE]

\* A CGRA model: its widths, the PEs with memory access, the context count, 0 for
\* null, and the latencies each operation has on its PEs.
CgraModel ==
    [liveInOutDataWidth : Nat, constantTableDataWidth : Nat, dataInterconnectWidth : Nat,
     memoryPes : Nat, contextCount : Nat, timeSteps : [DOMAIN Shortest -> SUBSET Nat]]

\* The program starts in main, before which nothing could call it as a kernel.  The
\* kernel whose memory is checked is a function: a range is part of one, and no call.
ASSUME RunnerAssumption ==
    /\ OptionSets \subseteq Options
    /\ \A o \in OptionSets : o.command = "test" => o = TestCase(o.cgra)
    /\ \A o \in OptionSets : o.memCheckKernel /\ o.kernels # <<>> => o.kernels[1] \notin Ranges \cup {"main"}
    /\ \A name \in DOMAIN Configs : Configs[name] \in CgraModel
    /\ "main" \in Functions /\ Functions \cap Ranges = {}
    /\ Synthesizable \subseteq Functions \cup Ranges
    /\ Calls \in [Functions -> SUBSET Functions]
    /\ ProfiledTicks \in [Functions -> Nat]
    /\ MaxDepth \in Nat \ {0}
    /\ AliasingDisabled \in BOOLEAN

VARIABLES
    options,
    cpc,          \* where the command stands
    sim,          \* "single", "reference" or "acceleration"
    tracer,       \* memory.tracer of the system simulated last
    open,         \* trace files opened and not closed, as <<file, system>>
    traceConfig,  \* whether a KernelTraceConfig exists
    entryDepth,   \* its entryStackPtr, 0 for null
    traced,       \* the addresses its tracer saw
    returnPoints, \* the return addresses with a trace point
    mode,         \* how the CGRA is simulated, "none" without acceleration
    verifier,     \* whether the kernel's accesses are verified when it is accelerated
    accelerated,  \* the functions that run on the CGRA
    output,       \* the verdict each system's program printed, "none" before
    stack, ended,
    entered,      \* the depths at which the reference called the kernel
    touched,      \* addresses used below the kernel in the reference
    written,      \* addresses the accelerated kernel wrote
    missed,       \* an access escaped the file of --trace-memory
    refEnd,       \* how the reference simulation ended
    flagged       \* addresses the verifier complained about a write to

tracing == <<traceConfig, entryDepth, traced, returnPoints>>
cgra    == <<mode, verifier, accelerated>>
ghosts  == <<entered, touched, written, missed, refEnd, flagged>>
program == <<output, stack, ended>>
vars    == <<options, cpc, sim, tracer, open, tracing, cgra, program, ghosts>>

Init ==
    /\ options \in OptionSets
    /\ cpc = "check" /\ sim = "single" /\ tracer = "none" /\ open = {}
    /\ traceConfig = FALSE /\ entryDepth = 0 /\ traced = {} /\ returnPoints = {}
    /\ mode = "none" /\ verifier = FALSE /\ accelerated = {}
    /\ stack = <<>> /\ ended = "none"
    /\ output = [system \in {"single", "reference", "acceleration"} |-> "none"]
    /\ entered = {} /\ touched = {} /\ written = {} /\ missed = FALSE /\ refEnd = "none" /\ flagged = {}

Fail == cpc' = "failed" /\ UNCHANGED <<sim, tracer, open, tracing, cgra, program, ghosts>>

-------------------------------------------------------------------------------
(* Building a system *)

UnsupportedInSpeedup == options.command = "speedup" /\ (options.cgraVcd \/ options.aot)

\* The first checks of both run functions, and collectExPathAndArgs.
CheckOptions ==
    /\ cpc = "check"
    /\ UNCHANGED options
    /\ IF UnsupportedInSpeedup \/ ~ options.executable
       THEN Fail
       ELSE /\ cpc' = "build"
            /\ UNCHANGED <<sim, tracer, open, tracing, cgra, program, ghosts>>

manual == {options.kernels[k] : k \in DOMAIN options.kernels}
kernel == options.kernels[1]

TwoSystems == options.command \in {"speedup", "test"}

\* configureCgraIfNeeded attaches a CGRA for every speedup, and for a simulation
\* that accelerates.
CgraAttached == TwoSystems \/ options.aot

\* verifyOperationNotQuickerThan, which rejects the named latency itself too.
NotQuicker(model) ==
    \A operation \in DOMAIN Shortest :
        \A steps \in model.timeSteps[operation] : steps > Shortest[operation]

VerifyRs2Constraints(model) ==
    /\ model.liveInOutDataWidth = 32 /\ model.constantTableDataWidth = 32
    /\ model.dataInterconnectWidth <= 34
    /\ model.memoryPes <= 4
    /\ model.contextCount # 0
    /\ NotQuicker(model)

\* loadSchedulerModelByName, the provider, verifyRs2Constraints and
\* parseToKernelDescriptor may each throw.
CgraBuilds ==
    CgraAttached => /\ options.cgra \in DOMAIN Configs
                    /\ VerifyRs2Constraints(Configs[options.cgra])
                    /\ manual \subseteq Functions \cup Ranges

\* Slip: the trace forgotten among the reasons for hook execution.
HookByOptionOnly == options.cgraHook \/ options.cgraVcd \/ options.refImage

SimCgraWithHook ==
    options.cgraHook \/ options.cgraVcd \/ options.refImage \/ traceConfig

\* The three-way choice of configureCgraAcceleration, and the choice in its last branch.
Patching == IF AliasingDisabled THEN "patching" ELSE "speculativePatching"
Mode == IF options.cfgSim THEN "cfgSim" ELSE IF SimCgraWithHook THEN "hook" ELSE Patching

\* The kernels of --kernel that run on the CGRA: throwSynthesisErrors is false,
\* so one that cannot be synthesised stays on the processor.
ManuallyAccelerated == manual \cap Synthesizable

\* autoAccelerate: the functions it offers to accelerateMostRelevantFunctions,
\* which settles on up to three that can be synthesised.
Candidates == {fn \in Functions : ProfiledTicks[fn] > 10000 /\ fn \notin Blacklisted}
AutoPicks ==
    IF options.command = "simulate" \/ options.noAutoAcc THEN {{}}
    ELSE {fns \in SUBSET (Candidates \cap Synthesizable) : Cardinality(fns) <= 3}

\* configureEnvAndStdio throws for an -E without exactly one "=".
EnvAndStdioConfigured == options.envFormat

\* createVerifier, called in the two modes that apply a verifier.
VerifierMade == traceConfig /\ Mode \in {"cfgSim", "hook"}

\* The tracers of --createCgraRefImage that write a trace: one for each kernel that
\* is a function, with --cfgSim alone, in every system with a CGRA.
RefImageTraced ==
    CgraAttached /\ options.cfgSim /\ options.refImage /\ manual \cap Functions # {}

\* The files of the tracers made with a system.  One refImage stands for those of
\* all its kernels.
OpenedWith(system) ==
    {<<file, system>> : file \in
        {f \in {"memory", "refImage", "verified"} :
            \/ f = "memory" /\ options.traceMemory
            \/ f = "refImage" /\ RefImageTraced
            \/ f = "verified" /\ VerifierMade}}

\* A new system is about to run its program; configureMemory has its memory start
\* with the tracer of --trace-memory or with none.
NewSystem(system) ==
    /\ sim' = system
    /\ tracer' = IF options.traceMemory THEN "memory" ELSE "none"
    /\ open' = open \cup OpenedWith(system)
    /\ stack' = <<"main">> /\ ended' = "none"

\* The only system of simulate, or the reference system of speedup and of a test,
\* which has no kernel to trace.
BuildFirstSystem ==
    /\ cpc = "build"
    /\ UNCHANGED options
    /\ IF ~ EnvAndStdioConfigured \/ ~ CgraBuilds THEN Fail
       ELSE /\ NewSystem(IF TwoSystems THEN "reference" ELSE "single")
            /\ IF TwoSystems
               THEN /\ cpc' = IF options.command = "test" THEN "launch" ELSE "traceKernel"
                    /\ mode' = "none" /\ accelerated' = {}
               ELSE /\ cpc' = "launch"
                    /\ IF options.aot
                       THEN mode' = Mode /\ accelerated' = ManuallyAccelerated
                       ELSE mode' = "none" /\ accelerated' = {}
            /\ UNCHANGED <<tracing, verifier, output, ghosts>>

\* memoryTraceSingleKernel for the first --kernel; kernels.first() throws when
\* there is none, outside the try block.
TraceKernel ==
    /\ cpc = "traceKernel"
    /\ UNCHANGED options
    /\ IF options.memCheckKernel /\ options.kernels = <<>> THEN Fail
       ELSE /\ cpc' = "launch"
            /\ traceConfig' = options.memCheckKernel
            /\ open' = open \cup (IF options.memCheckKernel THEN {<<"kernel", "reference">>} ELSE {})
            /\ UNCHANGED <<sim, tracer, entryDepth, traced, returnPoints, cgra, program,
                           ghosts>>

\* The accelerated system.  Where a kernel is given a second tracer after its
\* verifier, the CGRA library decides whether the verifier still looks on.
BuildAcceleration ==
    /\ cpc = "prepare" /\ cpc' = "launch"
    /\ NewSystem("acceleration")
    /\ mode' = Mode
    /\ \E looksOn \in BOOLEAN :
          /\ looksOn \/ RefImageTraced
          /\ verifier' = (VerifierMade /\ looksOn)
    /\ \E fns \in AutoPicks : accelerated' = ManuallyAccelerated \cup fns
    /\ UNCHANGED <<options, tracing, output, ghosts>>

\* Slip: the debugger awaited whether or not there is a port for it.
LaunchWaiting ==
    /\ cpc = "launch"
    /\ cpc' = "awaitDebugger"
    /\ UNCHANGED <<options, sim, tracer, open, tracing, cgra, program, ghosts>>

\* runSimulatorPossiblyWithGdb: with a debugger port the simulation waits.
Launch ==
    /\ cpc = "launch"
    /\ cpc' = IF options.debugger THEN "awaitDebugger" ELSE "running"
    /\ UNCHANGED <<options, sim, tracer, open, tracing, cgra, program, ghosts>>

DebuggerAttaches ==
    /\ cpc = "awaitDebugger" /\ cpc' = "running"
    /\ UNCHANGED <<options, sim, tracer, open, tracing, cgra, program, ghosts>>

-------------------------------------------------------------------------------
(* The simulated program *)

here   == stack[Len(stack)]
inside == \E d \in DOMAIN stack : stack[d] = kernel

\* The trace points exist in the reference system only.
Traced == sim = "reference" /\ traceConfig

\* The depth of the next frame.
DepthOfCallee == Len(stack) + 2   \* slip: one frame too deep
DepthOfCall   == Len(stack) + 1

\* A call.  At the kernel's entry the trace point puts the kernel's tracer in
\* the place of any other, notes the stack pointer and sets a trace point at
\* the return address.  The accelerated run, of the same program on the same
\* input, calls the kernel where the reference did.
Call(g) ==
    /\ cpc = "running" /\ Len(stack) < MaxDepth /\ g \in Calls[here]
    /\ sim = "acceleration" /\ traceConfig /\ g = kernel => DepthOfCall \in entered
    /\ stack' = Append(stack, g)
    /\ IF Traced /\ g = kernel
       THEN /\ tracer' = "kernel"
            /\ entryDepth' = DepthOfCall
            /\ returnPoints' = returnPoints \cup {<<here, g>>}
            /\ entered' = entered \cup {DepthOfCall}
       ELSE UNCHANGED <<tracer, entryDepth, returnPoints, entered>>
    /\ UNCHANGED <<options, cpc, sim, open, traceConfig, traced, cgra, output, ended,
                   touched, written, missed, refEnd, flagged>>

\* The return address of the running frame, as <<caller, callee>>.
AtReturnPointOfCallee == Traced /\ <<here, stack[Len(stack) - 1]>> \in returnPoints   \* slip
AtReturnPoint == Traced /\ <<stack[Len(stack) - 1], here>> \in returnPoints

\* A return.  The trace point at the return address takes the tracer away.
Return ==
    /\ cpc = "running" /\ Len(stack) > 1
    /\ stack' = SubSeq(stack, 1, Len(stack) - 1)
    /\ tracer' = IF AtReturnPoint THEN "none" ELSE tracer
    /\ UNCHANGED <<options, cpc, sim, open, tracing, cgra, output, ended, ghosts>>

\* The verifier ignores writes to the 0x2000 bytes below entryStackPtr, which the
\* model takes to hold all deeper frames.
Ignored(address) == entryDepth # 0 /\ address[2] >= entryDepth

\* The kernel whose memory is checked runs on the CGRA.
OnCgra == /\ sim = "acceleration" /\ options.memCheckKernel
          /\ here = kernel /\ kernel \in accelerated

\* A read or a write of the running function.
Access(address, write) ==
    /\ cpc = "running" /\ address \in {<<here, 0>>, <<here, Len(stack)>>}
    /\ missed' = (missed \/ (options.traceMemory /\ tracer # "memory"))
    /\ traced'  = IF tracer = "kernel" THEN traced \cup {address} ELSE traced
    /\ touched' = IF Traced /\ inside THEN touched \cup {address} ELSE touched
    /\ written' = IF OnCgra /\ write THEN written \cup {address} ELSE written
    /\ flagged' = IF OnCgra /\ write /\ verifier /\ address \notin traced /\ ~ Ignored(address)
                  THEN flagged \cup {address} ELSE flagged
    /\ UNCHANGED <<options, cpc, sim, tracer, open, traceConfig, entryDepth, returnPoints,
                   cgra, program, entered, refEnd>>

\* The last thing main does is print its verdict, of interest to the tests alone.
PrintVerdict(verdict) ==
    /\ cpc = "running" /\ options.command = "test"
    /\ Len(stack) = 1 /\ output[sim] = "none"
    /\ output' = [output EXCEPT ![sim] = verdict]
    /\ UNCHANGED <<options, cpc, sim, tracer, open, tracing, cgra, stack, ended, ghosts>>

\* The simulation ends: main returns, the timeout of --timeout is reached, or
\* the simulator throws.
EndRun(how) ==
    /\ cpc = "running"
    /\ \/ how = "exit" /\ Len(stack) = 1
       \/ how = "timeout" /\ options.timeout
       \/ how = "exception"
    /\ ended' = how
    /\ cpc' = IF options.command # "test" THEN "finally"
              ELSE IF how = "exception" THEN "failed" ELSE "verify"
    /\ refEnd' = IF sim = "reference" THEN how ELSE refEnd
    /\ UNCHANGED <<options, sim, tracer, open, tracing, cgra, output, stack,
                   entered, touched, written, missed, flagged>>

\* The recorded lines verifyPassed looks at, those of the system just run.
RecordedOfReference == output["reference"]   \* slip: the first system's again
Recorded == output[sim]

\* verifyPassed after either run of a test, which throws unless the lines end with
\* the verdict; that none overrides the number of samples holds for the arguments
\* the tests pass.
VerifyPassed ==
    /\ cpc = "verify"
    /\ cpc' = IF Recorded # "PASSED" THEN "failed"
              ELSE IF sim = "reference" THEN "prepare" ELSE "done"
    /\ UNCHANGED <<options, sim, tracer, open, tracing, cgra, program, ghosts>>

\* The files the finally block closes: that of the tracer the memory has by then,
\* and the kernel's.
ClosedOnlyFromMemory == {<<tracer, sim>>}   \* slip: the kernel's tracer forgotten
ClosedNow == {<<tracer, sim>>}
             \cup (IF sim = "reference" THEN {<<"kernel", "reference">>} ELSE {})

\* The end of a finally block: the files are closed, the reports printed, and the
\* command goes on at next, unless the exception still pending takes it away.
ClosesAndGoesTo(next) ==
    /\ cpc = "finally"
    /\ open' = open \ ClosedNow
    /\ cpc' = IF ended = "exception" THEN "failed" ELSE next
    /\ UNCHANGED <<options, sim, tracer, tracing, cgra, program, ghosts>>

FinallyOfSimulate     == sim = "single" /\ ClosesAndGoesTo("done")
FinallyOfAcceleration == sim = "acceleration" /\ ClosesAndGoesTo("done")

\* Slip: the exception swallowed.
FinallySwallowing ==
    /\ sim = "reference" /\ cpc = "finally"
    /\ open' = open \ ClosedNow /\ cpc' = "prepare"
    /\ UNCHANGED <<options, sim, tracer, tracing, cgra, program, ghosts>>
FinallyOfReference == sim = "reference" /\ ClosesAndGoesTo("prepare")

-------------------------------------------------------------------------------
Command == CheckOptions \/ BuildFirstSystem \/ TraceKernel \/ BuildAcceleration
           \/ Launch \/ VerifyPassed \/ FinallyOfSimulate \/ FinallyOfReference \/ FinallyOfAcceleration

Program == \/ \E g \in Functions : Call(g)
           \/ Return
           \/ \E address \in Functions \X (0 .. MaxDepth), write \in BOOLEAN :
                 Access(address, write)
           \/ \E verdict \in {"PASSED", "FAILED"} : PrintVerdict(verdict)

Next == Command \/ DebuggerAttaches \/ Program
        \/ \E how \in {"exit", "timeout", "exception"} : EndRun(how)

\* The command's own thread keeps going, and simulated time reaches a timeout;
\* neither a program's end nor a debugger's arrival is certain.
Spec == Init /\ [][Next]_vars /\ WF_vars(Command) /\ WF_vars(EndRun("timeout"))

-------------------------------------------------------------------------------
TypeOK ==
    /\ cpc \in {"check", "build", "traceKernel", "launch", "awaitDebugger", "running",
                "finally", "verify", "prepare", "done", "failed"}
    /\ sim \in {"single", "reference", "acceleration"}
    /\ tracer \in {"none", "memory", "kernel"}
    /\ open \subseteq {"memory", "kernel", "verified", "refImage"}
                   \X {"single", "reference", "acceleration"}
    /\ entryDepth \in 0 .. MaxDepth
    /\ mode \in {"none", "cfgSim", "hook", "patching", "speculativePatching"}
    /\ Len(stack) <= MaxDepth /\ traced \subseteq Functions \X (0 .. MaxDepth)

\* The functions a function reaches by calls.
Below == [fn \in Functions |->
    {g \in Functions : \A closed \in SUBSET Functions :
        Calls[fn] \subseteq closed /\ (\A h \in closed : Calls[h] \subseteq closed)
          => g \in closed}]
KernelRecursive == kernel \in Below[kernel]

(***************************************************************************)
(* The reference trace of --memCheckKernel is about the kernel, a function, *)
(* and nothing else: its tracer is attached only while a call of the kernel *)
(* is on the stack, from whichever place and however often the program      *)
(* calls it, and all that time unless the kernel calls itself: then an      *)
(* inner return takes the tracer away from the outer call.                  *)
(* (Rs2SpeedupCommand.kt 209-227)                                           *)
(***************************************************************************)
TracerFollowsKernel ==
    cpc = "running" /\ Traced =>
        /\ tracer = "kernel" => inside
        /\ inside /\ ~ KernelRecursive => tracer = "kernel"

\* What the verifier compares with is what the kernel and the functions below
\* it used in the reference: nothing more, and nothing less unless the kernel
\* calls itself.  (Rs2SpeedupCommand.kt 82-87, 192-193)
ReferenceComplete ==
    sim = "acceleration" /\ traceConfig =>
        traced \subseteq touched /\ (~ KernelRecursive => traced = touched)

(***************************************************************************)
(* What --memCheckKernel is for: of the globals the kernel writes on the    *)
(* CGRA the verifier reports those that the kernel, or a function below it, *)
(* did not use in the reference, and no others unless the kernel calls      *)
(* itself.  That takes a mode that applies a verifier, whichever mode the   *)
(* other options ask for, and a trace of every call of the kernel.  A       *)
(* kernel left on the processor writes nothing here, and with --cfgSim and  *)
(* --createCgraRefImage, where the kernel has a second tracer, nothing is   *)
(* stated.  (BaseRunnerCommand.kt 201, 234-285; Rs2SpeedupCommand.kt        *)
(* 192-206)                                                                 *)
(***************************************************************************)
Globals(addresses) == {address \in addresses : address[2] = 0}
UnseenIsReported ==
    sim = "acceleration" /\ options.memCheckKernel /\ ~ (options.cfgSim /\ options.refImage) =>
        /\ Globals(written) \ touched \subseteq flagged
        /\ ~ KernelRecursive => Globals(flagged) \subseteq Globals(written) \ touched

\* Nothing is accelerated on the strength of a profile whose simulation threw,
\* and the kernel's trace file is closed by then.  (Rs2SpeedupCommand.kt 89-114)
AccelerationAfterReference ==
    sim = "acceleration" => refEnd \in {"exit", "timeout"} /\ <<"kernel", "reference">> \notin open

(***************************************************************************)
(* A test is accepted only when the program printed its success in both     *)
(* runs, each read from the output of its own system; a run cut off by the  *)
(* timeout before that, or thrown out of, never passes for one.             *)
(* (GpsAcquisitionTests.kt 118-152, 171-185)                                *)
(***************************************************************************)
AcceptedMeansPassed ==
    options.command = "test" /\ cpc = "done" =>
        /\ sim = "acceleration" /\ "exception" \notin {refEnd, ended}
        /\ output["reference"] = "PASSED" /\ output["acceleration"] = "PASSED"

(***************************************************************************)
(* Of a command that ended after a simulation, however the simulations      *)
(* ended, exactly these trace files are still open, which no finally block  *)
(* closes: the verifier's, and those of --createCgraRefImage, handed to the *)
(* CGRA library and closed there if at all; and that of --trace-memory in   *)
(* the reference, when a call of the kernel took its tracer's place.  The   *)
(* others, the kernel's trace among them, are closed.                       *)
(* (Rs2SpeedupCommand.kt 91-93, 126-127; Rs2SimulateCommand.kt 76)          *)
(***************************************************************************)
StillOpen(file, system) ==
    \/ file = "verified" /\ options.memCheckKernel /\ system = "acceleration"
    \/ file = "refImage" /\ RefImageTraced
    \/ file = "memory" /\ options.traceMemory /\ system = "reference" /\ entered # {}
OpenAtTheEnd ==
    cpc \in {"done", "failed"} /\ ended # "none" =>
        LET built == IF sim = "acceleration" THEN {"reference", "acceleration"} ELSE {sim}
        IN  open = {f \in {"memory", "kernel", "verified", "refImage"} \X built :
                       StillOpen(f[1], f[2])}

\* With a timeout, and without a debugger, for which a command may wait for ever,
\* the command comes to its end even if the program does not.
\* (BaseRunnerCommand.kt 86, 389-399)
CommandEnds ==
    options.timeout /\ ~ options.debugger ~> cpc \in {"done", "failed"}

\* "Write a trace file for all memory accesses" (BaseRunnerCommand.kt 102).
TraceFileHoldsAll == ~ missed

\* "Ignoring writes to {}..{}, due kernel-local-writes being possible"
\* (Rs2SpeedupCommand.kt 200): the verifier does not complain about a local
\* of the kernel's own frame.
LocalsNeverFlagged == \A address \in flagged : address[2] = 0
===============================================================================
