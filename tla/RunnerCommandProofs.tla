-------------------------- MODULE RunnerCommandProofs --------------------------
(***************************************************************************)
(* The commands of the runner, for every set of options and every program. *)
(***************************************************************************)
EXTENDS RunnerCommand, SequenceTheorems, TLAPS

\* The steps of the simulated system.
Simulated == \/ \E g \in Functions : Call(g)
             \/ Return
             \/ \E address \in Functions \X (0 .. MaxDepth), write \in BOOLEAN :
                   Access(address, write)
             \/ \E verdict \in {"PASSED", "FAILED"} : PrintVerdict(verdict)
             \/ \E how \in {"exit", "timeout", "exception"} : EndRun(how)

Files   == {"memory", "kernel", "verified", "refImage"}
Systems == {"single", "reference", "acceleration"}

\* What the option records say of themselves.
OptionsKnown ==
    /\ options \in OptionSets
    /\ options.command \in {"simulate", "speedup", "test"}
    /\ options.command = "test" => ~ options.memCheckKernel /\ ~ options.traceMemory
    /\ options.memCheckKernel /\ options.kernels # <<>> => kernel # "main"
    /\ options.memCheckKernel \in BOOLEAN
    /\ options.traceMemory \in BOOLEAN

\* An option record has the fields the command reads.
LEMMA KnownOptions == options \in OptionSets => OptionsKnown
<1> SUFFICES ASSUME options \in OptionSets PROVE OptionsKnown
  OBVIOUS
<1>1. options \in Options
  BY RunnerAssumption DEF RunnerAssumption
<1>2. /\ options.command \in {"simulate", "speedup", "test"}
      /\ options.memCheckKernel \in BOOLEAN /\ options.traceMemory \in BOOLEAN
  BY <1>1 DEF Options
<1>3. ASSUME options.command = "test"
      PROVE  ~ options.memCheckKernel /\ ~ options.traceMemory
  <2>1. options = TestCase(options.cgra)
    BY <1>3, RunnerAssumption DEF RunnerAssumption
  <2>2. TestCase(options.cgra).memCheckKernel = FALSE /\ TestCase(options.cgra).traceMemory = FALSE
    BY DEF TestCase
  <2> QED BY <2>1, <2>2
<1>4. options.memCheckKernel /\ options.kernels # <<>> => kernel # "main"
  <2>1. options.memCheckKernel /\ options.kernels # <<>>
          => options.kernels[1] \notin Ranges \cup {"main"}
    BY RunnerAssumption DEF RunnerAssumption
  <2> QED BY <2>1 DEF kernel
<1> QED BY <1>1, <1>2, <1>3, <1>4 DEF OptionsKnown

-------------------------------------------------------------------------------
(* Types *)

Types ==
    /\ OptionsKnown
    /\ TypeOK
    /\ stack \in Seq(Functions)
    /\ cpc \in {"traceKernel", "launch", "awaitDebugger", "running"} => stack # <<>>
    /\ traceConfig \in BOOLEAN
    /\ output \in [{"single", "reference", "acceleration"} -> {"none", "PASSED", "FAILED"}]

\* The types before the command begins.
LEMMA TypesInit == Init => Types
<1> SUFFICES ASSUME Init PROVE Types
  OBVIOUS
<1>1. OptionsKnown
  BY KnownOptions DEF Init
<1>2. MaxDepth \in Nat
  BY RunnerAssumption DEF RunnerAssumption
<1>3. stack \in Seq(Functions) /\ Len(stack) = 0
  BY DEF Init
<1>4. output \in [{"single", "reference", "acceleration"} -> {"none", "PASSED", "FAILED"}]
  BY DEF Init
<1>5. TypeOK
  BY <1>2, <1>3 DEF Init, TypeOK
<1> QED BY <1>1, <1>3, <1>4, <1>5 DEF Init, Types

\* A new system has its own files, and nothing else new is open.
LEMMA NewSystemTypes ==
    ASSUME Types, NEW system \in Systems, NewSystem(system)
    PROVE  /\ sim' = system /\ tracer' \in {"none", "memory"} /\ open' \subseteq Files \X Systems
           /\ stack' = <<"main">> /\ ended' = "none"
<1>1. OpenedWith(system) \subseteq Files \X Systems
  BY DEF OpenedWith, Files, Systems
<1>2. open \subseteq Files \X Systems
  BY DEF Types, TypeOK, Files, Systems
<1> QED BY <1>1, <1>2 DEF NewSystem

\* The mode chosen is one of the four.
LEMMA ModeType == Mode \in {"cfgSim", "hook", "patching", "speculativePatching"}
  BY DEF Mode, Patching

\* A stack without its top.
LEMMA Popped ==
    ASSUME NEW s \in Seq(Functions), Len(s) > 1
    PROVE  LET t == SubSeq(s, 1, Len(s) - 1)
           IN  /\ t \in Seq(Functions) /\ Len(t) = Len(s) - 1 /\ t # <<>>
               /\ \A d \in 1 .. Len(t) : t[d] = s[d]
<1> DEFINE t == SubSeq(s, 1, Len(s) - 1)
<1>1. Len(s) \in Nat /\ 1 \in 1 .. Len(s) /\ Len(s) - 1 \in 1 .. Len(s)
  OBVIOUS
<1>2. /\ t \in Seq(Functions) /\ Len(t) = Len(s) - 1
      /\ \A d \in 1 .. Len(s) - 1 : t[d] = s[d]
  BY <1>1, SubSeqProperties
<1> HIDE DEF t
<1>3. t # <<>>
  BY <1>1, <1>2
<1> QED BY <1>2, <1>3 DEF t

\* Every step keeps the types.
LEMMA TypesStep == Types /\ [Next]_vars => Types'
<1> SUFFICES ASSUME Types, [Next]_vars PROVE Types'
  OBVIOUS
<1> USE DEF Types, TypeOK
<1>f. open \subseteq Files \X Systems
  BY DEF Files, Systems
<1>g. ASSUME open' \subseteq Files \X Systems
      PROVE  open' \subseteq {"memory", "kernel", "verified", "refImage"}
                              \X {"single", "reference", "acceleration"}
  BY <1>g DEF Files, Systems
<1>a. OptionsKnown => OptionsKnown' \/ options' # options
  BY DEF OptionsKnown, kernel
<1>b. MaxDepth \in Nat \ {0} /\ "main" \in Functions
  BY RunnerAssumption DEF RunnerAssumption
<1>c. <<"main">> \in Seq(Functions) /\ Len(<<"main">>) = 1 /\ <<"main">> # <<>>
  BY <1>b
<1>1. CASE CheckOptions
  BY <1>1, <1>a DEF CheckOptions, Fail, tracing, cgra, program, ghosts
<1>2. CASE BuildFirstSystem
  <2>1. CASE ~ EnvAndStdioConfigured \/ ~ CgraBuilds
    BY <1>2, <2>1, <1>a DEF BuildFirstSystem, Fail, tracing, cgra, program, ghosts
  <2>2. CASE ~ (~ EnvAndStdioConfigured \/ ~ CgraBuilds)
    <3>1. options' = options /\ UNCHANGED <<tracing, output>>
      BY <1>2, <2>2 DEF BuildFirstSystem
    <3>2. cpc' \in {"launch", "traceKernel"}
      BY <1>2, <2>2 DEF BuildFirstSystem
    <3>4. PICK system \in {"single", "reference"} : NewSystem(system)
      BY <1>2, <2>2 DEF BuildFirstSystem
    <3>5. /\ sim' \in {"single", "reference"} /\ tracer' \in {"none", "memory"}
          /\ open' \subseteq Files \X Systems /\ stack' = <<"main">>
      BY <3>4, NewSystemTypes DEF Systems
    <3>6. open' \subseteq {"memory", "kernel", "verified", "refImage"}
                           \X {"single", "reference", "acceleration"}
      BY <3>5, <1>g
    <3>3. mode' \in {"none", "cfgSim", "hook", "patching", "speculativePatching"}
      BY <1>2, <2>2, ModeType DEF BuildFirstSystem
    <3> QED BY <3>1, <3>2, <3>3, <3>5, <3>6, <1>a, <1>b, <1>c DEF tracing
  <2> QED BY <2>1, <2>2
<1>3. CASE TraceKernel
  <2>1. traceConfig' \in BOOLEAN
    BY <1>3 DEF TraceKernel, Fail, tracing, OptionsKnown
  <2>2. /\ open' \subseteq {"memory", "kernel", "verified", "refImage"}
                            \X {"single", "reference", "acceleration"}
        /\ cpc' \in {"launch", "failed"} /\ options' = options
    BY <1>3 DEF TraceKernel, Fail
  <2>3. UNCHANGED <<sim, tracer, entryDepth, traced, cgra, program>>
    BY <1>3 DEF TraceKernel, Fail, tracing
  <2>4. cpc = "traceKernel" => stack # <<>>
    BY DEF Types
  <2> QED BY <1>3, <1>a, <2>1, <2>2, <2>3, <2>4 DEF TraceKernel, cgra, program
<1>4. CASE BuildAcceleration
  <2>1. /\ cpc' = "launch" /\ mode' = Mode /\ UNCHANGED <<options, tracing, output>>
        /\ NewSystem("acceleration")
    BY <1>4 DEF BuildAcceleration
  <2>2. /\ sim' = "acceleration" /\ tracer' \in {"none", "memory"}
        /\ open' \subseteq Files \X Systems /\ stack' = <<"main">>
    BY <2>1, NewSystemTypes DEF Systems
  <2>3. open' \subseteq {"memory", "kernel", "verified", "refImage"}
                         \X {"single", "reference", "acceleration"}
    BY <2>2, <1>g
  <2> QED BY <2>1, <2>2, <2>3, <1>a, <1>b, <1>c, ModeType DEF tracing
<1>5. CASE Launch \/ DebuggerAttaches
  BY <1>5, <1>a DEF Launch, DebuggerAttaches, tracing, cgra, program, ghosts
<1>6. CASE VerifyPassed
  BY <1>6, <1>a DEF VerifyPassed, tracing, cgra, program, ghosts
<1>7. CASE FinallyOfSimulate \/ FinallyOfReference \/ FinallyOfAcceleration
  BY <1>7, <1>a DEF FinallyOfSimulate, FinallyOfReference, FinallyOfAcceleration,
                    ClosesAndGoesTo, tracing, cgra, program, ghosts
<1>8. ASSUME NEW g \in Functions, Call(g) PROVE Types'
  <2>1. /\ stack' = Append(stack, g) /\ stack' \in Seq(Functions)
        /\ Len(stack') = Len(stack) + 1 /\ stack' # <<>> /\ Len(stack) < MaxDepth
        /\ Len(stack) \in Nat
    BY <1>8 DEF Call
  <2>2. entryDepth' \in 0 .. MaxDepth /\ tracer' \in {"none", "memory", "kernel"}
    BY <1>8, <1>b, <2>1 DEF Call, DepthOfCall
  <2> QED BY <1>8, <1>a, <1>b, <2>1, <2>2 DEF Call, cgra
<1>9. CASE Return
  <2>1. /\ stack' = SubSeq(stack, 1, Len(stack) - 1) /\ stack' \in Seq(Functions)
        /\ Len(stack') = Len(stack) - 1 /\ stack' # <<>> /\ Len(stack) \in Nat
    <3>1. Len(stack) > 1 /\ stack' = SubSeq(stack, 1, Len(stack) - 1)
      BY <1>9 DEF Return
    <3> QED BY <3>1, Popped
  <2> QED BY <1>9, <1>a, <1>b, <2>1 DEF Return, tracing, cgra
<1>10. ASSUME NEW address \in Functions \X (0 .. MaxDepth), NEW write \in BOOLEAN,
              Access(address, write)
       PROVE  Types'
  BY <1>10, <1>a DEF Access, cgra, program
<1>11. ASSUME NEW verdict \in {"PASSED", "FAILED"}, PrintVerdict(verdict) PROVE Types'
  BY <1>11, <1>a DEF PrintVerdict, tracing, cgra, ghosts
<1>12. ASSUME NEW how \in {"exit", "timeout", "exception"}, EndRun(how) PROVE Types'
  BY <1>12, <1>a DEF EndRun, tracing, cgra
<1>13. CASE UNCHANGED vars
  BY <1>13, <1>a DEF vars, tracing, cgra, program, ghosts
<1> QED BY <1>1, <1>2, <1>3, <1>4, <1>5, <1>6, <1>7, <1>8, <1>9, <1>10, <1>11, <1>12, <1>13
        DEF Next, Command, Program

\* The variables keep their types, the depth its bound.
THEOREM TypeCorrect == Spec => []TypeOK
<1>1. Types => TypeOK
  BY DEF Types
<1> QED BY <1>1, TypesInit, TypesStep, PTL DEF Spec

-------------------------------------------------------------------------------
(* The run of a command *)

\* The kernel is traced only on demand, before the reference runs.
TraceOnDemand ==
    /\ traceConfig => options.memCheckKernel
    /\ cpc \in {"check", "build"} => sim = "single"
    /\ sim = "single" => ~ traceConfig
    /\ sim = "reference" /\ options.memCheckKernel /\ cpc \notin {"traceKernel", "failed"}
         => traceConfig
    /\ cpc = "prepare" => sim = "reference"
    /\ cpc = "traceKernel" => sim = "reference" /\ options.command = "speedup" /\ ~ traceConfig

\* How the first of two runs ended decides whether there is a second.
SecondAfterFirst ==
    /\ sim = "reference" /\ cpc \in {"finally", "verify", "prepare"} => refEnd = ended
    /\ cpc \in {"verify", "prepare"} => ended \in {"exit", "timeout"}
    /\ cpc = "finally" => ended \in {"exit", "timeout", "exception"}
    /\ sim = "acceleration" => refEnd \in {"exit", "timeout"}

\* A test has no finally block, and its second run follows a passed first.
TestPasses ==
    /\ cpc = "finally" => options.command # "test"
    /\ cpc = "verify" => options.command = "test"
    /\ options.command = "test" /\ cpc \notin {"check", "build", "failed"} => sim # "single"
    /\ options.command = "test" /\ (cpc = "prepare" \/ sim = "acceleration") =>
          output["reference"] = "PASSED"
    /\ options.command = "test" /\ cpc = "done" =>
          sim = "acceleration" /\ output["acceleration"] = "PASSED" /\ ended # "exception"

CommandInv == TraceOnDemand /\ SecondAfterFirst /\ TestPasses

\* Before the first run nothing is traced and nothing has ended.
LEMMA CommandInit == Init => CommandInv
  BY DEF Init, CommandInv, TraceOnDemand, SecondAfterFirst, TestPasses

\* The steps of the simulated program leave the command where it is.
LEMMA ProgramKeepsCommand ==
    ASSUME Types, CommandInv, Program
    PROVE  CommandInv'
<1> USE DEF CommandInv, TraceOnDemand, SecondAfterFirst, TestPasses
<1>a. options.command = "test" => ~ options.memCheckKernel
  BY DEF Types, OptionsKnown
<1>1. ASSUME NEW g \in Functions, Call(g) PROVE CommandInv'
  <2>1. UNCHANGED <<options, cpc, sim, open, traceConfig, cgra, output, ended, refEnd>>
    BY <1>1 DEF Call
  <2>2. tracer' # tracer => traceConfig
    BY <1>1 DEF Call, Traced
  <2> QED BY <2>1, <2>2
<1>2. CASE Return
  <2>1. UNCHANGED <<options, cpc, sim, open, traceConfig, cgra, output, ended, refEnd>>
    BY <1>2 DEF Return, tracing, ghosts
  <2>2. tracer' # tracer => traceConfig
    BY <1>2 DEF Return, AtReturnPoint, Traced
  <2> QED BY <2>1, <2>2
<1>3. ASSUME NEW address \in Functions \X (0 .. MaxDepth), NEW write \in BOOLEAN,
             Access(address, write)
      PROVE  CommandInv'
  <2>1. UNCHANGED <<options, cpc, sim, tracer, open, traceConfig, cgra, output, ended, refEnd>>
    BY <1>3 DEF Access, program
  <2> QED BY <2>1
<1>4. ASSUME NEW verdict \in {"PASSED", "FAILED"}, PrintVerdict(verdict) PROVE CommandInv'
  <2>1. /\ UNCHANGED <<options, cpc, sim, tracer, open, traceConfig, ended, refEnd>>
        /\ cpc = "running" /\ output[sim] = "none"
        /\ output' = [output EXCEPT ![sim] = verdict]
    BY <1>4 DEF PrintVerdict, tracing, ghosts
  <2>2. output["reference"] = "PASSED" => output'["reference"] = "PASSED"
    BY <2>1 DEF Types
  <2> QED BY <2>1, <2>2
<1> QED BY <1>1, <1>2, <1>3, <1>4 DEF Program

\* Every step keeps what the command knows of its runs.
LEMMA CommandStep == Types /\ CommandInv /\ [Next]_vars => CommandInv'
<1> SUFFICES ASSUME Types, CommandInv, [Next]_vars PROVE CommandInv'
  OBVIOUS
<1> USE DEF CommandInv, TraceOnDemand, SecondAfterFirst, TestPasses
<1>a. /\ options.command = "test" => ~ options.memCheckKernel /\ ~ options.traceMemory
      /\ options.command \in {"simulate", "speedup", "test"}
      /\ sim \in {"single", "reference", "acceleration"}
      /\ options.memCheckKernel \in BOOLEAN /\ traceConfig \in BOOLEAN
  BY DEF Types, TypeOK, OptionsKnown
<1>1. CASE CheckOptions
  BY <1>1, <1>a DEF CheckOptions, Fail, tracing, program, ghosts
<1>2. CASE BuildFirstSystem
  <2>1. CASE ~ EnvAndStdioConfigured \/ ~ CgraBuilds
    BY <1>2, <2>1, <1>a DEF BuildFirstSystem, Fail, tracing, program, ghosts
  <2>2. CASE ~ (~ EnvAndStdioConfigured \/ ~ CgraBuilds)
    <3>1. cpc = "build" /\ UNCHANGED <<options, traceConfig, refEnd, output>>
      BY <1>2, <2>2 DEF BuildFirstSystem, tracing, ghosts
    <3>2. \/ TwoSystems /\ sim' = "reference" /\ options.command = "test" /\ cpc' = "launch"
          \/ TwoSystems /\ sim' = "reference" /\ options.command # "test" /\ cpc' = "traceKernel"
          \/ ~ TwoSystems /\ sim' = "single" /\ cpc' = "launch"
      BY <1>2, <2>2 DEF BuildFirstSystem, NewSystem
    <3> QED BY <3>1, <3>2, <1>a DEF TwoSystems
  <2> QED BY <2>1, <2>2
<1>3. CASE TraceKernel
  <2>1. CASE options.memCheckKernel /\ options.kernels = <<>>
    BY <1>3, <2>1, <1>a DEF TraceKernel, Fail, tracing, program, ghosts
  <2>2. CASE ~ (options.memCheckKernel /\ options.kernels = <<>>)
    BY <1>3, <2>2, <1>a DEF TraceKernel, program, ghosts
  <2> QED BY <2>1, <2>2
<1>4. CASE BuildAcceleration
  BY <1>4, <1>a DEF BuildAcceleration, NewSystem, tracing, ghosts
<1>5. CASE Launch \/ DebuggerAttaches
  BY <1>5, <1>a DEF Launch, DebuggerAttaches, tracing, program, ghosts
<1>6. CASE VerifyPassed
  <2>1. /\ UNCHANGED <<options, sim, tracer, open, traceConfig, output, ended, refEnd>>
        /\ cpc = "verify" /\ cpc' \in {"failed", "prepare", "done"}
        /\ cpc' \in {"prepare", "done"} => output[sim] = "PASSED"
        /\ cpc' = "prepare" <=> output[sim] = "PASSED" /\ sim = "reference"
    BY <1>6 DEF VerifyPassed, Recorded, tracing, program, ghosts
  <2> QED BY <2>1, <1>a
<1>7. CASE FinallyOfSimulate \/ FinallyOfReference \/ FinallyOfAcceleration
  <2>1. /\ UNCHANGED <<options, sim, tracer, traceConfig, output, ended, refEnd>>
        /\ cpc = "finally"
        /\ cpc' = IF ended = "exception" THEN "failed"
                  ELSE IF sim = "reference" THEN "prepare" ELSE "done"
    BY <1>7 DEF FinallyOfSimulate, FinallyOfReference, FinallyOfAcceleration,
                ClosesAndGoesTo, tracing, program, ghosts
  <2> QED BY <2>1, <1>a
<1>8. CASE Program
  BY <1>8, ProgramKeepsCommand
<1>9. ASSUME NEW how \in {"exit", "timeout", "exception"}, EndRun(how) PROVE CommandInv'
  BY <1>9, <1>a DEF EndRun, tracing
<1>10. CASE UNCHANGED vars
  BY <1>10 DEF vars, tracing, program, ghosts
<1> QED BY <1>1, <1>2, <1>3, <1>4, <1>5, <1>6, <1>7, <1>8, <1>9, <1>10 DEF Next, Command

\* So it holds in every state.
LEMMA CommandInvariance == Spec => [](Types /\ CommandInv)
<1>1. Init => Types /\ CommandInv
  BY TypesInit, CommandInit
<1>2. (Types /\ CommandInv) /\ [Next]_vars => (Types /\ CommandInv)'
  BY TypesStep, CommandStep
<1> QED BY <1>1, <1>2, PTL DEF Spec

\* The tests accept only what printed its success twice.
THEOREM TestsAcceptSuccess == Spec => []AcceptedMeansPassed
<1>1. Types /\ CommandInv => AcceptedMeansPassed
  BY DEF CommandInv, SecondAfterFirst, TestPasses, AcceptedMeansPassed
<1> QED BY <1>1, CommandInvariance, PTL

-------------------------------------------------------------------------------
(* The kernel's trace *)

\* Below a function are those it calls and all that those call.
LEMMA BelowIsClosed ==
    ASSUME NEW fn \in Functions
    PROVE  /\ Calls[fn] \subseteq Below[fn]
           /\ \A h \in Below[fn] : h \in Functions /\ Calls[h] \subseteq Below[fn]
<1>1. Calls \in [Functions -> SUBSET Functions]
  BY RunnerAssumption DEF RunnerAssumption
<1>2. Below[fn] = {g \in Functions : \A closed \in SUBSET Functions :
                     Calls[fn] \subseteq closed /\ (\A h \in closed : Calls[h] \subseteq closed)
                        => g \in closed}
  BY DEF Below
<1>3. Calls[fn] \subseteq Below[fn]
  BY <1>1, <1>2
<1>4. ASSUME NEW h \in Below[fn], NEW g \in Calls[h] PROVE g \in Below[fn]
  <2>1. h \in Functions /\ g \in Functions
    BY <1>1, <1>2, <1>4
  <2>2. ASSUME NEW closed \in SUBSET Functions, Calls[fn] \subseteq closed,
               \A k \in closed : Calls[k] \subseteq closed
        PROVE  g \in closed
    BY <1>2, <1>4, <2>2
  <2> QED BY <1>2, <2>1, <2>2
<1> QED BY <1>2, <1>3, <1>4

\* A function on the stack is below every other under it.
StackIsPath ==
    /\ \A d \in 1 .. Len(stack), e \in 1 .. Len(stack) :
          d < e => stack[e] \in Below[stack[d]]
    /\ stack # <<>> => stack[1] = "main"

\* What there is before anything is traced.
NothingTraced ==
    /\ ~ traceConfig => returnPoints = {} /\ traced = {} /\ touched = {}
    /\ cpc = "traceKernel" => stack = <<"main">>
    /\ traceConfig => kernel # "main"
    /\ tracer = "kernel" => Traced

\* A return takes the tracer away exactly where a call of the kernel ends.
ReturnPoints ==
    Traced =>
        /\ \A point \in returnPoints : point[2] = kernel
        /\ \A d \in 2 .. Len(stack) :
              stack[d] = kernel => <<stack[d - 1], kernel>> \in returnPoints

\* TracerFollowsKernel, and after the run as well.
Follows ==
    /\ tracer = "kernel" => inside
    /\ Traced /\ inside /\ ~ KernelRecursive => tracer = "kernel"

TraceMatches == traced \subseteq touched /\ (~ KernelRecursive => traced = touched)

TraceInv == StackIsPath /\ NothingTraced /\ ReturnPoints /\ Follows
            /\ (traceConfig => TraceMatches)

\* Before the first call nothing is traced.
LEMMA TraceInit == Init => TraceInv
<1> SUFFICES ASSUME Init PROVE TraceInv
  OBVIOUS
<1>1. stack = <<>> /\ Len(stack) = 0 /\ DOMAIN stack = 1 .. Len(stack) /\ tracer = "none" /\ traceConfig = FALSE
  BY DEF Init
<1>2. StackIsPath /\ Follows
  BY <1>1 DEF StackIsPath, Follows, inside, Traced
<1> QED BY <1>1, <1>2 DEF Init, TraceInv, NothingTraced, ReturnPoints, Traced

\* A step that changes neither the stack nor the trace.
LEMMA TraceUntouched ==
    ASSUME TraceInv,
           UNCHANGED <<options, sim, stack, tracer, traceConfig, returnPoints, traced, touched>>,
           cpc' # "traceKernel"
    PROVE  TraceInv'
  BY DEF TraceInv, StackIsPath, NothingTraced, ReturnPoints, Follows, TraceMatches,
         Traced, inside, kernel, KernelRecursive

\* A system has been built, and nothing is traced in it yet.
LEMMA TraceInNewSystem ==
    ASSUME Types, TraceInv, NEW system \in Systems, NewSystem(system), ~ Traced',
           UNCHANGED <<options, traceConfig, returnPoints, traced, touched>>
    PROVE  TraceInv'
<1>1. stack' = <<"main">> /\ tracer' \in {"none", "memory"}
  BY DEF NewSystem
<1>2. Len(stack') = 1 /\ stack'[1] = "main"
  BY <1>1
<1>3. StackIsPath' /\ Follows' /\ ReturnPoints'
  BY <1>1, <1>2 DEF StackIsPath, Follows, ReturnPoints
<1>4. NothingTraced' /\ (traceConfig' => TraceMatches')
  BY <1>1 DEF TraceInv, NothingTraced, TraceMatches, kernel, KernelRecursive
<1> QED BY <1>3, <1>4 DEF TraceInv

\* Setting the trace points keeps the trace invariant.
LEMMA TraceByTraceKernel ==
    ASSUME Types, CommandInv, TraceInv, TraceKernel
    PROVE  TraceInv'
<1>1. /\ UNCHANGED <<options, sim, stack, tracer, returnPoints, traced, touched>>
      /\ cpc = "traceKernel" /\ cpc' # "traceKernel" /\ ~ traceConfig
      /\ traceConfig' => options.memCheckKernel /\ options.kernels # <<>>
  BY DEF TraceKernel, Fail, tracing, program, ghosts, CommandInv, TraceOnDemand
<1>2. CASE ~ traceConfig'
  <2>1. traceConfig' = traceConfig
    BY <1>2 DEF TraceKernel, Fail, tracing, CommandInv, TraceOnDemand, Types, OptionsKnown
  <2> QED BY <1>1, <2>1, TraceUntouched
<1>3. CASE traceConfig'
  <2>1. kernel' = kernel /\ kernel # "main"
    BY <1>1, <1>3 DEF kernel, Types, OptionsKnown
  <2>2. stack = <<"main">> /\ returnPoints = {} /\ traced = {} /\ touched = {} /\ tracer # "kernel"
    BY <1>1 DEF TraceInv, NothingTraced, Traced
  <2>3. Len(stack) = 1 /\ DOMAIN stack = 1 .. 1 /\ stack[1] = "main"
    BY <2>2
  <2>4. ~ inside'
    BY <1>1, <2>1, <2>3 DEF inside
  <2>5. StackIsPath' /\ ReturnPoints' /\ Follows'
    BY <1>1, <2>2, <2>3, <2>4 DEF StackIsPath, ReturnPoints, Follows, TraceInv
  <2>6. NothingTraced' /\ TraceMatches'
    BY <1>1, <1>3, <2>1, <2>2 DEF NothingTraced, TraceMatches
  <2> QED BY <2>5, <2>6 DEF TraceInv
<1> QED BY <1>2, <1>3

\* So does a call.
LEMMA TraceByCall ==
    ASSUME Types, TraceInv, NEW g \in Functions, Call(g)
    PROVE  TraceInv'
<1>1. /\ stack' = Append(stack, g) /\ g \in Calls[here] /\ cpc' = "running"
      /\ UNCHANGED <<options, sim, traceConfig, traced, touched>>
  BY DEF Call
<1>2. /\ stack \in Seq(Functions) /\ Len(stack) \in Nat \ {0}
      /\ stack' \in Seq(Functions) /\ Len(stack') = Len(stack) + 1
      /\ \A d \in 1 .. Len(stack) : stack'[d] = stack[d] /\ stack[d] \in Functions
      /\ stack'[Len(stack) + 1] = g
      /\ DOMAIN stack = 1 .. Len(stack) /\ DOMAIN stack' = 1 .. Len(stack) + 1
  <2>1. stack # <<>> /\ stack \in Seq(Functions)
    BY DEF Call, Types
  <2> QED BY <1>1, <2>1
<1>3. StackIsPath'
  <2>1. ASSUME NEW d \in 1 .. Len(stack) PROVE g \in Below[stack[d]]
    <3>1. here = stack[Len(stack)] /\ stack[d] \in Functions /\ here \in Functions
      BY <1>2 DEF here
    <3>2. CASE d = Len(stack)
      BY <1>1, <3>1, <3>2, BelowIsClosed
    <3>3. CASE d # Len(stack)
      <4>1. d < Len(stack) /\ Len(stack) \in 1 .. Len(stack)
        <5>1. Len(stack) \in Nat /\ d \in 1 .. Len(stack) /\ d # Len(stack)
          BY <1>2, <3>3
        <5> QED BY <5>1
      <4>2. stack[Len(stack)] \in Below[stack[d]]
        BY <4>1 DEF TraceInv, StackIsPath
      <4> QED BY <1>1, <3>1, <4>2, BelowIsClosed
    <3> QED BY <3>2, <3>3
  <2>2. stack'[1] = "main"
    BY <1>2 DEF TraceInv, StackIsPath, Types, Call
  <2>3. ASSUME NEW d \in 1 .. Len(stack'), NEW e \in 1 .. Len(stack'), d < e
        PROVE  stack'[e] \in Below[stack'[d]]
    <3>1. d \in 1 .. Len(stack)
      BY <1>2, <2>3
    <3>2. CASE e = Len(stack) + 1
      BY <1>2, <2>1, <3>1, <3>2
    <3>3. CASE e # Len(stack) + 1
      <4>1. e \in 1 .. Len(stack)
        BY <1>2, <3>3
      <4>2. stack[e] \in Below[stack[d]]
        BY <2>3, <3>1, <4>1 DEF TraceInv, StackIsPath
      <4> QED BY <1>2, <3>1, <4>1, <4>2
    <3> QED BY <3>2, <3>3
  <2> QED BY <2>2, <2>3 DEF StackIsPath
<1>4. kernel' = kernel /\ Traced' = Traced /\ KernelRecursive' = KernelRecursive
  BY <1>1 DEF kernel, Traced, KernelRecursive
<1>5. CASE Traced /\ g = kernel
  <2>1. tracer' = "kernel" /\ returnPoints' = returnPoints \cup {<<here, g>>}
    BY <1>5 DEF Call
  <2>2. inside'
    BY <1>2, <1>4, <1>5 DEF inside
  <2>3. ReturnPoints'
    <3>1. \A point \in returnPoints' : point[2] = kernel
      BY <1>5, <2>1 DEF TraceInv, ReturnPoints
    <3>2. ASSUME NEW d \in 2 .. Len(stack'), stack'[d] = kernel
          PROVE  <<stack'[d - 1], kernel>> \in returnPoints'
      <4>1. CASE d = Len(stack) + 1
        BY <1>2, <1>5, <2>1, <4>1 DEF here
      <4>2. CASE d # Len(stack) + 1
        <5>1. d \in 2 .. Len(stack) /\ d - 1 \in 1 .. Len(stack)
          BY <1>2, <4>2
        <5>2. <<stack[d - 1], kernel>> \in returnPoints
          BY <1>2, <1>5, <3>2, <5>1 DEF TraceInv, ReturnPoints
        <5> QED BY <1>2, <2>1, <5>1, <5>2
      <4> QED BY <4>1, <4>2
    <3> QED BY <1>4, <3>1, <3>2 DEF ReturnPoints
  <2>4. Follows'
    BY <2>1, <2>2 DEF Follows
  <2>5. NothingTraced' /\ (traceConfig' => TraceMatches')
    BY <1>1, <1>4, <1>5 DEF TraceInv, NothingTraced, TraceMatches, Traced
  <2> QED BY <1>3, <2>3, <2>4, <2>5 DEF TraceInv
<1>6. CASE ~ (Traced /\ g = kernel)
  <2>1. tracer' = tracer /\ returnPoints' = returnPoints
    BY <1>6 DEF Call
  <2>2. Traced => (inside' <=> inside)
    BY <1>2, <1>4, <1>6 DEF inside
  <2>3. ReturnPoints'
    <3>1. ASSUME Traced, NEW d \in 2 .. Len(stack'), stack'[d] = kernel
          PROVE  <<stack'[d - 1], kernel>> \in returnPoints'
      <4>1. d \in 2 .. Len(stack) /\ d - 1 \in 1 .. Len(stack)
        BY <1>2, <1>6, <3>1
      <4>2. <<stack[d - 1], kernel>> \in returnPoints
        BY <1>2, <3>1, <4>1 DEF TraceInv, ReturnPoints
      <4> QED BY <1>2, <2>1, <4>1, <4>2
    <3> QED BY <1>4, <2>1, <3>1 DEF TraceInv, ReturnPoints
  <2>4. Follows'
    BY <1>4, <2>1, <2>2 DEF TraceInv, NothingTraced, Follows
  <2>5. NothingTraced' /\ (traceConfig' => TraceMatches')
    BY <1>1, <1>4, <2>1 DEF TraceInv, NothingTraced, TraceMatches
  <2> QED BY <1>3, <2>3, <2>4, <2>5 DEF TraceInv
<1> QED BY <1>5, <1>6

\* So does a return.
LEMMA TraceByReturn ==
    ASSUME Types, TraceInv, Return
    PROVE  TraceInv'
<1>1. /\ stack' = SubSeq(stack, 1, Len(stack) - 1) /\ Len(stack) > 1 /\ cpc' = "running"
      /\ tracer' = (IF AtReturnPoint THEN "none" ELSE tracer)
      /\ UNCHANGED <<options, sim, traceConfig, returnPoints, traced, touched>>
  BY DEF Return, tracing, ghosts
<1>2. /\ stack \in Seq(Functions) /\ Len(stack) \in Nat
      /\ Len(stack') = Len(stack) - 1 /\ stack' # <<>>
      /\ \A d \in 1 .. Len(stack) - 1 : stack'[d] = stack[d]
      /\ DOMAIN stack = 1 .. Len(stack) /\ DOMAIN stack' = 1 .. Len(stack) - 1
  <2>1. stack \in Seq(Functions)
    BY DEF Types
  <2>2. stack' \in Seq(Functions) /\ Len(stack') = Len(stack) - 1 /\ stack' # <<>>
        /\ \A d \in 1 .. Len(stack') : stack'[d] = stack[d]
    BY <1>1, <2>1, Popped
  <2> QED BY <2>1, <2>2
<1>3. kernel' = kernel /\ Traced' = Traced /\ KernelRecursive' = KernelRecursive
  BY <1>1 DEF kernel, Traced, KernelRecursive
<1>4. StackIsPath'
  BY <1>1, <1>2 DEF TraceInv, StackIsPath
<1>5. ReturnPoints'
  <2>1. ASSUME Traced, NEW d \in 2 .. Len(stack'), stack'[d] = kernel
        PROVE  <<stack'[d - 1], kernel>> \in returnPoints
    <3>1. d \in 2 .. Len(stack) /\ d \in 1 .. Len(stack) - 1 /\ d - 1 \in 1 .. Len(stack) - 1
      BY <1>1, <1>2
    <3>2. <<stack[d - 1], kernel>> \in returnPoints
      BY <1>2, <2>1, <3>1 DEF TraceInv, ReturnPoints
    <3> QED BY <1>2, <3>1, <3>2
  <2> QED BY <1>1, <1>3, <2>1 DEF TraceInv, ReturnPoints
<1>6. tracer' = "kernel" => inside'
  <2> SUFFICES ASSUME tracer' = "kernel" PROVE inside'
    OBVIOUS
  <2>1. tracer = "kernel" /\ ~ AtReturnPoint /\ Traced /\ inside
    BY <1>1 DEF TraceInv, Follows, NothingTraced
  <2>2. stack[Len(stack)] # kernel
    BY <1>1, <1>2, <2>1 DEF AtReturnPoint, here, TraceInv, ReturnPoints
  <2>3. PICK d \in 1 .. Len(stack) : stack[d] = kernel
    BY <1>2, <2>1 DEF inside
  <2>4. d \in 1 .. Len(stack) - 1
    BY <1>2, <2>2, <2>3
  <2> QED BY <1>2, <1>3, <2>3, <2>4 DEF inside
<1>7. Traced /\ inside' /\ ~ KernelRecursive => tracer' = "kernel"
  <2> SUFFICES ASSUME Traced, inside', ~ KernelRecursive PROVE tracer' = "kernel"
    OBVIOUS
  <2>1. PICK d \in 1 .. Len(stack) - 1 : stack[d] = kernel
    BY <1>2, <1>3 DEF inside
  <2>2. tracer = "kernel"
    BY <1>2, <2>1 DEF inside, TraceInv, Follows
  <2>3. ASSUME AtReturnPoint PROVE FALSE
    <3>1. stack[Len(stack)] = kernel
      BY <2>3 DEF AtReturnPoint, here, TraceInv, ReturnPoints
    <3>2. stack[Len(stack)] \in Below[stack[d]]
      BY <1>1, <1>2, <2>1 DEF TraceInv, StackIsPath
    <3> QED BY <2>1, <3>1, <3>2 DEF KernelRecursive
  <2> QED BY <1>1, <2>2, <2>3
<1>8. Follows'
  BY <1>3, <1>6, <1>7 DEF Follows
<1>9. NothingTraced' /\ (traceConfig' => TraceMatches')
  BY <1>1, <1>3 DEF TraceInv, NothingTraced, TraceMatches
<1> QED BY <1>4, <1>5, <1>8, <1>9 DEF TraceInv

\* So does an access.
LEMMA TraceByAccess ==
    ASSUME Types, TraceInv, NEW address \in Functions \X (0 .. MaxDepth),
           NEW write \in BOOLEAN, Access(address, write)
    PROVE  TraceInv'
<1>1. /\ cpc' = "running"
      /\ traced'  = IF tracer = "kernel" THEN traced \cup {address} ELSE traced
      /\ touched' = IF Traced /\ inside THEN touched \cup {address} ELSE touched
      /\ UNCHANGED <<options, sim, stack, tracer, traceConfig, returnPoints>>
  BY DEF Access, program
<1>2. /\ kernel' = kernel /\ Traced' = Traced /\ KernelRecursive' = KernelRecursive
      /\ inside' = inside
  BY <1>1 DEF kernel, Traced, KernelRecursive, inside
<1>3. StackIsPath' /\ ReturnPoints' /\ Follows'
  BY <1>1, <1>2 DEF TraceInv, StackIsPath, ReturnPoints, Follows
<1>4. NothingTraced'
  BY <1>1, <1>2 DEF TraceInv, NothingTraced, Traced
<1>5. traceConfig' => TraceMatches'
  BY <1>1, <1>2 DEF TraceInv, NothingTraced, Follows, TraceMatches
<1> QED BY <1>3, <1>4, <1>5 DEF TraceInv

\* So does every step.
LEMMA TraceStep == Types /\ CommandInv /\ TraceInv /\ [Next]_vars => TraceInv'
<1> SUFFICES ASSUME Types, CommandInv, TraceInv, [Next]_vars PROVE TraceInv'
  OBVIOUS
<1>1. CASE BuildFirstSystem
  <2>1. CASE ~ EnvAndStdioConfigured \/ ~ CgraBuilds
    BY <1>1, <2>1, TraceUntouched DEF BuildFirstSystem, Fail, tracing, program, ghosts
  <2>2. CASE ~ (~ EnvAndStdioConfigured \/ ~ CgraBuilds)
    <3>1. UNCHANGED <<options, traceConfig, returnPoints, traced, touched>>
      BY <1>1, <2>2 DEF BuildFirstSystem, tracing, ghosts
    <3>3. PICK system \in Systems : NewSystem(system)
      BY <1>1, <2>2 DEF BuildFirstSystem, Systems
    <3>2. ~ Traced'
      BY <1>1, <3>1 DEF BuildFirstSystem, CommandInv, TraceOnDemand, Traced
    <3> QED BY <3>1, <3>2, <3>3, TraceInNewSystem
  <2> QED BY <2>1, <2>2
<1>2. CASE TraceKernel
  BY <1>2, TraceByTraceKernel
<1>3. CASE BuildAcceleration
  <2>1. /\ NewSystem("acceleration")
        /\ UNCHANGED <<options, traceConfig, returnPoints, traced, touched>>
    BY <1>3 DEF BuildAcceleration, tracing, ghosts
  <2>2. ~ Traced' /\ "acceleration" \in Systems
    BY <2>1 DEF NewSystem, Traced, Systems
  <2> QED BY <2>1, <2>2, TraceInNewSystem
<1>4. ASSUME NEW g \in Functions, Call(g) PROVE TraceInv'
  BY <1>4, TraceByCall
<1>5. CASE Return
  BY <1>5, TraceByReturn
<1>6. ASSUME NEW address \in Functions \X (0 .. MaxDepth), NEW write \in BOOLEAN,
             Access(address, write)
      PROVE  TraceInv'
  BY <1>6, TraceByAccess
<1>7. ASSUME NEW verdict \in {"PASSED", "FAILED"}, PrintVerdict(verdict) PROVE TraceInv'
  BY <1>7, TraceUntouched DEF PrintVerdict, tracing, ghosts
<1>8. ASSUME NEW how \in {"exit", "timeout", "exception"}, EndRun(how) PROVE TraceInv'
  BY <1>8, TraceUntouched DEF EndRun, tracing
<1>9. CASE CheckOptions \/ Launch \/ DebuggerAttaches \/ VerifyPassed
  BY <1>9, TraceUntouched DEF CheckOptions, Fail, Launch, DebuggerAttaches, VerifyPassed,
                              tracing, program, ghosts
<1>10. CASE FinallyOfSimulate \/ FinallyOfReference \/ FinallyOfAcceleration
  BY <1>10, TraceUntouched DEF FinallyOfSimulate, FinallyOfReference, FinallyOfAcceleration,
                               ClosesAndGoesTo, tracing, program, ghosts
<1>11. CASE UNCHANGED vars
  BY <1>11 DEF vars, tracing, program, ghosts, TraceInv, StackIsPath, NothingTraced,
     ReturnPoints, Follows, TraceMatches, Traced, inside, kernel, KernelRecursive
<1> QED BY <1>1, <1>2, <1>3, <1>4, <1>5, <1>6, <1>7, <1>8, <1>9, <1>10, <1>11
        DEF Next, Command, Program

\* So it holds in every state.
LEMMA TraceInvariance == Spec => []TraceInv
  BY TraceInit, TraceStep, CommandInvariance, PTL DEF Spec

\* The tracer is the kernel's only while the kernel runs, for every call graph, and
\* all that time when the kernel does not call itself.
THEOREM TracerIsTheKernels == Spec => []TracerFollowsKernel
<1>1. TraceInv => TracerFollowsKernel
  BY DEF TraceInv, Follows, TracerFollowsKernel
<1> QED BY <1>1, TraceInvariance, PTL

\* The second run is compared with exactly what the kernel used in the first.
THEOREM TraceIsOfTheKernel == Spec => []ReferenceComplete
<1>1. TraceInv => ReferenceComplete
  BY DEF TraceInv, TraceMatches, ReferenceComplete
<1> QED BY <1>1, TraceInvariance, PTL

-------------------------------------------------------------------------------
(* The trace files *)

\* The systems built so far, and whether the last of them is not yet done with.
Built  == IF sim = "acceleration" THEN {"reference", "acceleration"} ELSE {sim}
AtWork == cpc \in {"traceKernel", "launch", "awaitDebugger", "running", "finally"}

\* A call of the kernel has taken the place of the tracer of --trace-memory.
Displaced(system) == system = "reference" /\ entered # {}

\* What is open, and until when.
IsOpen(file, system) ==
    \/ /\ file = "verified" /\ options.memCheckKernel
       /\ system = "acceleration" /\ sim = "acceleration"
    \/ file = "refImage" /\ RefImageTraced /\ system \in Built
    \/ /\ file = "memory" /\ options.traceMemory
       /\ Displaced(system) \/ (system = sim /\ AtWork)
    \/ /\ file = "kernel" /\ traceConfig
       /\ system = "reference" /\ sim = "reference" /\ AtWork

OpenAre == \A file \in Files, system \in Systems :
              <<file, system>> \in open <=> IsOpen(file, system)

\* Where the last simulation stands.
Endings ==
    /\ cpc \in {"check", "build"} => open = {}
    /\ cpc \in {"check", "build", "traceKernel", "launch", "awaitDebugger", "running"}
          => ended = "none"
    /\ cpc \in {"finally", "verify", "prepare", "done"} => ended # "none"
    /\ cpc = "failed" /\ ended = "none" => sim # "acceleration"

\* The memory has the tracer of --trace-memory until the kernel is called.
MemoryTraced ==
    /\ entered # {} => traceConfig /\ sim # "single"
    /\ returnPoints # {} => entered # {}
    /\ options.traceMemory /\ AtWork => (tracer = "memory" <=> ~ Displaced(sim))

Begun == cpc \notin {"check", "build"} /\ (cpc = "failed" => ended # "none")

FilesInv == Endings /\ MemoryTraced /\ (Begun => OpenAre)

\* Before the command begins nothing is open.
LEMMA FilesInit == Init => FilesInv
  BY DEF Init, FilesInv, Endings, MemoryTraced, Begun, AtWork

\* Whether there are tracers of --createCgraRefImage is a matter of the options.
LEMMA RefImageByOptions == options' = options => RefImageTraced' = RefImageTraced
  BY DEF RefImageTraced, CgraAttached, TwoSystems, manual

\* A trace makes configureCgraAcceleration choose a mode that verifies.
LEMMA TraceMeansVerifier == VerifierMade <=> traceConfig
  BY DEF VerifierMade, Mode, Patching, SimCgraWithHook

\* The file open when a system has been built are those that were, and its own.
LEMMA OpenByBuilding ==
    ASSUME NEW system \in Systems, NewSystem(system),
           NEW file \in Files, NEW other \in Systems
    PROVE  <<file, other>> \in open' <=>
             \/ <<file, other>> \in open
             \/ /\ other = system
                /\ \/ file = "memory" /\ options.traceMemory
                   \/ file = "refImage" /\ RefImageTraced
                   \/ file = "verified" /\ traceConfig
  BY TraceMeansVerifier DEF NewSystem, OpenedWith

\* The first system keeps the invariant of the files.
LEMMA FilesByFirst ==
    ASSUME Types, CommandInv, FilesInv, BuildFirstSystem
    PROVE  FilesInv'
<1>1. CASE ~ EnvAndStdioConfigured \/ ~ CgraBuilds
  <2>1. cpc = "build" /\ cpc' = "failed" /\ UNCHANGED <<options, sim, open, ended, tracing, entered>>
    BY <1>1 DEF BuildFirstSystem, Fail, program, ghosts
  <2> QED BY <2>1 DEF FilesInv, Endings, MemoryTraced, Begun, AtWork, tracing, CommandInv, TraceOnDemand
<1>2. CASE ~ (~ EnvAndStdioConfigured \/ ~ CgraBuilds)
  <2>1. /\ cpc = "build" /\ cpc' \in {"launch", "traceKernel"}
        /\ UNCHANGED <<options, traceConfig, returnPoints, entered>>
    BY <1>2 DEF BuildFirstSystem, tracing, ghosts
  <2>2. PICK system \in {"single", "reference"} : NewSystem(system)
    BY <1>2 DEF BuildFirstSystem
  <2>3. /\ sim' = system /\ ended' = "none"
        /\ tracer' = (IF options.traceMemory THEN "memory" ELSE "none")
    BY <2>2 DEF NewSystem
  <2>4. open = {} /\ ~ traceConfig /\ entered = {} /\ returnPoints = {}
    BY <2>1 DEF FilesInv, Endings, MemoryTraced, CommandInv, TraceOnDemand
  <2>5. RefImageTraced' = RefImageTraced
    BY <2>1, RefImageByOptions
  <2>6. OpenAre'
    <3>1. ASSUME NEW file \in Files, NEW other \in Systems
          PROVE  <<file, other>> \in open' <=> IsOpen(file, other)'
      <4>1. <<file, other>> \in open' <=>
               /\ other = system
               /\ \/ file = "memory" /\ options.traceMemory
                  \/ file = "refImage" /\ RefImageTraced
        BY <2>2, <2>4, OpenByBuilding DEF Systems
      <4>2. Built' = {system} /\ AtWork' /\ ~ traceConfig' /\ entered' = {}
            /\ options' = options /\ sim' # "acceleration"
        BY <2>1, <2>3, <2>4 DEF Built, AtWork
      <4> QED BY <4>1, <4>2, <2>3, <2>5 DEF IsOpen, Displaced
    <3> QED BY <3>1 DEF OpenAre
  <2> QED BY <2>1, <2>3, <2>4, <2>6 DEF FilesInv, Endings, MemoryTraced, AtWork, Displaced
<1> QED BY <1>1, <1>2

\* So does setting the trace points.
LEMMA FilesByTraceKernel ==
    ASSUME Types, CommandInv, FilesInv, TraceKernel
    PROVE  FilesInv'
<1>1. cpc = "traceKernel" /\ UNCHANGED <<options, sim, tracer, ended, returnPoints, entered>>
  BY DEF TraceKernel, Fail, tracing, program, ghosts
<1>2. sim = "reference" /\ ended = "none" /\ ~ traceConfig /\ entered = {} /\ returnPoints = {}
  BY <1>1 DEF FilesInv, Endings, MemoryTraced, CommandInv, TraceOnDemand
<1>3. CASE options.memCheckKernel /\ options.kernels = <<>>
  <2>1. cpc' = "failed"
    BY <1>3 DEF TraceKernel, Fail
  <2> QED BY <1>1, <1>2, <2>1 DEF FilesInv, Endings, MemoryTraced, Begun, AtWork
<1>4. CASE ~ (options.memCheckKernel /\ options.kernels = <<>>)
  <2>1. /\ cpc' = "launch" /\ traceConfig' = options.memCheckKernel
        /\ open' = open \cup (IF options.memCheckKernel THEN {<<"kernel", "reference">>} ELSE {})
    BY <1>4 DEF TraceKernel
  <2>2. RefImageTraced' = RefImageTraced
    BY <1>1, RefImageByOptions
  <2>3. ASSUME NEW file \in Files, NEW system \in Systems
        PROVE  <<file, system>> \in open' <=> IsOpen(file, system)'
    <3>1. <<file, system>> \in open <=> IsOpen(file, system)
      BY <1>1, <2>3 DEF FilesInv, Begun, OpenAre
    <3>2. <<file, system>> \in open' <=>
             \/ <<file, system>> \in open
             \/ options.memCheckKernel /\ file = "kernel" /\ system = "reference"
      BY <2>1
    <3>3. AtWork /\ AtWork' /\ Built' = Built
      BY <1>1, <2>1 DEF AtWork, Built
    <3> QED BY <1>1, <1>2, <2>1, <2>2, <3>1, <3>2, <3>3 DEF IsOpen, Displaced
  <2> QED BY <1>1, <1>2, <2>1, <2>3 DEF FilesInv, Endings, MemoryTraced, OpenAre, AtWork, Displaced
<1> QED BY <1>3, <1>4

\* So does building the accelerated system.
LEMMA FilesByAcceleration ==
    ASSUME Types, CommandInv, FilesInv, BuildAcceleration
    PROVE  FilesInv'
<1>1. /\ cpc = "prepare" /\ cpc' = "launch" /\ NewSystem("acceleration")
      /\ UNCHANGED <<options, traceConfig, returnPoints, entered>>
  BY DEF BuildAcceleration, tracing, ghosts
<1>2. /\ sim' = "acceleration" /\ ended' = "none"
      /\ tracer' = (IF options.traceMemory THEN "memory" ELSE "none")
  BY <1>1 DEF NewSystem
<1>3. sim = "reference" /\ (traceConfig <=> options.memCheckKernel) /\ "acceleration" \in Systems
  BY <1>1 DEF CommandInv, TraceOnDemand, Systems, Types, OptionsKnown
<1>4. RefImageTraced' = RefImageTraced
  BY <1>1, RefImageByOptions
<1>5. ASSUME NEW file \in Files, NEW system \in Systems
      PROVE  <<file, system>> \in open' <=> IsOpen(file, system)'
  <2>1. <<file, system>> \in open <=> IsOpen(file, system)
    BY <1>1 DEF FilesInv, Begun, OpenAre
  <2>2. <<file, system>> \in open' <=>
             \/ <<file, system>> \in open
             \/ /\ system = "acceleration"
                /\ \/ file = "memory" /\ options.traceMemory
                   \/ file = "refImage" /\ RefImageTraced
                   \/ file = "verified" /\ traceConfig
    BY <1>1, <1>3, OpenByBuilding
  <2>3. ~ AtWork /\ AtWork' /\ Built = {"reference"} /\ Built' = {"reference", "acceleration"}
    BY <1>1, <1>2, <1>3 DEF AtWork, Built
  <2> QED BY <1>1, <1>2, <1>3, <1>4, <2>1, <2>2, <2>3 DEF IsOpen, Displaced
<1> QED BY <1>1, <1>2, <1>3, <1>5 DEF FilesInv, Endings, MemoryTraced, OpenAre, AtWork, Displaced

\* So does a step that leaves the files and the tracer alone.
LEMMA FilesUntouched ==
    ASSUME Types, FilesInv, Endings', AtWork' = AtWork, Begun' => Begun,
           UNCHANGED <<options, sim, tracer, open, traceConfig, returnPoints, entered>>
    PROVE  FilesInv'
<1>1. RefImageTraced' = RefImageTraced /\ Built' = Built
  BY RefImageByOptions DEF Built
<1> QED BY <1>1 DEF FilesInv, MemoryTraced, OpenAre, IsOpen, Displaced

\* So does a call: the file of a tracer it displaces stays open.
LEMMA FilesByCall ==
    ASSUME Types, FilesInv, NEW g \in Functions, Call(g)
    PROVE  FilesInv'
<1>1. cpc = "running" /\ UNCHANGED <<options, cpc, sim, open, traceConfig, ended>>
  BY DEF Call
<1>2. CASE ~ (Traced /\ g = kernel)
  BY <1>1, <1>2, FilesUntouched DEF Call, FilesInv, Endings, AtWork, Begun
<1>3. CASE Traced /\ g = kernel
  <2>1. /\ tracer' = "kernel" /\ entered' = entered \cup {DepthOfCall}
        /\ sim = "reference" /\ traceConfig
    BY <1>3 DEF Call, Traced
  <2>2. AtWork /\ AtWork' /\ Built' = Built /\ RefImageTraced' = RefImageTraced
    BY <1>1, RefImageByOptions DEF AtWork, Built
  <2>3. OpenAre'
    BY <1>1, <2>1, <2>2 DEF FilesInv, Begun, OpenAre, IsOpen, Displaced
  <2> QED BY <1>1, <2>1, <2>2, <2>3 DEF FilesInv, Endings, MemoryTraced, Displaced
<1> QED BY <1>2, <1>3

\* So does a return: where a tracer goes the kernel has been called.
LEMMA FilesByReturn ==
    ASSUME Types, FilesInv, Return
    PROVE  FilesInv'
<1>1. /\ cpc = "running" /\ tracer' = (IF AtReturnPoint THEN "none" ELSE tracer)
      /\ UNCHANGED <<options, cpc, sim, open, traceConfig, returnPoints, ended, entered>>
  BY DEF Return, tracing, ghosts
<1>2. CASE ~ AtReturnPoint
  BY <1>1, <1>2, FilesUntouched DEF FilesInv, Endings, AtWork, Begun
<1>3. CASE AtReturnPoint
  <2>1. sim = "reference" /\ entered # {} /\ tracer' = "none"
    BY <1>1, <1>3 DEF AtReturnPoint, Traced, FilesInv, MemoryTraced
  <2>2. AtWork' = AtWork /\ Built' = Built /\ RefImageTraced' = RefImageTraced
    BY <1>1, RefImageByOptions DEF AtWork, Built
  <2>3. OpenAre'
    BY <1>1, <2>1, <2>2 DEF FilesInv, Begun, OpenAre, IsOpen, Displaced
  <2> QED BY <1>1, <2>1, <2>2, <2>3 DEF FilesInv, Endings, MemoryTraced, Displaced
<1> QED BY <1>2, <1>3

\* So does the end of a simulation; a test, which closes nothing, has no tracer.
LEMMA FilesByEnd ==
    ASSUME Types, CommandInv, FilesInv,
           NEW how \in {"exit", "timeout", "exception"}, EndRun(how)
    PROVE  FilesInv'
<1>1. /\ cpc = "running" /\ ended' = how
      /\ UNCHANGED <<options, sim, tracer, open, traceConfig, returnPoints, entered>>
      /\ cpc' = IF options.command # "test" THEN "finally"
                ELSE IF how = "exception" THEN "failed" ELSE "verify"
  BY DEF EndRun, tracing
<1>2. Endings' /\ Begun
  BY <1>1 DEF Endings, Begun
<1>3. CASE options.command # "test"
  BY <1>1, <1>2, <1>3, FilesUntouched DEF AtWork
<1>4. CASE options.command = "test"
  <2>1. ~ options.traceMemory /\ ~ options.memCheckKernel /\ ~ traceConfig
    BY <1>4 DEF Types, OptionsKnown, CommandInv, TraceOnDemand
  <2>2. RefImageTraced' = RefImageTraced /\ Built' = Built
    BY <1>1, RefImageByOptions DEF Built
  <2>3. OpenAre'
    BY <1>1, <1>2, <2>1, <2>2 DEF FilesInv, OpenAre, IsOpen
  <2> QED BY <1>1, <1>2, <2>1, <2>3 DEF FilesInv, MemoryTraced
<1> QED BY <1>3, <1>4

\* So does a finally block, which closes what is open and can be reached.
LEMMA FilesByFinally ==
    ASSUME Types, CommandInv, FilesInv,
           FinallyOfSimulate \/ FinallyOfReference \/ FinallyOfAcceleration
    PROVE  FilesInv'
<1>1. /\ UNCHANGED <<options, sim, tracer, traceConfig, returnPoints, ended, entered>>
      /\ cpc = "finally" /\ open' = open \ ClosedNow
      /\ cpc' \in {"failed", "prepare", "done"}
  BY DEF FinallyOfSimulate, FinallyOfReference, FinallyOfAcceleration,
         ClosesAndGoesTo, tracing, program, ghosts
<1>2. AtWork /\ ~ AtWork' /\ Begun /\ Built' = Built /\ RefImageTraced' = RefImageTraced
  BY <1>1, RefImageByOptions DEF AtWork, Begun, Built
<1>3. ended # "none" /\ Endings'
  BY <1>1 DEF FilesInv, Endings
<1>4. ASSUME NEW file \in Files, NEW system \in Systems
      PROVE  <<file, system>> \in open' <=> IsOpen(file, system)'
  <2>1. <<file, system>> \in open <=> IsOpen(file, system)
    BY <1>2 DEF FilesInv, OpenAre
  <2>2. <<file, system>> \in open' <=>
             /\ <<file, system>> \in open
             /\ ~ (file = tracer /\ system = sim)
             /\ ~ (file = "kernel" /\ system = "reference" /\ sim = "reference")
    BY <1>1 DEF ClosedNow
  <2>3. options.traceMemory => (tracer = "memory" <=> ~ Displaced(sim))
    BY <1>2 DEF FilesInv, MemoryTraced
  <2>4. tracer \in {"none", "memory", "kernel"} /\ sim \in Systems
    BY DEF Types, TypeOK, Systems
  <2> QED BY <1>1, <1>2, <2>1, <2>2, <2>3, <2>4 DEF IsOpen, Displaced
<1>5. MemoryTraced'
  BY <1>1, <1>2 DEF FilesInv, MemoryTraced
<1> QED BY <1>3, <1>4, <1>5 DEF FilesInv, OpenAre

\* So does every step.
LEMMA FilesStep == Types /\ CommandInv /\ FilesInv /\ [Next]_vars => FilesInv'
<1> SUFFICES ASSUME Types, CommandInv, FilesInv, [Next]_vars PROVE FilesInv'
  OBVIOUS
<1>1. CASE CheckOptions
  <2>1. cpc = "check" /\ cpc' \in {"failed", "build"} /\ sim = "single"
        /\ UNCHANGED <<options, sim, tracer, open, traceConfig, returnPoints, entered, ended>>
    BY <1>1 DEF CheckOptions, Fail, tracing, program, ghosts, CommandInv, TraceOnDemand
  <2> QED BY <2>1 DEF FilesInv, Endings, MemoryTraced, Begun, AtWork
<1>2. CASE BuildFirstSystem
  BY <1>2, FilesByFirst
<1>3. CASE TraceKernel
  BY <1>3, FilesByTraceKernel
<1>4. CASE BuildAcceleration
  BY <1>4, FilesByAcceleration
<1>5. CASE Launch \/ DebuggerAttaches
  <2>1. /\ cpc \in {"launch", "awaitDebugger"} /\ cpc' \in {"awaitDebugger", "running"}
        /\ UNCHANGED <<options, sim, tracer, open, traceConfig, returnPoints, entered, ended>>
    BY <1>5 DEF Launch, DebuggerAttaches, tracing, program, ghosts
  <2> QED BY <2>1, FilesUntouched DEF FilesInv, Endings, AtWork, Begun
<1>6. CASE VerifyPassed
  <2>1. /\ cpc = "verify" /\ cpc' \in {"failed", "prepare", "done"}
        /\ UNCHANGED <<options, sim, tracer, open, traceConfig, returnPoints, entered, ended>>
    BY <1>6 DEF VerifyPassed, tracing, program, ghosts
  <2> QED BY <2>1, FilesUntouched DEF FilesInv, Endings, AtWork, Begun
<1>7. CASE FinallyOfSimulate \/ FinallyOfReference \/ FinallyOfAcceleration
  BY <1>7, FilesByFinally
<1>8. ASSUME NEW g \in Functions, Call(g) PROVE FilesInv'
  BY <1>8, FilesByCall
<1>9. CASE Return
  BY <1>9, FilesByReturn
<1>10. ASSUME NEW address \in Functions \X (0 .. MaxDepth), NEW write \in BOOLEAN,
              Access(address, write)
       PROVE  FilesInv'
  BY <1>10, FilesUntouched DEF Access, program, FilesInv, Endings, AtWork, Begun
<1>11. ASSUME NEW verdict \in {"PASSED", "FAILED"}, PrintVerdict(verdict) PROVE FilesInv'
  BY <1>11, FilesUntouched DEF PrintVerdict, tracing, ghosts, FilesInv, Endings, AtWork, Begun
<1>12. ASSUME NEW how \in {"exit", "timeout", "exception"}, EndRun(how) PROVE FilesInv'
  BY <1>12, FilesByEnd
<1>13. CASE UNCHANGED vars
  BY <1>13, FilesUntouched DEF vars, tracing, program, ghosts, FilesInv, Endings, AtWork, Begun
<1> QED BY <1>1, <1>2, <1>3, <1>4, <1>5, <1>6, <1>7, <1>8, <1>9, <1>10, <1>11, <1>12, <1>13
        DEF Next, Command, Program

\* So it holds in every state.
LEMMA FilesInvariance == Spec => []FilesInv
  BY FilesInit, FilesStep, CommandInvariance, PTL DEF Spec

\* However the runs end, what stays open is what was handed to the CGRA library and
\* the file of a tracer that the kernel's displaced.
THEOREM FilesAreAccountedFor == Spec => []OpenAtTheEnd
<1>1. Types /\ CommandInv /\ FilesInv => OpenAtTheEnd
  <2> SUFFICES ASSUME Types, CommandInv, FilesInv, cpc \in {"done", "failed"}, ended # "none"
               PROVE  open = {f \in Files \X Built : StillOpen(f[1], f[2])}
    BY DEF OpenAtTheEnd, Built, Files
  <2>1. Begun /\ ~ AtWork
    BY DEF Begun, AtWork
  <2>2. open \subseteq Files \X Systems /\ Built \subseteq Systems /\ sim \in Built
    BY DEF Types, TypeOK, Files, Systems, Built
  <2>3. sim = "single" => entered = {}
    BY DEF FilesInv, MemoryTraced
  <2>4. ASSUME NEW file \in Files, NEW system \in Systems
        PROVE  <<file, system>> \in open <=> system \in Built /\ StillOpen(file, system)
    <3>1. <<file, system>> \in open <=> IsOpen(file, system)
      BY <2>1 DEF FilesInv, OpenAre
    <3>2. "acceleration" \in Built <=> sim = "acceleration"
      BY DEF Types, TypeOK, Built
    <3>3. entered # {} => "reference" \in Built
      BY <2>3 DEF Types, TypeOK, Built
    <3> QED BY <2>1, <3>1, <3>2, <3>3 DEF IsOpen, StillOpen, Displaced
  <2>5. ASSUME NEW f \in Files \X Systems
        PROVE  f \in open <=> f[2] \in Built /\ StillOpen(f[1], f[2])
    <3>1. f[1] \in Files /\ f[2] \in Systems /\ f = <<f[1], f[2]>>
      OBVIOUS
    <3>2. <<f[1], f[2]>> \in open <=> f[2] \in Built /\ StillOpen(f[1], f[2])
      BY <2>4, <3>1
    <3> QED BY <3>1, <3>2
  <2> QED BY <2>2, <2>5
<1> QED BY <1>1, CommandInvariance, FilesInvariance, PTL

\* No second run on the strength of a first that threw, nor before its trace is closed.
THEOREM ProfilesAreOfRuns == Spec => []AccelerationAfterReference
<1>1. Types /\ CommandInv /\ FilesInv => AccelerationAfterReference
  <2> SUFFICES ASSUME Types, CommandInv, FilesInv, sim = "acceleration"
               PROVE  refEnd \in {"exit", "timeout"} /\ <<"kernel", "reference">> \notin open
    BY DEF AccelerationAfterReference
  <2>1. Begun
    BY DEF Begun, FilesInv, Endings, CommandInv, TraceOnDemand
  <2>2. "kernel" \in Files /\ "reference" \in Systems /\ ~ IsOpen("kernel", "reference")
    BY DEF Files, Systems, IsOpen
  <2>3. <<"kernel", "reference">> \notin open
    BY <2>1, <2>2 DEF FilesInv, OpenAre
  <2> QED BY <2>3 DEF CommandInv, SecondAfterFirst
<1> QED BY <1>1, CommandInvariance, FilesInvariance, PTL

-------------------------------------------------------------------------------
(* The verifier *)

\* What the verifier has reported is what the kernel wrote and the trace does not
\* hold, of the locals with exceptions.
Reported ==
    /\ sim # "acceleration" => written = {} /\ flagged = {}
    /\ sim = "acceleration" /\ options.memCheckKernel =>
          traceConfig /\ (verifier \/ RefImageTraced)
    /\ flagged \subseteq written \ traced
    /\ verifier => Globals(written) \ traced \subseteq flagged

\* Nothing is written before the first run.
LEMMA ReportedInit == Init => Reported
  BY DEF Init, Reported, Globals

\* A step that builds nothing and accesses nothing.
LEMMA ReportedUntouched ==
    ASSUME Reported,
           UNCHANGED <<options, sim, verifier, written, flagged, traced>>,
           traceConfig' = traceConfig \/ sim # "acceleration"
    PROVE  Reported'
<1>1. RefImageTraced' = RefImageTraced
  BY RefImageByOptions
<1> QED BY <1>1 DEF Reported, Globals

\* Every step keeps what is reported.
LEMMA ReportedStep == Types /\ CommandInv /\ TraceInv /\ Reported /\ [Next]_vars => Reported'
<1> SUFFICES ASSUME Types, CommandInv, TraceInv, Reported, [Next]_vars PROVE Reported'
  OBVIOUS
<1>1. CASE BuildFirstSystem
  <2>1. /\ sim = "single" /\ sim' # "acceleration"
        /\ UNCHANGED <<options, written, flagged, traced>>
    BY <1>1 DEF BuildFirstSystem, NewSystem, Fail, tracing, ghosts, CommandInv, TraceOnDemand
  <2> QED BY <2>1 DEF Reported, Globals
<1>2. CASE BuildAcceleration
  <2>1. /\ sim' = "acceleration" /\ sim = "reference"
        /\ UNCHANGED <<options, traceConfig, written, flagged, traced>>
        /\ traceConfig => verifier' \/ RefImageTraced
    BY <1>2, TraceMeansVerifier
       DEF BuildAcceleration, NewSystem, tracing, ghosts, CommandInv, TraceOnDemand
  <2>2. options.memCheckKernel => traceConfig
    BY <1>2 DEF BuildAcceleration, CommandInv, TraceOnDemand
  <2>3. RefImageTraced' = RefImageTraced
    BY <2>1, RefImageByOptions
  <2> QED BY <2>1, <2>2, <2>3 DEF Reported, Globals
<1>3. ASSUME NEW address \in Functions \X (0 .. MaxDepth), NEW write \in BOOLEAN,
             Access(address, write)
      PROVE  Reported'
  <2>1. /\ UNCHANGED <<options, sim, traceConfig, verifier>>
        /\ traced'  = (IF tracer = "kernel" THEN traced \cup {address} ELSE traced)
        /\ written' = (IF OnCgra /\ write THEN written \cup {address} ELSE written)
        /\ flagged' = (IF OnCgra /\ write /\ verifier /\ address \notin traced
                           /\ ~ Ignored(address)
                       THEN flagged \cup {address} ELSE flagged)
    BY <1>3 DEF Access, cgra
  <2>2. RefImageTraced' = RefImageTraced
    BY <2>1, RefImageByOptions
  <2>3. CASE sim # "acceleration"
    BY <2>1, <2>2, <2>3 DEF Reported, OnCgra, Globals
  <2>4. CASE sim = "acceleration"
    <3>1. traced' = traced
      BY <2>1, <2>4 DEF TraceInv, NothingTraced, Traced
    <3>2. address[2] = 0 => ~ Ignored(address)
      <4>1. entryDepth \in Nat
        BY RunnerAssumption DEF Types, TypeOK, RunnerAssumption
      <4> QED BY <4>1 DEF Ignored
    <3>3. flagged' \subseteq written' \ traced'
      BY <2>1, <3>1 DEF Reported
    <3>4. verifier' => Globals(written') \ traced' \subseteq flagged'
      BY <2>1, <3>1, <3>2 DEF Reported, Globals
    <3> QED BY <2>1, <2>2, <2>4, <3>3, <3>4 DEF Reported, Globals
  <2> QED BY <2>3, <2>4
<1>4. CASE CheckOptions \/ TraceKernel
  <2>1. /\ UNCHANGED <<options, sim, verifier, written, flagged, traced>>
        /\ sim # "acceleration"
    BY <1>4 DEF CheckOptions, TraceKernel, Fail, tracing, cgra, ghosts, CommandInv, TraceOnDemand
  <2> QED BY <2>1, ReportedUntouched
<1>5. CASE Launch \/ DebuggerAttaches \/ VerifyPassed \/ FinallyOfSimulate
           \/ FinallyOfReference \/ FinallyOfAcceleration
  BY <1>5, ReportedUntouched DEF Launch, DebuggerAttaches, VerifyPassed, FinallyOfSimulate,
     FinallyOfReference, FinallyOfAcceleration, ClosesAndGoesTo, tracing, cgra, ghosts
<1>6. ASSUME NEW g \in Functions, Call(g) PROVE Reported'
  BY <1>6, ReportedUntouched DEF Call, cgra
<1>7. CASE Return
  BY <1>7, ReportedUntouched DEF Return, tracing, cgra, ghosts
<1>8. ASSUME NEW verdict \in {"PASSED", "FAILED"}, PrintVerdict(verdict) PROVE Reported'
  BY <1>8, ReportedUntouched DEF PrintVerdict, tracing, cgra, ghosts
<1>9. ASSUME NEW how \in {"exit", "timeout", "exception"}, EndRun(how) PROVE Reported'
  BY <1>9, ReportedUntouched DEF EndRun, tracing, cgra
<1>10. CASE UNCHANGED vars
  BY <1>10, ReportedUntouched DEF vars, tracing, cgra, ghosts
<1> QED BY <1>1, <1>2, <1>3, <1>4, <1>5, <1>6, <1>7, <1>8, <1>9, <1>10
        DEF Next, Command, Program

\* The verifier reports what the accelerated kernel wrote and the reference kernel did
\* not use, for every program and whatever mode the options select.
THEOREM VerifierReportsUnseen == Spec => []UnseenIsReported
<1>1. TraceInv /\ Reported => UnseenIsReported
  <2> SUFFICES ASSUME TraceInv, Reported, sim = "acceleration", options.memCheckKernel,
                      ~ (options.cfgSim /\ options.refImage)
               PROVE  /\ Globals(written) \ touched \subseteq flagged
                      /\ ~ KernelRecursive =>
                            Globals(flagged) \subseteq Globals(written) \ touched
    BY DEF UnseenIsReported
  <2>1. traceConfig /\ verifier
    BY DEF Reported, RefImageTraced
  <2>2. traced \subseteq touched /\ (~ KernelRecursive => traced = touched)
    BY <2>1 DEF TraceInv, TraceMatches
  <2> QED BY <2>1, <2>2 DEF Reported, Globals
<1>2. Spec => []Reported
  BY ReportedInit, ReportedStep, CommandInvariance, TraceInvariance, PTL DEF Spec
<1> QED BY <1>1, <1>2, TraceInvariance, PTL
===============================================================================
