--------------------------- MODULE MCRunnerCommand ----------------------------
(* Instances of RunnerCommand: the calls of the acquisition program around its *)
(* transforms, which main's loop may repeat, with a function that calls itself *)
(* beside them, and the options that interact.                                 *)
EXTENDS RunnerCommand

AcquisitionFunctions == {"main", "start", "inverseFft", "fft", "max", "recurse"}
AcquisitionCalls ==
    [fn \in AcquisitionFunctions |->
        CASE fn = "main" -> {"start", "recurse"}
          [] fn = "recurse" -> {"recurse"}
          [] fn = "start" -> {"fft", "inverseFft", "max"}
          [] fn = "inverseFft" -> {"fft"}
          [] OTHER -> {}]

Ticks == [fn \in AcquisitionFunctions |->
            CASE fn = "fft" -> 50000 [] fn = "max" -> 10000 [] fn = "main" -> 60000
              [] OTHER -> 10001]

\* Two of the operations with a bound; the other bounds differ in number only.
ShortestTimeSteps == [MUL_int |-> 1, DIV_flopoco |-> 6]

\* Configurations on both sides of each bound.
Performance ==
    [liveInOutDataWidth |-> 32, constantTableDataWidth |-> 32, dataInterconnectWidth |-> 34,
     memoryPes |-> 4, contextCount |-> 4096,
     timeSteps |-> [MUL_int |-> {2, 3}, DIV_flopoco |-> {7}]]

Registry ==
    [performance |-> Performance,
     narrow    |-> [Performance EXCEPT !.liveInOutDataWidth = 16],
     wide      |-> [Performance EXCEPT !.dataInterconnectWidth = 35],
     fivePorts |-> [Performance EXCEPT !.memoryPes = 5],
     contextless |-> [Performance EXCEPT !.contextCount = 0],
     noDivider |-> [Performance EXCEPT !.timeSteps.DIV_flopoco = {}],
     oneFast   |-> [Performance EXCEPT !.timeSteps.MUL_int = {1, 2}]]

Speedup ==
    [command |-> "speedup", executable |-> TRUE, envFormat |-> TRUE,
     cgra |-> "performance", timeout |-> TRUE, debugger |-> FALSE, traceMemory |-> FALSE, memCheckKernel |-> FALSE,
     kernels |-> <<>>, noAutoAcc |-> TRUE, aot |-> FALSE, cgraVcd |-> FALSE,
     cfgSim |-> FALSE, cgraHook |-> FALSE, refImage |-> FALSE]

Simulate == [Speedup EXCEPT !.command = "simulate"]
MemCheck == [Speedup EXCEPT !.memCheckKernel = TRUE, !.kernels = <<"fft">>]
ByHand   == [Speedup EXCEPT !.kernels = <<"inverseFft", "max">>]
ARange   == [Speedup EXCEPT !.kernels = <<"start:0x1200-0x1400">>]

\* Every option on its own beside the defaults, and the pairs that meet.
ManyOptions ==
    {Speedup, MemCheck, ByHand, Simulate,
     [Speedup EXCEPT !.noAutoAcc = FALSE], [Speedup EXCEPT !.executable = FALSE],
     [Speedup EXCEPT !.aot = TRUE], [Speedup EXCEPT !.cgraVcd = TRUE],
     [Speedup EXCEPT !.cgra = "custom"], [Speedup EXCEPT !.envFormat = FALSE],
     [Speedup EXCEPT !.kernels = <<"fftt">>],
     [Speedup EXCEPT !.traceMemory = TRUE], [Speedup EXCEPT !.debugger = TRUE],
     [Speedup EXCEPT !.timeout = FALSE], [Speedup EXCEPT !.memCheckKernel = TRUE],
     [MemCheck EXCEPT !.cfgSim = TRUE], [MemCheck EXCEPT !.traceMemory = TRUE],
     [MemCheck EXCEPT !.noAutoAcc = FALSE], [MemCheck EXCEPT !.kernels = <<"recurse">>],
     [Simulate EXCEPT !.traceMemory = TRUE, !.cgra = "custom"],
     [Simulate EXCEPT !.aot = TRUE, !.cgraVcd = TRUE, !.kernels = <<"fft">>],
     [Simulate EXCEPT !.aot = TRUE, !.cgraHook = TRUE],
     [Simulate EXCEPT !.aot = TRUE, !.cfgSim = TRUE, !.refImage = TRUE],
     [Simulate EXCEPT !.aot = TRUE, !.cgra = "custom"],
     [Simulate EXCEPT !.aot = TRUE, !.cfgSim = TRUE, !.refImage = TRUE, !.kernels = <<"fft">>],
     [MemCheck EXCEPT !.refImage = TRUE],
     [MemCheck EXCEPT !.cfgSim = TRUE, !.refImage = TRUE],
     [ByHand EXCEPT !.cfgSim = TRUE, !.refImage = TRUE],
     [ByHand EXCEPT !.traceMemory = TRUE, !.cfgSim = TRUE],
     [ARange EXCEPT !.cfgSim = TRUE, !.refImage = TRUE]}
    \cup {[Speedup EXCEPT !.cgra = name] : name \in DOMAIN Registry}
    \cup {TestCase("performance"), TestCase("wide")}

BothTraces  == {[MemCheck EXCEPT !.traceMemory = TRUE]}
OnlyCheck   == {MemCheck}
===============================================================================
