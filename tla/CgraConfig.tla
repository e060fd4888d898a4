------------------------------ MODULE CgraConfig ------------------------------
(***************************************************************************)
(* The CGRA configurations of package rs.rs2.cgra.cgraConfigurations: the   *)
(* provider of a configuration makes a grid of processing elements (PEs),   *)
(* gives each the PEs it takes inputs from and the operators it has, and    *)
(* the model is checked by verifyRs2Constraints.  What such a model lets a  *)
(* kernel do then shows in the smallest one: two values are loaded, carried *)
(* from PE to PE to one that combines them, and the result to one that      *)
(* stores it.                                                               *)
(*                                                                          *)
(* A PE is <<x, y>>, an operator stands for a class of operators of the     *)
(* library.  The library is external: what an input and an operator are     *)
(* good for, and matrixStarInterconnect, of which only the links between    *)
(* neighbours in a row or column are taken for certain.                     *)
(***************************************************************************)
EXTENDS Naturals, Sequences, FiniteSets, SequencesExt

CONSTANT Names     \* the configurations considered

ASSUME NamesAssumption ==
    Names \subseteq {"irregular", "toroidal", "performance", "performanceTest", "energy",
                     "energyTest", "2x2float", "2x2int", "2x2int1", "4x4float", "4x4int",
                     "4x4int1"}

VARIABLES
    name,      \* the configuration
    at,        \* the statement of its provider that comes next
    inputs,    \* the PEs each PE takes inputs from
    doubled,   \* whether an input was added that was there already
    operators, \* the operators of each PE
    phase,     \* "build", "idle", "run", "stored" or "rejected"
    holders,   \* for each operand of the next operation the PEs that hold it
    todo       \* the operations left

model  == <<name, inputs, doubled, operators>>
kernel == <<holders, todo>>
vars   == <<model, at, phase, kernel>>

-------------------------------------------------------------------------------
(* The operators *)

\* Slip: ChunkMuxAndRouteOperations left out.
IntegerOperatorsWithoutRoute == {"core", "logic", "shift", "multiply", "divide"}
all32BitIntegerOperators == {"core", "route", "logic", "shift", "multiply", "divide"}
defaultSinglePrecisionFloatOperators ==
    {"convert", "floatAdd", "floatLogic", "floatMultiply", "floatDivide", "sqrt", "floatCompare"}
memoryOperators == {"memory"}

Everything == all32BitIntegerOperators \cup defaultSinglePrecisionFloatOperators
              \cup {"trigonometry"}

\* The lines EnergyFocused keeps for the other half of its PEs.
EvenColumns ==
    {"core", "route", "logic", "multiply", "floatAdd", "floatLogic", "floatMultiply",
     "floatCompare"}

-------------------------------------------------------------------------------
(* The providers: a grid, and the statements that fill it *)

Pes(width, height) == (0 .. width - 1) \X (0 .. height - 1)

Star            == [kind |-> "star"]
Wrap            == [kind |-> "wrap"]
Input(to, from) == [kind |-> "input", to |-> to, from |-> from]
OperatorsFor(pes, ops) == [kind |-> "operators", pes |-> pes, ops |-> ops]

Standard(width, height, ops, memoryPes) ==
    [width |-> width, height |-> height,
     statements |-> <<Star, OperatorsFor(Pes(width, height), ops),
                      OperatorsFor(memoryPes, memoryOperators)>>]

Toroidal4x4MatrixStar2MemFloat ==
    [Standard(4, 4, Everything, {<<2, 0>>, <<1, 3>>}) EXCEPT
        !.statements = InsertAt(@, 2, Wrap)]

\* Slip: the reverse of a diagonal copied from the line above it.
LinksWithCopiedLine ==
    << Input(<<0, 0>>, <<1, 0>>), Input(<<1, 0>>, <<0, 0>>),
       Input(<<0, 1>>, <<0, 0>>), Input(<<1, 1>>, <<1, 0>>),
       Input(<<0, 0>>, <<0, 1>>), Input(<<1, 0>>, <<1, 1>>),
       Input(<<0, 1>>, <<1, 1>>), Input(<<1, 1>>, <<0, 1>>),
       Input(<<0, 2>>, <<0, 1>>), Input(<<1, 2>>, <<1, 1>>),
       Input(<<0, 2>>, <<1, 1>>), Input(<<1, 2>>, <<0, 1>>),
       Input(<<0, 1>>, <<0, 2>>), Input(<<1, 1>>, <<1, 2>>),
       Input(<<1, 1>>, <<0, 2>>), Input(<<1, 1>>, <<0, 2>>),
       Input(<<0, 2>>, <<1, 2>>), Input(<<1, 2>>, <<0, 2>>) >>

\* The eighteen links written by hand: within the first row; between the first
\* two rows and back; within the second; between the last two rows, straight and
\* diagonal, and back; within the third.
IrregularLinks ==
    << Input(<<0, 0>>, <<1, 0>>), Input(<<1, 0>>, <<0, 0>>),
       Input(<<0, 1>>, <<0, 0>>), Input(<<1, 1>>, <<1, 0>>),
       Input(<<0, 0>>, <<0, 1>>), Input(<<1, 0>>, <<1, 1>>),
       Input(<<0, 1>>, <<1, 1>>), Input(<<1, 1>>, <<0, 1>>),
       Input(<<0, 2>>, <<0, 1>>), Input(<<1, 2>>, <<1, 1>>),
       Input(<<0, 2>>, <<1, 1>>), Input(<<1, 2>>, <<0, 1>>),
       Input(<<0, 1>>, <<0, 2>>), Input(<<1, 1>>, <<1, 2>>),
       Input(<<1, 1>>, <<0, 2>>), Input(<<0, 1>>, <<1, 2>>),
       Input(<<0, 2>>, <<1, 2>>), Input(<<1, 2>>, <<0, 2>>) >>

IrregularInterconnect2MemFloat ==
    [width |-> 2, height |-> 3,
     statements |-> IrregularLinks \o
                    <<OperatorsFor(Pes(2, 3), Everything),
                      OperatorsFor({<<0, 0>>, <<1, 2>>}, memoryOperators)>>]

PerformanceFocused      == Standard(4, 4, Everything, {<<2, 0>>, <<1, 3>>})
PerformanceFocused_Test == Standard(4, 4, Everything, Pes(4, 1))

\* Half the columns have all operators but sine and cosine, which two PEs add.
Energy(width, height, trigonometryPes, memoryPes) ==
    LET pes    == Pes(width, height)
        uneven == {pe \in pes : pe[1] % 2 # 0}
    IN  [width |-> width, height |-> height,
         statements |-> <<Star,
             OperatorsFor(uneven, Everything \ {"trigonometry"}),
             OperatorsFor(pes \ uneven, EvenColumns),
             OperatorsFor(trigonometryPes, {"trigonometry"}),
             OperatorsFor(memoryPes, memoryOperators)>>]

EnergyFocused      == Energy(2, 4, {<<1, 1>>, <<0, 2>>}, {<<0, 1>>})
EnergyFocused_Test == Energy(3, 1, {<<1, 0>>, <<2, 0>>}, {<<0, 0>>})

Provider == [config \in Names |->
    CASE config = "irregular"       -> IrregularInterconnect2MemFloat
      [] config = "toroidal"        -> Toroidal4x4MatrixStar2MemFloat
      [] config = "performance"     -> PerformanceFocused
      [] config = "performanceTest" -> PerformanceFocused_Test
      [] config = "energy"          -> EnergyFocused
      [] config = "energyTest"      -> EnergyFocused_Test
      [] config = "2x2float"        -> Standard(2, 2, Everything, {<<0, 0>>, <<1, 1>>})
      [] config = "2x2int"          -> Standard(2, 2, all32BitIntegerOperators,
                                                {<<0, 0>>, <<1, 1>>})
      [] config = "2x2int1"         -> Standard(2, 2, all32BitIntegerOperators, {<<0, 0>>})
      [] config = "4x4float"        -> Standard(4, 4, Everything, {<<2, 0>>, <<1, 3>>})
      [] config = "4x4int"          -> Standard(4, 4, all32BitIntegerOperators,
                                                {<<2, 0>>, <<1, 3>>})
      [] config = "4x4int1"         -> Standard(4, 4, all32BitIntegerOperators, {<<2, 0>>})]

-------------------------------------------------------------------------------
(* A provider at work *)

width     == Provider[name].width
height    == Provider[name].height
grid      == DOMAIN inputs
statement == Provider[name].statements[at]

Init ==
    /\ name \in Names
    /\ at = 1 /\ doubled = FALSE
    /\ inputs = [pe \in Pes(width, height) |-> {}]
    /\ operators = [pe \in Pes(width, height) |-> {}]
    /\ phase = "build" /\ holders = <<>> /\ todo = <<>>

Apart(a, b) == IF a < b THEN b - a ELSE a - b
Straight(to, from) == Apart(to[1], from[1]) + Apart(to[2], from[2]) = 1
Diagonal(to, from) == Apart(to[1], from[1]) = 1 /\ Apart(to[2], from[2]) = 1

\* addInterconnectInput, for each PE those in more[pe].
AddInputs(more) ==
    /\ inputs' = [pe \in grid |-> inputs[pe] \cup more[pe]]
    /\ doubled' = (doubled \/ \E pe \in grid : inputs[pe] \cap more[pe] # {})
    /\ at' = at + 1
    /\ UNCHANGED <<name, operators, phase, kernel>>

\* matrixStarInterconnect, with or without the diagonals.
MatrixStarInterconnect ==
    /\ phase = "build" /\ at \in DOMAIN Provider[name].statements
    /\ statement.kind = "star"
    /\ \E diagonals \in BOOLEAN :
          AddInputs([pe \in grid |-> {from \in grid :
                        Straight(pe, from) \/ (diagonals /\ Diagonal(pe, from))}])

\* Slip: the number of columns for the last of them.
RightBorderBeyond == width
rightBorder  == width - 1
bottomBorder == height - 1

\* The when of Toroidal4x4MatrixStar2MemFloat: its first branch that applies, for
\* every PE.
WrapOf(x, y) ==
    CASE x = 0            -> {<<rightBorder, y>>}
      [] x # 0 /\ x = rightBorder -> {<<0, y>>}
      [] x \notin {0, rightBorder} /\ y = 0 -> {<<x, bottomBorder>>}
      [] x \notin {0, rightBorder} /\ y # 0 /\ y = bottomBorder -> {<<x, 0>>}
      [] OTHER -> {}

ForEachCoordinate ==
    /\ phase = "build" /\ at \in DOMAIN Provider[name].statements
    /\ statement.kind = "wrap"
    /\ AddInputs([pe \in grid |-> WrapOf(pe[1], pe[2])])

AddInterconnectInput ==
    /\ phase = "build" /\ at \in DOMAIN Provider[name].statements
    /\ statement.kind = "input"
    /\ AddInputs([pe \in grid |-> IF pe = statement.to THEN {statement.from} ELSE {}])

AddOperators ==
    /\ phase = "build" /\ at \in DOMAIN Provider[name].statements
    /\ statement.kind = "operators"
    /\ operators' = [pe \in grid |-> operators[pe] \cup
                        (IF pe \in statement.pes THEN statement.ops ELSE {})]
    /\ at' = at + 1
    /\ UNCHANGED <<name, inputs, doubled, phase, kernel>>

memoryPes == {pe \in grid : "memory" \in operators[pe]}

FewerThanFour == Cardinality(memoryPes) < 4      \* slip: the bound itself refused
AtMostFourPorts == Cardinality(memoryPes) <= 4

\* verifyRs2Constraints, of which the providers decide the memory ports.
Verify ==
    /\ phase = "build" /\ at \notin DOMAIN Provider[name].statements
    /\ phase' = IF AtMostFourPorts THEN "idle" ELSE "rejected"
    /\ UNCHANGED <<model, at, kernel>>

-------------------------------------------------------------------------------
(* The smallest kernel *)

\* A PE reads a value it holds or one that an input of it holds.
Reads(pe, holding) == ({pe} \cup inputs[pe]) \cap holding # {}

\* Two operands are loaded for one of the operations the CGRA has.
Load(operation) ==
    /\ phase = "idle" /\ phase' = "run"
    /\ \E a, b \in memoryPes : holders' = << {a}, {b} >>
    /\ todo' = <<operation, "memory">>
    /\ UNCHANGED <<model, at>>

\* The PEs that could hold a value one context later.
Passed(holding) == holding \cup {pe \in grid : "route" \in operators[pe] /\ Reads(pe, holding)}

Route(operand) ==
    /\ phase = "run" /\ operand \in DOMAIN holders
    /\ Passed(holders[operand]) # holders[operand]
    /\ holders' = [holders EXCEPT ![operand] = Passed(@)]
    /\ UNCHANGED <<model, at, phase, todo>>

Perform(pe) ==
    /\ phase = "run" /\ todo # <<>> /\ Head(todo) \in operators[pe]
    /\ \A operand \in DOMAIN holders : Reads(pe, holders[operand])
    /\ holders' = IF Len(todo) = 1 THEN <<>> ELSE << {pe} >>
    /\ todo' = Tail(todo)
    /\ phase' = IF Len(todo) = 1 THEN "stored" ELSE "run"
    /\ UNCHANGED <<model, at>>

-------------------------------------------------------------------------------
Build == MatrixStarInterconnect \/ ForEachCoordinate \/ AddInterconnectInput
         \/ AddOperators \/ Verify

Next == \/ Build
        \/ \E operation \in UNION {operators[pe] : pe \in grid} : Load(operation)
        \/ \E operand \in {1, 2} : Route(operand)
        \/ \E pe \in grid : Perform(pe)

\* The provider runs to its end; the schedule carries an operand on as long as it
\* gets anywhere, and performs an operation that can be.
Spec == Init /\ [][Next]_vars /\ WF_vars(Build)
        /\ WF_vars(Route(1)) /\ WF_vars(Route(2)) /\ WF_vars(\E pe \in grid : Perform(pe))

-------------------------------------------------------------------------------
TypeOK ==
    /\ name \in Names /\ phase \in {"build", "idle", "run", "stored", "rejected"}
    /\ inputs \in [grid -> SUBSET grid] /\ doubled \in BOOLEAN
    /\ DOMAIN operators = grid
    /\ \A operand \in DOMAIN holders : holders[operand] \subseteq grid

\* The links are meant in pairs, "and reverse", "connected to each other"
\* (IrregularInterconnect2MemFloat.kt 20-45): when a provider is done a PE takes
\* inputs from exactly those that take inputs from it.
LinksBothWays ==
    phase # "build" =>
        \A a, b \in grid : a \in inputs[b] <=> b \in inputs[a]

\* No input of a PE is added twice, by two statements or by a statement and the
\* library's star (Toroidal4x4MatrixStar2MemFloat.kt 21-32).
NoInputTwice == ~ doubled

\* What the repository ships has at most the four memory ports that
\* verifyRs2Constraints allows; of its checks this is the only one modelled here.
\* (BaseRunnerCommand.kt 479)
ShippedIsAccepted == phase # "rejected"

(***************************************************************************)
(* Every operation the CGRA has can be given two values from any of its     *)
(* memory ports and its result can be stored: wherever the providers put    *)
(* the special operators, links and routing lead there and back.            *)
(* (EnergyFocused.kt 46-117, IrregularInterconnect2MemFloat.kt 20-59)       *)
(***************************************************************************)
ResultIsStored == phase = "run" ~> phase = "stored"

\* The name "4x4_toroidal" (Toroidal4x4MatrixStar2MemFloat.kt 16): a torus has no
\* border, each PE has its neighbours in row and column as inputs, around the
\* edges too.
TorusHasNoBorder ==
    name = "toroidal" /\ phase # "build" =>
        \A pe \in grid : {<<(pe[1] + 1) % 4, pe[2]>>, <<(pe[1] + 3) % 4, pe[2]>>,
                          <<pe[1], (pe[2] + 1) % 4>>, <<pe[1], (pe[2] + 3) % 4>>} \subseteq inputs[pe]
===============================================================================
