---------------------------- MODULE CgraConfigProofs ----------------------------
(***************************************************************************)
(* The invariants of module CgraConfig, in two steps: every                  *)
(* configuration is of one of two shapes (WellMade), and whatever provider   *)
(* is of these shapes builds a grid with the properties.  The second step is *)
(* about grids of every size.                                                *)
(***************************************************************************)
EXTENDS CgraConfig, FiniteSetTheorems, SequenceTheorems, TLAPS

\* The grid comes from the star of the library, on which at most the second
\* statement closes the torus, of a grid whose borders are no neighbours.
StarFirst(p) ==
    /\ Len(p.statements) > 0 /\ p.statements[1] = Star
    /\ \A k \in 2 .. Len(p.statements) :
          \/ p.statements[k].kind = "operators"
          \/ k = 2 /\ p.statements[k] = Wrap /\ p.width > 2 /\ p.height > 2

\* The grid is linked by hand, each link once, with its reverse.
ByHand(p) ==
    /\ \A k \in 1 .. Len(p.statements) :
          \/ p.statements[k].kind = "operators"
          \/ \E to, from \in Pes(p.width, p.height) :
                /\ p.statements[k] = Input(to, from)
                /\ \E j \in 1 .. Len(p.statements) : p.statements[j] = Input(from, to)
    /\ \A j, k \in 1 .. Len(p.statements) :
          /\ p.statements[j].kind = "input" /\ p.statements[j] = p.statements[k]
          => j = k

\* The PEs for which some statement asks for memory.
Ports(p) == UNION {p.statements[k].pes : k \in
                      {i \in 1 .. Len(p.statements) :
                          /\ p.statements[i].kind = "operators"
                          /\ "memory" \in p.statements[i].ops}}

WellMade(p) ==
    /\ p.width \in Nat \ {0} /\ p.height \in Nat \ {0}
    /\ p.statements \in Seq(Range(p.statements))
    /\ StarFirst(p) \/ ByHand(p)
    /\ IsFiniteSet(Ports(p)) /\ Cardinality(Ports(p)) <= 4

-------------------------------------------------------------------------------
(* The configurations are well made *)

\* Only the statement for the memory PEs names the memory operators.
LEMMA OperatorsWithoutMemory ==
    /\ "memory" \notin Everything /\ "memory" \notin all32BitIntegerOperators
    /\ "memory" \notin EvenColumns /\ "memory" \notin {"trigonometry"}
    /\ "memory" \in memoryOperators
  BY DEF Everything, all32BitIntegerOperators, defaultSinglePrecisionFloatOperators,
         EvenColumns, memoryOperators

\* If the last statement alone is about memory its PEs are the ports.
LEMMA PortsOfLast ==
    ASSUME NEW p, NEW len \in Nat, Len(p.statements) = len + 1, NEW pes,
           p.statements[len + 1] = OperatorsFor(pes, memoryOperators),
           \A k \in 1 .. len :
              p.statements[k].kind = "operators" => "memory" \notin p.statements[k].ops
    PROVE  Ports(p) = pes
<1> DEFINE M == {i \in 1 .. Len(p.statements) :
                    /\ p.statements[i].kind = "operators"
                    /\ "memory" \in p.statements[i].ops}
<1>1. M = {len + 1}
  <2>1. len + 1 \in M
    BY OperatorsWithoutMemory, SMT DEF OperatorsFor
  <2>2. ASSUME NEW i \in M PROVE i = len + 1
    <3>1. i \in 1 .. len \/ i = len + 1
      BY SMT
    <3> QED BY <3>1
  <2> QED BY <2>1, <2>2
<1>2. p.statements[len + 1].pes = pes
  BY DEF OperatorsFor
<1>3. Ports(p) = UNION {p.statements[k].pes : k \in M}
  BY DEF Ports
<1> QED
  <2> HIDE DEF M
  <2> QED BY <1>1, <1>2, <1>3

\* Two memory PEs.
LEMMA AtMostFour ==
    ASSUME NEW a, NEW b
    PROVE  IsFiniteSet({a, b}) /\ Cardinality({a, b}) <= 4
<1>1. IsFiniteSet({a}) /\ Cardinality({a}) = 1
  BY FS_Singleton
<1>2. {a, b} = {a} \cup {b}
  OBVIOUS
<1>3. /\ IsFiniteSet({a, b})
      /\ Cardinality({a, b}) = IF b \in {a} THEN Cardinality({a}) ELSE Cardinality({a}) + 1
  BY <1>1, <1>2, FS_AddElement
<1> QED BY <1>1, <1>3, SMT

\* The standard grids: a star, operators for all, memory for some.
LEMMA StandardIsWellMade ==
    ASSUME NEW w \in Nat \ {0}, NEW h \in Nat \ {0}, NEW ops, "memory" \notin ops,
           NEW ports, IsFiniteSet(ports), Cardinality(ports) <= 4
    PROVE  WellMade(Standard(w, h, ops, ports))
<1> DEFINE p == Standard(w, h, ops, ports)
           s == <<Star, OperatorsFor(Pes(w, h), ops), OperatorsFor(ports, memoryOperators)>>
<1>1. p.width = w /\ p.height = h /\ p.statements = s
  BY DEF Standard
<1>2. /\ Len(s) = 3 /\ s[1] = Star /\ s[2] = OperatorsFor(Pes(w, h), ops)
      /\ s[3] = OperatorsFor(ports, memoryOperators) /\ s \in Seq(Range(s))
  BY SMT DEF Range
<1> HIDE DEF p, s
<1>3. /\ s[1].kind # "operators" /\ s[2].kind = "operators" /\ s[2].ops = ops
      /\ s[3].kind = "operators"
  BY <1>2 DEF Star, OperatorsFor
<1>4. StarFirst(p)
  BY <1>1, <1>2, <1>3, SMT DEF StarFirst
<1>5. Ports(p) = ports
  <2>1. \A k \in 1 .. 2 : s[k].kind = "operators" => "memory" \notin s[k].ops
    BY <1>3, SMT
  <2>2. Len(p.statements) = 2 + 1 /\ p.statements[2 + 1] = OperatorsFor(ports, memoryOperators)
    BY <1>1, <1>2
  <2> QED BY <1>1, <2>1, <2>2, PortsOfLast
<1>6. WellMade(p)
  BY <1>1, <1>2, <1>4, <1>5 DEF WellMade
<1> QED BY <1>6 DEF p

\* The sequence s with e inserted as element i.
IsInsertion(v, s, i, e) ==
    /\ Len(v) = Len(s) + 1
    /\ \A j \in 1 .. Len(s) + 1 :
          v[j] = IF j < i THEN s[j] ELSE IF j = i THEN e ELSE s[j - 1]

\* What InsertAt of the community modules returns.
LEMMA InsertAtProperties ==
    ASSUME NEW S, NEW s \in Seq(S), NEW i \in 1 .. Len(s), NEW e \in S
    PROVE  InsertAt(s, i, e) \in Seq(S) /\ IsInsertion(InsertAt(s, i, e), s, i, e)
<1> DEFINE before == SubSeq(s, 1, i - 1)
           after  == SubSeq(s, i, Len(s))
           u      == before \o <<e>>
<1>1. Len(s) \in Nat /\ \A j \in 1 .. Len(s) : s[j] \in S
  BY LenProperties, ElementOfSeq
<1>2. /\ before \in Seq(S) /\ Len(before) = i - 1
      /\ \A j \in 1 .. i - 1 : before[j] = s[j]
  <2>1. \A j \in 1 .. i - 1 : s[j] \in S
    BY <1>1, SMT
  <2>2. 1 \in Int /\ i - 1 \in Int
    BY <1>1, SMT
  <2>3. /\ before \in Seq(S)
        /\ Len(before) = IF 1 <= i - 1 THEN (i - 1) - 1 + 1 ELSE 0
        /\ \A j \in 1 .. (i - 1) - 1 + 1 : before[j] = s[1 + j - 1]
    BY <2>1, <2>2, SubSeqProperties
  <2> HIDE DEF before
  <2> QED BY <1>1, <2>3, SMT
<1>3. /\ after \in Seq(S) /\ Len(after) = Len(s) - i + 1
      /\ \A j \in 1 .. Len(s) - i + 1 : after[j] = s[i + j - 1]
  <2>1. \A j \in i .. Len(s) : s[j] \in S
    BY <1>1, SMT
  <2>2. i \in Int /\ Len(s) \in Int /\ i <= Len(s)
    BY <1>1, SMT
  <2> QED BY <2>1, <2>2, SubSeqProperties
<1>4. <<e>> \in Seq(S) /\ Len(<<e>>) = 1 /\ <<e>>[1] = e
  OBVIOUS
<1>5. /\ u \in Seq(S) /\ Len(u) = i
      /\ \A j \in 1 .. i : u[j] = IF j < i THEN s[j] ELSE e
  <2>1. /\ u \in Seq(S) /\ Len(u) = Len(before) + Len(<<e>>)
        /\ \A j \in 1 .. Len(before) + Len(<<e>>) : u[j] =
              IF j <= Len(before) THEN before[j] ELSE <<e>>[j - Len(before)]
    BY <1>2, <1>4, ConcatProperties
  <2> HIDE DEF before, u
  <2>2. Len(u) = i
    BY <1>1, <1>2, <1>4, <2>1, SMT
  <2>3. ASSUME NEW j \in 1 .. i, j < i PROVE u[j] = s[j]
    BY <1>1, <1>2, <1>4, <2>1, <2>3, SMT
  <2>4. u[i] = e
    BY <1>1, <1>2, <1>4, <2>1, SMT
  <2> QED BY <1>1, <2>1, <2>2, <2>3, <2>4, SMT
<1>6. /\ u \o after \in Seq(S) /\ Len(u \o after) = Len(u) + Len(after)
      /\ \A j \in 1 .. Len(u) + Len(after) : (u \o after)[j] =
            IF j <= Len(u) THEN u[j] ELSE after[j - Len(u)]
  BY <1>3, <1>5, ConcatProperties
<1>7. InsertAt(s, i, e) = u \o after
  BY DEF InsertAt
<1> HIDE DEF before, after, u
<1>8. Len(u \o after) = Len(s) + 1
  BY <1>1, <1>3, <1>5, <1>6, SMT
<1>9. ASSUME NEW j \in 1 .. Len(s) + 1
      PROVE  (u \o after)[j] = IF j < i THEN s[j] ELSE IF j = i THEN e ELSE s[j - 1]
  <2>1. CASE j <= i
    <3>1. j \in 1 .. i /\ j \in 1 .. Len(u) + Len(after) /\ j <= Len(u)
      BY <1>1, <1>3, <1>5, <2>1, SMT
    <3>2. (u \o after)[j] = u[j]
      BY <1>6, <3>1
    <3>3. u[j] = IF j < i THEN s[j] ELSE e
      BY <1>5, <3>1
    <3>4. CASE j < i
      BY <3>2, <3>3, <3>4
    <3>5. CASE ~ (j < i)
      <4>1. j = i
        BY <1>1, <2>1, <3>5, SMT
      <4> QED BY <3>2, <3>3, <3>5, <4>1
    <3> QED BY <3>4, <3>5
  <2>2. CASE j > i
    <3>1. (u \o after)[j] = after[j - i]
      BY <1>1, <1>3, <1>5, <1>6, <2>2, SMT
    <3>2. j - i \in 1 .. Len(s) - i + 1 /\ i + (j - i) - 1 = j - 1
      BY <1>1, <2>2, SMT
    <3>3. after[j - i] = s[j - 1]
      BY <1>3, <3>2
    <3>4. ~ (j < i) /\ j # i
      BY <1>1, <2>2, SMT
    <3> QED BY <3>1, <3>3, <3>4
  <2>3. j <= i \/ j > i
    BY <1>1, SMT
  <2> QED BY <2>1, <2>2, <2>3
<1> QED BY <1>6, <1>7, <1>8, <1>9 DEF IsInsertion

\* The torus: a star on a grid of four by four, its borders joined.
LEMMA TorusIsWellMade == WellMade(Toroidal4x4MatrixStar2MemFloat)
<1> DEFINE p == Toroidal4x4MatrixStar2MemFloat
           ports == {<<2, 0>>, <<1, 3>>}
           s == <<Star, Wrap, OperatorsFor(Pes(4, 4), Everything),
                  OperatorsFor(ports, memoryOperators)>>
<1>1. p.width = 4 /\ p.height = 4 /\ p.statements = s
  <2> DEFINE u == Standard(4, 4, Everything, ports)
             t == <<Star, OperatorsFor(Pes(4, 4), Everything),
                    OperatorsFor(ports, memoryOperators)>>
  <2>1. u = [width |-> 4, height |-> 4, statements |-> t]
    BY DEF Standard
  <2>2. p = [u EXCEPT !.statements = InsertAt(@, 2, Wrap)]
    BY DEF Toroidal4x4MatrixStar2MemFloat
  <2>3. p = [width |-> 4, height |-> 4, statements |-> InsertAt(t, 2, Wrap)]
    BY <2>1, <2>2
  <2>4. InsertAt(t, 2, Wrap) = s
    <3> DEFINE S == {t[1], t[2], t[3], Wrap}
    <3>1. t \in Seq(S) /\ s \in Seq(S) /\ Len(t) = 3 /\ Len(s) = 4 /\ Wrap \in S
      OBVIOUS
    <3>2. s[1] = t[1] /\ s[2] = Wrap /\ s[3] = t[2] /\ s[4] = t[3]
      OBVIOUS
    <3> HIDE DEF S, s, t
    <3>3. InsertAt(t, 2, Wrap) \in Seq(S) /\ IsInsertion(InsertAt(t, 2, Wrap), t, 2, Wrap)
      <4>1. 2 \in 1 .. Len(t)
        BY <3>1, SMT
      <4> QED BY <3>1, <4>1, InsertAtProperties
    <3>4. \A j \in 1 .. Len(s) : s[j] = InsertAt(t, 2, Wrap)[j]
      BY <3>1, <3>2, <3>3, SMT DEF IsInsertion
    <3>5. Len(s) = Len(InsertAt(t, 2, Wrap))
      BY <3>1, <3>3, SMT DEF IsInsertion
    <3> QED BY <3>1, <3>3, <3>4, <3>5, SeqEqual
  <2> QED BY <2>3, <2>4
<1>2. /\ Len(s) = 4 /\ s[1] = Star /\ s[2] = Wrap
      /\ s[3] = OperatorsFor(Pes(4, 4), Everything)
      /\ s[4] = OperatorsFor(ports, memoryOperators) /\ s \in Seq(Range(s))
  BY SMT DEF Range
<1> HIDE DEF p, s
<1>3. /\ s[1].kind # "operators" /\ s[2].kind # "operators"
      /\ s[3].kind = "operators" /\ s[3].ops = Everything /\ s[4].kind = "operators"
  BY <1>2 DEF Star, Wrap, OperatorsFor
<1>4. StarFirst(p)
  BY <1>1, <1>2, <1>3, SMT DEF StarFirst
<1>5. Ports(p) = ports
  <2>1. \A k \in 1 .. 3 : s[k].kind = "operators" => "memory" \notin s[k].ops
    BY <1>3, OperatorsWithoutMemory, SMT
  <2>2. Len(p.statements) = 3 + 1 /\ p.statements[3 + 1] = OperatorsFor(ports, memoryOperators)
    BY <1>1, <1>2
  <2> QED BY <1>1, <2>1, <2>2, PortsOfLast
<1>6. IsFiniteSet(ports) /\ Cardinality(ports) <= 4
  BY AtMostFour
<1>7. p.width \in Nat \ {0} /\ p.height \in Nat \ {0}
  BY <1>1, SMT
<1> HIDE DEF ports
<1>8. WellMade(p)
  BY <1>1, <1>2, <1>4, <1>5, <1>6, <1>7 DEF WellMade
<1> QED BY <1>8 DEF p

\* The grids whose columns differ in their operators.
LEMMA EnergyIsWellMade ==
    ASSUME NEW w \in Nat \ {0}, NEW h \in Nat \ {0}, NEW trigonometryPes, NEW port
    PROVE  WellMade(Energy(w, h, trigonometryPes, {port}))
<1> DEFINE p == Energy(w, h, trigonometryPes, {port})
           pes == Pes(w, h)
           uneven == {pe \in pes : pe[1] % 2 # 0}
           most == Everything \ {"trigonometry"}
           s == <<Star, OperatorsFor(uneven, most), OperatorsFor(pes \ uneven, EvenColumns),
                  OperatorsFor(trigonometryPes, {"trigonometry"}),
                  OperatorsFor({port}, memoryOperators)>>
<1>1. p.width = w /\ p.height = h /\ p.statements = s
  BY DEF Energy
<1> HIDE DEF pes, uneven, most
<1>2. /\ Len(s) = 5 /\ s[1] = Star /\ s[2] = OperatorsFor(uneven, most)
      /\ s[3] = OperatorsFor(pes \ uneven, EvenColumns)
      /\ s[4] = OperatorsFor(trigonometryPes, {"trigonometry"})
      /\ s[5] = OperatorsFor({port}, memoryOperators) /\ s \in Seq(Range(s))
  BY SMT DEF Range
<1> HIDE DEF p, s
<1>3. /\ s[1].kind # "operators"
      /\ s[2].kind = "operators" /\ s[2].ops = most
      /\ s[3].kind = "operators" /\ s[3].ops = EvenColumns
      /\ s[4].kind = "operators" /\ s[4].ops = {"trigonometry"}
      /\ s[5].kind = "operators"
  BY <1>2 DEF Star, OperatorsFor
<1>4. StarFirst(p)
  BY <1>1, <1>2, <1>3, SMT DEF StarFirst
<1>5. Ports(p) = {port}
  <2>1. \A k \in 1 .. 4 : s[k].kind = "operators" => "memory" \notin s[k].ops
    <3>1. "memory" \notin most
      BY OperatorsWithoutMemory DEF most
    <3> QED BY <1>3, <3>1, OperatorsWithoutMemory, SMT
  <2>2. Len(p.statements) = 4 + 1 /\ p.statements[4 + 1] = OperatorsFor({port}, memoryOperators)
    BY <1>1, <1>2
  <2> QED BY <1>1, <2>1, <2>2, PortsOfLast
<1>6. IsFiniteSet({port}) /\ Cardinality({port}) <= 4
  <2>1. IsFiniteSet({port}) /\ Cardinality({port}) = 1
    BY FS_Singleton
  <2> QED BY <2>1, SMT
<1>7. WellMade(p)
  BY <1>1, <1>2, <1>4, <1>5, <1>6 DEF WellMade
<1> QED BY <1>7 DEF p

\* A link written by hand, as a number.
Key(link) == link.to[1] + 2 * link.to[2] + 6 * link.from[1] + 12 * link.from[2]

\* The links written by hand: within the grid, each with its reverse, none twice.
LEMMA HandWrittenLinks ==
    /\ Len(IrregularLinks) = 18
    /\ \A k \in 1 .. 18 : \E to, from \in Pes(2, 3) :
          /\ IrregularLinks[k] = Input(to, from)
          /\ \E j \in 1 .. 18 : IrregularLinks[j] = Input(from, to)
    /\ \A j, k \in 1 .. 18 : IrregularLinks[j] = IrregularLinks[k] => j = k
<1>1. /\ IrregularLinks[1] = Input(<<0, 0>>, <<1, 0>>) /\ IrregularLinks[2] = Input(<<1, 0>>, <<0, 0>>)
      /\ IrregularLinks[3] = Input(<<0, 1>>, <<0, 0>>) /\ IrregularLinks[4] = Input(<<1, 1>>, <<1, 0>>)
      /\ IrregularLinks[5] = Input(<<0, 0>>, <<0, 1>>) /\ IrregularLinks[6] = Input(<<1, 0>>, <<1, 1>>)
      /\ IrregularLinks[7] = Input(<<0, 1>>, <<1, 1>>) /\ IrregularLinks[8] = Input(<<1, 1>>, <<0, 1>>)
      /\ IrregularLinks[9] = Input(<<0, 2>>, <<0, 1>>) /\ IrregularLinks[10] = Input(<<1, 2>>, <<1, 1>>)
      /\ IrregularLinks[11] = Input(<<0, 2>>, <<1, 1>>) /\ IrregularLinks[12] = Input(<<1, 2>>, <<0, 1>>)
      /\ IrregularLinks[13] = Input(<<0, 1>>, <<0, 2>>) /\ IrregularLinks[14] = Input(<<1, 1>>, <<1, 2>>)
      /\ IrregularLinks[15] = Input(<<1, 1>>, <<0, 2>>) /\ IrregularLinks[16] = Input(<<0, 1>>, <<1, 2>>)
      /\ IrregularLinks[17] = Input(<<0, 2>>, <<1, 2>>) /\ IrregularLinks[18] = Input(<<1, 2>>, <<0, 2>>)
      /\ Len(IrregularLinks) = 18
  BY SMT DEF IrregularLinks
<1>2. \A k \in 1 .. 18 : k \in {1, 2, 3, 4, 5, 6, 7, 8, 9} \/ k \in {10, 11, 12, 13, 14, 15, 16, 17, 18}
  BY SMT
<1>3. /\ <<0, 0>> \in Pes(2, 3) /\ <<1, 0>> \in Pes(2, 3) /\ <<0, 1>> \in Pes(2, 3)
      /\ <<1, 1>> \in Pes(2, 3) /\ <<0, 2>> \in Pes(2, 3) /\ <<1, 2>> \in Pes(2, 3)
  BY SMT DEF Pes
<1>4. \A k \in 1 .. 18 : \E to, from \in Pes(2, 3) :
         /\ IrregularLinks[k] = Input(to, from)
         /\ \E j \in 1 .. 18 : IrregularLinks[j] = Input(from, to)
  <2> DEFINE Q(k) == \E to, from \in Pes(2, 3) :
                        /\ IrregularLinks[k] = Input(to, from)
                        /\ \E j \in 1 .. 18 : IrregularLinks[j] = Input(from, to)
  <2>1. Q(1)
    BY <1>1, <1>3, 2 \in 1 .. 18
  <2>2. Q(2)
    BY <1>1, <1>3, 1 \in 1 .. 18
  <2>3. Q(3)
    BY <1>1, <1>3, 5 \in 1 .. 18
  <2>4. Q(4)
    BY <1>1, <1>3, 6 \in 1 .. 18
  <2>5. Q(5)
    BY <1>1, <1>3, 3 \in 1 .. 18
  <2>6. Q(6)
    BY <1>1, <1>3, 4 \in 1 .. 18
  <2>7. Q(7)
    BY <1>1, <1>3, 8 \in 1 .. 18
  <2>8. Q(8)
    BY <1>1, <1>3, 7 \in 1 .. 18
  <2>9. Q(9)
    BY <1>1, <1>3, 13 \in 1 .. 18
  <2>10. Q(10)
    BY <1>1, <1>3, 14 \in 1 .. 18
  <2>11. Q(11)
    BY <1>1, <1>3, 15 \in 1 .. 18
  <2>12. Q(12)
    BY <1>1, <1>3, 16 \in 1 .. 18
  <2>13. Q(13)
    BY <1>1, <1>3, 9 \in 1 .. 18
  <2>14. Q(14)
    BY <1>1, <1>3, 10 \in 1 .. 18
  <2>15. Q(15)
    BY <1>1, <1>3, 11 \in 1 .. 18
  <2>16. Q(16)
    BY <1>1, <1>3, 12 \in 1 .. 18
  <2>17. Q(17)
    BY <1>1, <1>3, 18 \in 1 .. 18
  <2>18. Q(18)
    BY <1>1, <1>3, 17 \in 1 .. 18
  <2> HIDE DEF Q
  <2>19. \A k \in 1 .. 18 : Q(k)
    BY <1>2, <2>1, <2>2, <2>3, <2>4, <2>5, <2>6, <2>7, <2>8, <2>9, <2>10, <2>11, <2>12, <2>13, <2>14, <2>15, <2>16, <2>17, <2>18
  <2> QED BY <2>19 DEF Q
<1>5. /\ Key(IrregularLinks[1]) = 6 /\ Key(IrregularLinks[2]) = 1
      /\ Key(IrregularLinks[3]) = 2 /\ Key(IrregularLinks[4]) = 9
      /\ Key(IrregularLinks[5]) = 12 /\ Key(IrregularLinks[6]) = 19
      /\ Key(IrregularLinks[7]) = 20 /\ Key(IrregularLinks[8]) = 15
      /\ Key(IrregularLinks[9]) = 16 /\ Key(IrregularLinks[10]) = 23
      /\ Key(IrregularLinks[11]) = 22 /\ Key(IrregularLinks[12]) = 17
      /\ Key(IrregularLinks[13]) = 26 /\ Key(IrregularLinks[14]) = 33
      /\ Key(IrregularLinks[15]) = 27 /\ Key(IrregularLinks[16]) = 32
      /\ Key(IrregularLinks[17]) = 34 /\ Key(IrregularLinks[18]) = 29
  BY <1>1, SMT DEF Key, Input
<1>6. \A j, k \in 1 .. 18 : Key(IrregularLinks[j]) = Key(IrregularLinks[k]) => j = k
  BY <1>2, <1>5, SMT
<1> QED BY <1>1, <1>4, <1>6

\* The grid linked by hand.
LEMMA IrregularIsWellMade == WellMade(IrregularInterconnect2MemFloat)
<1> DEFINE p == IrregularInterconnect2MemFloat
           ports == {<<0, 0>>, <<1, 2>>}
           all == OperatorsFor(Pes(2, 3), Everything)
           memory == OperatorsFor(ports, memoryOperators)
           links == IrregularLinks
           S == {links[k] : k \in 1 .. 18} \cup {all, memory}
           s == links \o <<all, memory>>
<1>1. p.width = 2 /\ p.height = 3 /\ p.statements = s
  BY DEF IrregularInterconnect2MemFloat
<1>2. /\ s \in Seq(S) /\ Len(s) = 20 /\ s[19] = all /\ s[20] = memory
      /\ \A k \in 1 .. 18 : s[k] = links[k]
  <2>1. links \in Seq(S)
    <3>1. links = [k \in 1 .. 18 |-> links[k]]
      BY SMT DEF IrregularLinks
    <3> QED BY <3>1
  <2>2. <<all, memory>> \in Seq(S) /\ Len(<<all, memory>>) = 2
    OBVIOUS
  <2>3. <<all, memory>>[1] = all /\ <<all, memory>>[2] = memory
    OBVIOUS
  <2>4. /\ s \in Seq(S) /\ Len(s) = Len(links) + Len(<<all, memory>>)
        /\ \A i \in 1 .. Len(links) + Len(<<all, memory>>) : s[i] =
              IF i <= Len(links) THEN links[i] ELSE <<all, memory>>[i - Len(links)]
    BY <2>1, <2>2, ConcatProperties
  <2>5. Len(links) = 18
    BY HandWrittenLinks
  <2> HIDE DEF s, S, links, all, memory
  <2> QED BY <2>2, <2>3, <2>4, <2>5, SMT
<1>3. /\ all.kind = "operators" /\ all.ops = Everything
      /\ memory.kind = "operators"
  BY DEF OperatorsFor
<1>4. s \in Seq(Range(s))
  <2> HIDE DEF s, S
  <2>1. Len(s) \in Nat /\ s \in [1 .. Len(s) -> S]
    BY <1>2, LenProperties
  <2> QED BY <2>1 DEF Range
<1>5. ASSUME NEW k \in 1 .. 18
      PROVE  /\ s[k].kind = "input"
             /\ \E to, from \in Pes(2, 3) :
                   /\ s[k] = Input(to, from)
                   /\ \E j \in 1 .. 20 : s[j] = Input(from, to)
  <2>1. PICK to \in Pes(2, 3), from \in Pes(2, 3) :
           /\ links[k] = Input(to, from)
           /\ \E j \in 1 .. 18 : links[j] = Input(from, to)
    BY HandWrittenLinks
  <2>2. PICK j \in 1 .. 18 : links[j] = Input(from, to)
    BY <2>1
  <2>3. j \in 1 .. 20
    BY SMT
  <2>4. s[k] = Input(to, from) /\ s[j] = Input(from, to)
    BY <1>2, <2>1, <2>2
  <2>5. Input(to, from).kind = "input"
    BY DEF Input
  <2> HIDE DEF s
  <2> QED BY <2>3, <2>4, <2>5
<1> HIDE DEF p, s, ports, all, memory, links
<1>6. \A k \in 1 .. 20 : k \in 1 .. 18 \/ k = 19 \/ k = 20
  BY SMT
<1>7. ByHand(p)
  <2>1. ASSUME NEW k \in 1 .. 20
        PROVE  \/ s[k].kind = "operators"
               \/ \E to, from \in Pes(2, 3) :
                     /\ s[k] = Input(to, from)
                     /\ \E j \in 1 .. 20 : s[j] = Input(from, to)
    BY <1>2, <1>3, <1>5, <1>6
  <2>2. ASSUME NEW j \in 1 .. 20, NEW k \in 1 .. 20, s[j].kind = "input", s[j] = s[k]
        PROVE  j = k
    <3>1. j \in 1 .. 18 /\ k \in 1 .. 18
      BY <1>2, <1>3, <1>6, <2>2
    <3>2. links[j] = links[k]
      BY <1>2, <2>2, <3>1
    <3> QED BY <3>1, <3>2, HandWrittenLinks DEF links
  <2>3. Len(p.statements) = 20
    BY <1>1, <1>2
  <2>4. \A k \in 1 .. Len(p.statements) :
           \/ p.statements[k].kind = "operators"
           \/ \E to, from \in Pes(p.width, p.height) :
                 /\ p.statements[k] = Input(to, from)
                 /\ \E j \in 1 .. Len(p.statements) : p.statements[j] = Input(from, to)
    BY <1>1, <2>1, <2>3
  <2>5. \A j, k \in 1 .. Len(p.statements) :
           /\ p.statements[j].kind = "input" /\ p.statements[j] = p.statements[k]
           => j = k
    BY <1>1, <2>2, <2>3
  <2> QED BY <2>4, <2>5 DEF ByHand
<1>8. Ports(p) = ports
  <2>1. ASSUME NEW k \in 1 .. 19, s[k].kind = "operators"
        PROVE  "memory" \notin s[k].ops
    <3>1. k = 19
      <4>1. k \in 1 .. 18 \/ k = 19
        BY SMT
      <4> QED BY <1>5, <2>1, <4>1
    <3> QED BY <1>2, <1>3, <3>1, OperatorsWithoutMemory
  <2>2. Len(p.statements) = 19 + 1
    BY <1>1, <1>2, SMT
  <2>3. p.statements[19 + 1] = OperatorsFor(ports, memoryOperators)
    <3>1. 19 + 1 = 20
      BY SMT
    <3> QED BY <1>1, <1>2, <3>1 DEF memory
  <2> QED BY <1>1, <2>1, <2>2, <2>3, PortsOfLast
<1>9. IsFiniteSet(ports) /\ Cardinality(ports) <= 4
  BY AtMostFour DEF ports
<1>10. p.width \in Nat \ {0} /\ p.height \in Nat \ {0}
  BY <1>1, SMT
<1>11. WellMade(p)
  BY <1>1, <1>4, <1>7, <1>8, <1>9, <1>10 DEF WellMade
<1> QED BY <1>11 DEF p

\* A row of memory PEs across a grid of four columns.
LEMMA RowOfFour == IsFiniteSet(Pes(4, 1)) /\ Cardinality(Pes(4, 1)) <= 4
<1> DEFINE columns == 0 .. 4 - 1
           rows    == 0 .. 1 - 1
<1>1. IsFiniteSet(columns) /\ Cardinality(columns) = 4
  <2>1. IsFiniteSet(columns) /\ Cardinality(columns) = IF 0 > 4 - 1 THEN 0 ELSE (4 - 1) - 0 + 1
    BY FS_Interval, 0 \in Int, 4 - 1 \in Int
  <2> HIDE DEF columns
  <2> QED BY <2>1, SMT
<1>2. IsFiniteSet(rows) /\ Cardinality(rows) = 1
  <2>1. IsFiniteSet(rows) /\ Cardinality(rows) = IF 0 > 1 - 1 THEN 0 ELSE (1 - 1) - 0 + 1
    BY FS_Interval, 0 \in Int, 1 - 1 \in Int
  <2> HIDE DEF rows
  <2> QED BY <2>1, SMT
<1>3. /\ IsFiniteSet(columns \X rows)
      /\ Cardinality(columns \X rows) = Cardinality(columns) * Cardinality(rows)
  BY <1>1, <1>2, FS_Product
<1>4. Pes(4, 1) = columns \X rows
  BY DEF Pes
<1> HIDE DEF columns, rows
<1> QED BY <1>1, <1>2, <1>3, <1>4, SMT

\* The standard grids with two memory PEs, or one.
LEMMA TwoPortsAreWellMade ==
    ASSUME NEW w \in Nat \ {0}, NEW h \in Nat \ {0}, NEW ops, "memory" \notin ops,
           NEW a, NEW b
    PROVE  WellMade(Standard(w, h, ops, {a, b}))
<1>1. IsFiniteSet({a, b}) /\ Cardinality({a, b}) <= 4
  BY AtMostFour
<1> QED BY <1>1, StandardIsWellMade

\* All configurations are well made.
LEMMA ProvidersAreWellMade ==
    ASSUME NEW config \in Names
    PROVE  WellMade(Provider[config])
<1>1. 1 \in Nat \ {0} /\ 2 \in Nat \ {0} /\ 3 \in Nat \ {0} /\ 4 \in Nat \ {0}
  BY SMT
<1>2. CASE config = "irregular"
  <2>1. Provider[config] = IrregularInterconnect2MemFloat
    BY <1>2, SMT DEF Provider
  <2> QED BY <2>1, IrregularIsWellMade
<1>3. CASE config = "toroidal"
  <2>1. Provider[config] = Toroidal4x4MatrixStar2MemFloat
    BY <1>3, SMT DEF Provider
  <2> QED BY <2>1, TorusIsWellMade
<1>4. CASE config = "performance"
  <2>1. Provider[config] = Standard(4, 4, Everything, {<<2, 0>>, <<1, 3>>})
    BY <1>4, SMT DEF Provider, PerformanceFocused
  <2>2. WellMade(Standard(4, 4, Everything, {<<2, 0>>, <<1, 3>>}))
    BY <1>1, OperatorsWithoutMemory, TwoPortsAreWellMade
  <2> QED BY <2>1, <2>2
<1>5. CASE config = "performanceTest"
  <2>1. Provider[config] = Standard(4, 4, Everything, Pes(4, 1))
    BY <1>5, SMT DEF Provider, PerformanceFocused_Test
  <2> QED BY <2>1, <1>1, RowOfFour, OperatorsWithoutMemory, StandardIsWellMade
<1>6. CASE config = "energy"
  <2>1. Provider[config] = Energy(2, 4, {<<1, 1>>, <<0, 2>>}, {<<0, 1>>})
    BY <1>6, SMT DEF Provider, EnergyFocused
  <2> QED BY <2>1, <1>1, EnergyIsWellMade
<1>7. CASE config = "energyTest"
  <2>1. Provider[config] = Energy(3, 1, {<<1, 0>>, <<2, 0>>}, {<<0, 0>>})
    BY <1>7, SMT DEF Provider, EnergyFocused_Test
  <2> QED BY <2>1, <1>1, EnergyIsWellMade
<1>8. CASE config = "2x2float"
  <2>1. Provider[config] = Standard(2, 2, Everything, {<<0, 0>>, <<1, 1>>})
    BY <1>8, SMT DEF Provider
  <2>2. WellMade(Standard(2, 2, Everything, {<<0, 0>>, <<1, 1>>}))
    BY <1>1, OperatorsWithoutMemory, TwoPortsAreWellMade
  <2> QED BY <2>1, <2>2
<1>9. CASE config = "2x2int"
  <2>1. Provider[config] = Standard(2, 2, all32BitIntegerOperators, {<<0, 0>>, <<1, 1>>})
    BY <1>9, SMT DEF Provider
  <2>2. WellMade(Standard(2, 2, all32BitIntegerOperators, {<<0, 0>>, <<1, 1>>}))
    BY <1>1, OperatorsWithoutMemory, TwoPortsAreWellMade
  <2> QED BY <2>1, <2>2
<1>10. CASE config = "2x2int1"
  <2>1. Provider[config] = Standard(2, 2, all32BitIntegerOperators, {<<0, 0>>})
    BY <1>10, SMT DEF Provider
  <2>2. WellMade(Standard(2, 2, all32BitIntegerOperators, {<<0, 0>>, <<0, 0>>}))
    BY <1>1, OperatorsWithoutMemory, TwoPortsAreWellMade
  <2>3. {<<0, 0>>} = {<<0, 0>>, <<0, 0>>}
    OBVIOUS
  <2> QED BY <2>1, <2>2, <2>3
<1>11. CASE config = "4x4float"
  <2>1. Provider[config] = Standard(4, 4, Everything, {<<2, 0>>, <<1, 3>>})
    BY <1>11, SMT DEF Provider
  <2>2. WellMade(Standard(4, 4, Everything, {<<2, 0>>, <<1, 3>>}))
    BY <1>1, OperatorsWithoutMemory, TwoPortsAreWellMade
  <2> QED BY <2>1, <2>2
<1>12. CASE config = "4x4int"
  <2>1. Provider[config] = Standard(4, 4, all32BitIntegerOperators, {<<2, 0>>, <<1, 3>>})
    BY <1>12, SMT DEF Provider
  <2>2. WellMade(Standard(4, 4, all32BitIntegerOperators, {<<2, 0>>, <<1, 3>>}))
    BY <1>1, OperatorsWithoutMemory, TwoPortsAreWellMade
  <2> QED BY <2>1, <2>2
<1>13. CASE config = "4x4int1"
  <2>1. Provider[config] = Standard(4, 4, all32BitIntegerOperators, {<<2, 0>>})
    BY <1>13, SMT DEF Provider
  <2>2. WellMade(Standard(4, 4, all32BitIntegerOperators, {<<2, 0>>, <<2, 0>>}))
    BY <1>1, OperatorsWithoutMemory, TwoPortsAreWellMade
  <2>3. {<<2, 0>>} = {<<2, 0>>, <<2, 0>>}
    OBVIOUS
  <2> QED BY <2>1, <2>2, <2>3
<1> QED BY <1>2, <1>3, <1>4, <1>5, <1>6, <1>7, <1>8, <1>9, <1>10, <1>11, <1>12, <1>13, NamesAssumption

-------------------------------------------------------------------------------
(* Providers at work *)

here == Provider[name]
full == Pes(here.width, here.height)

\* What a grid is while it is built and used.
GridInv ==
    /\ name \in Names
    /\ phase \in {"build", "idle", "run", "stored"}
    /\ at \in 1 .. Len(here.statements) + 1
    /\ phase # "build" => at = Len(here.statements) + 1
    /\ inputs \in [full -> SUBSET full]
    /\ doubled = FALSE

\* The star and the torus link both ways all the time, and the torus is closed
\* when there is nothing but the star; by hand exactly the links of the
\* statements done are there.
LinksInv ==
    /\ StarFirst(here) =>
          /\ at = 1 => \A pe \in full : inputs[pe] = {}
          /\ at = 2 => \A pe, from \in full :
                          from \in inputs[pe] => Straight(pe, from) \/ Diagonal(pe, from)
          /\ \A a, b \in full : a \in inputs[b] <=> b \in inputs[a]
    /\ ByHand(here) =>
          \A a, b \in full :
              a \in inputs[b] <=> \E k \in 1 .. at - 1 : here.statements[k] = Input(b, a)

\* Memory operators are where a statement asks for them.
PortsInv ==
    /\ DOMAIN operators = full
    /\ operators = [pe \in full |-> operators[pe]]
    /\ \A pe \in full : "memory" \in operators[pe] => pe \in Ports(here)

\* The values of a kernel are held in the grid.
KernelInv == \A operand \in DOMAIN holders : holders[operand] \subseteq full

ConfigInv == GridInv /\ LinksInv /\ PortsInv /\ KernelInv

\* The grid of the configuration.
LEMMA TheGrid ==
    ASSUME GridInv
    PROVE  /\ WellMade(here) /\ grid = full
           /\ here.width \in Nat \ {0} /\ here.height \in Nat \ {0}
           /\ width = here.width /\ height = here.height
           /\ Len(here.statements) \in Nat
           /\ DOMAIN here.statements = 1 .. Len(here.statements)
<1>1. WellMade(here)
  BY ProvidersAreWellMade DEF GridInv, here
<1>2. here.statements \in Seq(Range(here.statements))
  BY <1>1 DEF WellMade
<1>3. Len(here.statements) \in Nat /\ DOMAIN here.statements = 1 .. Len(here.statements)
  BY <1>2, LenProperties
<1>4. grid = full
  BY DEF GridInv, grid
<1>5. width = here.width /\ height = here.height
  BY DEF width, height, here
<1> QED BY <1>1, <1>3, <1>4, <1>5 DEF WellMade

\* A PE is a pair of numbers within the borders.
LEMMA PeIsPair ==
    ASSUME GridInv, NEW pe \in full
    PROVE  /\ pe = <<pe[1], pe[2]>>
           /\ pe[1] \in 0 .. here.width - 1 /\ pe[2] \in 0 .. here.height - 1
           /\ pe[1] \in Nat /\ pe[2] \in Nat
<1>1. pe \in (0 .. here.width - 1) \X (0 .. here.height - 1)
  BY DEF full, Pes
<1>2. /\ pe = <<pe[1], pe[2]>>
      /\ pe[1] \in 0 .. here.width - 1 /\ pe[2] \in 0 .. here.height - 1
  BY <1>1
<1>3. here.width \in Nat /\ here.height \in Nat
  BY TheGrid
<1> QED BY <1>2, <1>3, SMT

\* Being neighbours is mutual.
LEMMA NeighboursAreMutual ==
    ASSUME NEW a, NEW b, a[1] \in Nat, a[2] \in Nat, b[1] \in Nat, b[2] \in Nat
    PROVE  /\ Straight(a, b) <=> Straight(b, a)
           /\ Diagonal(a, b) <=> Diagonal(b, a)
<1>1. Apart(a[1], b[1]) = Apart(b[1], a[1]) /\ Apart(a[2], b[2]) = Apart(b[2], a[2])
  BY SMT DEF Apart
<1> QED BY <1>1 DEF Straight, Diagonal

\* What the statement at hand can be, in either shape.
LEMMA StatementAtHand ==
    ASSUME GridInv, at \in DOMAIN here.statements
    PROVE  /\ at \in 1 .. Len(here.statements) /\ statement = here.statements[at]
           /\ StarFirst(here) =>
                 /\ statement.kind # "input"
                 /\ statement.kind = "star" => at = 1
                 /\ statement.kind = "wrap" => at = 2 /\ width > 2 /\ height > 2
           /\ ByHand(here) =>
                 /\ statement.kind \notin {"star", "wrap"}
                 /\ statement.kind = "input" =>
                       \E to, from \in full : statement = Input(to, from)
<1>1. at \in 1 .. Len(here.statements) /\ statement = here.statements[at]
  BY TheGrid DEF statement, here
<1>2. ASSUME StarFirst(here)
      PROVE  /\ statement.kind # "input"
             /\ statement.kind = "star" => at = 1
             /\ statement.kind = "wrap" => at = 2 /\ width > 2 /\ height > 2
  <2>1. CASE at = 1
    BY <1>1, <1>2, <2>1 DEF StarFirst, Star
  <2>2. CASE at # 1
    <3>1. at \in 2 .. Len(here.statements)
      BY <1>1, <2>2, TheGrid, SMT
    <3>2. \/ statement.kind = "operators"
          \/ at = 2 /\ statement = Wrap /\ here.width > 2 /\ here.height > 2
      BY <1>1, <1>2, <3>1 DEF StarFirst
    <3>3. Wrap.kind = "wrap"
      BY DEF Wrap
    <3> QED BY <3>2, <3>3, TheGrid
  <2> QED BY <2>1, <2>2
<1>3. ASSUME ByHand(here)
      PROVE  /\ statement.kind \notin {"star", "wrap"}
             /\ statement.kind = "input" =>
                   \E to, from \in full : statement = Input(to, from)
  <2>1. \/ statement.kind = "operators"
        \/ \E to, from \in full : statement = Input(to, from)
    BY <1>1, <1>3 DEF ByHand, full
  <2>2. \A to, from : Input(to, from).kind = "input"
    BY DEF Input
  <2> QED BY <2>1, <2>2
<1> QED BY <1>1, <1>2, <1>3

\* What adding inputs does to the grid.
LEMMA AddInputsKeepsGrid ==
    ASSUME GridInv, phase = "build", at \in DOMAIN here.statements,
           NEW more \in [full -> SUBSET full], AddInputs(more),
           \A pe \in full : inputs[pe] \cap more[pe] = {}
    PROVE  /\ GridInv' /\ at' = at + 1 /\ here' = here /\ full' = full
           /\ \A pe \in full : inputs'[pe] = inputs[pe] \cup more[pe]
<1>1. /\ inputs' = [pe \in full |-> inputs[pe] \cup more[pe]]
      /\ at' = at + 1 /\ name' = name /\ phase' = phase
      /\ doubled' = (doubled \/ \E pe \in full : inputs[pe] \cap more[pe] # {})
  BY TheGrid DEF AddInputs, kernel
<1>2. here' = here /\ full' = full
  BY <1>1 DEF here, full
<1>3. inputs' \in [full -> SUBSET full]
  BY <1>1 DEF GridInv
<1>4. doubled' = FALSE
  BY <1>1 DEF GridInv
<1>5. at + 1 \in 1 .. Len(here.statements) + 1
  <2>1. Len(here.statements) \in Nat /\ at \in 1 .. Len(here.statements)
    BY TheGrid
  <2> QED BY <2>1, SMT
<1> QED BY <1>1, <1>2, <1>3, <1>4, <1>5 DEF GridInv

\* The input that closes the torus at (x, y): of the first and the last column it
\* is the PE at the other end of the row, elsewhere that at the other end of the
\* column.
LEMMA WrapOfBorders ==
    ASSUME NEW x \in Nat, NEW y \in Nat, NEW from,
           rightBorder \in Nat, bottomBorder \in Nat
    PROVE  from \in WrapOf(x, y) <=>
              \/ x = 0 /\ from = <<rightBorder, y>>
              \/ x # 0 /\ x = rightBorder /\ from = <<0, y>>
              \/ x \notin {0, rightBorder} /\ y = 0 /\ from = <<x, bottomBorder>>
              \/ x \notin {0, rightBorder} /\ y # 0 /\ y = bottomBorder /\ from = <<x, 0>>
<1>1. CASE x = 0
  <2>1. WrapOf(x, y) = {<<rightBorder, y>>}
    BY <1>1 DEF WrapOf
  <2> QED BY <1>1, <2>1
<1>2. CASE x # 0 /\ x = rightBorder
  <2>1. WrapOf(x, y) = {<<0, y>>}
    BY <1>2 DEF WrapOf
  <2> QED BY <1>2, <2>1
<1>3. CASE x \notin {0, rightBorder} /\ y = 0
  <2>1. WrapOf(x, y) = {<<x, bottomBorder>>}
    BY <1>3 DEF WrapOf
  <2> QED BY <1>3, <2>1
<1>4. CASE x \notin {0, rightBorder} /\ y # 0 /\ y = bottomBorder
  <2>1. WrapOf(x, y) = {<<x, 0>>}
    BY <1>4 DEF WrapOf
  <2> QED BY <1>4, <2>1
<1>5. CASE x \notin {0, rightBorder} /\ y # 0 /\ y # bottomBorder
  <2>1. WrapOf(x, y) = {}
    BY <1>5 DEF WrapOf
  <2> QED BY <1>5, <2>1
<1> QED BY <1>1, <1>2, <1>3, <1>4, <1>5

\* On every grid the wrapped links are in the grid and in pairs; if it has more
\* than two rows and columns they are none of the star's.
LEMMA WrapIsMutual ==
    ASSUME GridInv, NEW a \in full, NEW b \in full
    PROVE  /\ WrapOf(b[1], b[2]) \subseteq full
           /\ a \in WrapOf(b[1], b[2]) <=> b \in WrapOf(a[1], a[2])
           /\ a \in WrapOf(b[1], b[2]) /\ width > 2 /\ height > 2 =>
                 ~ Straight(b, a) /\ ~ Diagonal(b, a)
<1> DEFINE r == rightBorder
           m == bottomBorder
           Wraps(x, y, u, v) ==
              \/ x = 0 /\ u = r /\ v = y
              \/ x # 0 /\ x = r /\ u = 0 /\ v = y
              \/ x \notin {0, r} /\ y = 0 /\ u = x /\ v = m
              \/ x \notin {0, r} /\ y # 0 /\ y = m /\ u = x /\ v = 0
<1>1. /\ width \in Nat \ {0} /\ height \in Nat \ {0}
      /\ width = here.width /\ height = here.height
  BY TheGrid
<1>2. r = width - 1 /\ m = height - 1 /\ r \in Nat /\ m \in Nat
  BY <1>1, SMT DEF rightBorder, bottomBorder
<1>3. /\ a = <<a[1], a[2]>> /\ a[1] \in 0 .. r /\ a[2] \in 0 .. m
      /\ a[1] \in Nat /\ a[2] \in Nat
  BY <1>1, <1>2, PeIsPair
<1>4. /\ b = <<b[1], b[2]>> /\ b[1] \in 0 .. r /\ b[2] \in 0 .. m
      /\ b[1] \in Nat /\ b[2] \in Nat
  BY <1>1, <1>2, PeIsPair
<1>5. ASSUME NEW x \in Nat, NEW y \in Nat, NEW u, NEW v
      PROVE  <<u, v>> \in WrapOf(x, y) <=> Wraps(x, y, u, v)
  BY <1>2, WrapOfBorders
<1>6. WrapOf(b[1], b[2]) \subseteq full
  <2> SUFFICES ASSUME NEW from \in WrapOf(b[1], b[2]) PROVE from \in full
    OBVIOUS
  <2>1. full = (0 .. r) \X (0 .. m)
    BY <1>1, <1>2 DEF full, Pes
  <2>2. 0 \in 0 .. r /\ r \in 0 .. r /\ 0 \in 0 .. m /\ m \in 0 .. m
    BY <1>2, SMT
  <2>3. from \in {<<r, b[2]>>, <<0, b[2]>>, <<b[1], m>>, <<b[1], 0>>}
    BY <1>2, <1>4, WrapOfBorders
  <2> HIDE DEF r, m
  <2> QED BY <1>4, <2>1, <2>2, <2>3
<1>7. a \in WrapOf(b[1], b[2]) <=> Wraps(b[1], b[2], a[1], a[2])
  <2>1. <<a[1], a[2]>> \in WrapOf(b[1], b[2]) <=> Wraps(b[1], b[2], a[1], a[2])
    BY <1>4, <1>5
  <2> QED BY <1>3, <2>1
<1>8. b \in WrapOf(a[1], a[2]) <=> Wraps(a[1], a[2], b[1], b[2])
  <2>1. <<b[1], b[2]>> \in WrapOf(a[1], a[2]) <=> Wraps(a[1], a[2], b[1], b[2])
    BY <1>3, <1>5
  <2> QED BY <1>4, <2>1
<1> HIDE DEF r, m
<1>9. Wraps(b[1], b[2], a[1], a[2]) <=> Wraps(a[1], a[2], b[1], b[2])
  BY <1>2, <1>3, <1>4, SMT
<1>10. Wraps(b[1], b[2], a[1], a[2]) /\ width > 2 /\ height > 2 =>
          ~ Straight(b, a) /\ ~ Diagonal(b, a)
  BY <1>1, <1>2, <1>3, <1>4, SMT DEF Straight, Diagonal, Apart
<1> HIDE DEF Wraps
<1> QED BY <1>6, <1>7, <1>8, <1>9, <1>10

\* The star on the bare grid.
LEMMA StarKeepsLinks ==
    ASSUME ConfigInv, MatrixStarInterconnect
    PROVE  GridInv' /\ LinksInv'
<1> USE DEF ConfigInv
<1>1. /\ phase = "build" /\ at \in DOMAIN here.statements /\ statement.kind = "star"
  BY DEF MatrixStarInterconnect, here
<1>2. PICK diagonals \in BOOLEAN :
         AddInputs([pe \in full |-> {from \in full :
                       Straight(pe, from) \/ (diagonals /\ Diagonal(pe, from))}])
  BY TheGrid DEF MatrixStarInterconnect
<1> DEFINE more == [pe \in full |-> {from \in full :
                       Straight(pe, from) \/ (diagonals /\ Diagonal(pe, from))}]
<1>3. at = 1 /\ StarFirst(here) /\ ~ ByHand(here)
  BY <1>1, StatementAtHand, TheGrid DEF WellMade
<1>4. \A pe \in full : inputs[pe] = {}
  BY <1>3 DEF LinksInv
<1>5. more \in [full -> SUBSET full]
  OBVIOUS
<1>6. \A pe, from \in full :
         from \in more[pe] <=> Straight(pe, from) \/ (diagonals /\ Diagonal(pe, from))
  OBVIOUS
<1>7. AddInputs(more) /\ \A pe \in full : inputs[pe] \cap more[pe] = {}
  BY <1>2, <1>4
<1> HIDE DEF more
<1>8. /\ GridInv' /\ at' = 2 /\ here' = here /\ full' = full
      /\ \A pe \in full : inputs'[pe] = more[pe]
  <2>1. /\ GridInv' /\ at' = at + 1 /\ here' = here /\ full' = full
        /\ \A pe \in full : inputs'[pe] = inputs[pe] \cup more[pe]
    BY <1>1, <1>5, <1>7, AddInputsKeepsGrid
  <2>2. 1 + 1 = 2
    BY SMT
  <2> QED BY <1>3, <1>4, <2>1, <2>2
<1>9. \A pe, from \in full : from \in inputs'[pe] => Straight(pe, from) \/ Diagonal(pe, from)
  BY <1>6, <1>8
<1>10. ASSUME NEW a \in full, NEW b \in full
       PROVE  a \in inputs'[b] <=> b \in inputs'[a]
  <2>1. /\ Straight(a, b) <=> Straight(b, a)
        /\ Diagonal(a, b) <=> Diagonal(b, a)
    BY PeIsPair, NeighboursAreMutual
  <2> QED BY <1>6, <1>8, <2>1
<1>11. 2 # 1
  BY SMT
<1> QED BY <1>3, <1>8, <1>9, <1>10, <1>11 DEF LinksInv

\* Closing the torus.
LEMMA WrapKeepsLinks ==
    ASSUME ConfigInv, ForEachCoordinate
    PROVE  GridInv' /\ LinksInv'
<1> USE DEF ConfigInv
<1> DEFINE more == [pe \in full |-> WrapOf(pe[1], pe[2])]
<1>1. /\ phase = "build" /\ at \in DOMAIN here.statements /\ statement.kind = "wrap"
      /\ AddInputs(more)
  BY TheGrid DEF ForEachCoordinate, here
<1>2. /\ at = 2 /\ width > 2 /\ height > 2 /\ StarFirst(here) /\ ~ ByHand(here)
  BY <1>1, StatementAtHand, TheGrid DEF WellMade
<1>3. more \in [full -> SUBSET full]
  BY WrapIsMutual
<1>4. \A pe \in full : more[pe] = WrapOf(pe[1], pe[2])
  OBVIOUS
<1> HIDE DEF more
<1>5. ASSUME NEW pe \in full, NEW from \in inputs[pe] \cap more[pe]
      PROVE  FALSE
  <2>1. from \in full
    BY <1>3
  <2>2. Straight(pe, from) \/ Diagonal(pe, from)
    BY <1>2, <1>5, <2>1 DEF LinksInv
  <2>3. ~ Straight(pe, from) /\ ~ Diagonal(pe, from)
    BY <1>2, <1>4, <1>5, <2>1, WrapIsMutual
  <2> QED BY <2>2, <2>3
<1>6. /\ GridInv' /\ at' = at + 1 /\ here' = here /\ full' = full
      /\ \A pe \in full : inputs'[pe] = inputs[pe] \cup more[pe]
  <2>1. \A pe \in full : inputs[pe] \cap more[pe] = {}
    BY <1>5
  <2> QED BY <1>1, <1>3, <2>1, AddInputsKeepsGrid
<1>7. at' # 1 /\ at' # 2
  BY <1>2, <1>6, SMT
<1>8. ASSUME NEW a \in full, NEW b \in full
      PROVE  a \in inputs'[b] <=> b \in inputs'[a]
  <2>1. a \in more[b] <=> b \in more[a]
    BY <1>4, WrapIsMutual
  <2>2. a \in inputs[b] <=> b \in inputs[a]
    BY <1>2 DEF LinksInv
  <2> QED BY <1>6, <2>1, <2>2
<1> QED BY <1>2, <1>6, <1>7, <1>8 DEF LinksInv

\* A link written by hand.
LEMMA InputKeepsLinks ==
    ASSUME ConfigInv, AddInterconnectInput
    PROVE  GridInv' /\ LinksInv'
<1> USE DEF ConfigInv
<1>1. /\ phase = "build" /\ at \in DOMAIN here.statements /\ statement.kind = "input"
  BY DEF AddInterconnectInput, here
<1>2. ByHand(here) /\ ~ StarFirst(here)
  BY <1>1, StatementAtHand, TheGrid DEF WellMade
<1>3. PICK to \in full, from \in full : statement = Input(to, from)
  BY <1>1, <1>2, StatementAtHand
<1> DEFINE more == [pe \in full |-> IF pe = to THEN {from} ELSE {}]
<1>4. statement.to = to /\ statement.from = from
  BY <1>3 DEF Input
<1>5. AddInputs(more)
  BY <1>4, TheGrid DEF AddInterconnectInput
<1>6. more \in [full -> SUBSET full] /\ \A pe \in full : more[pe] = IF pe = to THEN {from} ELSE {}
  OBVIOUS
<1> HIDE DEF more
<1>7. at \in 1 .. Len(here.statements) /\ here.statements[at] = Input(to, from)
  BY <1>1, <1>3, StatementAtHand
<1>8. \A a, b \in full :
         a \in inputs[b] <=> \E k \in 1 .. at - 1 : here.statements[k] = Input(b, a)
  BY <1>2 DEF LinksInv
<1>9. from \notin inputs[to]
  <2> SUFFICES ASSUME NEW k \in 1 .. at - 1, here.statements[k] = Input(to, from)
               PROVE  FALSE
    BY <1>8
  <2>1. k \in 1 .. Len(here.statements) /\ k # at
    BY <1>7, TheGrid, SMT
  <2>2. here.statements[k].kind = "input"
    BY DEF Input
  <2>3. k = at
    BY <1>2, <1>7, <2>1, <2>2 DEF ByHand
  <2> QED BY <2>1, <2>3
<1>10. /\ GridInv' /\ at' = at + 1 /\ here' = here /\ full' = full
       /\ \A pe \in full : inputs'[pe] = inputs[pe] \cup more[pe]
  <2>1. \A pe \in full : inputs[pe] \cap more[pe] = {}
    BY <1>6, <1>9
  <2> QED BY <1>1, <1>5, <1>6, <2>1, AddInputsKeepsGrid
<1>11. ASSUME NEW a \in full, NEW b \in full
       PROVE  a \in inputs'[b] <=> \E k \in 1 .. at' - 1 : here.statements[k] = Input(b, a)
  <2>1. \A k : k \in 1 .. at' - 1 <=> k \in 1 .. at - 1 \/ k = at
    BY <1>7, <1>10, TheGrid, SMT
  <2>2. Input(to, from) = Input(b, a) <=> b = to /\ a = from
    BY DEF Input
  <2>3. a \in more[b] <=> b = to /\ a = from
    BY <1>6
  <2> QED BY <1>7, <1>8, <1>10, <2>1, <2>2, <2>3
<1> QED BY <1>2, <1>10, <1>11 DEF LinksInv

\* Linking leaves the operators and the values alone.
LEMMA LinkingKeepsRest ==
    ASSUME ConfigInv, MatrixStarInterconnect \/ ForEachCoordinate \/ AddInterconnectInput
    PROVE  PortsInv' /\ KernelInv'
<1>1. UNCHANGED <<name, operators, phase, kernel>>
  BY DEF MatrixStarInterconnect, ForEachCoordinate, AddInterconnectInput, AddInputs
<1>2. here' = here /\ full' = full
  BY <1>1 DEF here, full
<1>3. operators' = operators /\ holders' = holders
  BY <1>1 DEF kernel
<1> QED BY <1>2, <1>3 DEF ConfigInv, PortsInv, KernelInv

\* A statement about operators adds no link, and memory only to its own PEs.
LEMMA OperatorsKeepConfig ==
    ASSUME ConfigInv, AddOperators
    PROVE  ConfigInv'
<1> USE DEF ConfigInv
<1>1. /\ phase = "build" /\ at \in DOMAIN here.statements /\ statement.kind = "operators"
      /\ at' = at + 1 /\ UNCHANGED <<name, inputs, doubled, phase, holders>>
      /\ operators' = [pe \in full |-> operators[pe] \cup
                           (IF pe \in statement.pes THEN statement.ops ELSE {})]
  BY TheGrid DEF AddOperators, kernel, here
<1>2. here' = here /\ full' = full
  BY <1>1 DEF here, full
<1>3. at \in 1 .. Len(here.statements) /\ Len(here.statements) \in Nat
  BY <1>1, TheGrid
<1>4. at' \in 1 .. Len(here.statements) + 1 /\ at' # 1 /\ at' - 1 = at
  BY <1>1, <1>3, SMT
<1>5. GridInv'
  BY <1>1, <1>2, <1>4 DEF GridInv
<1>6. LinksInv'
  <2>1. CASE StarFirst(here)
    <3>1. ~ ByHand(here)
      <4>1. here.statements[1].kind = "star" /\ 1 \in 1 .. Len(here.statements)
        BY <1>3, <2>1, SMT DEF StarFirst, Star
      <4>2. \A to, from : Input(to, from).kind = "input"
        BY DEF Input
      <4> QED BY <4>1, <4>2 DEF ByHand
    <3>2. at # 1
      BY <1>1, <2>1, StatementAtHand DEF StarFirst, Star
    <3>3. at' # 2
      BY <1>1, <1>3, <3>2, SMT
    <3> QED BY <1>1, <1>2, <1>4, <2>1, <3>1, <3>3 DEF LinksInv
  <2>2. CASE ~ StarFirst(here)
    <3>1. ASSUME ByHand(here), NEW a \in full, NEW b \in full
          PROVE  a \in inputs[b] <=> \E k \in 1 .. at : here.statements[k] = Input(b, a)
      <4>1. \A k : k \in 1 .. at <=> k \in 1 .. at - 1 \/ k = at
        BY <1>3, SMT
      <4>2. here.statements[at] # Input(b, a)
        BY <1>1, StatementAtHand DEF Input
      <4>3. a \in inputs[b] <=> \E k \in 1 .. at - 1 : here.statements[k] = Input(b, a)
        BY <3>1 DEF LinksInv
      <4> QED BY <4>1, <4>2, <4>3
    <3> QED BY <1>1, <1>2, <1>4, <2>2, <3>1 DEF LinksInv
  <2> QED BY <2>1, <2>2
<1>7. PortsInv'
  <2>1. \A pe \in full : operators'[pe] = operators[pe] \cup
                              (IF pe \in statement.pes THEN statement.ops ELSE {})
    BY <1>1
  <2>2. ASSUME NEW pe \in full, "memory" \in operators'[pe]
        PROVE  pe \in Ports(here)
    <3>1. CASE "memory" \in operators[pe]
      BY <3>1 DEF PortsInv
    <3>2. CASE "memory" \notin operators[pe]
      <4>1. pe \in statement.pes /\ "memory" \in statement.ops
        BY <2>1, <2>2, <3>2
      <4> QED BY <1>1, <1>3, <4>1, StatementAtHand DEF Ports
    <3> QED BY <3>1, <3>2
  <2> QED BY <1>1, <1>2, <2>2 DEF PortsInv
<1>8. KernelInv'
  BY <1>1, <1>2 DEF KernelInv
<1> QED BY <1>5, <1>6, <1>7, <1>8

\* No well-made model is rejected: its memory PEs are among the ports.
LEMMA VerifyKeepsConfig ==
    ASSUME ConfigInv, Verify
    PROVE  ConfigInv'
<1> USE DEF ConfigInv
<1>1. /\ phase = "build" /\ at \notin DOMAIN here.statements
      /\ phase' = (IF AtMostFourPorts THEN "idle" ELSE "rejected")
      /\ UNCHANGED <<name, inputs, doubled, operators, at, holders>>
  BY DEF Verify, model, kernel, here
<1>2. here' = here /\ full' = full
  BY <1>1 DEF here, full
<1>3. AtMostFourPorts
  <2>1. memoryPes \in SUBSET Ports(here)
    BY TheGrid DEF memoryPes, PortsInv
  <2>2. IsFiniteSet(Ports(here)) /\ Cardinality(Ports(here)) <= 4
    BY TheGrid DEF WellMade
  <2>3. IsFiniteSet(memoryPes) /\ Cardinality(memoryPes) <= Cardinality(Ports(here))
    BY <2>1, <2>2, FS_Subset
  <2>4. Cardinality(memoryPes) \in Nat /\ Cardinality(Ports(here)) \in Nat
    BY <2>2, <2>3, FS_CardinalityType
  <2>5. Cardinality(memoryPes) <= 4
    BY <2>2, <2>3, <2>4, SMT
  <2> QED BY <2>5 DEF AtMostFourPorts
<1>4. at = Len(here.statements) + 1
  <2>1. /\ Len(here.statements) \in Nat /\ at \in 1 .. Len(here.statements) + 1
        /\ at \notin 1 .. Len(here.statements)
    BY <1>1, TheGrid DEF GridInv
  <2> QED BY <2>1, SMT
<1>5. GridInv'
  BY <1>1, <1>2, <1>3, <1>4 DEF GridInv
<1> QED BY <1>1, <1>2, <1>5 DEF LinksInv, PortsInv, KernelInv

\* A kernel leaves the grid alone, and its values in it.
LEMMA KernelKeepsConfig ==
    ASSUME ConfigInv,
           \/ \E operation \in UNION {operators[pe] : pe \in grid} : Load(operation)
           \/ \E operand \in {1, 2} : Route(operand)
           \/ \E pe \in grid : Perform(pe)
    PROVE  ConfigInv'
<1> USE DEF ConfigInv
<1>1. /\ UNCHANGED <<name, inputs, doubled, operators, at>>
      /\ phase \in {"idle", "run"} /\ phase' \in {"run", "stored"}
  BY DEF Load, Route, Perform, model
<1>2. here' = here /\ full' = full
  BY <1>1 DEF here, full
<1>3. GridInv'
  BY <1>1, <1>2 DEF GridInv
<1>4. LinksInv' /\ PortsInv'
  BY <1>1, <1>2 DEF LinksInv, PortsInv
<1>5. KernelInv'
  <2>1. CASE \E operation \in UNION {operators[pe] : pe \in grid} : Load(operation)
    <3>1. PICK a \in memoryPes, b \in memoryPes : holders' = << {a}, {b} >>
      BY <2>1 DEF Load
    <3>2. a \in full /\ b \in full
      BY TheGrid DEF memoryPes
    <3>3. \A operand \in DOMAIN holders' : holders'[operand] \in {{a}, {b}}
      BY <3>1
    <3> QED BY <1>2, <3>2, <3>3 DEF KernelInv
  <2>2. CASE \E operand \in {1, 2} : Route(operand)
    <3>1. PICK operand \in {1, 2} :
             holders' = [holders EXCEPT ![operand] = Passed(@)]
      BY <2>2 DEF Route
    <3>2. \A holding : holding \subseteq full => Passed(holding) \subseteq full
      BY TheGrid DEF Passed
    <3>3. DOMAIN holders' = DOMAIN holders
      BY <3>1
    <3>4. ASSUME NEW other \in DOMAIN holders
          PROVE  holders'[other] = (IF other = operand THEN Passed(holders[other]) ELSE holders[other])
      BY <3>1
    <3> QED BY <1>2, <3>2, <3>3, <3>4 DEF KernelInv
  <2>3. CASE \E pe \in grid : Perform(pe)
    <3>1. PICK pe \in full : holders' = IF Len(todo) = 1 THEN <<>> ELSE << {pe} >>
      BY <2>3, TheGrid DEF Perform
    <3>2. \A operand \in DOMAIN holders' : holders'[operand] = {pe}
      BY <3>1
    <3> QED BY <1>2, <3>2 DEF KernelInv
  <2> QED BY <2>1, <2>2, <2>3
<1> QED BY <1>3, <1>4, <1>5

\* The bare grid.
LEMMA ConfigInit == Init => ConfigInv
<1> SUFFICES ASSUME Init PROVE ConfigInv
  OBVIOUS
<1>1. full = Pes(width, height) /\ name \in Names
  BY DEF Init, full, here, width, height
<1>2. WellMade(here)
  BY <1>1, ProvidersAreWellMade DEF here
<1>3. Len(here.statements) \in Nat
  BY <1>2, LenProperties DEF WellMade
<1>4. at = 1 /\ 1 \in 1 .. Len(here.statements) + 1 /\ \A k \in 1 .. 1 - 1 : FALSE /\ 1 # 2
  BY <1>3, SMT DEF Init
<1>5. inputs = [pe \in full |-> {}] /\ operators = [pe \in full |-> {}]
  BY <1>1 DEF Init
<1>6. GridInv
  BY <1>1, <1>4, <1>5 DEF GridInv, Init
<1>7. LinksInv
  <2>1. \A a, b \in full : a \notin inputs[b]
    BY <1>5
  <2>2. \A k \in 1 .. at - 1 : FALSE
    BY <1>4, SMT
  <2>3. at # 2
    BY <1>4, SMT
  <2> QED BY <1>5, <2>1, <2>2, <2>3 DEF LinksInv
<1>8. PortsInv
  BY <1>5 DEF PortsInv
<1>9. KernelInv
  <2>1. DOMAIN holders = {}
    BY DEF Init
  <2> QED BY <2>1 DEF KernelInv
<1> QED BY <1>6, <1>7, <1>8, <1>9 DEF ConfigInv

\* Every step keeps the invariant.
LEMMA ConfigStep == ConfigInv /\ [Next]_vars => ConfigInv'
<1> SUFFICES ASSUME ConfigInv, [Next]_vars PROVE ConfigInv'
  OBVIOUS
<1>1. CASE MatrixStarInterconnect \/ ForEachCoordinate \/ AddInterconnectInput
  BY <1>1, StarKeepsLinks, WrapKeepsLinks, InputKeepsLinks, LinkingKeepsRest DEF ConfigInv
<1>2. CASE AddOperators
  BY <1>2, OperatorsKeepConfig
<1>3. CASE Verify
  BY <1>3, VerifyKeepsConfig
<1>4. CASE \/ \E operation \in UNION {operators[pe] : pe \in grid} : Load(operation)
           \/ \E operand \in {1, 2} : Route(operand)
           \/ \E pe \in grid : Perform(pe)
  BY <1>4, KernelKeepsConfig
<1>5. CASE UNCHANGED vars
  <2>1. UNCHANGED <<name, inputs, doubled, operators, at, phase, holders>>
    BY <1>5 DEF vars, model, kernel
  <2>2. here' = here /\ full' = full
    BY <2>1 DEF here, full
  <2> QED BY <2>1, <2>2 DEF ConfigInv, GridInv, LinksInv, PortsInv, KernelInv
<1> QED BY <1>1, <1>2, <1>3, <1>4, <1>5 DEF Next, Build

\* The shape of the grid in every state that can be reached.
LEMMA ConfigInvariance == Spec => []ConfigInv
<1> QED BY ConfigInit, ConfigStep, PTL DEF Spec

\* Providers, schedules and kernels keep the types.
THEOREM TypeCorrect == Spec => []TypeOK
<1>1. ConfigInv => TypeOK
  BY TheGrid DEF ConfigInv, GridInv, PortsInv, KernelInv, TypeOK
<1> QED BY <1>1, ConfigInvariance, PTL

\* Links are in pairs on every grid that is done, made by the library's star, by the
\* torus or by hand (IrregularInterconnect2MemFloat.kt 20-45).
THEOREM LinksAreMutual == Spec => []LinksBothWays
<1>1. ConfigInv => LinksBothWays
  <2> SUFFICES ASSUME ConfigInv, phase # "build", NEW a \in full, NEW b \in full
               PROVE  a \in inputs[b] <=> b \in inputs[a]
    BY TheGrid DEF ConfigInv, LinksBothWays
  <2> USE DEF ConfigInv
  <2>1. CASE StarFirst(here)
    BY <2>1 DEF LinksInv
  <2>2. CASE ByHand(here)
    <3>1. at - 1 = Len(here.statements)
      BY TheGrid, SMT DEF GridInv
    <3>2. \A c, d \in full : c \in inputs[d] <=>
             \E k \in 1 .. Len(here.statements) : here.statements[k] = Input(d, c)
      BY <2>2, <3>1 DEF LinksInv
    <3>3. ASSUME NEW c \in full, NEW d \in full, c \in inputs[d]
          PROVE  d \in inputs[c]
      <4>1. PICK k \in 1 .. Len(here.statements) : here.statements[k] = Input(d, c)
        BY <3>2, <3>3
      <4>2. PICK to, from : /\ here.statements[k] = Input(to, from)
                            /\ \E j \in 1 .. Len(here.statements) :
                                  here.statements[j] = Input(from, to)
        <5>1. here.statements[k].kind # "operators"
          BY <4>1 DEF Input
        <5> QED BY <2>2, <5>1 DEF ByHand
      <4>3. to = d /\ from = c
        BY <4>1, <4>2 DEF Input
      <4> QED BY <3>2, <4>2, <4>3
    <3> QED BY <3>3
  <2> QED BY <2>1, <2>2, TheGrid DEF WellMade
<1> QED BY <1>1, ConfigInvariance, PTL

\* No statement adds an input that is there already, on grids of every size that
\* the shapes admit (Toroidal4x4MatrixStar2MemFloat.kt 21-32).
THEOREM InputsAreNew == Spec => []NoInputTwice
<1>1. ConfigInv => NoInputTwice
  BY DEF ConfigInv, GridInv, NoInputTwice
<1> QED BY <1>1, ConfigInvariance, PTL

\* Every configuration considered keeps the bound of verifyRs2Constraints on memory
\* ports (BaseRunnerCommand.kt 479).
THEOREM ShippedAreAccepted == Spec => []ShippedIsAccepted
<1>1. ConfigInv => ShippedIsAccepted
  BY DEF ConfigInv, GridInv, ShippedIsAccepted
<1> QED BY <1>1, ConfigInvariance, PTL
===============================================================================
