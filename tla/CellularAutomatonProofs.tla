----------------------- MODULE CellularAutomatonProofs -----------------------
(***************************************************************************)
(* Proofs about lab 1's state machine for every screen and every rule: the *)
(* counters stay in range, a finished picture shows one generation per     *)
(* line, and KEY[1] continues it.                                          *)
(***************************************************************************)
EXTENDS CellularAutomaton, WellFoundedInduction, TLAPS

CAInv == CATypeOK /\ CAShape

\* The machine powers up in range.
LEMMA CAInitially == CAInit => CAInv
<1> SUFFICES ASSUME CAInit PROVE CAInv
  OBVIOUS
<1>1. currentGen \in Row /\ nextGen \in Row /\ first \in Row
  BY DEF CAInit, Row, Blank, Bit
<1>2. mem \in [Words -> Bit]
  BY DEF CAInit, Bit
<1>3. addr_reg \in Addresses /\ data_reg \in Bit
  BY CAAssumption DEF CAInit, Addresses, Bit
<1>4. rule \in Rules /\ state \in CAStates /\ nextState \in CAStates
  BY DEF CAInit, CAStates
<1>5. hCounter \in 0 .. Width + 1 /\ vCounter \in 0 .. Height
  BY CAAssumption DEF CAInit
<1>6. CATypeOK
  BY <1>1, <1>2, <1>3, <1>4, <1>5 DEF CAInit, CATypeOK
<1>7. CAShape
  BY DEF CAInit, CAShape
<1> QED BY <1>6, <1>7 DEF CAInv

\* The state register and the memory keep their types.
LEMMA ClockedTypes ==
  ASSUME CATypeOK, Clocked
  PROVE  rule' \in Rules /\ state' \in CAStates /\ mem' \in [Words -> Bit]
  BY DEF CATypeOK, Clocked

\* A black pixel is on the screen.
LEMMA BlackPixelTypes ==
  ASSUME BlackPixel
  PROVE  we' \in BOOLEAN /\ addr_reg' \in Addresses /\ data_reg' \in Bit
  BY CAAssumption DEF BlackPixel, Addresses, Columns, Bit

\* The next generation is a row of bits, whatever the rule.
LEMMA NextGenType ==
  ASSUME CAAssumption
  PROVE  NextGen \in Row
<1>1. ASSUME NEW i \in Columns
      PROVE  (CASE i = 0 -> Rule(currentGen[Width - 1], currentGen[0], currentGen[1])
                [] i = Width - 1 -> Rule(currentGen[Width - 2], currentGen[Width - 1], currentGen[0])
                [] OTHER -> Rule(currentGen[i - 1], currentGen[i], currentGen[i + 1])) \in Bit
  <2>1. \A l, m, r : Rule(l, m, r) \in Bit
    BY DEF Rule, Bit
  <2> QED BY <2>1
<1> QED BY <1>1 DEF NextGen, Row

\* Every edge keeps counters and states in step.
LEMMA CAInductive == CAInv /\ [CANext]_caVars => CAInv'
<1> SUFFICES ASSUME CAInv, [CANext]_caVars
             PROVE  CAInv'
  OBVIOUS
<1> USE CAAssumption
<1>1. CASE StartSeeded
  <2>1. rule' \in Rules /\ state' \in CAStates /\ mem' \in [Words -> Bit]
    BY <1>1, ClockedTypes DEF StartSeeded, CAInv
  <2>2. we' \in BOOLEAN /\ addr_reg' \in Addresses /\ data_reg' \in Bit
    BY <1>1, BlackPixelTypes DEF StartSeeded
  <2>3. CATypeOK'
    BY <1>1, <2>1, <2>2 DEF StartSeeded, CAInv, CATypeOK, CAStates
  <2>4. CAShape'
    BY <1>1 DEF StartSeeded, Clocked, CAInv, CATypeOK, CAShape
  <2> QED BY <2>3, <2>4 DEF CAInv
<1>2. CASE StartNext
  <2>1. rule' \in Rules /\ state' \in CAStates /\ mem' \in [Words -> Bit]
    BY <1>2, ClockedTypes DEF StartNext, CAInv
  <2>2. we' \in BOOLEAN /\ addr_reg' \in Addresses /\ data_reg' \in Bit
    BY <1>2, BlackPixelTypes DEF StartNext
  <2>3. CATypeOK'
    BY <1>2, <2>1, <2>2 DEF StartNext, CAInv, CATypeOK, CAStates
  <2>4. CAShape'
    BY <1>2 DEF StartNext, Clocked, CAInv, CATypeOK, CAShape
  <2> QED BY <2>3, <2>4 DEF CAInv
<1>3. CASE Idle
  <2>1. rule' \in Rules /\ state' \in CAStates /\ mem' \in [Words -> Bit]
    BY <1>3, ClockedTypes DEF Idle, CAInv
  <2>2. hCounter' \in 0 .. Width + 1 /\ vCounter' \in 0 .. Height
    BY <1>3 DEF Idle
  <2>3. CATypeOK'
    BY <1>3, <2>1, <2>2 DEF Idle, CAInv, CATypeOK
  <2>4. CAShape'
    BY <1>3 DEF Idle, Clocked, CAInv, CATypeOK, CAShape
  <2> QED BY <2>3, <2>4 DEF CAInv
<1>4. CASE Generate
  <2>1. rule' \in Rules /\ state' \in CAStates /\ mem' \in [Words -> Bit]
    BY <1>4, ClockedTypes DEF Generate, CAInv
  <2>2. nextGen' \in Row
    BY <1>4, NextGenType DEF Generate
  <2>3. CATypeOK'
    BY <1>4, <2>1, <2>2 DEF Generate, CAInv, CATypeOK, CAStates
  <2>4. CAShape'
    BY <1>4 DEF Generate, Clocked, LinesLeft, CAInv, CATypeOK, CAShape
  <2> QED BY <2>3, <2>4 DEF CAInv
<1>5. CASE WriteLine
  <2>1. rule' \in Rules /\ state' \in CAStates /\ mem' \in [Words -> Bit]
    BY <1>5, ClockedTypes DEF WriteLine, CAInv
  \* Only here the shape is needed: the line counter moves on the first column
  \* only, and the line ends in time.
  <2>2. hCounter' \in 0 .. Width + 1 /\ vCounter' \in 0 .. Height
    BY <1>5 DEF WriteLine, NextLine, CAInv, CATypeOK, CAShape
  <2>3. addr_reg' \in Addresses
    BY <1>5 DEF WriteLine, CAInv, CATypeOK, CAShape, Addresses
  <2>4. data_reg' \in Bit
    BY <1>5 DEF WriteLine, CAInv, CATypeOK, Row
  <2>5. CATypeOK'
    BY <1>5, <2>1, <2>2, <2>3, <2>4 DEF WriteLine, CAInv, CATypeOK, CAStates
  <2>6. CAShape'
    BY <1>5 DEF WriteLine, Clocked, NextLine, EndOfLine, CAInv, CATypeOK, CAShape
  <2> QED BY <2>5, <2>6 DEF CAInv
<1>6. CASE Debounce
  <2>1. rule' \in Rules /\ state' \in CAStates /\ mem' \in [Words -> Bit]
    BY <1>6, ClockedTypes DEF Debounce, CAInv
  <2>2. CATypeOK'
    BY <1>6, <2>1 DEF Debounce, CAInv, CATypeOK, CAStates
  <2>3. CAShape'
    BY <1>6 DEF Debounce, Clocked, CAInv, CATypeOK, CAShape
  <2> QED BY <2>2, <2>3 DEF CAInv
<1>7. CASE UNCHANGED caVars
  BY <1>7 DEF caVars, CAInv, CATypeOK, CAShape
<1> QED BY <1>1, <1>2, <1>3, <1>4, <1>5, <1>6, <1>7 DEF CANext

\* The registers of the state machine keep their ranges on every screen and
\* for every rule: no line below the screen is begun and the bits read from
\* currentGen exist, except in the extra cycle after a line.
THEOREM CATypeCorrect == CASpec => []CATypeOK
<1>1. CAInv => CATypeOK
  BY DEF CAInv
<1> QED BY <1>1, CAInitially, CAInductive, PTL DEF CASpec

\* The executions that a state gets because nextState reaches state an edge
\* late leave the counters where the next state needs them, on every screen.
THEOREM CAShapeHolds == CASpec => []CAShape
<1>1. CAInv => CAShape
  BY DEF CAInv
<1> QED BY <1>1, CAInitially, CAInductive, PTL DEF CASpec
-----------------------------------------------------------------------------
(* The picture. *)

Lines == 0 .. Height + 1

\* g is the course of the automaton from the first generation on.
Course(g) ==
    g = [n \in Lines |-> IF n = 0 THEN first ELSE Successor(g[n - 1])]

\* The loop of s_generate and its two ends compute the automaton on a ring.
LEMMA NextGenIsSuccessor ==
    NextGen = Successor(currentGen)
<1>0. Width \in Nat /\ Width > 1
  BY CAAssumption
<1>1. ASSUME NEW i \in Columns
      PROVE  (CASE i = 0 -> Rule(currentGen[Width - 1], currentGen[0], currentGen[1])
                [] i = Width - 1 -> Rule(currentGen[Width - 2], currentGen[Width - 1], currentGen[0])
                [] OTHER -> Rule(currentGen[i - 1], currentGen[i], currentGen[i + 1]))
              = Rule(currentGen[(i - 1) % Width], currentGen[i], currentGen[(i + 1) % Width])
  <2>1. CASE i = 0
    <3>1. (i - 1) % Width = Width - 1 /\ (i + 1) % Width = 1
      BY <1>0, <2>1
    <3> QED
      BY <2>1, <3>1
  <2>2. CASE i = Width - 1
    <3>1. (i - 1) % Width = Width - 2 /\ (i + 1) % Width = 0 /\ i # 0
      BY <1>0, <2>2
    <3> QED
      BY <2>2, <3>1
  <2>3. CASE i # 0 /\ i # Width - 1
    <3>1. (i - 1) % Width = i - 1 /\ (i + 1) % Width = i + 1
      BY <1>0, <2>3 DEF Columns
    <3> QED
      BY <2>3, <3>1
  <2> QED
    BY <2>1, <2>2, <2>3
<1> QED
  BY <1>1 DEF NextGen, Successor

\* A successor is a row of bits.
LEMMA SuccessorType == \A gen : Successor(gen) \in Row
<1>1. \A l, m, r : Rule(l, m, r) \in Bit
  BY DEF Rule, Bit
<1> QED
  BY <1>1 DEF Successor, Row

\* The course of the automaton exists: by induction on its length, with the
\* smallest length it cannot reach.
LEMMA CourseExists == first \in Row => \E g : Course(g)
<1> SUFFICES ASSUME first \in Row
             PROVE  \E g : Course(g)
  OBVIOUS
<1>0. Height \in Nat
  BY CAAssumption
<1> DEFINE Reached(n) == \E g \in [0 .. n -> Row] :
                            /\ g[0] = first
                            /\ \A k \in 1 .. n : g[k] = Successor(g[k - 1])
           T == {n \in Nat : ~Reached(n)}
<1>1. Reached(0)
  <2> DEFINE g == [k \in 0 .. 0 |-> first]
  <2>1. g \in [0 .. 0 -> Row] /\ g[0] = first
    OBVIOUS
  <2>2. \A k \in 1 .. 0 : g[k] = Successor(g[k - 1])
    OBVIOUS
  <2> HIDE DEF g
  <2> QED
    BY <2>1, <2>2
<1>2. ASSUME NEW n \in Nat, Reached(n)
      PROVE  Reached(n + 1)
  <2>1. PICK g \in [0 .. n -> Row] : /\ g[0] = first
                                     /\ \A k \in 1 .. n : g[k] = Successor(g[k - 1])
    BY <1>2
  <2> DEFINE h == [k \in 0 .. n + 1 |-> IF k = n + 1 THEN Successor(g[n]) ELSE g[k]]
  <2>2. h \in [0 .. n + 1 -> Row]
    BY SuccessorType
  <2>3. h[0] = first
    BY <2>1
  <2>4. ASSUME NEW k \in 1 .. n + 1
        PROVE  h[k] = Successor(h[k - 1])
    <3>1. h[k - 1] = g[k - 1]
      OBVIOUS
    <3>2. CASE k = n + 1
      BY <3>1, <3>2
    <3>3. CASE k # n + 1
      BY <2>1, <3>1, <3>3
    <3> QED
      BY <3>2, <3>3
  <2> HIDE DEF h
  <2> QED
    BY <2>2, <2>3, <2>4
<1>3. \A n \in Nat : Reached(n)
  <2> SUFFICES ASSUME T # {}
               PROVE  FALSE
    OBVIOUS
  <2>1. PICK n \in T : \A m \in T : ~(m < n)
    <3> HIDE DEF T
    <3>1. T \subseteq Nat
      BY DEF T
    <3>2. \E x \in T : \A y \in T : ~(<<y, x>> \in OpToRel(<, Nat))
      BY <3>1, NatLessThanWellFounded, WFMin
    <3> QED
      BY <3>1, <3>2 DEF OpToRel
  <2> HIDE DEF Reached
  <2>2. n \in Nat /\ ~Reached(n)
    OBVIOUS
  <2>3. n # 0
    BY <1>1, <2>2
  <2>4. n - 1 \in Nat /\ Reached(n - 1)
    BY <2>1, <2>2, <2>3
  <2>5. Reached((n - 1) + 1)
    BY <1>2, <2>4
  <2>6. (n - 1) + 1 = n
    BY <2>2
  <2> QED
    BY <2>2, <2>5, <2>6
<1>4. PICK g \in [0 .. Height + 1 -> Row] :
         /\ g[0] = first
         /\ \A k \in 1 .. Height + 1 : g[k] = Successor(g[k - 1])
  <2>1. Height + 1 \in Nat
    BY <1>0
  <2>2. Reached(Height + 1)
    BY <2>1, <1>3
  <2> QED
    BY <2>2
<1>5. g = [n \in 0 .. Height + 1 |-> g[n]]
  OBVIOUS
<1>6. \A n \in 0 .. Height + 1 : g[n] = IF n = 0 THEN first ELSE Successor(g[n - 1])
  BY <1>0, <1>4
<1>7. Course(g)
  BY <1>5, <1>6 DEF Course, Lines
<1> QED
  BY <1>7

\* So the recursive definition of Generation defines it.
LEMMA GenerationIsCourse == first \in Row => Course(Generation)
<1> SUFFICES ASSUME first \in Row
             PROVE  Course(Generation)
  OBVIOUS
<1>1. Generation = CHOOSE g : Course(g)
  BY DEF Generation, Course, Lines
<1> QED
  BY <1>1, CourseExists

\* The facts about Generation the picture rests on.
Generations ==
    /\ Generation[0] = first
    /\ \A n \in 0 .. Height : Generation[n + 1] = Successor(Generation[n])
    /\ \A n \in 0 .. Height + 1 : Generation[n] \in Row

\* Generation starts with the first one, and each is the successor of the
\* one before.
LEMMA GenerationsHold == first \in Row => Generations
<1> SUFFICES ASSUME first \in Row
             PROVE  Generations
  OBVIOUS
<1>0. Height \in Nat
  BY CAAssumption
<1> DEFINE G == Generation
<1>1. G = [n \in 0 .. Height + 1 |-> IF n = 0 THEN first ELSE Successor(G[n - 1])]
  BY GenerationIsCourse DEF Course, Lines
<1> HIDE DEF G
<1>2. \A n \in 0 .. Height + 1 : G[n] = IF n = 0 THEN first ELSE Successor(G[n - 1])
  BY <1>1
<1>3. G[0] = first
  BY <1>0, <1>2
<1>4. ASSUME NEW n \in 0 .. Height
      PROVE  G[n + 1] = Successor(G[n])
  <2>1. n + 1 \in 0 .. Height + 1 /\ n + 1 # 0 /\ (n + 1) - 1 = n
    BY <1>0
  <2> QED
    BY <1>2, <2>1
<1>5. \A n \in 0 .. Height + 1 : G[n] \in Row
  BY <1>2, SuccessorType
<1> QED
  BY <1>3, <1>4, <1>5 DEF Generations, G

\* The same after a step.
LEMMA GenerationsHoldNext == first' \in Row => Generations'
<1>1. (first \in Row => Generations)'
  BY GenerationsHold, PTL
<1> QED
  BY <1>1

\* The generations depend on the first one and on the switches only.
LEMMA SameGenerations ==
    ASSUME first' = first, rule' = rule
    PROVE  Generation' = Generation
<1>1. \A g : Course(g)' <=> Course(g)
  BY DEF Course, Successor, Rule
<1>2. Generation = CHOOSE g : Course(g)
  BY DEF Generation, Course, Lines
<1>3. Generation' = CHOOSE g : Course(g)'
  BY DEF Generation, Course, Lines
<1> QED
  BY <1>1, <1>2, <1>3
\* The video memory once the write on its port is done.
Port == IF we /\ addr_reg \in Words THEN [mem EXCEPT ![addr_reg] = data_reg] ELSE mem

\* Memory m has bit b at address a, if it has a word there.
Shows(m, a, b) == a \in Words => m[a] = b

\* Memory m shows generation n: column 0 on line n, the others one below.
LineShown(m, n) ==
    /\ Shows(m, <<0, n>>, Generation[n][0])
    /\ \A c \in Columns \ {0} : Shows(m, <<c, n + 1>>, Generation[n][c])

\* A write does what it should at its own address and nothing elsewhere.
LEMMA WriteShows ==
    ASSUME NEW m \in [Words -> Bit], NEW a, NEW b, NEW x, NEW y
    PROVE  /\ Shows([m EXCEPT ![a] = b], a, b)
           /\ x # a => (Shows([m EXCEPT ![a] = b], x, y) <=> Shows(m, x, y))
  BY DEF Shows

\* Which generations the two registers hold.
GenerationsHeld ==
    /\ state = "s_generate" /\ nextState = "s_generate" /\ vCounter > 0 =>
          currentGen = Generation[vCounter]
    /\ state = "s_generate" /\ nextState # "s_generate" =>
          currentGen = Generation[vCounter] /\ nextGen = Generation[vCounter + 1]
    /\ state = "s_write" /\ hCounter = 0 =>
          currentGen = Generation[vCounter] /\ nextGen = Generation[vCounter + 1]
    /\ state = "s_write" /\ hCounter > 0 =>
          /\ vCounter > 0
          /\ nextGen = Generation[vCounter]
          /\ currentGen = Generation[IF hCounter < Width THEN vCounter - 1 ELSE vCounter]
    /\ state = "s_debounce" => nextGen = Generation[Height + 1]
    /\ state = "s_init" /\ first # Blank => nextGen = Generation[Height + 1]

\* The lines before the one at work are shown, and of that one the columns
\* the counter has gone past.
LinesShown ==
    /\ state \in {"s_generate", "s_debounce"} =>
          \A n \in 0 .. vCounter - 1 : LineShown(Port, n)
    /\ state = "s_write" /\ hCounter = 0 =>
          \A n \in 0 .. vCounter - 1 : LineShown(Port, n)
    /\ state = "s_write" /\ hCounter > 0 =>
          /\ \A n \in 0 .. vCounter - 2 : LineShown(Port, n)
          /\ Shows(Port, <<0, vCounter - 1>>, Generation[vCounter - 1][0])
          /\ \A c \in Columns \ {0} :
                c < hCounter => Shows(Port, <<c, vCounter>>, Generation[vCounter - 1][c])

\* After s_generate the registers hold a generation and its successor; only
\* the first one of a picture starts a new course.
LEMMA GenerateHolds ==
    ASSUME CAInv, GenerationsHeld, Generate
    PROVE  /\ currentGen' = Generation'[vCounter] /\ nextGen' = Generation'[vCounter + 1]
           /\ vCounter > 0 => Generation' = Generation
<1>0. /\ first \in Row /\ first' \in Row /\ rule' = rule /\ Height \in Nat
      /\ vCounter \in 0 .. Height
      /\ nextGen' = Successor(currentGen) /\ currentGen' = currentGen
  BY CAAssumption, NextGenIsSuccessor DEF CAInv, CATypeOK, Generate, Clocked
<1>1. CASE first' = first /\ currentGen = Generation[vCounter]
  <2>1. Generation' = Generation
    BY <1>0, <1>1, SameGenerations
  <2>2. Generation[vCounter + 1] = Successor(Generation[vCounter])
    BY <1>0, GenerationsHold DEF Generations
  <2> QED
    BY <1>0, <1>1, <2>1, <2>2
<1>2. CASE vCounter = 0 /\ first' = currentGen
  <2>1. Generation'[0] = first' /\ Generation'[0 + 1] = Successor(Generation[0])'
    BY <1>0, GenerationsHoldNext DEF Generations
  <2>2. Successor(Generation[0])' = Successor(Generation'[0])
    BY <1>0 DEF Successor, Rule
  <2> QED
    BY <1>0, <1>2, <2>1, <2>2
<1>3. vCounter # 0 => first' = first /\ currentGen = Generation[vCounter]
  BY <1>0 DEF Generate, CAInv, CAShape, GenerationsHeld
<1>4. vCounter = 0 => first' = currentGen
  BY DEF Generate
<1> QED
  BY <1>0, <1>1, <1>2, <1>3, <1>4

\* Every edge keeps the registers at the generation the line counter says.
LEMMA GenerationsHeldStep ==
    CAInv /\ GenerationsHeld /\ [CANext]_caVars => GenerationsHeld'
<1> SUFFICES ASSUME CAInv, GenerationsHeld, [CANext]_caVars
             PROVE  GenerationsHeld'
  OBVIOUS
<1>0. /\ Width \in Nat /\ Width > 1 /\ Height \in Nat
      /\ vCounter \in 0 .. Height /\ hCounter \in 0 .. Width + 1
  BY CAAssumption DEF CAInv, CATypeOK
<1>1. ~Generate => Generation' = Generation /\ first' = first
  <2>1. ~Generate => first' = first /\ rule' = rule
    BY DEF CANext, StartSeeded, StartNext, Idle, WriteLine, Debounce, Clocked, caVars
  <2> QED
    BY <2>1, SameGenerations
<1>2. CASE StartSeeded \/ StartNext \/ Idle
  <2>1. /\ state = "s_init" /\ state' = nextState /\ nextGen' = nextGen /\ vCounter' = 0
        /\ nextState \in {"s_init", "s_generate"} /\ ~Generate
        /\ nextState = "s_generate" => nextState' = "s_generate"
    BY <1>2 DEF StartSeeded, StartNext, Idle, Clocked, CAInv, CAShape, Generate
  <2> QED
    BY <1>1, <2>1 DEF GenerationsHeld
<1>3. CASE Generate
  <2>1. /\ state' = nextState /\ vCounter' = vCounter /\ hCounter' = 0
        /\ nextState' \in {"s_write", "s_debounce"}
        /\ nextState \in {"s_generate", "s_write", "s_debounce"}
        /\ nextState = "s_debounce" => vCounter = Height
    BY <1>3 DEF Generate, Clocked, CAInv, CAShape
  <2>2. currentGen' = Generation'[vCounter] /\ nextGen' = Generation'[vCounter + 1]
    BY <1>3, GenerateHolds
  <2> QED
    BY <2>1, <2>2 DEF GenerationsHeld
<1>4. CASE WriteLine
  <2>1. /\ state = "s_write" /\ state' = nextState /\ nextGen' = nextGen /\ ~Generate
        /\ hCounter' = hCounter + 1 /\ vCounter' = NextLine
        /\ nextState' = IF EndOfLine THEN "s_generate" ELSE "s_write"
        /\ currentGen' = IF EndOfLine THEN nextGen ELSE currentGen
        /\ hCounter <= Width
        /\ nextState = IF hCounter = Width THEN "s_generate" ELSE "s_write"
    BY <1>0, <1>4 DEF WriteLine, Clocked, CAInv, CAShape, Generate
  <2>2. CASE hCounter = 0
    <3>1. /\ vCounter' = vCounter + 1 /\ hCounter' = 1 /\ state' = "s_write"
          /\ currentGen' = currentGen
      BY <1>0, <2>1, <2>2 DEF NextLine, EndOfLine
    <3>2. currentGen = Generation[vCounter] /\ nextGen = Generation[vCounter + 1]
      BY <2>1, <2>2 DEF GenerationsHeld
    <3> QED
      BY <1>0, <1>1, <2>1, <3>1, <3>2 DEF GenerationsHeld
  <2>3. CASE hCounter > 0 /\ hCounter < Width
    <3>1. /\ vCounter' = vCounter /\ state' = "s_write"
          /\ hCounter' > 0 /\ (hCounter' < Width <=> ~EndOfLine)
      BY <1>0, <2>1, <2>3 DEF NextLine, EndOfLine
    <3>2. /\ currentGen = Generation[vCounter - 1] /\ nextGen = Generation[vCounter]
          /\ vCounter > 0
      BY <2>1, <2>3 DEF GenerationsHeld
    <3> QED
      BY <1>0, <1>1, <2>1, <3>1, <3>2 DEF GenerationsHeld
  <2>4. CASE hCounter = Width
    <3>1. /\ vCounter' = vCounter /\ state' = "s_generate" /\ nextState' = "s_generate"
          /\ currentGen' = nextGen
      BY <1>0, <2>1, <2>4 DEF NextLine, EndOfLine
    <3>2. nextGen = Generation[vCounter]
      BY <1>0, <2>1, <2>4 DEF GenerationsHeld
    <3> QED
      BY <1>0, <1>1, <2>1, <3>1, <3>2 DEF GenerationsHeld
  <2> QED
    BY <1>0, <2>1, <2>2, <2>3, <2>4
<1>5. CASE Debounce
  <2>1. /\ state = "s_debounce" /\ state' = nextState /\ nextGen' = nextGen /\ ~Generate
        /\ nextState \in {"s_debounce", "s_init"}
    BY <1>5 DEF Debounce, Clocked, CAInv, CAShape, Generate
  <2> QED
    BY <1>1, <2>1 DEF GenerationsHeld
<1>6. CASE UNCHANGED caVars
  <2>1. first' = first /\ rule' = rule
    BY <1>6 DEF caVars
  <2>2. Generation' = Generation
    BY <2>1, SameGenerations
  <2> QED
    BY <1>6, <2>2 DEF caVars, GenerationsHeld
<1> QED
  BY <1>2, <1>3, <1>4, <1>5, <1>6 DEF CANext

\* What the memory holds after the next edge, and how an edge changes that.
LEMMA PortIsNext ==
    ASSUME CAInv, [CANext]_caVars
    PROVE  /\ Port \in [Words -> Bit]
           /\ Clocked => mem' = Port
           /\ Clocked /\ UNCHANGED <<we, addr_reg, data_reg>> => Port' = Port
           /\ Clocked /\ ~we' => Port' = Port
           /\ Clocked /\ we' => Port' = [Port EXCEPT ![addr_reg'] = data_reg']
<1>1. /\ mem \in [Words -> Bit] /\ addr_reg \in Addresses /\ data_reg \in Bit
      /\ we \in BOOLEAN
  BY DEF CAInv, CATypeOK
<1>2. Port \in [Words -> Bit]
  BY <1>1 DEF Port
<1>3. Clocked => mem' = Port
  BY DEF Clocked, Port
<1>4. we => [Port EXCEPT ![addr_reg] = data_reg] = Port
  BY <1>1 DEF Port
\* A write to an address without a word changes nothing.
<1>5. Clocked => Port' = IF we' THEN [mem' EXCEPT ![addr_reg'] = data_reg'] ELSE mem'
  <2>1. Port' = IF we' /\ addr_reg' \in Words THEN [mem' EXCEPT ![addr_reg'] = data_reg'] ELSE mem'
    BY DEF Port, Words, Addresses
  <2>2. ASSUME Clocked, addr_reg' \notin Words
        PROVE  [mem' EXCEPT ![addr_reg'] = data_reg'] = mem'
    BY <1>2, <1>3, <2>2
  <2> QED
    BY <2>1, <2>2
<1>6. Clocked /\ UNCHANGED <<we, addr_reg, data_reg>> => Port' = Port
  <2>1. CASE we
    BY <1>3, <1>4, <1>5, <2>1
  <2>2. CASE ~we
    BY <1>3, <1>5, <2>2
  <2> QED
    BY <2>1, <2>2
<1>7. Clocked /\ ~we' => Port' = Port
  BY <1>3, <1>5
<1>8. Clocked /\ we' => Port' = [Port EXCEPT ![addr_reg'] = data_reg']
  BY <1>3, <1>5
<1> QED
  BY <1>2, <1>3, <1>6, <1>7, <1>8

\* A write to column h of line v leaves the lines above as they are.
LEMMA WriteKeeps ==
    ASSUME NEW m \in [Words -> Bit], NEW h \in 0 .. Width, NEW v \in 0 .. Height, NEW b,
           NEW n \in 0 .. v - 1, LineShown(m, n), h > 0 => n < v - 1
    PROVE  LineShown([m EXCEPT ![<<h, v>>] = b], n)
<1>0. Width \in Nat /\ Width > 1 /\ Height \in Nat
  BY CAAssumption
<1>1. <<0, n>> # <<h, v>>
  BY <1>0
<1>2. ASSUME NEW c \in Columns \ {0}
      PROVE  <<c, n + 1>> # <<h, v>>
  BY <1>0 DEF Columns
<1> QED
  BY <1>1, <1>2, WriteShows DEF LineShown

\* An edge of s_write adds one column to the line at work.
LEMMA WriteLineShown ==
    ASSUME CAInv, GenerationsHeld, LinesShown, WriteLine
    PROVE  LinesShown'
<1> DEFINE G == Generation  h == hCounter  v == vCounter
<1>0. /\ Width \in Nat /\ Width > 1 /\ Height \in Nat
      /\ v \in 0 .. Height /\ h \in 0 .. Width
      /\ state = "s_write"
      /\ nextState = IF h = Width THEN "s_generate" ELSE "s_write"
  BY CAAssumption DEF CAInv, CATypeOK, CAShape, WriteLine
<1>1. /\ state' = nextState /\ h' = h + 1 /\ v' = IF h = 0 THEN v + 1 ELSE v
      /\ h \in Columns => data_reg' = currentGen[h]
      /\ addr_reg' = <<h, v>> /\ we'
      /\ Clocked
  BY DEF WriteLine, NextLine, Clocked
<1>2. G' = G
  BY SameGenerations DEF WriteLine, Clocked
<1>3. Port \in [Words -> Bit] /\ Port' = [Port EXCEPT ![<<h, v>>] = data_reg']
  BY <1>1, PortIsNext DEF CANext
<1>4. h = 0 => v < Height
  BY <1>0 DEF CAInv, CAShape
<1>5. \A n \in 0 .. v - 1 : (h > 0 => n < v - 1) => LineShown(Port, n)'
  <2> SUFFICES ASSUME NEW n \in 0 .. v - 1, h > 0 => n < v - 1
               PROVE  LineShown(Port, n)'
    OBVIOUS
  <2>1. LineShown(Port, n)
    BY <1>0 DEF LinesShown
  <2>2. LineShown([Port EXCEPT ![<<h, v>>] = data_reg'], n)
    BY <1>0, <1>3, <2>1, WriteKeeps
  <2> QED
    BY <1>2, <1>3, <2>2 DEF LineShown
<1>7. CASE h = 0
  <2>1. Shows(Port', <<0, v>>, G[v][0])
    <3>1. 0 \in Columns /\ currentGen = G[v]
      BY <1>0, <1>7 DEF Columns, GenerationsHeld
    <3> QED
      BY <1>1, <1>3, <1>7, <3>1, WriteShows
  <2>2. state' = "s_write" /\ h' = 1 /\ v' = v + 1 /\ v' - 1 = v /\ v' - 2 = v - 1
    BY <1>0, <1>1, <1>7
  <2>3. \A n \in 0 .. v - 1 : LineShown(Port, n)'
    BY <1>0, <1>5, <1>7
  <2>4. \A c \in Columns \ {0} : ~(c < 1)
    BY DEF Columns
  <2> QED
    BY <1>2, <2>1, <2>2, <2>3, <2>4 DEF LinesShown
<1>8. CASE h > 0
  <2>0. /\ v > 0 /\ v - 1 \in 0 .. v - 1 /\ v' = v
        /\ h < Width => currentGen = G[v - 1]
    BY <1>0, <1>1, <1>8 DEF GenerationsHeld
  <2>1. \A n \in 0 .. v - 2 : LineShown(Port, n)'
    BY <1>0, <1>5, <1>8, <2>0
  <2>2. Shows(Port', <<0, v - 1>>, G[v - 1][0])
    <3>1. Shows(Port, <<0, v - 1>>, G[v - 1][0])
      BY <1>0, <1>8 DEF LinesShown
    <3>2. <<0, v - 1>> # <<h, v>>
      BY <1>0, <1>8
    <3> QED
      BY <1>3, <3>1, <3>2, WriteShows
  <2>3. ASSUME NEW c \in Columns \ {0}, c < h + 1
        PROVE  Shows(Port', <<c, v>>, G[v - 1][c])
    <3>1. CASE c = h
      <4>1. h < Width /\ h \in Columns
        BY <1>0, <3>1 DEF Columns
      <4> QED
        BY <1>1, <1>3, <2>0, <3>1, <4>1, WriteShows
    <3>2. CASE c # h
      <4>1. c < h
        BY <1>0, <2>3, <3>2 DEF Columns
      <4>2. Shows(Port, <<c, v>>, G[v - 1][c])
        BY <1>0, <1>8, <4>1 DEF LinesShown
      <4> QED
        BY <1>3, <3>2, <4>2, WriteShows
    <3> QED
      BY <3>1, <3>2
  <2>4. CASE h < Width
    <3>1. state' = "s_write" /\ h' > 0 /\ h' = h + 1
      BY <1>0, <1>1, <1>8, <2>4
    <3> QED
      BY <1>2, <2>0, <2>1, <2>2, <2>3, <3>1 DEF LinesShown
  <2>5. CASE h = Width
    <3>1. state' = "s_generate"
      BY <1>0, <1>1, <2>5
    <3>2. \A c \in Columns \ {0} : c < h + 1
      BY <1>0, <2>5 DEF Columns
    <3>3. (v - 1) + 1 = v
      BY <1>0
    <3>4. LineShown(Port, v - 1)'
      BY <1>2, <2>0, <2>2, <2>3, <3>2, <3>3 DEF LineShown
    <3>5. \A n \in 0 .. v - 1 : n = v - 1 \/ n \in 0 .. v - 2
      BY <1>0
    <3>6. \A n \in 0 .. v - 1 : LineShown(Port, n)'
      BY <2>0, <2>1, <3>4, <3>5
    <3> QED
      BY <2>0, <3>1, <3>6 DEF LinesShown
  <2> QED
    BY <1>0, <2>4, <2>5
<1> QED
  BY <1>0, <1>7, <1>8

\* Every edge keeps the lines that are shown.
LEMMA LinesShownStep ==
    CAInv /\ GenerationsHeld /\ LinesShown /\ PictureShown /\ [CANext]_caVars
        => LinesShown' /\ PictureShown'
<1> SUFFICES ASSUME CAInv, GenerationsHeld, LinesShown, PictureShown, [CANext]_caVars
             PROVE  LinesShown' /\ PictureShown'
  OBVIOUS
<1>0. Height \in Nat \ {0} /\ vCounter \in 0 .. Height
  BY CAAssumption DEF CAInv, CATypeOK
<1>1. CASE StartSeeded \/ StartNext \/ Idle
  <2>1. state' \in {"s_init", "s_generate"} /\ vCounter' = 0
    BY <1>1 DEF StartSeeded, StartNext, Idle, Clocked, CAInv, CAShape
  <2> QED
    BY <2>1 DEF LinesShown, PictureShown
<1>2. CASE Generate \/ Debounce
  <2>1. /\ Clocked /\ vCounter' = vCounter /\ mem' = Port /\ Port' = Port
        /\ state' = "s_write" => hCounter' = 0
        /\ state \in {"s_generate", "s_debounce"}
        /\ state' = "s_debounce" => vCounter = Height
    <3>1. CASE Generate
      BY <3>1, PortIsNext DEF Generate, Clocked, CAInv, CAShape
    <3>2. CASE Debounce
      BY <3>2, PortIsNext DEF Debounce, Clocked, CAInv, CAShape
    <3> QED
      BY <1>2, <3>1, <3>2
  <2>2. vCounter > 0 => Generation' = Generation
    <3>1. CASE Generate
      BY <3>1, GenerateHolds
    <3>2. CASE Debounce
      BY <3>2, SameGenerations DEF Debounce, Clocked
    <3> QED
      BY <1>2, <3>1, <3>2
  <2>3. \A n \in 0 .. vCounter - 1 : LineShown(Port, n)
    BY <2>1 DEF LinesShown
  <2>4. \A n \in 0 .. vCounter - 1 : LineShown(Port, n)'
    <3> SUFFICES ASSUME NEW n \in 0 .. vCounter - 1
                 PROVE  LineShown(Port, n)'
      OBVIOUS
    <3>1. Generation' = Generation
      BY <1>0, <2>2
    <3> QED
      BY <2>1, <2>3, <3>1 DEF LineShown
  <2>5. LinesShown'
    BY <2>1, <2>4 DEF LinesShown
  <2>6. PictureShown'
    <3> SUFFICES ASSUME state' = "s_debounce"
                 PROVE  \A n \in 0 .. Height - 1 : LineShown(mem, n)'
      BY DEF PictureShown, LineShown, Shows
    <3>1. vCounter = Height /\ Generation' = Generation
      BY <1>0, <2>1, <2>2
    <3>2. \A n \in 0 .. Height - 1 : LineShown(Port, n)
      BY <2>3, <3>1
    <3> QED
      BY <2>1, <3>1, <3>2 DEF LineShown
  <2> QED
    BY <2>5, <2>6
<1>3. CASE WriteLine
  <2>1. LinesShown'
    BY <1>3, WriteLineShown
  <2>2. state' # "s_debounce"
    BY <1>3 DEF WriteLine, Clocked, CAInv, CAShape
  <2> QED
    BY <2>1, <2>2 DEF PictureShown
<1>4. CASE UNCHANGED caVars
  <2>1. first' = first /\ rule' = rule
    BY <1>4 DEF caVars
  <2>2. Generation' = Generation
    BY <2>1, SameGenerations
  <2> QED
    BY <1>4, <2>2 DEF caVars, LinesShown, PictureShown, LineShown, Port
<1> QED
  BY <1>1, <1>2, <1>3, <1>4 DEF CANext

\* The invariant of the picture is inductive.
LEMMA PictureInductive ==
    CASpec => [](CAInv /\ GenerationsHeld /\ LinesShown /\ PictureShown)
<1>1. CAInit => GenerationsHeld /\ LinesShown /\ PictureShown
  BY DEF CAInit, GenerationsHeld, LinesShown, PictureShown
<1> QED
  BY <1>1, CAInitially, CAInductive, GenerationsHeldStep, LinesShownStep, PTL DEF CASpec

\* A finished picture shows one generation per line, whatever was on the
\* screen before, in every column and line that has a word: on every screen,
\* for every rule and every size of the video memory.
THEOREM PictureIsShown == CASpec => []PictureShown
BY PictureInductive, PTL

\* KEY[1] continues the picture with the generation after the last one
\* computed, on every screen and for every rule.
THEOREM PictureContinues == CASpec => ContinuesPicture
<1>1. CAInv /\ GenerationsHeld /\ [CANext]_caVars =>
         [StartNext /\ first # Blank => currentGen' = Generation[Height + 1]]_caVars
  BY DEF StartNext, GenerationsHeld
<1> QED
  BY <1>1, PictureInductive, PTL DEF CASpec, ContinuesPicture
==============================================================================
