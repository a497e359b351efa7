-------------------------- MODULE CellularAutomaton --------------------------
(***************************************************************************)
(* The state machine of lab 1 (lab1_top.v): it computes the generations of *)
(* a one-dimensional cellular automaton and writes one per line into the   *)
(* video memory. state takes the value of nextState one edge late, so      *)
(* every state is executed once more after it has chosen its successor.    *)
(***************************************************************************)
EXTENDS Integers

CONSTANTS
    Width, Height,      \* SCREEN_WIDTH, SCREEN_HEIGHT
    Rules,              \* settings of SW[7:0]: sets of numbers in 0 .. 7
    LineSpan,           \* addresses per column, 2^9 in the code
    NumWords            \* numwords_a, the size of the video memory

ASSUME CAAssumption ==
    /\ Width \in Nat /\ Width > 1 /\ Height \in Nat \ {0}
    /\ \A rule \in Rules : rule \subseteq 0 .. 7
    /\ LineSpan \in Nat /\ Height < LineSpan /\ NumWords \in Nat

Columns == 0 .. Width - 1
Bit == {0, 1}
Row == [Columns -> Bit]

\* Addresses the state machine puts on port a, as the column and the line
\* that are concatenated; column Width and line Height are off the screen.
Addresses == (0 .. Width) \X (0 .. Height)

\* The addresses that have a word behind them. The memory has 310000, so
\* that columns 606 to 639 and half of column 605 have none.
Words == {a \in Addresses : LineSpan * a[1] + a[2] < NumWords}

VARIABLES
    rule,                       \* SW[7:0], left alone
    state, nextState, hCounter, vCounter, currentGen, nextGen,
    we, addr_reg, data_reg, mem,
    first                       \* the first generation of the picture, history

caVars == <<rule, state, nextState, hCounter, vCounter, currentGen, nextGen,
            we, addr_reg, data_reg, mem, first>>

CAStates == {"s_init", "s_generate", "s_write", "s_debounce"}

CATypeOK ==
    /\ rule \in Rules
    /\ state \in CAStates /\ nextState \in CAStates
    /\ hCounter \in 0 .. Width + 1 /\ vCounter \in 0 .. Height
    /\ currentGen \in Row /\ nextGen \in Row /\ first \in Row
    /\ we \in BOOLEAN /\ addr_reg \in Addresses /\ data_reg \in Bit
    /\ mem \in [Words -> Bit]

Blank == [c \in Columns |-> 0]

\* Registers and memory are zero at power-up.
CAInit ==
    /\ rule \in Rules
    /\ state = "s_init" /\ nextState = "s_init"
    /\ hCounter = 0 /\ vCounter = 0
    /\ currentGen = Blank /\ nextGen = Blank /\ first = Blank
    /\ we = FALSE /\ addr_reg = <<0, 0>> /\ data_reg = 0
    /\ mem = [a \in Words |-> 0]

\* What every edge does: the state register and port a of the memory. A
\* write beyond the last word is lost.
Clocked ==
    /\ state' = nextState
    /\ mem' = IF we /\ addr_reg \in Words THEN [mem EXCEPT ![addr_reg] = data_reg] ELSE mem
    /\ UNCHANGED rule

\* A black pixel somewhere: edit_X and edit_Y run on with every edge.
BlackPixel ==
    /\ we' = TRUE /\ data_reg' = 0
    /\ \E x \in Columns, y \in 0 .. Height - 1 : addr_reg' = <<x, y>>

\* One bit in the middle, or a random bit in the column on display (SW[17]).
Seeded(gen) ==
    \/ gen = [c \in Columns |-> IF c = (Width - 1) \div 2 THEN 1 ELSE 0]
    \/ \E c \in Columns, b \in Bit : gen = [currentGen EXCEPT ![c] = b]

\* s_init with KEY[0]
StartSeeded ==
    /\ state = "s_init" /\ Clocked
    /\ hCounter' = 0 /\ vCounter' = 0
    /\ BlackPixel
    /\ \E gen \in Row : Seeded(gen) /\ currentGen' = gen
    /\ nextState' = "s_generate"
    /\ UNCHANGED <<nextGen, first>>

\* A slip in s_init: the new picture starts with the last line again.
StartNextRepeats ==
    /\ state = "s_init" /\ Clocked
    /\ hCounter' = 0 /\ vCounter' = 0
    /\ BlackPixel
    /\ nextState' = "s_generate"
    /\ UNCHANGED <<currentGen, nextGen, first>>

\* s_init with KEY[1]
StartNext ==
    /\ state = "s_init" /\ Clocked
    /\ hCounter' = 0 /\ vCounter' = 0
    /\ BlackPixel
    /\ currentGen' = nextGen
    /\ nextState' = "s_generate"
    /\ UNCHANGED <<nextGen, first>>

\* s_init without a key
Idle ==
    /\ state = "s_init" /\ Clocked
    /\ hCounter' = 0 /\ vCounter' = 0
    /\ we' = FALSE
    /\ UNCHANGED <<nextState, currentGen, nextGen, addr_reg, data_reg, first>>

\* The switch that the cells left, here and right select.
Rule(l, m, r) == IF 4 * l + 2 * m + r \in rule THEN 1 ELSE 0

\* A slip in s_generate: the last cell has no right neighbour.
NextGenOpen == [i \in Columns |->
    CASE i = 0 -> Rule(currentGen[Width - 1], currentGen[0], currentGen[1])
      [] i = Width - 1 -> Rule(currentGen[Width - 2], currentGen[Width - 1], 0)
      [] OTHER -> Rule(currentGen[i - 1], currentGen[i], currentGen[i + 1])]

\* The loop of s_generate and the two ends.
NextGen == [i \in Columns |->
    CASE i = 0 -> Rule(currentGen[Width - 1], currentGen[0], currentGen[1])
      [] i = Width - 1 -> Rule(currentGen[Width - 2], currentGen[Width - 1], currentGen[0])
      [] OTHER -> Rule(currentGen[i - 1], currentGen[i], currentGen[i + 1])]

\* A slip in s_generate: the line counter has one line too many.
LinesLeftOneMore == vCounter <= Height

LinesLeft == vCounter < Height

Generate ==
    /\ state = "s_generate" /\ Clocked
    /\ nextGen' = NextGen
    /\ hCounter' = 0
    /\ nextState' = IF LinesLeft THEN "s_write" ELSE "s_debounce"
    /\ first' = IF vCounter = 0 THEN currentGen ELSE first
    /\ UNCHANGED <<vCounter, currentGen, we, addr_reg, data_reg>>

\* hCounter has been incremented before it is compared.
EndOfLine == hCounter + 1 >= Width

\* A slip in s_write: the column is looked at after it was incremented.
NextLineMissed == IF hCounter + 1 = 0 THEN vCounter + 1 ELSE vCounter

\* The line counter moves with column 0.
NextLine == IF hCounter = 0 THEN vCounter + 1 ELSE vCounter

\* s_write: column 0 is still written on the line before. After the last
\* column the state is executed once more.
WriteLine ==
    /\ state = "s_write" /\ Clocked
    /\ vCounter' = NextLine
    /\ addr_reg' = <<hCounter, vCounter>> /\ we' = TRUE
    /\ IF hCounter \in Columns THEN data_reg' = currentGen[hCounter] ELSE data_reg' \in Bit
    /\ hCounter' = hCounter + 1
    /\ nextState' = IF EndOfLine THEN "s_generate" ELSE "s_write"
    /\ currentGen' = IF EndOfLine THEN nextGen ELSE currentGen
    /\ UNCHANGED <<nextGen, first>>

\* s_debounce, with KEY[1] down or not.
Debounce ==
    /\ state = "s_debounce" /\ Clocked
    /\ we' = FALSE
    /\ nextState' \in {nextState, "s_init"}
    /\ UNCHANGED <<hCounter, vCounter, currentGen, nextGen, addr_reg, data_reg, first>>

CANext ==
    \/ StartSeeded \/ StartNext \/ Idle
    \/ Generate \/ WriteLine \/ Debounce

CASpec == CAInit /\ [][CANext]_caVars

\* The clock runs.
CAFairSpec == CASpec /\ WF_caVars(CANext)

-----------------------------------------------------------------------------
(* Properties.                                                             *)

\* The automaton itself, on a ring.
Successor(gen) ==
    [i \in Columns |-> Rule(gen[(i - 1) % Width], gen[i], gen[(i + 1) % Width])]

Generation ==
    LET g[n \in 0 .. Height + 1] == IF n = 0 THEN first ELSE Successor(g[n - 1])
    IN  g

\* How the two state registers and the counters go together: what keeps the
\* line counter on the screen although every state is executed twice.
CAShape ==
    /\ state = "s_init" => nextState \in {"s_init", "s_generate"}
    /\ state = "s_init" /\ nextState = "s_generate" => hCounter = 0 /\ vCounter = 0
    /\ state = "s_generate" => nextState \in {"s_generate", "s_write", "s_debounce"}
    /\ state = "s_generate" /\ nextState = "s_write" => hCounter = 0 /\ vCounter < Height
    /\ state = "s_write" => nextState \in {"s_write", "s_generate"}
    /\ state = "s_write" /\ nextState = "s_write" => hCounter < Width
    /\ state = "s_write" /\ nextState = "s_generate" => hCounter = Width
    /\ state = "s_write" /\ hCounter = 0 => vCounter < Height
    /\ state = "s_debounce" => nextState \in {"s_debounce", "s_init"}
    /\ state \in {"s_generate", "s_debounce"} /\ nextState \in {"s_debounce", "s_init"} =>
          vCounter = Height

\* A finished picture shows one generation per line, whatever was on the
\* screen before: column 0 on line n, all other columns one line below. This
\* is so on all of the screen that the memory has words for; the rightmost
\* columns have none.
PictureShown ==
    state = "s_debounce" =>
        \A n \in 0 .. Height - 1 :
            /\ <<0, n>> \in Words => mem[<<0, n>>] = Generation[n][0]
            /\ \A c \in Columns \ {0} :
                  <<c, n + 1>> \in Words => mem[<<c, n + 1>>] = Generation[n][c]

\* KEY[1] continues where the last picture ended, but for one generation
\* that is computed and never shown.
ContinuesPicture ==
    [][StartNext /\ first # Blank => currentGen' = Generation[Height + 1]]_caVars

\* A picture that is begun gets finished.
PictureEnds == (state = "s_generate") ~> (state = "s_debounce")
=============================================================================
