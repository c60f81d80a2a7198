----------------------------- MODULE Multiplier -----------------------------
(***************************************************************************)
(* The two iterative 32x32 multipliers, mult32x32 and mult32x32_fast: a    *)
(* state machine selects a byte of one operand, a word of the other and a  *)
(* shift, and the datapath adds the shifted product to a register.  The    *)
(* fast one leaves out states when the top byte of a or the top word of b  *)
(* is zero.  A step is one clock cycle; `Base' stands for the 256 values   *)
(* of a byte.                                                              *)
(*                                                                         *)
(* State a assigns next_state only when start is high, so next_state is a  *)
(* latch: it keeps its value through state a, and a reset in the middle of *)
(* a run, which sets only current_state, leaves a middle state in it.      *)
(*                                                                         *)
(* The surroundings, as in the test benches: start and reset change once a *)
(* cycle, start is low during reset, and the operands are held from one    *)
(* start to the next.                                                      *)
(***************************************************************************)
EXTENDS Integers

CONSTANT Base   \* 256 in the code

ASSUME BaseAssumption == Base \in Nat \ {0}

MaxCycles == 9
Digit == 0..Base - 1
HalfWord  == 0..Base * Base - 1
FsmStates == {"a", "b", "c", "d", "e", "f", "g", "h", "i"}

VARIABLES
  fast,           \* which of the two multipliers it is
  current_state, next_state, product,
  opA, opB,       \* the operands: four bytes, two words
  begun,          \* history: started, and not reset since
  cycles          \* history: busy cycles since the last start or reset, up to MaxCycles

multVars == <<fast, current_state, next_state, product, opA, opB, begun, cycles>>

-----------------------------------------------------------------------------
(* The state machines.                                                       *)

\* mult32x32_fsm, for every state but a.  Fault: i goes on to b.
FollowSlowRound ==
  [b |-> "c", c |-> "d", d |-> "e", e |-> "f", f |-> "g", g |-> "h", h |-> "i", i |-> "b"]
FollowSlow ==
  [b |-> "c", c |-> "d", d |-> "e", e |-> "f", f |-> "g", g |-> "h", h |-> "i", i |-> "a"]

\* What mult32x32_fast_arith tells its state machine.  Fault: one byte of the word.
BLowByteIs0 == opB[1] % Base = 0
AMsbIs0 == opA[3] = 0
BMswIs0 == opB[1] = 0

\* mult32x32_fast_fsm.
FollowFast(s) ==
  CASE s = "d" -> IF AMsbIs0 THEN IF BMswIs0 THEN "a" ELSE "f" ELSE "e"
    [] s = "e" -> IF BMswIs0 /\ ~AMsbIs0 THEN "a" ELSE "f"
    [] s = "h" -> IF ~BMswIs0 /\ AMsbIs0 THEN "a" ELSE "i"
    [] OTHER   -> FollowSlow[s]

Follow(s) == IF fast THEN FollowFast(s) ELSE FollowSlow[s]

\* next_state when the inputs have settled.
Settled(s, start) ==
  IF s # "a" THEN Follow(s) ELSE IF start THEN "b" ELSE next_state

Busy == current_state # "a"

-----------------------------------------------------------------------------
(* The datapath.                                                             *)

\* a_sel, b_sel and shift_sel of a state.  Fault: the shift of h is that of g.
SelectShort(s) ==
  [b |-> <<0, 0, 0>>, c |-> <<1, 0, 1>>, d |-> <<2, 0, 2>>, e |-> <<3, 0, 3>>,
   f |-> <<0, 1, 2>>, g |-> <<1, 1, 3>>, h |-> <<2, 1, 3>>, i |-> <<3, 1, 5>>][s]
Select(s) ==
  [b |-> <<0, 0, 0>>, c |-> <<1, 0, 1>>, d |-> <<2, 0, 2>>, e |-> <<3, 0, 3>>,
   f |-> <<0, 1, 2>>, g |-> <<1, 1, 3>>, h |-> <<2, 1, 4>>, i |-> <<3, 1, 5>>][s]

\* The shifters: so many bytes to the left.
Base2 == Base * Base
Base4 == Base2 * Base2
Shifted(n, k) == n * <<1, Base, Base2, Base2 * Base, Base4, Base4 * Base>>[k + 1]

Mux8(s) == Shifted(opA[Select(s)[1]] * opB[Select(s)[2]], Select(s)[3])

\* The register of 64 bits; clr_prod comes before upd_prod.
Product(start) ==
  CASE Busy          -> (product + Mux8(current_state)) % (Base4 * Base4)
    [] ~Busy /\ start  -> 0
    [] ~Busy /\ ~start -> product

-----------------------------------------------------------------------------
Cycle(start) ==
  LET s == Settled(current_state, start) IN
  /\ current_state' = s
  /\ next_state' = IF s = "a" THEN "a" ELSE Follow(s)
  /\ product' = Product(start)
  /\ IF start /\ ~Busy
     THEN /\ opA' \in [0..3 -> Digit] /\ opB' \in [0..1 -> HalfWord]
          /\ begun' = TRUE /\ cycles' = 0
     ELSE /\ cycles' = IF Busy /\ cycles < MaxCycles THEN cycles + 1 ELSE cycles
          /\ UNCHANGED <<opA, opB, begun>>
  /\ UNCHANGED fast

\* reset is asynchronous and sets everything but the latch.
MultReset ==
  /\ current_state' = "a"
  /\ next_state' = Settled(current_state, FALSE)
  /\ product' = 0
  /\ begun' = FALSE /\ cycles' = 0
  /\ UNCHANGED <<fast, opA, opB>>

\* An enum variable starts at its first value.
MultInit ==
  /\ fast \in BOOLEAN
  /\ current_state = "a" /\ next_state = "a" /\ product = 0
  /\ opA = [k \in 0..3 |-> 0] /\ opB = [k \in 0..1 |-> 0]
  /\ begun = FALSE /\ cycles = 0

MultNext == MultReset \/ \E start \in BOOLEAN : Cycle(start)

\* The clock ticks.
MultSpec == MultInit /\ [][MultNext]_multVars /\ WF_multVars(\E start \in BOOLEAN : Cycle(start))

-----------------------------------------------------------------------------
MultTypeOK ==
  /\ fast \in BOOLEAN /\ begun \in BOOLEAN
  /\ current_state \in FsmStates /\ next_state \in FsmStates
  /\ product \in 0..Base4 * Base4 - 1
  /\ opA \in [0..3 -> Digit] /\ opB \in [0..1 -> HalfWord]
  /\ cycles \in 0..8

ValueOfA == opA[0] + opA[1] * Base + opA[2] * Base2 + opA[3] * Base2 * Base
ValueOfB == opB[0] + opB[1] * Base2

\* Every variable has its type, and when a run that was started and not reset is
\* over, product is the product, whichever states were left out and however many
\* bytes were zero.
ProductExact == MultTypeOK /\ (begun /\ ~Busy => product = ValueOfA * ValueOfB)

\* How long a run takes: the fast multiplier skips exactly the partial products
\* with a zero top byte or word.
IdealCycles ==
  IF fast THEN (IF opA[3] = 0 THEN 3 ELSE 4) * (IF opB[1] = 0 THEN 1 ELSE 2) ELSE 8
Latency == begun /\ ~Busy => cycles = IdealCycles

\* busy falls again, also after a reset that left the latch in a middle state.
RunsEnd == Busy ~> ~Busy
=============================================================================
