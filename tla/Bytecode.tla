------------------------------ MODULE Bytecode ------------------------------
(***************************************************************************)
(* Limits the code generator and the interpreter share.                    *)
(***************************************************************************)
EXTENDS Integers

CONSTANTS
  MAXARG,    \* the largest 8-bit operand (255)
  FIELDS,    \* array elements stored by one SETLIST (50)
  MAXSTACK   \* registers a function may use (250)

ASSUME LimitsAssumption == MAXARG \in Nat /\ FIELDS \in Nat \ {0} /\ MAXSTACK \in Nat

Max2(m, n) == IF m >= n THEN m ELSE n
=============================================================================
