------------------------------ MODULE Settlement ------------------------------
(***************************************************************************)
(* What the rail promises whoever lets it act, with handlers, events and   *)
(* clocks forgotten.  An action exposes the caller to an external effect   *)
(* at most once, and to a remedy at most once and only after a breach; the *)
(* rail gives the recourse back only when nothing is left to undo; and a   *)
(* receipt says how the exposure ended, once and for all.                  *)
(***************************************************************************)
EXTENDS Naturals

CONSTANT Action

VARIABLES
    phase,      \* where the exposure of each action stands
    released,   \* the rail has given the recourse back
    executions, \* calls of the protected operation
    remedies,   \* calls of the remedy
    receipt     \* the outcome a receipt states, "none" before there is one

svars == <<phase, released, executions, remedies, receipt>>

Verdicts == {"settled", "compensated", "disputed"}

Phases == {"idle", "withdrawn", "exposed", "absent", "breached", "remedying"}
          \cup Verdicts

Course ==
    ({"idle"}            \X {"withdrawn", "exposed"})
    \cup ({"exposed"}    \X {"absent", "settled", "breached", "disputed"})
    \cup ({"breached"}   \X {"remedying", "disputed"})
    \cup ({"remedying"}  \X {"compensated", "disputed"})

\* Nothing is left to undo.
Harmless == {"withdrawn", "absent", "settled", "compensated"}

Init ==
    /\ phase = [a \in Action |-> "idle"]
    /\ released = [a \in Action |-> FALSE]
    /\ executions = [a \in Action |-> 0]
    /\ remedies = [a \in Action |-> 0]
    /\ receipt = [a \in Action |-> "none"]

\* The exposure moves on.  A step that ends it may also give the recourse
\* back and cut the receipt; a step that fails half way leaves either undone.
Proceed(a, next) ==
    /\ <<phase[a], next>> \in Course
    /\ phase' = [phase EXCEPT ![a] = next]
    /\ executions' = [executions EXCEPT ![a] = IF next = "exposed" THEN @ + 1 ELSE @]
    /\ remedies' = [remedies EXCEPT ![a] = IF next = "remedying" THEN @ + 1 ELSE @]
    /\ released' \in {released} \cup
          (IF next \in Harmless THEN {[released EXCEPT ![a] = TRUE]} ELSE {})
    /\ receipt' \in {receipt} \cup
          (IF next \in Verdicts THEN {[receipt EXCEPT ![a] = next]} ELSE {})

Next == \E a \in Action, next \in Phases : Proceed(a, next)

Spec == Init /\ [][Next]_svars
===============================================================================
