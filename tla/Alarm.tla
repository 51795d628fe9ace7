------------------------------- MODULE Alarm -------------------------------
(***************************************************************************)
(* What the timer promises a program that programs it with care: an alarm  *)
(* that rings exactly one period after it was last answered, rings until   *)
(* it is answered, and counts anew from the answer on.                     *)
(***************************************************************************)
EXTENDS Naturals

CONSTANT Horizon    (* The longest period: 2^32 - 1.                        *)

VARIABLES period,   (* Clock edges from an answer to the next ring, less 1. *)
          left,     (* What is left of the current period.                  *)
          ringing

vars == <<period, left, ringing>>

Init == period = Horizon /\ left = Horizon /\ ringing = FALSE

\* One clock edge without a ring.
Count ==
  /\ ~ringing /\ left > 0
  /\ left' = left - 1
  /\ UNCHANGED <<period, ringing>>

\* A longer or shorter period, as long as its end still lies ahead.
Postpone(p) ==
  /\ ~ringing /\ left > 0
  /\ p + left > period + 1
  /\ period' = p /\ left' = p + left - period - 1
  /\ UNCHANGED ringing

Ring ==
  /\ ~ringing /\ left = 0
  /\ ringing' = TRUE
  /\ period' \in 1 .. Horizon /\ left' = period'

\* The period may be changed while the alarm waits for its answer.
Set(p) ==
  /\ ringing
  /\ period' = p /\ left' = p
  /\ UNCHANGED ringing

Answer ==
  /\ ringing
  /\ ringing' = FALSE /\ left' = period
  /\ UNCHANGED period

Next == Count \/ Ring \/ Answer \/ \E p \in 1 .. Horizon : Postpone(p) \/ Set(p)

Spec == Init /\ [][Next]_vars
=============================================================================
