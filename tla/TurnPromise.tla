----------------------------- MODULE TurnPromise -----------------------------
(***************************************************************************)
(* What the game page promises to a player who submits an action: it shows *)
(* a turn as done only if the turn was played, only for the action that    *)
(* was submitted last, and what it has shown stays until the next one.     *)
(* Every submission is played at most once.                                *)
(***************************************************************************)
EXTENDS Naturals

VARIABLES
  asked,   \* number of the last submission
  played,  \* submissions whose turn was played
  told     \* the submission shown as done, 0 if none is

Ask ==
  /\ asked' = asked + 1
  /\ told' = 0
  /\ UNCHANGED played

Play(k) ==
  /\ k \notin played
  /\ played' = played \cup {k}
  /\ UNCHANGED <<asked, told>>

Tell ==
  /\ told = 0
  /\ asked \in played
  /\ told' = asked
  /\ UNCHANGED <<asked, played>>

Init == asked = 0 /\ played = {} /\ told = 0
Next == Ask \/ Tell \/ \E k \in 1..asked : Play(k)
Spec == Init /\ [][Next]_<<asked, played, told>>
=============================================================================
