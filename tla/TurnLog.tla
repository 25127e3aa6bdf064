------------------------------- MODULE TurnLog -------------------------------
(***************************************************************************)
(* What a game session promises to its players: a log of turns.            *)
(*                                                                         *)
(* A turn happens in one step.  It reads the state of the world, appends   *)
(* itself to the log and may change the world; each key is played at most  *)
(* once.  The world may also change by other means between two turns.      *)
(***************************************************************************)
EXTENDS Integers, Sequences

CONSTANTS Keys, Inputs

VARIABLES
  log,    \* the turns played, each with the versions of the world it read
  world   \* version of the world

Play(k, i) ==
  /\ \A n \in DOMAIN log : log[n].key # k
  /\ log' = Append(log, [key |-> k, input |-> i, reads |-> {world}])
  /\ world' \in {world, world + 1}

Change ==
  /\ world' = world + 1
  /\ UNCHANGED log

Init == log = <<>> /\ world = 0
Next == Change \/ \E k \in Keys, i \in Inputs : Play(k, i)
Spec == Init /\ [][Next]_<<log, world>>
=============================================================================
