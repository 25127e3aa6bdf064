----------------------------- MODULE WorldAgenda -----------------------------
(***************************************************************************)
(* What the world simulation promises to a story: an agenda that is kept.  *)
(* The clock only moves forward.  It never stops beyond an appointment     *)
(* that is still open, an appointment that is settled was due while the    *)
(* clock moved over it and stays settled, and none gets lost.              *)
(***************************************************************************)
EXTENDS Integers

CONSTANT Appointments \* each has a tick

VARIABLES
  now,     \* tick at which the clock stands
  open,    \* appointments to come
  settled  \* appointments that were kept or given up

Init == /\ now = 0 /\ settled = {}
        /\ open \in SUBSET Appointments
        /\ \A a \in open : now < a.tick

Pass ==
  /\ now' \in Nat /\ now < now'
  /\ open' \in SUBSET Appointments /\ settled' \in SUBSET Appointments
  /\ settled \subseteq settled' /\ open \subseteq open' \cup settled'
  /\ \A a \in open' : now' < a.tick /\ a \notin settled'
  /\ \A a \in settled' \ settled : now < a.tick /\ a.tick <= now'

Spec == Init /\ [][Pass]_<<now, open, settled>>
=============================================================================
