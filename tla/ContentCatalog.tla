---------------------------- MODULE ContentCatalog ----------------------------
(***************************************************************************)
(* What publication promises: a catalog that only grows.                   *)
(*                                                                         *)
(* An entry is made in one step and never changes: neither the version and *)
(* its content nor the world that shows it.  A play is tied for good to    *)
(* what the catalog held when it began.                                    *)
(***************************************************************************)
CONSTANTS Keys, Players, Entries, Null

VARIABLES
  catalog,  \* the entry of each key
  plays     \* what each player plays

Publish(k) ==
  /\ catalog[k] = Null
  /\ catalog'[k] \in Entries
  /\ catalog' = [catalog EXCEPT ![k] = catalog'[k]]
  /\ UNCHANGED plays

Begin(p, k) ==
  /\ plays[p] = Null
  /\ catalog[k] # Null
  /\ plays' = [plays EXCEPT ![p] = [version |-> catalog[k].version,
                                    content |-> catalog[k].content]]
  /\ UNCHANGED catalog

Init ==
  /\ catalog = [k \in Keys |-> Null]
  /\ plays = [p \in Players |-> Null]

Next ==
  \/ \E k \in Keys : Publish(k)
  \/ \E p \in Players, k \in Keys : Begin(p, k)

Spec == Init /\ [][Next]_<<catalog, plays>>
=============================================================================
