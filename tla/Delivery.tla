------------------------------ MODULE Delivery -------------------------------
(***************************************************************************)
(* What an ingestion pipeline promises of the items it is given: each ends *)
(* up in one stored row, or is superseded by a later one still waiting, or *)
(* has nothing to store, and is lost only when something fails.  A step    *)
(* may carry several items, as the flush of a batch does.                  *)
(***************************************************************************)
EXTENDS Naturals

CONSTANT Item      \* numbered in the order they are taken

VARIABLES
    status,     \* what has become of each item
    faults      \* rollbacks and restarts so far

vars == <<status, faults>>

Status == {"new", "taken", "stored", "superseded", "ignored", "lost"}

Init == status = [i \in Item |-> "new"] /\ faults = 0

\* Where one step may take an item.
MayBecome(from) ==
    CASE from = "new"   -> {"taken"}
      [] from = "taken" -> {"stored", "superseded", "ignored", "lost"}
      [] OTHER          -> {}

Next ==
    /\ status' \in [Item -> Status]
    /\ faults' \in {faults, faults + 1}
    /\ \A i \in Item :
        LET was == status[i]
            is  == status'[i]
        IN  is # was =>
              /\ is \in MayBecome(was)
              /\ is = "lost" => faults' = faults + 1
              /\ is = "superseded" => \E j \in Item : i < j /\ status[j] = "taken"

Spec == Init /\ [][Next]_vars
=============================================================================
