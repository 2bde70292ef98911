---------------------------- MODULE DurableWork ----------------------------
(***************************************************************************)
(* What a durable queue promises: an accepted item stays open until it is  *)
(* done, once and for good, or parked for a human who may reopen it.       *)
(***************************************************************************)
CONSTANT Item
VARIABLE outcome

Outcomes == {"unknown", "open", "done", "parked"}

Init == outcome = [i \in Item |-> "unknown"]

Move(i, from, to) == outcome[i] = from /\ outcome'[i] = to
Accept(i) == Move(i, "unknown", "open")
Finish(i) == Move(i, "open", "done")
Park(i) == Move(i, "open", "parked")
Reopen(i) == Move(i, "parked", "open")

(* One transaction may park several items at once. *)
Next ==
  /\ outcome' \in [Item -> Outcomes]
  /\ \A i \in Item : \/ outcome'[i] = outcome[i]
                     \/ Accept(i) \/ Finish(i) \/ Park(i) \/ Reopen(i)

Spec == Init /\ [][Next]_outcome
=============================================================================
