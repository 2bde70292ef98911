------------------------------- MODULE Circuit ------------------------------
(***************************************************************************)
(* The circuit of an upstream route (catalog/commerce_routing.go).  Every  *)
(* attempt of a model request takes a lease on its route in the transaction *)
(* that writes the dispatch intent, and what became of the attempt is       *)
(* observed once, by whoever records it first: the execution, a poll or the *)
(* timeout of the request.  Failures trip the circuit, which starts a new  *)
(* epoch; after a cooldown one request at a time may probe the route.      *)
(*                                                                         *)
(* Answers may come after the lease ran out, after the circuit was tripped *)
(* by others, or never.  Requests, their money and the order in which      *)
(* routes are tried belong to Usage, where a route may refuse at any time. *)
(***************************************************************************)
EXTENDS Integers, FiniteSets

CONSTANTS
  Upstream, Attempt,
  Target,                 \* Target[a]: the route attempt a is made for
  FailureThreshold, UnknownUsageThreshold, RecoverySuccesses

VARIABLES
  health,  \* tokenhub_route_health; cooling says that open_until is ahead
  lease    \* tokenhub_route_leases; active: unfinished and not yet expired
circuitVars == <<health, lease>>

ASSUME CircuitAssumption ==
  /\ IsFiniteSet(Attempt) /\ Target \in [Attempt -> Upstream]
  /\ FailureThreshold \in Nat \ {0} /\ UnknownUsageThreshold \in Nat \ {0}
  /\ RecoverySuccesses \in Nat \ {0}

Health == [circuit : {"closed", "open"}, epoch : Nat, failures : Nat, unknown : Nat,
           recovery : Nat, cooling : BOOLEAN]
Lease == [state : {"none", "running", "skipped", "good", "bad"}, epoch : Nat,
          probe : BOOLEAN, active : BOOLEAN]
CircuitTypeOK == health \in [Upstream -> Health] /\ lease \in [Attempt -> Lease]

CircuitInit ==
  /\ health = [u \in Upstream |->
       [circuit |-> "closed", epoch |-> 0, failures |-> 0, unknown |-> 0,
        recovery |-> 0, cooling |-> FALSE]]
  /\ lease = [a \in Attempt |->
       [state |-> "none", epoch |-> 0, probe |-> FALSE, active |-> FALSE]]

-----------------------------------------------------------------------------
Tripped(u) == health[u].circuit /= "closed"

\* Mutant: a lease counts until somebody finishes it.
Unfinished(u) == {a \in Attempt : Target[a] = u /\ lease[a].state = "running"}
Active(u) == {a \in Attempt : Target[a] = u /\ lease[a].active}

\* Mutant: the health row is read without its lock, before others claim.
AdmitsUnlocked(u) == ~health[u].cooling
Admits(u) == ~health[u].cooling /\ (Tripped(u) => Active(u) = {})

(* ClaimRoute, for an enabled upstream and a request before its deadline.  *)
ClaimRoute(a) ==
  LET u == Target[a] IN
  /\ lease[a].state = "none" /\ Admits(u)
  /\ lease' = [lease EXCEPT ![a] =
       [state |-> "running", epoch |-> health[u].epoch, probe |-> Tripped(u),
        active |-> TRUE]]
  /\ UNCHANGED health

Finished(a, state) == [lease EXCEPT ![a].state = state, ![a].active = FALSE]

(* A reliable result clears the failures; enough of them from probes close *)
(* the circuit.                                                            *)
Recovered(h, probe) ==
  LET successes == IF probe THEN h.recovery + 1 ELSE h.recovery
      closes == probe /\ successes >= RecoverySuccesses
  IN [circuit |-> IF closes THEN "closed" ELSE h.circuit, epoch |-> h.epoch,
      failures |-> 0, unknown |-> 0, recovery |-> IF closes THEN 0 ELSE successes,
      cooling |-> ~closes /\ h.cooling]

\* Mutant: a trip leaves the leases that were given out before it valid.
FailedSameEpoch(h, probe, unknown) ==
  LET failures == h.failures + 1
      unknowns == IF unknown THEN h.unknown + 1 ELSE h.unknown
      trips == probe \/ failures >= FailureThreshold \/ unknowns >= UnknownUsageThreshold
  IN [circuit |-> IF trips THEN "open" ELSE h.circuit, epoch |-> h.epoch,
      failures |-> failures, unknown |-> unknowns, recovery |-> 0,
      cooling |-> trips \/ h.cooling]
Failed(h, probe, unknown) ==
  LET failures == h.failures + 1
      unknowns == IF unknown THEN h.unknown + 1 ELSE h.unknown
      trips == probe \/ failures >= FailureThreshold \/ unknowns >= UnknownUsageThreshold
  IN [circuit |-> IF trips THEN "open" ELSE h.circuit,
      epoch |-> IF trips THEN h.epoch + 1 ELSE h.epoch,
      failures |-> failures, unknown |-> unknowns, recovery |-> 0,
      cooling |-> trips \/ h.cooling]

(* ObserveRoute: the first observation finishes the lease, and counts if   *)
(* the circuit was not tripped since.  A task that was submitted is no     *)
(* observation yet.                                                        *)
ObserveSuccess(a) ==
  LET u == Target[a] IN
  /\ lease[a].state = "running"
  /\ lease' = Finished(a, "good")
  /\ health' = IF lease[a].epoch = health[u].epoch
               THEN [health EXCEPT ![u] = Recovered(@, lease[a].probe)] ELSE health
ObserveFailure(a, unknown) ==
  LET u == Target[a] IN
  /\ lease[a].state = "running"
  /\ lease' = Finished(a, "bad")
  /\ health' = IF lease[a].epoch = health[u].epoch
               THEN [health EXCEPT ![u] = Failed(@, lease[a].probe, unknown)] ELSE health
ObserveNotDispatched(a) ==
  /\ lease[a].state = "running"
  /\ lease' = Finished(a, "skipped")
  /\ UNCHANGED health

(* Time: the deadline of a request, the end of a cooldown.                 *)
LeaseExpires(a) ==
  /\ lease[a].active
  /\ lease' = [lease EXCEPT ![a].active = FALSE]
  /\ UNCHANGED health
CooldownEnds(u) ==
  /\ health[u].cooling
  /\ health' = [health EXCEPT ![u].cooling = FALSE]
  /\ UNCHANGED lease

CircuitNext ==
  \/ \E a \in Attempt :
       \/ ClaimRoute(a) \/ ObserveSuccess(a) \/ ObserveNotDispatched(a)
       \/ \E unknown \in BOOLEAN : ObserveFailure(a, unknown)
       \/ LeaseExpires(a)
  \/ \E u \in Upstream : CooldownEnds(u)
CircuitSpec == CircuitInit /\ [][CircuitNext]_circuitVars

(* Only time is fair.  Whoever holds a lease may never be heard of again.  *)
CircuitFairness ==
  /\ \A a \in Attempt : WF_circuitVars(LeaseExpires(a))
  /\ \A u \in Upstream : WF_circuitVars(CooldownEnds(u))
FairCircuitSpec == CircuitSpec /\ CircuitFairness

-----------------------------------------------------------------------------
(* "A circuit allows one verification request at a time": a request that   *)
(* was let through after the last trip has the route for itself while the  *)
(* circuit is open, and two probes never share it, whatever the leases of  *)
(* older epochs still do.                                                  *)
OneProbeAtATime ==
  \A u \in Upstream : \A a \in Active(u) :
    /\ Tripped(u) /\ lease[a].epoch = health[u].epoch => Active(u) = {a}
    /\ lease[a].probe => \A b \in Active(u) \ {a} : ~lease[b].probe

(* What was observed of the leases of an epoch when a step is over.        *)
Observed(u, state, epoch) ==
  {a \in Attempt : Target[a] = u /\ lease'[a].state = state /\ lease'[a].epoch = epoch}
Probes(S) == {a \in S : lease'[a].probe}

(* The circuit changes on evidence of its own epoch.  It closes when       *)
(* RecoverySuccesses probes that were sent after the last trip succeeded   *)
(* and none failed; it trips on the failure of a probe or on a whole       *)
(* series of failures, none of which was sent before an earlier trip.      *)
ChangesOnEvidence ==
  [][\A u \in Upstream :
       LET good == Observed(u, "good", health[u].epoch)
           bad == Observed(u, "bad", health[u].epoch)
       IN /\ health[u].circuit = "open" /\ health'[u].circuit = "closed" =>
               Cardinality(Probes(good)) >= RecoverySuccesses /\ Probes(bad) = {}
          /\ health[u].circuit = "closed" /\ health'[u].circuit = "open" =>
               \/ Probes(bad) /= {}
               \/ Cardinality(bad) >= UnknownUsageThreshold
               \/ Cardinality(bad) >= FailureThreshold]_circuitVars

(* However many probes get lost, a tripped route is let through again.     *)
ProbedAgain == \A u \in Upstream : []<>Admits(u)
=============================================================================
