-------------------------------- MODULE Vault --------------------------------
(***************************************************************************)
(* What the ledger promises, without rows, keys or locks: the money of an  *)
(* account is either free or locked for one reservation.  A movement       *)
(* touches free money only and happens once; locked money leaves through   *)
(* its own reservation, which is used once.                                *)
(***************************************************************************)
EXTENDS Integers

CONSTANTS Account, Control, Posting, Reservation

VARIABLES
  free,    \* free[a], negative for control accounts only
  locked,  \* locked[r][a]
  used,    \* reservations made
  done     \* postings made

vaultVars == <<free, locked, used, done>>

Nothing == [a \in Account |-> 0]
NonNegative(f) == \A a \in Account \ Control : f[a] >= 0

VaultInit == /\ free = Nothing /\ used = {} /\ done = {}
             /\ locked = [r \in Reservation |-> Nothing]

Move(p) ==
  /\ p \notin done
  /\ free' = [a \in Account |-> free[a] + p.lines[a]]
  /\ NonNegative(free')
  /\ done' = done \cup {p}
  /\ UNCHANGED <<locked, used>>

Lock(r) ==
  /\ r \notin used
  /\ free' = [a \in Account |-> free[a] - r.amounts[a]]
  /\ \A a \in Control : r.amounts[a] = 0
  /\ NonNegative(free')
  /\ locked' = [locked EXCEPT ![r] = r.amounts]
  /\ used' = used \cup {r}
  /\ UNCHANGED done

Unlock(r) ==
  /\ r \in used
  /\ free' = [a \in Account |-> free[a] + locked[r][a]]
  /\ locked' = [locked EXCEPT ![r] = Nothing]
  /\ UNCHANGED <<used, done>>

\* Unlock and Move in one step.
Spend(r, p) ==
  /\ r \in used /\ locked[r] = r.amounts
  /\ p \notin done
  /\ free' = [a \in Account |-> free[a] + locked[r][a] + p.lines[a]]
  /\ NonNegative(free')
  /\ locked' = [locked EXCEPT ![r] = Nothing]
  /\ done' = done \cup {p}
  /\ UNCHANGED used

VaultNext == \/ \E p \in Posting : Move(p)
             \/ \E r \in Reservation : Lock(r) \/ Unlock(r)
             \/ \E r \in Reservation, p \in Posting : Spend(r, p)

VaultSpec == VaultInit /\ [][VaultNext]_vaultVars
=============================================================================
