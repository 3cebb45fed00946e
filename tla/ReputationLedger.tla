-------------------------- MODULE ReputationLedger --------------------------
(***************************************************************************)
(* What the trust layer promises about a reputation score, without         *)
(* transactions: an account per agent that is opened once, credited by     *)
(* amounts that are clamped to 0..1000, and emptied by a revocation.       *)
(*                                                                         *)
(*   Spec       every credit is added to the current balance;              *)
(*   StaleSpec  a credit is added to some balance the account has had:     *)
(*              a credit may be lost, but only as a whole, and no balance  *)
(*              comes from anything but the opening balance and credits.   *)
(***************************************************************************)
EXTENDS Integers

CONSTANTS Agents, Amounts, Opening, Closed

VARIABLES
  balance,  \* the account of each agent, Closed before it is opened
  past      \* every balance each account has had

ledger == <<balance, past>>

Clamp(n) == IF n < 0 THEN 0 ELSE IF n > 1000 THEN 1000 ELSE n

Init ==
  /\ balance = [a \in Agents |-> Closed]
  /\ past = [a \in Agents |-> {}]

Become(a, n) ==
  /\ balance' = [balance EXCEPT ![a] = n]
  /\ past' = [past EXCEPT ![a] = @ \cup {n}]

Open(a) == past[a] = {} /\ Become(a, Opening)

Revoke(a) == past[a] # {} /\ Become(a, 0)

\* A credit computed from the balance "base".
Credit(a, base) ==
  /\ base \in past[a]
  /\ \E d \in Amounts : Become(a, Clamp(base + d))

Next ==
  \E a \in Agents : Open(a) \/ Revoke(a) \/ Credit(a, balance[a])

StaleNext ==
  \E a \in Agents : Open(a) \/ Revoke(a) \/ \E base \in past[a] : Credit(a, base)

Spec == Init /\ [][Next]_ledger

StaleSpec == Init /\ [][StaleNext]_ledger
=============================================================================
