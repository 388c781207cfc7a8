----------------------------- MODULE CasperChain -----------------------------
(***************************************************************************)
(* The environment of a facilitator: a clock, a Casper node with its       *)
(* mempool, and the CEP-18 contract behind transfer_with_authorization.    *)
(* None of it is in this repository.  It is modelled from what the code    *)
(* sends to it (the arguments, time stamp and TTL of the transaction) and  *)
(* from the answers it reads back (accepted or refused, execution result). *)
(***************************************************************************)
EXTENDS Cep18

CONSTANTS
  TTL,      \* seconds a transaction may wait for execution: 900 in the code
  MaxTime   \* bound: the clock stops here

ASSUME TTLAssumption == TTL \in Nat
ASSUME MaxTimeAssumption == MaxTime \in Nat

VARIABLES
  now,        \* the clock, in seconds
  accepted,   \* transactions the node has taken in
  succeeded,  \* transactions executed without an error message
  failed      \* transactions executed with one

chainVars == <<now, accepted, succeeded, failed>>

ChainInit ==
  /\ now = 0
  /\ accepted = {}
  /\ succeeded = {}
  /\ failed = {}

Tick ==
  /\ now < MaxTime
  /\ now' = now + 1
  /\ UNCHANGED <<accepted, succeeded, failed>>

-----------------------------------------------------------------------------
(* The node.                                                               *)

Alive(t) == now <= t.stamp.sec + TTL

Pending(t) == t \in accepted \ (succeeded \cup failed)

\* account_put_transaction: the node refuses a transaction past its TTL.
TakeIn(t) ==
  /\ Alive(t)
  /\ accepted' = accepted \cup {t}
  /\ UNCHANGED <<now, succeeded, failed>>

-----------------------------------------------------------------------------
(* The contract: an authorization transfers at most once, inside its       *)
(* window, if the payer signed exactly what the transaction asks for.      *)

Used(a) == \E t \in succeeded : Authorization(t) = a

Transferable(t) ==
  /\ ~Used(Authorization(t))
  /\ t.validAfter <= now
  /\ now <= t.validBefore
  /\ SignedAsAsked(t)

ExecuteWell(t) ==
  /\ Pending(t)
  /\ Alive(t)
  /\ Transferable(t)
  /\ succeeded' = succeeded \cup {t}
  /\ UNCHANGED <<now, accepted, failed>>

\* A transferable one may still fail: the payer's balance or the gas runs out.
ExecuteBadly(t) ==
  /\ Pending(t)
  /\ Alive(t)
  /\ failed' = failed \cup {t}
  /\ UNCHANGED <<now, accepted, succeeded>>
=============================================================================
