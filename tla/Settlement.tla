----------------------------- MODULE Settlement ------------------------------
(***************************************************************************)
(* What the payment subsystem promises of each transaction, with neither   *)
(* charges, webhooks, workflows nor runs: it is opened once, may collect   *)
(* money, and is settled for good - as paid only once its money is there.  *)
(* Which way it is settled may be revised: a payment that lapsed may still *)
(* be collected, and one that was paid may be refunded.                    *)
(***************************************************************************)
CONSTANT Transactions

VARIABLES
  phase,     \* of each transaction
  money      \* whether money was ever collected for it

Phases == {"absent", "open", "paid", "unpaid"}
Settled == {"paid", "unpaid"}

Init ==
  /\ phase = [t \in Transactions |-> "absent"]
  /\ money = [t \in Transactions |-> FALSE]

Open(t) ==
  /\ phase[t] = "absent"
  /\ phase' = [phase EXCEPT ![t] = "open"] /\ UNCHANGED money

\* Only for a transaction that is on record.
Collect(t) ==
  /\ phase[t] # "absent" /\ ~money[t]
  /\ money' = [money EXCEPT ![t] = TRUE] /\ UNCHANGED phase

Settle(t) ==
  /\ phase[t] # "absent"
  /\ \E how \in Settled : (how = "paid" => money[t]) /\ phase' = [phase EXCEPT ![t] = how]
  /\ UNCHANGED money

Next == \E t \in Transactions : Open(t) \/ Collect(t) \/ Settle(t)

Spec == Init /\ [][Next]_<<phase, money>>

=============================================================================
