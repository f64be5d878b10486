-------------------------- MODULE PaymentInvariant --------------------------
(***************************************************************************)
(* The inductive invariant behind the safety properties of PaymentCore:    *)
(* what is true of every copy of a transaction that some handler still     *)
(* holds, so that writing the whole copy back, however late, cannot make   *)
(* the store claim money that was never collected.                         *)
(***************************************************************************)
EXTENDS PaymentCore

FundedTxs == {t \in Requests : Funded(t)}

\* What a stored document, or a copy of one, may be: it was saved, its provider id is
\* a charge made for this very transaction, and it says COMPLETED only if money was
\* collected.
SoundCopies ==
  {tx \in Tx :
    /\ Stored(tx.id)
    /\ tx.pid # NoCharge => charges[tx.pid] # NoCharge /\ charges[tx.pid].ref = tx.id
    /\ tx.status = "COMPLETED" => tx.id \in FundedTxs}

StoreSound == \A t \in Requests : Stored(t) => txs[t].id = t /\ txs[t] \in SoundCopies

\* The provider announced every status a charge ever had.
ChargesSound ==
  \A c \in ChargeIds : charges[c] # NoCharge =>
    /\ Stored(charges[c].ref)
    /\ [charge |-> c, status |-> charges[c].status] \in sent

Holding == {"commit", "charge", "markpaid", "update", "fail", "workflow"}

\* A request holds a sound copy once it has saved, and the charges it has not made yet
\* do not exist.
RequestsSound ==
  \A r \in Requests :
    /\ reqs[r].pc \in Holding => reqs[r].tx \in SoundCopies
    /\ reqs[r].pc = "markpaid" => reqs[r].tx.status = "COMPLETED"
    /\ \A n \in 1..MaxAttempts : n > reqs[r].attempts => charges[<<r, n>>] = NoCharge

\* A delivery works for an event that was sent and, past SaveUnique, recorded; past
\* the update of an approved payment its transaction is funded.
DeliveriesSound ==
  \A w \in Workers :
    LET d == deliveries[w] IN
    /\ d.pc # "idle" => d.event \in sent
    /\ d.pc \notin {"idle", "record"} => d.event \in processed
    /\ d.pc = "update" => /\ d.tx \in SoundCopies
                          /\ Action(d.event.status) = "approved" => d.tx.status = "COMPLETED"
    /\ d.pc \in {"markpaid", "allocate", "ledger", "notify"} => d.tx \in Tx /\ d.tx.id \in FundedTxs

WorkflowsSound ==
  \A t \in Requests :
    /\ workflows[t].state \in {"WAITING", "EXPIRING", "LOADED"} => Stored(t)
    /\ workflows[t].state = "LOADED" => workflows[t].tx \in SoundCopies

RunsSound ==
  \A p \in Reconcilers :
    /\ \A tx \in runs[p].batch : tx \in SoundCopies
    /\ runs[p].tx # NoTx => runs[p].tx \in SoundCopies

Sound ==
  /\ TypeOK
  /\ StoreSound
  /\ ChargesSound
  /\ RequestsSound
  /\ DeliveriesSound
  /\ WorkflowsSound
  /\ RunsSound
  /\ EffectsAreFunded
  /\ EventHasOneHandler

-----------------------------------------------------------------------------
(* While no two requests share an idempotency key, the only handler that   *)
(* writes a transaction before its outcome is known is the request that    *)
(* saved it; every copy held by anyone else is terminal.                   *)

KeysAreUnique == \A t, u \in Requests : KeyOf[t] = KeyOf[u] /\ KeyOf[t] # NoKey => t = u

\* From the insert to the write of what became of the charge.
Drafting == {"commit", "charge", "markpaid", "update", "fail"}

\* The request that saved it will not write it again.
Handed(t) == Stored(t) /\ reqs[t].pc \notin Drafting

\* A copy that settles its transaction whenever it is written.
FinalCopies ==
  {tx \in SoundCopies : Handed(tx.id) /\ IsTerminal(tx) /\ tx.pid = txs[tx.id].pid}

\* A request works on its own transaction, which nobody has touched until it is done.
RequestsOwn ==
  \A r \in Requests :
    /\ reqs[r].pc \in {"start", "validate", "save"} => ~Stored(r) /\ workflows[r].state = "NONE"
    /\ reqs[r].pc \in Drafting => txs[r] = NewTx(r) /\ workflows[r].state = "NONE"
    /\ reqs[r].pc \in Holding => reqs[r].tx.id = r
    /\ reqs[r].pc \in {"markpaid", "update"} => reqs[r].tx.pid # NoCharge
    /\ reqs[r].pc = "fail" => IsTerminal(reqs[r].tx)

\* A delivery that found a transaction to settle settles it before it signals.
DeliveriesSettle ==
  \A w \in Workers :
    LET d == deliveries[w] IN
    /\ d.pc = "update" => d.tx \in FinalCopies /\ d.tx.pid = d.event.charge
    /\ d.pc \in {"markpaid", "allocate", "ledger", "notify", "signal"} =>
         \E t \in Requests : Stored(t) /\ txs[t].pid = d.event.charge /\ IsTerminal(txs[t])

WorkflowsSettle ==
  \A t \in Requests :
    /\ workflows[t].state = "LOADED" => workflows[t].tx \in FinalCopies /\ workflows[t].tx.id = t
    /\ workflows[t].signalled \/ workflows[t].state = "PAID" => Stored(t) /\ IsTerminal(txs[t])

RunsSettle ==
  \A p \in Reconcilers :
    /\ \A tx \in runs[p].batch :
         tx.pid # NoCharge => Handed(tx.id) /\ tx.pid = txs[tx.id].pid
    /\ runs[p].tx # NoTx => runs[p].tx \in FinalCopies

Settling == RequestsOwn /\ DeliveriesSettle /\ WorkflowsSettle /\ RunsSettle

-----------------------------------------------------------------------------
(* A handler that counted no group and is about to insert one counts as a  *)
(* group already: there are never more of both than handlers.              *)

PickersOf(i) == {w \in Workers : deliveries[w].picked = i}

GroupsAreCovered ==
  \A i \in Installments : allocations[i] + Cardinality(PickersOf(i)) <= Cardinality(Workers)

=============================================================================
