------------------------------ MODULE Finance -------------------------------
(***************************************************************************)
(* What the finance screens of one event show, and the summary that is     *)
(* recalculated from the splits and the installments.  The installments    *)
(* these screens find are those with binary ids, which the Java backend    *)
(* writes; the ledger is written by the subledger: both are environment.   *)
(***************************************************************************)
EXTENDS Rateios, EventInstallments, SequencesExt, FiniteSetsExt

CONSTANTS
  PaidByCard,            \* installments whose method holds the money for some days
  Summaries              \* ids drawn for summary documents

VARIABLE summaries
financeVars == <<parcelas, summaries>>

Amount == 100            \* centavos
\* available, pending: money that may be withdrawn, and that is on its way out.
\* began, stored: requests accepted when the recalculation was, and when it wrote;
\* failed: one of its reads failed.  These three are not in the document.  No
\* recalculation began as request 0: an id that was not drawn yet holds NewSummary.
Summary == [goal: Nat, collected: Nat, available: Nat, pending: Nat,
            began: Nat, stored: Nat, failed: BOOLEAN]
NewSummary == [goal |-> 0, collected |-> 0, available |-> 0, pending |-> 0,
               began |-> 0, stored |-> 0, failed |-> FALSE]

ASSUME FinanceAssumption == Summaries \subseteq Nat

FinanceInit == InstallmentsInit /\ summaries = [i \in Summaries |-> NewSummary]

FinanceTypeOK ==
  /\ InstallmentsTypeOK
  /\ summaries \in [Summaries -> Summary]

FinanceCall(op) ==
  CASE op = "sumPaid" -> [op: {op}, goal: Nat, began: Nat, failed: BOOLEAN]
    [] op = "findSummary" -> [op: {op}, goal: Nat, collected: Nat, began: Nat, failed: BOOLEAN]
    [] op = "insertSummary" -> [op: {op}, summary: Summary]
    [] op = "setSummary" -> [op: {op}, id: Summaries, summary: Summary]
    [] OTHER -> {}

SummaryExists(i) == summaries[i].began # 0
Docs == {i \in Summaries : SummaryExists(i)}

-----------------------------------------------------------------------------
(* Repository methods.                                                     *)

\* FinanceInstallmentMongoRepository.
FindByEventID == Parcelas \ TextIds
FindByParticipantID(who) == FindByEventID \cap ParcelasOf(who)
FindPendingByEventID == FindByEventID \cap WithStatus(Unpaid)
TotalOf(ps) == Amount * Cardinality(ps)

\* FindOne: the first document inserted.
FindSummary == {i \in Docs : \A j \in Docs : i <= j}
CurrentSummary == IF FindSummary = {} THEN NewSummary ELSE summaries[CHOOSE i \in FindSummary : TRUE]
PutSummary(i, summary) == summaries' = [summaries EXCEPT ![i] = summary]

\* One page of n documents in a fixed order: those after skip, as many as size.
Slice(n, skip, size) == SubSeq([i \in 1..n |-> i], skip + 1, Min({n, skip + size}))
LedgerSkip(page, size) == (page - 1) * size
FindEntries(n, page, size) == Slice(n, LedgerSkip(page, size), size)

-----------------------------------------------------------------------------
(* Use cases that read.                                                    *)

\* A closed split no longer counts.
Goal == MapThenSumSet(LAMBDA r : rateios[r].valor, Open)
Collected(ps) == TotalOf(ps \cap WithStatus({"PAID"}))
Total(statuses) == TotalOf(FindByEventID \cap WithStatus(statuses))

\* Of the goal and the summary that were read: a read that fails counts as a goal of 0,
\* or as no summary.
Overview(goal, summary) ==
  [goal |-> goal, collected |-> summary.collected, pending |-> summary.pending,
   available |-> Max({0, summary.collected - summary.pending})]
GetFinanceOverview(u, goal, summary) == IF IsParticipantOfEvent(u) THEN {Overview(goal, summary)} ELSE {}
\* The user's rows for the event, one for each participation record that is past the
\* invitation; none when the event cannot be read.  The summary is read again for what is
\* pending and available, which is shown as stored.
ListFinanceEvents(u, phase, readable, goal, summary, again) ==
  [x \in {y \in FindParticipationIDsByUserID(u) : readable /\ ~Hidden(phase[y])} |->
     [Overview(goal, summary) EXCEPT !.available = again.available, !.pending = again.pending]]

\* One row: a cancelled installment is neither paid nor pending.
ParticipantStatus(mine) ==
  [paid |-> Collected(mine), pending |-> TotalOf(mine \cap WithStatus(Unpaid)),
   status |-> CASE mine \cap WithStatus({"OVERDUE"}) # {} -> "OVERDUE"
                [] mine # {} /\ mine \cap WithStatus(Unpaid) = {} -> "PAID"
                [] OTHER -> "PENDING"]
\* A row for each participation record; installments that cannot be read are none.
GetParticipantsStatus(read) ==
  [who \in Records |-> ParticipantStatus(IF who \in read THEN FindByParticipantID(who) ELSE {})]

GetEventPaymentStatus ==
  [paid |-> Total({"PAID"}), pending |-> Total({"PENDING"}), overdue |-> Total({"OVERDUE"})]

\* The hold of a method ends a number of days after the payment; that of PIX at once.
\* Mutant: installments count whether or not the date of payment is stored.
HoldBalanceOfUndated ==
  LET paid == FindByEventID \cap WithStatus({"PAID"})
      blocked == TotalOf({p \in paid : parcelas[p].held})
  IN [blocked |-> blocked, available |-> Max({0, TotalOf(paid) - blocked})]
\* An installment whose date of payment is not stored counts for nothing.
CalculateHoldBalance ==
  LET dated == {p \in FindByEventID \cap WithStatus({"PAID"}) : parcelas[p].paidAt}
      blocked == TotalOf({p \in dated : parcelas[p].held})
  IN [blocked |-> blocked, available |-> Max({0, TotalOf(dated) - blocked})]

\* The participants to remind, each once.  No dispatcher is configured: none is sent.
SendPaymentReminders == {ParcelaOf[p] : p \in FindPendingByEventID}

TotalPages(total, size) == (total + size - 1) \div size
\* A page size is 1 to 100.
Clamp(size) == Max({1, Min({100, size})})
\* Of a ledger of n entries.  A skip below zero is refused by the database.
GetLedgerStatement(n, asked, size) ==
  LET page == Max({0, asked}) IN
  [content |-> IF LedgerSkip(page, Clamp(size)) < 0 THEN << >> ELSE FindEntries(n, page, Clamp(size)),
   totalPages |-> TotalPages(n, Clamp(size)), failed |-> LedgerSkip(page, Clamp(size)) < 0]
GetAuditTrail(n, page, size) == Slice(n, Max({0, page}) * Clamp(size), Clamp(size))
\* The page of participants of GetParticipantsStatus.
FindParticipants(n, page, size) == Slice(n, Max({0, page}) * Clamp(size), Clamp(size))

\* The handlers' defaults: page 0 of 20.
getLedgerStatement(n, page, size) == GetLedgerStatement(n, Given(page, 0), Given(size, 20))
getAuditTrail(n, page, size) == GetAuditTrail(n, Given(page, 0), Given(size, 20))
getParticipantsStatus(n, page, size) == FindParticipants(n, Given(page, 0), Given(size, 20))

-----------------------------------------------------------------------------
(* RecalculateFinanceSummary.  A read that fails counts as an empty list.  *)

\* Mutant: the balance that is held is taken for what was collected.
BlockedNow == TotalOf({p \in FindByEventID : parcelas[p].held})
CollectedNow == Collected(FindByEventID)

Recalculate(s) ==
  /\ \E failed \in BOOLEAN :
       Begin(s, [op |-> "sumPaid", goal |-> IF failed THEN 0 ELSE Goal, began |-> served + 1, failed |-> failed])
  /\ UNCHANGED <<rateioVars, financeVars>>
SumPaid(s) ==
  LET c == calls[s] IN
  /\ At(s, "sumPaid")
  /\ \E failed \in BOOLEAN :
       Continue(s, [op |-> "findSummary", goal |-> c.goal, began |-> c.began,
                    collected |-> IF failed THEN 0 ELSE CollectedNow, failed |-> c.failed \/ failed])
  /\ UNCHANGED <<rateioVars, financeVars>>
\* Mutant: the summary is looked up by the wrong id and never found.
NeverExisting == {}
Existing == FindSummary
\* A failed look-up counts as no summary.  What is available is kept as it was read.
ChooseSummary(s) ==
  LET c == calls[s] IN
  /\ At(s, "findSummary")
  /\ \E failed \in BOOLEAN :
       LET found == IF failed THEN {} ELSE Existing
           new == [NewSummary EXCEPT !.goal = c.goal, !.collected = c.collected, !.began = c.began,
                                     !.failed = c.failed \/ failed]
           first == CHOOSE i \in found : TRUE
       IN Continue(s, IF found = {} THEN [op |-> "insertSummary", summary |-> new]
                      ELSE [op |-> "setSummary", id |-> first,
                            summary |-> [new EXCEPT !.available = summaries[first].available]])
  /\ UNCHANGED <<rateioVars, financeVars>>
InsertSummary(s) ==
  /\ At(s, "insertSummary")
  /\ \E i \in Summaries :
       /\ ~SummaryExists(i) /\ \A j \in Docs : j < i
       /\ PutSummary(i, [calls[s].summary EXCEPT !.stored = served])
  /\ Finish(s) /\ UNCHANGED <<rateioVars, parcelas>>
\* $set of goal, collected, progress and what is available: what another recalculation or
\* a withdrawal wrote of these since is lost.
SetSummary(s) ==
  LET c == calls[s] IN
  /\ At(s, "setSummary")
  /\ PutSummary(c.id, [c.summary EXCEPT !.pending = summaries[c.id].pending, !.stored = served])
  /\ Finish(s) /\ UNCHANGED <<rateioVars, parcelas>>

-----------------------------------------------------------------------------
(* Environment.                                                            *)

\* A confirmed payment, of whatever status the installment has, with or without its
\* date; a card holds the money.
Pay(p) ==
  /\ parcelas[p].status # "PAID"
  /\ \E dated \in BOOLEAN :
       parcelas' = [parcelas EXCEPT ![p] =
         [status |-> "PAID", paidAt |-> dated, held |-> dated /\ p \in PaidByCard]]
Lapse(p) ==
  /\ parcelas[p].status \in Unpaid
  /\ \E s \in {"OVERDUE", "CANCELLED"} : parcelas' = [parcelas EXCEPT ![p].status = s]
\* The hold ends, or its days are changed in the settings.
Release(p) ==
  /\ p \in PaidByCard /\ parcelas[p].paidAt
  /\ \E held \in BOOLEAN : parcelas' = [parcelas EXCEPT ![p].held = held]
\* A withdrawal is requested.  One at a time.
Withdraw(i) ==
  /\ SummaryExists(i) /\ summaries[i].pending = 0 /\ summaries[i].collected >= Amount
  /\ PutSummary(i, [summaries[i] EXCEPT !.pending = Amount, !.available = summaries[i].collected - Amount])

FinanceStep(s) == SumPaid(s) \/ ChooseSummary(s) \/ InsertSummary(s) \/ SetSummary(s)
recalculateFinanceSummary(s) == Recalculate(s)

FinanceEnvironment ==
  /\ \/ ((\E p \in Parcelas : Pay(p) \/ Lapse(p) \/ Release(p)) \/ cancelParticipantInstallments)
        /\ UNCHANGED summaries
     \/ (\E i \in FindSummary : Withdraw(i)) /\ UNCHANGED parcelas
  /\ UNCHANGED <<handlerVars, rateioVars>>

-----------------------------------------------------------------------------

vars == <<handlerVars, rateioVars, financeVars>>
Init == HandlersInit /\ RateiosInit /\ FinanceInit
Next ==
  \/ RateiosNext /\ UNCHANGED financeVars
  \/ \E s \in Slots : recalculateFinanceSummary(s) \/ FinanceStep(s)
  \/ FinanceEnvironment
  \/ (\E s \in Slots : Abort(s)) /\ UNCHANGED <<rateioVars, financeVars>>
Spec == Init /\ [][Next]_vars

TypeOK ==
  /\ RateiosTypeOK /\ FinanceTypeOK
  /\ served \in 0..MaxRequests
  /\ DOMAIN calls = Slots
  /\ \A s \in Slots : calls[s] \in RateiosCall(calls[s].op) \cup FinanceCall(calls[s].op) \cup {NoCall}

\* No summary ever shows more than was collected, however old it is and whatever
\* recalculations raced: money collected is not given back here, and a failed read
\* counts for nothing.
SummaryNeverOverstates == \A i \in Docs : summaries[i].collected <= Total({"PAID"})

\* What a summary says was collected falls only through a recalculation that failed to
\* read or one that was under way when the value it overwrites was stored.
CollectedFallsOnlyInARace ==
  [][\A i \in Docs :
       summaries'[i].collected < summaries[i].collected
         => summaries'[i].failed \/ summaries'[i].began <= summaries[i].stored]_vars

\* A second summary of the event appears only when two recalculations overlapped or one
\* could not read the first.
SecondSummaryOnlyInARace ==
  \A i, j \in Docs : i < j => summaries[j].failed \/ summaries[j].began <= summaries[i].stored

\* The screens account for the same money: the rows of the participants, with the
\* installments filed under no participation record, make up the totals of the event, and
\* so do the balance held and available with the payments of no known date, whatever was
\* cancelled, lapsed or paid late.  A read that failed shows nobody who still owes as
\* PAID, and no more collected than was.  The reminders go to whom a row or an unlisted
\* installment says still owes, and a row of the list shows the goal, the money collected
\* and the withdrawals of the overview.
ViewsAgree ==
  LET rows == GetParticipantsStatus(Records)
      sum(f(_)) == MapThenSumSet(f, Records)
      unlisted == {p \in FindByEventID : ParcelaOf[p] \notin Records}
      undated == {p \in FindByEventID \cap WithStatus({"PAID"}) : ~parcelas[p].paidAt}
      total == GetEventPaymentStatus
      balance == CalculateHoldBalance
  IN
  /\ sum(LAMBDA w : rows[w].paid) + Collected(unlisted) = total.paid
  /\ balance.blocked + balance.available + TotalOf(undated) = total.paid
  /\ sum(LAMBDA w : rows[w].pending) + TotalOf(unlisted \cap WithStatus(Unpaid))
       = total.pending + total.overdue
  /\ \A u \in Users, goal \in {0, Goal}, summary \in {NewSummary, CurrentSummary} :
       \A shown \in GetFinanceOverview(u, goal, summary) : shown.collected <= total.paid
  /\ \A read \in SUBSET Records, w \in Records :
       GetParticipantsStatus(read)[w].status = "PAID" => rows[w].pending = 0
  /\ SendPaymentReminders = {w \in Records : rows[w].pending > 0}
                              \cup {ParcelaOf[p] : p \in unlisted \cap WithStatus(Unpaid)}
  /\ \A u \in Users, phase \in [Records -> {"AGUARDANDO_ACEITE", "CONFIRMADO"}], readable \in BOOLEAN :
       LET list == ListFinanceEvents(u, phase, readable, Goal, CurrentSummary, CurrentSummary) IN
       \A x \in DOMAIN list :
         /\ phase[x] = "CONFIRMADO"
         /\ \E shown \in GetFinanceOverview(u, Goal, CurrentSummary) :
              list[x] = [shown EXCEPT !.available = list[x].available]

\* However many entries there are, pages 1 to totalPages of the ledger meet every one
\* once, for any page size asked for; page 0, which the endpoint serves by default, is
\* the only one that is refused.  The pages of the audit trail and of the participants
\* count from zero.
PagesMeetEveryEntry ==
  \A n \in 0..Cardinality(Parcelas) :
    LET all == [i \in 1..n |-> i] IN
    /\ getLedgerStatement(n, << >>, << >>).failed
    /\ \A size \in -1..Cardinality(Parcelas) :
         LET last == getLedgerStatement(n, <<1>>, <<size>>).totalPages
             pages == 1..last
         IN
         /\ \A page \in pages : ~getLedgerStatement(n, <<page>>, <<size>>).failed
         /\ FlattenSeq([p \in pages |-> getLedgerStatement(n, <<p>>, <<size>>).content]) = all
         /\ FlattenSeq([p \in pages |-> getAuditTrail(n, <<p - 1>>, <<size>>)]) = all
         /\ FlattenSeq([p \in pages |-> getParticipantsStatus(n, <<p - 1>>, <<size>>)]) = all

\* Whatever screen somebody asks for, over whichever route, in whichever state of the
\* installments: what it leaves out or adds of the same money is known.
ScreensAgree == ViewsAgree /\ SummaryNeverOverstates /\ InstallmentListsAgree /\ PagesMeetEveryEntry

=============================================================================
