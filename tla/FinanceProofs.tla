---------------------------- MODULE FinanceProofs ----------------------------
(***************************************************************************)
(* Safety of Rateios, EventInstallments and Finance for every number of    *)
(* splits, installments, summaries and handlers: first what handlers keep, *)
(* then what each screen shows, then the types.                            *)
(***************************************************************************)
EXTENDS Finance, FoldFacts

-----------------------------------------------------------------------------
(* The invariant.                                                          *)

\* What a handler on a split has kept: it read the split while it was open, and writes
\* it closed only after its snapshot.
SplitCallOK(c) ==
  /\ c.op \in {"setRateio", "versions", "saveFechamento"} =>
       c.rateio \in Splits /\ c.copy \in Rateio /\ c.read.status = "ABERTO"
  /\ c.op = "saveFechamento" => c.versao \in Nat
  /\ c.op = "setRateio" /\ c.copy.status = "FECHADO" => fechamentos[c.rateio] # << >>

SplitsSound ==
  /\ rateios \in [Splits -> Rateio \cup {NewSplit, NoSplit}]
  /\ fechamentos \in [Splits -> Seq(Nat)]
  /\ ClosedHasSnapshot

\* A number is a money total, whatever the goal is.
IsSummary(x) ==
  /\ x = [goal |-> x.goal, collected |-> x.collected, available |-> x.available, pending |-> x.pending,
          began |-> x.began, stored |-> x.stored, failed |-> x.failed]
  /\ x.collected \in Nat /\ x.began \in Nat /\ x.stored \in Nat

\* What a recalculation gathered is no more than was paid, and no less than a summary
\* stored before it began.
Gathered(x) ==
  /\ x.began \in 1..served /\ x.collected \in 0..Total({"PAID"})
  /\ \A i \in Docs :
       ~x.failed /\ summaries[i].stored < x.began => summaries[i].collected <= x.collected

\* Who inserts a summary missed none that was stored before it began; who writes one
\* writes the first.
SummaryCallOK(c) ==
  /\ c.op = "sumPaid" => c.began \in 1..served
  /\ c.op = "findSummary" => Gathered(c)
  /\ c.op \in {"insertSummary", "setSummary"} => IsSummary(c.summary) /\ Gathered(c.summary)
  /\ c.op = "insertSummary" /\ ~c.summary.failed => \A i \in Docs : c.summary.began <= summaries[i].stored
  /\ c.op = "setSummary" => c.id \in Docs /\ \A i \in Docs : c.id <= i

SummariesSound ==
  /\ InstallmentsTypeOK
  /\ DOMAIN summaries = Summaries
  /\ \A i \in Summaries : IsSummary(summaries[i])
  /\ \A i \in Docs : summaries[i].began <= served /\ summaries[i].stored <= served
  /\ SummaryNeverOverstates
  /\ SecondSummaryOnlyInARace

CallsSound ==
  /\ DOMAIN calls = Slots
  /\ \A s \in Slots : SplitCallOK(calls[s]) /\ SummaryCallOK(calls[s])

FinanceInvariant == served \in Nat /\ SplitsSound /\ SummariesSound /\ CallsSound

-----------------------------------------------------------------------------
(* Handlers.                                                               *)

LEMMA CallsAfter ==
  ASSUME CallsSound, NEW s \in Slots, NEW c, calls' = [calls EXCEPT ![s] = c]
  PROVE  DOMAIN calls' = Slots /\ \A t \in Slots : calls'[t] = IF t = s THEN c ELSE calls[t]
BY DEF CallsSound

LEMMA NoCallSound == SplitCallOK(NoCall) /\ SummaryCallOK(NoCall)
BY DEF NoCall, SplitCallOK, SummaryCallOK

LEMMA NoCallSoundNext == (SplitCallOK(NoCall) /\ SummaryCallOK(NoCall))'
BY DEF NoCall, SplitCallOK, SummaryCallOK

LEMMA OneCallSound ==
  ASSUME CallsSound, NEW s \in Slots, NEW c, calls' = [calls EXCEPT ![s] = c],
         SplitCallOK(c)', SummaryCallOK(c)',
         \A d : SplitCallOK(d) => SplitCallOK(d)', \A d : SummaryCallOK(d) => SummaryCallOK(d)'
  PROVE  CallsSound'
<1>1. DOMAIN calls' = Slots /\ \A t \in Slots : calls'[t] = IF t = s THEN c ELSE calls[t]
  BY CallsAfter
<1>2. ASSUME NEW t \in Slots, NEW d, d = calls'[t] PROVE SplitCallOK(d)' /\ SummaryCallOK(d)'
  <2>1. CASE t = s
    BY <1>1, <1>2, <2>1
  <2>2. CASE t # s
    BY <1>1, <1>2, <2>2 DEF CallsSound
  <2> QED BY <2>1, <2>2
<1>3. ASSUME NEW t \in Slots PROVE (SplitCallOK(calls[t]) /\ SummaryCallOK(calls[t]))'
  <2>1. PICK d : d = calls'[t]
    OBVIOUS
  <2>2. SplitCallOK(d)' /\ SummaryCallOK(d)'
    BY <1>2, <2>1
  <2> QED BY <2>1, <2>2 DEF SplitCallOK, SummaryCallOK, Gathered
<1> QED BY <1>1, <1>3 DEF CallsSound

LEMMA SplitCallsKept ==
  ASSUME \A r \in Splits : fechamentos[r] # << >> => fechamentos'[r] # << >>
  PROVE  \A d : SplitCallOK(d) => SplitCallOK(d)'
BY DEF SplitCallOK

-----------------------------------------------------------------------------
(* Money.                                                                  *)

LEMMA TotalIsNat == Total({"PAID"}) \in Nat
<1> DEFINE ps == FindByEventID \cap WithStatus({"PAID"})
<1>1. IsFiniteSet(ps)
  BY InstallmentsAssumption, FS_Subset DEF FindByEventID
<1> QED BY <1>1, FS_CardinalityType DEF Total, TotalOf, Amount

LEMMA TotalIsNatNext == Total({"PAID"})' \in Nat
<1> DEFINE ps == FindByEventID \cap WithStatus({"PAID"})'
<1>1. IsFiniteSet(ps)
  BY InstallmentsAssumption, FS_Subset DEF FindByEventID
<1> QED BY <1>1, FS_CardinalityType DEF Total, TotalOf, Amount, FindByEventID

\* Money that was paid is not given back.
LEMMA TotalGrows ==
  ASSUME WithStatus({"PAID"}) \subseteq WithStatus({"PAID"})'
  PROVE  Total({"PAID"}) <= Total({"PAID"})'
<1> DEFINE now == FindByEventID \cap WithStatus({"PAID"})
           next == FindByEventID \cap WithStatus({"PAID"})'
<1>1. IsFiniteSet(next) /\ now \subseteq next
  BY InstallmentsAssumption, FS_Subset DEF FindByEventID
<1>2. IsFiniteSet(now) /\ Cardinality(now) <= Cardinality(next)
  BY <1>1, FS_Subset
<1>3. Cardinality(now) \in Nat /\ Cardinality(next) \in Nat
  BY <1>1, <1>2, FS_CardinalityType
<1>4. Total({"PAID"}) = 100 * Cardinality(now) /\ Total({"PAID"})' = 100 * Cardinality(next)
  BY DEF Total, TotalOf, Amount, FindByEventID
<1> QED BY <1>2, <1>3, <1>4

-----------------------------------------------------------------------------
(* Summaries.                                                              *)

\* A step adds summaries after those that are there, stamps what it writes unless it is a
\* withdrawal, and takes no money back.
SummariesMove ==
  /\ served' \in Nat /\ served <= served'
  /\ Total({"PAID"}) <= Total({"PAID"})'
  /\ Docs \subseteq Docs'
  /\ \A i \in Docs' : \/ /\ i \in Docs /\ summaries'[i].stored = summaries[i].stored
                          /\ summaries'[i].collected = summaries[i].collected
                       \/ summaries'[i].stored = served'
  /\ \A i \in Docs' \ Docs, j \in Docs : j < i

LEMMA SummaryCallsKept ==
  ASSUME FinanceInvariant, SummariesMove
  PROVE  \A d : SummaryCallOK(d) => SummaryCallOK(d)'
<1>0. /\ served \in Nat /\ Docs \subseteq Nat /\ Docs' \subseteq Nat
      /\ Total({"PAID"}) \in Nat /\ Total({"PAID"})' \in Nat
  BY TotalIsNat, TotalIsNatNext, FinanceAssumption DEF FinanceInvariant, Docs
<1>1. \A x : Gathered(x) => Gathered(x)'
  <2> SUFFICES ASSUME NEW x, Gathered(x)
               PROVE  /\ x.began \in 1..served' /\ x.collected \in 0..Total({"PAID"})'
                      /\ \A i \in Docs' : ~x.failed /\ summaries'[i].stored < x.began
                                            => summaries'[i].collected <= x.collected
    BY DEF Gathered
  <2>1. x.began \in 1..served' /\ x.collected \in 0..Total({"PAID"})'
    BY <1>0 DEF Gathered, SummariesMove
  <2>2. ASSUME NEW i \in Docs', ~x.failed, summaries'[i].stored < x.began
        PROVE  summaries'[i].collected <= x.collected
    BY <1>0, <2>1, <2>2 DEF Gathered, SummariesMove
  <2> QED BY <2>1, <2>2
<1>2. ASSUME NEW d, SummaryCallOK(d) PROVE SummaryCallOK(d)'
  <2>1. d.op = "sumPaid" => d.began \in 1..served'
    BY <1>0, <1>2 DEF SummaryCallOK, SummariesMove
  <2>2. d.op \in {"insertSummary", "setSummary"} => IsSummary(d.summary) /\ Gathered(d.summary)'
    BY <1>1, <1>2 DEF SummaryCallOK
  <2>3. ASSUME d.op = "insertSummary", ~d.summary.failed, NEW i \in Docs'
        PROVE  d.summary.began <= summaries'[i].stored
    <3>1. d.summary.began \in 1..served
      BY <1>2, <2>3 DEF SummaryCallOK, Gathered
    <3>2. CASE i \in Docs /\ summaries'[i].stored = summaries[i].stored
      BY <1>2, <2>3, <3>2 DEF SummaryCallOK
    <3>3. CASE summaries'[i].stored = served'
      BY <1>0, <3>1, <3>3 DEF SummariesMove
    <3> QED BY <3>2, <3>3 DEF SummariesMove
  <2>4. ASSUME d.op = "setSummary" PROVE d.id \in Docs' /\ \A i \in Docs' : d.id <= i
    <3>1. d.id \in Docs /\ \A i \in Docs : d.id <= i
      BY <1>2, <2>4 DEF SummaryCallOK
    <3>2. ASSUME NEW i \in Docs' PROVE d.id <= i
      <4>1. CASE i \in Docs
        BY <3>1, <4>1
      <4>2. CASE i \notin Docs
        <5>1. d.id < i /\ d.id \in Nat /\ i \in Nat
          BY <1>0, <3>1, <4>2 DEF SummariesMove
        <5> QED BY <5>1
      <4> QED BY <4>1, <4>2
    <3> QED BY <3>1, <3>2 DEF SummariesMove
  <2> QED BY <1>1, <1>2, <2>1, <2>2, <2>3, <2>4 DEF SummaryCallOK, IsSummary
<1> QED BY <1>2

\* Of a set of summaries that is not empty there is a first.
LEMMA FirstSummary ==
  ASSUME Docs # {}
  PROVE  FindSummary # {}
<1> DEFINE before == {ss \in Nat \X Nat : ss[1] < ss[2]}
<1>1. IsWellFoundedOn(before, Nat)
  BY NatLessThanWellFounded DEF OpToRel
<1>2. Docs \subseteq Nat
  BY FinanceAssumption DEF Docs
<1>3. PICK i \in Docs : \A j \in Docs : <<j, i>> \notin before
  <2> HIDE DEF before
  <2> QED BY <1>1, <1>2, WFMin
<1>4. ASSUME NEW j \in Docs PROVE i <= j
  <2>1. i \in Nat /\ j \in Nat
    BY <1>2
  <2>2. j < i => <<j, i>> \in before
    BY <2>1
  <2>3. ~(j < i)
    BY <1>3, <2>2
  <2> QED BY <2>1, <2>3
<1> QED BY <1>4 DEF FindSummary

LEMMA SummariesStay ==
  ASSUME FinanceInvariant, served' \in Nat, served <= served', UNCHANGED summaries,
         WithStatus({"PAID"}) \subseteq WithStatus({"PAID"})', InstallmentsTypeOK'
  PROVE  SummariesMove /\ SummariesSound'
<1>0. /\ served \in Nat /\ Total({"PAID"}) \in Nat /\ Total({"PAID"})' \in Nat
      /\ Total({"PAID"}) <= Total({"PAID"})'
  BY TotalIsNat, TotalIsNatNext, TotalGrows DEF FinanceInvariant
<1>1. Docs' = Docs
  BY DEF Docs, SummaryExists
<1>2. SummariesMove
  BY <1>0, <1>1 DEF SummariesMove
<1>3. \A i \in Summaries : IsSummary(summaries[i])'
  BY DEF FinanceInvariant, SummariesSound, IsSummary
<1>4. \A i \in Docs' : summaries'[i].began <= served' /\ summaries'[i].stored <= served'
  <2>1. \A i \in Docs : summaries[i].began \in Nat /\ summaries[i].stored \in Nat
    BY DEF FinanceInvariant, SummariesSound, IsSummary, Docs
  <2> QED BY <1>0, <1>1, <2>1 DEF FinanceInvariant, SummariesSound
<1>5. \A i \in Docs' : summaries'[i].collected <= Total({"PAID"})'
  <2>1. \A i \in Docs : summaries[i].collected \in Nat
    BY DEF FinanceInvariant, SummariesSound, IsSummary, Docs
  <2> QED BY <1>0, <1>1, <2>1 DEF FinanceInvariant, SummariesSound, SummaryNeverOverstates
<1>6. SecondSummaryOnlyInARace'
  BY <1>1 DEF FinanceInvariant, SummariesSound, SecondSummaryOnlyInARace
<1> QED BY <1>2, <1>3, <1>4, <1>5, <1>6 DEF FinanceInvariant, SummariesSound, SummaryNeverOverstates

-----------------------------------------------------------------------------
(* Steps on splits.                                                        *)

\* A request or a step of a handler that keeps what it read of the split.
LEMMA SplitStepKeeps ==
  ASSUME FinanceInvariant, NEW s \in Slots, UNCHANGED financeVars, served' = served \/ served' = served + 1,
         NEW c, calls' = [calls EXCEPT ![s] = c], SplitCallOK(c)',
         c.op \in {"setRateio", "versions", "saveFechamento", "deleteRateio", "none"},
         \A r \in Splits : fechamentos[r] # << >> => fechamentos'[r] # << >>,
         SplitsSound'
  PROVE  FinanceInvariant'
<1>1. InstallmentsTypeOK' /\ WithStatus({"PAID"})' = WithStatus({"PAID"})
  BY DEF financeVars, FinanceInvariant, SummariesSound, InstallmentsTypeOK, WithStatus
<1>0. served' \in Nat /\ served <= served'
  BY DEF FinanceInvariant
<1>2. SummariesMove /\ SummariesSound'
  BY <1>0, <1>1, SummariesStay DEF financeVars
<1>3. (\A d : SplitCallOK(d) => SplitCallOK(d)') /\ (\A d : SummaryCallOK(d) => SummaryCallOK(d)')
  BY <1>2, SplitCallsKept, SummaryCallsKept
<1>4. SummaryCallOK(c)'
  BY DEF SummaryCallOK
<1> QED BY <1>0, <1>2, <1>3, <1>4, OneCallSound DEF FinanceInvariant

\* A step between two handlers' steps.
LEMMA CallsStaySound ==
  ASSUME CallsSound, UNCHANGED calls,
         \A d : SplitCallOK(d) => SplitCallOK(d)', \A d : SummaryCallOK(d) => SummaryCallOK(d)'
  PROVE  CallsSound'
<1> SUFFICES ASSUME NEW t \in Slots PROVE SplitCallOK(calls[t])' /\ SummaryCallOK(calls[t])'
  BY DEF CallsSound
<1>1. PICK d : d = calls[t]
  OBVIOUS
<1>2. SplitCallOK(d)' /\ SummaryCallOK(d)'
  BY <1>1 DEF CallsSound
<1> QED BY <1>1, <1>2 DEF SplitCallOK, SummaryCallOK, Gathered

LEMMA SplitRequestKeeps ==
  ASSUME FinanceInvariant, NEW s \in Slots, NEW u \in Users, RateiosRequest(s, u), UNCHANGED financeVars
  PROVE  FinanceInvariant'
<1>0. rateios \in [Splits -> Rateio \cup {NewSplit, NoSplit}] /\ served \in Nat
  BY DEF FinanceInvariant, SplitsSound
<1>1. ASSUME NEW r \in Splits, NEW v \in Valores, UpdateRateio(s, u, r, v) PROVE FinanceInvariant'
  <2>1. rateios[r] \in Rateio
    BY <1>0, <1>1 DEF UpdateRateio, IsOwner, RateioExists
  <2>2. StoredValor(v) \in {StoredValor(w) : w \in Valores}
    OBVIOUS
  <2>3. PICK copy : copy = [rateios[r] EXCEPT !.valor = StoredValor(v)]
    OBVIOUS
  <2>4. copy \in Rateio /\ copy.status = "ABERTO"
    BY <1>1, <2>1, <2>2, <2>3 DEF Rateio, UpdateRateio, CanEditRateio
  <2>5. PICK c : c = [op |-> "setRateio", rateio |-> r, read |-> rateios[r], copy |-> copy]
    OBVIOUS
  <2>6. SplitCallOK(c)'
    BY <1>1, <2>4, <2>5 DEF SplitCallOK, UpdateRateio, CanEditRateio
  <2>8. calls' = [calls EXCEPT ![s] = c] /\ served' = served + 1
    BY <1>1, <2>3, <2>5 DEF UpdateRateio, Begin
  <2>7. SplitsSound' /\ UNCHANGED fechamentos
    BY <1>1 DEF UpdateRateio, rateioVars, FinanceInvariant, SplitsSound, ClosedHasSnapshot, RateioExists,
       CanEditRateio, getFechamentos, GetFechamentos, IsOwner
  <2> QED BY <1>0, <2>5, <2>6, <2>7, <2>8, SplitStepKeeps
<1>2. ASSUME NEW r \in Splits, DeleteRateio(s, u, r) PROVE FinanceInvariant'
  <2>1. PICK c : c = [op |-> "deleteRateio", rateio |-> r]
    OBVIOUS
  <2>4. calls' = [calls EXCEPT ![s] = c] /\ served' = served + 1
    BY <1>2, <2>1 DEF DeleteRateio, Begin
  <2>2. SplitCallOK(c)'
    BY <2>1 DEF SplitCallOK
  <2>3. SplitsSound' /\ UNCHANGED fechamentos
    BY <1>2 DEF DeleteRateio, rateioVars, FinanceInvariant, SplitsSound, ClosedHasSnapshot, RateioExists,
       CanEditRateio, getFechamentos, GetFechamentos, IsOwner
  <2> QED BY <1>0, <2>1, <2>2, <2>3, <2>4, SplitStepKeeps
<1>3. ASSUME NEW r \in Splits, FecharRateio(s, u, r) PROVE FinanceInvariant'
  <2>1. rateios[r] \in Rateio
    BY <1>0, <1>3 DEF FecharRateio, IsOwner, RateioExists
  <2>2. PICK c : c = [op |-> "versions", rateio |-> r, copy |-> rateios[r], read |-> rateios[r]]
    OBVIOUS
  <2>5. calls' = [calls EXCEPT ![s] = c] /\ served' = served + 1
    BY <1>3, <2>2 DEF FecharRateio, Begin
  <2>3. SplitCallOK(c)'
    BY <1>3, <2>1, <2>2 DEF SplitCallOK, FecharRateio, CanEditRateio
  <2>4. SplitsSound' /\ UNCHANGED fechamentos
    BY <1>3 DEF FecharRateio, rateioVars, FinanceInvariant, SplitsSound, ClosedHasSnapshot, RateioExists,
       CanEditRateio, getFechamentos, GetFechamentos, IsOwner
  <2> QED BY <1>0, <2>2, <2>3, <2>4, <2>5, SplitStepKeeps
<1>4. ASSUME NEW v \in Valores, CreateRateio(s, u, v) PROVE FinanceInvariant'
  <2>1. PICK r \in Splits : rateios[r] = NewSplit /\ SaveRateio(r, u, v)
    BY <1>4 DEF CreateRateio
  <2>2. PICK rateio : rateio = [owner |-> u, valor |-> StoredValor(v), status |-> "ABERTO"]
    OBVIOUS
  <2>3. rateio \in Rateio /\ rateio.status = "ABERTO"
    BY <2>2 DEF Rateio
  <2>4. rateios' = [rateios EXCEPT ![r] = rateio]
    BY <2>1, <2>2 DEF SaveRateio
  <2>5. UNCHANGED <<calls, fechamentos>> /\ served' = served + 1
    BY <1>4 DEF CreateRateio
  <2>6. SplitsSound'
    <3>1. ASSUME NEW q \in Splits, RateioExists(q)', ~CanEditRateio(q)'
          PROVE  fechamentos[q] # << >>
      <4>1. q # r
        BY <1>0, <2>3, <2>4, <3>1 DEF CanEditRateio
      <4>2. rateios'[q] = rateios[q]
        BY <1>0, <2>4, <4>1
      <4> QED BY <3>1, <4>2 DEF FinanceInvariant, SplitsSound, ClosedHasSnapshot, RateioExists,
              CanEditRateio, getFechamentos, GetFechamentos, IsOwner
    <3>2. ClosedHasSnapshot'
      BY <2>5, <3>1 DEF ClosedHasSnapshot, getFechamentos, GetFechamentos, IsOwner
    <3> QED BY <1>0, <2>3, <2>4, <2>5, <3>2 DEF FinanceInvariant, SplitsSound
  <2>7. InstallmentsTypeOK' /\ WithStatus({"PAID"})' = WithStatus({"PAID"})
    BY DEF financeVars, FinanceInvariant, SummariesSound, InstallmentsTypeOK, WithStatus
  <2>8. SummariesMove /\ SummariesSound'
    BY <1>0, <2>5, <2>7, SummariesStay DEF financeVars
  <2>9. CallsSound'
    BY <2>5, <2>8, SplitCallsKept, SummaryCallsKept, CallsStaySound DEF FinanceInvariant
  <2> QED BY <1>0, <2>5, <2>6, <2>8, <2>9 DEF FinanceInvariant
<1> QED BY <1>1, <1>2, <1>3, <1>4 DEF RateiosRequest, createRateio, updateRateio, deleteRateio, fecharRateio

LEMMA SplitWriteKeeps ==
  ASSUME FinanceInvariant, NEW s \in Slots, RateiosStep(s), UNCHANGED financeVars
  PROVE  FinanceInvariant'
<1>0. /\ rateios \in [Splits -> Rateio \cup {NewSplit, NoSplit}] /\ served \in Nat
      /\ fechamentos \in [Splits -> Seq(Nat)]
      /\ SplitCallOK(calls[s]) /\ SplitsSound
  BY DEF FinanceInvariant, SplitsSound, CallsSound
<1>1. \A r \in Splits : RateioExists(r) /\ ~CanEditRateio(r) => fechamentos[r] # << >>
  BY <1>0 DEF SplitsSound, ClosedHasSnapshot, getFechamentos, GetFechamentos, IsOwner
<1> DEFINE Closed(r) == RateioExists(r) /\ ~CanEditRateio(r)
<1>2. ASSUME rateios' \in [Splits -> Rateio \cup {NewSplit, NoSplit}],
             fechamentos' \in [Splits -> Seq(Nat)],
             \A r \in Splits : Closed(r)' => fechamentos'[r] # << >>
      PROVE  SplitsSound'
  BY <1>2 DEF SplitsSound, ClosedHasSnapshot, getFechamentos, GetFechamentos, IsOwner
<1>3. ASSUME NextVersion(s) PROVE FinanceInvariant'
  <2>1. PICK n : /\ n \in CountFechamentos(calls[s].rateio)
                 /\ Continue(s, [op |-> "saveFechamento", rateio |-> calls[s].rateio, copy |-> calls[s].copy,
                                 versao |-> n + 1, read |-> calls[s].read])
    BY <1>3 DEF NextVersion
  <2>2. PICK c : c = [op |-> "saveFechamento", rateio |-> calls[s].rateio, copy |-> calls[s].copy,
                      versao |-> n + 1, read |-> calls[s].read]
    OBVIOUS
  <2>3. /\ calls[s].rateio \in Splits /\ calls[s].copy \in Rateio /\ calls[s].read.status = "ABERTO"
        /\ At(s, "versions")
    BY <1>0, <1>3 DEF NextVersion, SplitCallOK, At
  <2>4. n \in Nat
    BY <1>0, <2>1, <2>3 DEF CountFechamentos
  <2>5. SplitCallOK(c)'
    BY <2>2, <2>3, <2>4 DEF SplitCallOK
  <2>6. UNCHANGED <<rateios, fechamentos>> /\ calls' = [calls EXCEPT ![s] = c] /\ UNCHANGED served
    BY <1>3, <2>1, <2>2 DEF NextVersion, Continue, rateioVars
  <2>7. SplitsSound'
    BY <1>0, <1>1, <1>2, <2>6 DEF RateioExists, CanEditRateio
  <2> QED BY <1>0, <2>2, <2>5, <2>6, <2>7, SplitStepKeeps
<1>4. ASSUME TakeSnapshot(s) PROVE FinanceInvariant'
  <2>1. PICK r \in Splits, versao \in Nat, old \in Rateio :
          r = calls[s].rateio /\ versao = calls[s].versao /\ old = calls[s].copy
    BY <1>0, <1>4 DEF TakeSnapshot, SplitCallOK, At
  <2>2. fechamentos' = [fechamentos EXCEPT ![r] = Append(fechamentos[r], versao)]
    BY <1>4, <2>1 DEF TakeSnapshot, SaveFechamento
  <2>3. fechamentos[r] \in Seq(Nat) /\ Append(fechamentos[r], versao) \in Seq(Nat)
    BY <1>0, <2>1
  <2>4. Append(fechamentos[r], versao) # << >>
    BY <2>3
  <2>5. /\ fechamentos' \in [Splits -> Seq(Nat)] /\ fechamentos'[r] # << >>
        /\ \A q \in Splits : fechamentos[q] # << >> => fechamentos'[q] # << >>
    BY <1>0, <2>2, <2>3, <2>4
  <2>6. PICK copy : copy = [old EXCEPT !.status = "FECHADO"]
    OBVIOUS
  <2>7. copy \in Rateio
    BY <2>6 DEF Rateio
  <2>8. PICK c : c = [op |-> "setRateio", rateio |-> r, read |-> calls[s].read, copy |-> copy]
    OBVIOUS
  <2>9. calls' = [calls EXCEPT ![s] = c] /\ UNCHANGED <<rateios, served>>
    BY <1>4, <2>1, <2>6, <2>8 DEF TakeSnapshot, Continue
  <2>10. calls[s].read.status = "ABERTO"
    BY <1>0, <1>4 DEF TakeSnapshot, SplitCallOK, At
  <2>11. SplitCallOK(c)'
    BY <2>1, <2>5, <2>7, <2>8, <2>10 DEF SplitCallOK
  <2>12. SplitsSound'
    BY <1>0, <1>1, <1>2, <2>5, <2>9 DEF RateioExists, CanEditRateio
  <2> QED BY <1>0, <2>5, <2>8, <2>9, <2>11, <2>12, SplitStepKeeps
<1>5. ASSUME StoreRateio(s) PROVE FinanceInvariant'
  <2>1. PICK r \in Splits, copy \in Rateio : r = calls[s].rateio /\ copy = calls[s].copy
    BY <1>0, <1>5 DEF StoreRateio, SplitCallOK, At
  <2>2. copy.status = "FECHADO" => fechamentos[r] # << >>
    BY <1>0, <1>5, <2>1 DEF StoreRateio, SplitCallOK, At
  <2>3. rateios' = IF RateioExists(r) THEN [rateios EXCEPT ![r] = copy] ELSE rateios
    BY <1>5, <2>1 DEF StoreRateio, UpdateRateioDocument
  <2>4. calls' = [calls EXCEPT ![s] = NoCall] /\ UNCHANGED <<fechamentos, served>>
    BY <1>5 DEF StoreRateio, Finish, Continue
  <2>5. rateios' \in [Splits -> Rateio \cup {NewSplit, NoSplit}]
    BY <1>0, <2>3
  <2>6. ASSUME NEW q \in Splits, Closed(q)' PROVE fechamentos'[q] # << >>
    <3>1. CASE rateios'[q] = rateios[q]
      BY <1>1, <2>4, <2>6, <3>1 DEF RateioExists, CanEditRateio
    <3>2. CASE q = r /\ rateios'[q] = copy
      <4>1. copy.status = "FECHADO"
        BY <2>6, <3>2 DEF CanEditRateio, Rateio
      <4> QED BY <2>2, <2>4, <3>2, <4>1
    <3> QED BY <1>0, <2>3, <3>1, <3>2
  <2>7. SplitsSound'
    BY <1>0, <1>2, <2>4, <2>5, <2>6
  <2>8. SplitCallOK(NoCall)' /\ NoCall.op = "none"
    BY DEF SplitCallOK, NoCall
  <2> QED BY <1>0, <2>4, <2>7, <2>8, SplitStepKeeps
<1>6. ASSUME DropRateio(s) PROVE FinanceInvariant'
  <2>1. PICK r : r = calls[s].rateio
    OBVIOUS
  <2>2. rateios' = IF RateioExists(r) THEN [rateios EXCEPT ![r] = NoSplit] ELSE rateios
    BY <1>6, <2>1 DEF DropRateio, DeleteRateioByID
  <2>3. calls' = [calls EXCEPT ![s] = NoCall] /\ UNCHANGED <<fechamentos, served>>
    BY <1>6 DEF DropRateio, Finish, Continue
  <2>4. rateios' \in [Splits -> Rateio \cup {NewSplit, NoSplit}]
    BY <1>0, <2>2
  <2>5. ASSUME NEW q \in Splits, Closed(q)' PROVE fechamentos'[q] # << >>
    <3>1. rateios'[q] = rateios[q]
      BY <1>0, <2>2, <2>5 DEF RateioExists
    <3> QED BY <1>1, <2>3, <2>5, <3>1 DEF RateioExists, CanEditRateio
  <2>6. SplitsSound'
    BY <1>0, <1>2, <2>3, <2>4, <2>5
  <2>7. SplitCallOK(NoCall)' /\ NoCall.op = "none"
    BY DEF SplitCallOK, NoCall
  <2> QED BY <1>0, <2>3, <2>6, <2>7, SplitStepKeeps
<1> QED BY <1>3, <1>4, <1>5, <1>6 DEF RateiosStep

-----------------------------------------------------------------------------
(* Steps of a recalculation.                                               *)

LEMMA SplitsStay ==
  ASSUME FinanceInvariant, UNCHANGED rateioVars
  PROVE  SplitsSound' /\ \A d : SplitCallOK(d) => SplitCallOK(d)'
<1>1. SplitsSound'
  BY DEF rateioVars, FinanceInvariant, SplitsSound, ClosedHasSnapshot, RateioExists, CanEditRateio,
     getFechamentos, GetFechamentos, IsOwner
<1>2. \A r \in Splits : fechamentos[r] # << >> => fechamentos'[r] # << >>
  BY DEF rateioVars
<1> QED BY <1>1, <1>2, SplitCallsKept

LEMMA SummaryStepKeeps ==
  ASSUME FinanceInvariant, UNCHANGED rateioVars, SummariesMove, SummariesSound',
         NEW s \in Slots, NEW c, calls' = [calls EXCEPT ![s] = c], SummaryCallOK(c)',
         c.op \in {"sumPaid", "findSummary", "insertSummary", "setSummary", "none"}
  PROVE  FinanceInvariant'
<1>1. SplitCallOK(c)'
  BY DEF SplitCallOK
<1>2. CallsSound'
  BY <1>1, SplitsStay, SummaryCallsKept, OneCallSound DEF FinanceInvariant
<1> QED BY <1>2, SplitsStay DEF FinanceInvariant, SummariesMove

\* A recalculation that only reads.
LEMMA SummaryReadKeeps ==
  ASSUME FinanceInvariant, NEW s \in Slots, UNCHANGED <<rateioVars, financeVars>>,
         served' = served \/ served' = served + 1,
         NEW c, calls' = [calls EXCEPT ![s] = c], SummaryCallOK(c)',
         c.op \in {"sumPaid", "findSummary", "insertSummary", "setSummary", "none"}
  PROVE  FinanceInvariant'
<1>1. InstallmentsTypeOK' /\ WithStatus({"PAID"})' = WithStatus({"PAID"})
  BY DEF financeVars, FinanceInvariant, SummariesSound, InstallmentsTypeOK, WithStatus
<1>2. served' \in Nat /\ served <= served'
  BY DEF FinanceInvariant
<1>3. SummariesMove /\ SummariesSound'
  BY <1>1, <1>2, SummariesStay DEF financeVars
<1> QED BY <1>3, SummaryStepKeeps

\* What is said of a record that a handler keeps depends on nothing that a read changes.
LEMMA GatheredStays ==
  ASSUME NEW x, UNCHANGED <<summaries, parcelas, served>>
  PROVE  Gathered(x)' <=> Gathered(x)
<1>1. Docs' = Docs /\ Total({"PAID"})' = Total({"PAID"})
  BY DEF Docs, SummaryExists, Total, WithStatus
<1> QED BY <1>1 DEF Gathered

LEMMA RecalculateKeeps ==
  ASSUME FinanceInvariant, NEW s \in Slots, Recalculate(s)
  PROVE  FinanceInvariant'
<1>1. PICK c : Begin(s, c) /\ c.op = "sumPaid" /\ c.began = served + 1
  <2>1. PICK failed \in BOOLEAN :
          Begin(s, [op |-> "sumPaid", goal |-> IF failed THEN 0 ELSE Goal, began |-> served + 1, failed |-> failed])
    BY DEF Recalculate
  <2>2. PICK c : c = [op |-> "sumPaid", goal |-> IF failed THEN 0 ELSE Goal, began |-> served + 1, failed |-> failed]
    OBVIOUS
  <2> QED BY <2>1, <2>2
<1>2. calls' = [calls EXCEPT ![s] = c] /\ served' = served + 1
  BY <1>1 DEF Begin
<1>3. SummaryCallOK(c)'
  BY <1>1, <1>2 DEF SummaryCallOK, FinanceInvariant
<1> QED BY <1>1, <1>2, <1>3, SummaryReadKeeps DEF Recalculate

LEMMA SumPaidKeeps ==
  ASSUME FinanceInvariant, NEW s \in Slots, SumPaid(s)
  PROVE  FinanceInvariant'
<1>1. PICK failed \in BOOLEAN :
        Continue(s, [op |-> "findSummary", goal |-> calls[s].goal, began |-> calls[s].began,
                     collected |-> IF failed THEN 0 ELSE CollectedNow, failed |-> calls[s].failed \/ failed])
  BY DEF SumPaid
<1>2. PICK c : c = [op |-> "findSummary", goal |-> calls[s].goal, began |-> calls[s].began,
                    collected |-> IF failed THEN 0 ELSE CollectedNow, failed |-> calls[s].failed \/ failed]
  OBVIOUS
<1>3. calls' = [calls EXCEPT ![s] = c] /\ UNCHANGED <<served, rateioVars, financeVars>>
  BY <1>1, <1>2 DEF Continue, SumPaid
<1>4. /\ c.op = "findSummary" /\ c.began = calls[s].began
      /\ c.collected = IF failed THEN 0 ELSE CollectedNow
      /\ failed => c.failed
  BY <1>2
<1>5. c.began \in 1..served
  BY <1>4 DEF SumPaid, At, FinanceInvariant, CallsSound, SummaryCallOK
<1>6. CollectedNow = Total({"PAID"})
  BY DEF CollectedNow, Collected, Total
<1>7. Gathered(c)
  <2>1. c.collected \in 0..Total({"PAID"})
    BY <1>4, <1>6, TotalIsNat
  <2>2. ASSUME NEW i \in Docs, ~c.failed PROVE summaries[i].collected <= c.collected
    BY <1>4, <1>6, <2>2 DEF FinanceInvariant, SummariesSound, SummaryNeverOverstates
  <2> QED BY <1>5, <2>1, <2>2 DEF Gathered
<1>8. SummaryCallOK(c)'
  <2>1. Gathered(c)'
    BY <1>3, <1>7, GatheredStays DEF financeVars
  <2> QED BY <1>4, <2>1 DEF SummaryCallOK
<1> QED BY <1>3, <1>4, <1>8, SummaryReadKeeps

LEMMA ChooseSummaryKeeps ==
  ASSUME FinanceInvariant, NEW s \in Slots, ChooseSummary(s)
  PROVE  FinanceInvariant'
<1>0. Gathered(calls[s])
  BY DEF ChooseSummary, At, FinanceInvariant, CallsSound, SummaryCallOK
<1>1. PICK failed \in BOOLEAN :
        LET found == IF failed THEN {} ELSE Existing
            new == [NewSummary EXCEPT !.goal = calls[s].goal, !.collected = calls[s].collected,
                                      !.began = calls[s].began, !.failed = calls[s].failed \/ failed]
            first == CHOOSE i \in found : TRUE
        IN Continue(s, IF found = {} THEN [op |-> "insertSummary", summary |-> new]
                       ELSE [op |-> "setSummary", id |-> first,
                             summary |-> [new EXCEPT !.available = summaries[first].available]])
  BY DEF ChooseSummary
<1>2. PICK new : new = [NewSummary EXCEPT !.goal = calls[s].goal, !.collected = calls[s].collected,
                                          !.began = calls[s].began, !.failed = calls[s].failed \/ failed]
  OBVIOUS
<1>3. /\ IsSummary(new) /\ new.collected = calls[s].collected /\ new.began = calls[s].began
      /\ ~new.failed => ~calls[s].failed /\ ~failed
  <2>1. calls[s].collected \in Nat /\ calls[s].began \in Nat
    BY <1>0, TotalIsNat DEF Gathered
  <2> QED BY <1>2, <2>1 DEF IsSummary, NewSummary
<1>4. Gathered(new)
  BY <1>0, <1>3 DEF Gathered
<1>5. UNCHANGED <<served, rateioVars, financeVars>>
  BY <1>1 DEF Continue, ChooseSummary
<1>6. Gathered(new)' /\ IsSummary(new)'
  BY <1>3, <1>4, <1>5, GatheredStays DEF financeVars, IsSummary
<1>7. Docs' = Docs
  BY <1>5 DEF Docs, SummaryExists, financeVars
<1>8. CASE failed \/ Existing = {}
  <2>1. PICK c : c = [op |-> "insertSummary", summary |-> new]
    OBVIOUS
  <2>2. calls' = [calls EXCEPT ![s] = c]
    BY <1>1, <1>2, <1>8, <2>1 DEF Continue
  <2>3. ~new.failed => Docs = {}
    BY <1>3, <1>8, FirstSummary DEF Existing
  <2>4. SummaryCallOK(c)'
    BY <1>6, <1>7, <2>1, <2>3 DEF SummaryCallOK
  <2> QED BY <1>5, <2>1, <2>2, <2>4, SummaryReadKeeps
<1>9. CASE ~failed /\ Existing # {}
  <2>1. PICK i : i = CHOOSE j \in Existing : TRUE
    OBVIOUS
  <2>2. i \in Docs /\ \A j \in Docs : i <= j
    BY <1>9, <2>1 DEF Existing, FindSummary
  <2>3. PICK kept : kept = [new EXCEPT !.available = summaries[i].available]
    OBVIOUS
  <2>4. PICK c : c = [op |-> "setSummary", id |-> i, summary |-> kept]
    OBVIOUS
  <2>5. calls' = [calls EXCEPT ![s] = c]
    BY <1>1, <1>2, <1>9, <2>1, <2>3, <2>4 DEF Continue
  <2>6. /\ IsSummary(kept) /\ kept.collected = new.collected /\ kept.began = new.began
        /\ kept.failed = new.failed
    BY <1>3, <2>3 DEF IsSummary
  <2>7. Gathered(kept)' /\ IsSummary(kept)'
    <3>1. Gathered(kept)
      BY <1>4, <2>6 DEF Gathered
    <3> QED BY <1>5, <2>6, <3>1, GatheredStays DEF financeVars, IsSummary
  <2>8. SummaryCallOK(c)'
    BY <1>7, <2>2, <2>4, <2>7 DEF SummaryCallOK
  <2> QED BY <1>5, <2>4, <2>5, <2>8, SummaryReadKeeps
<1> QED BY <1>8, <1>9

LEMMA PutSummaryKeeps ==
  ASSUME FinanceInvariant, NEW i \in Summaries, NEW summary, IsSummary(summary), Gathered(summary),
         PutSummary(i, [summary EXCEPT !.stored = served]), UNCHANGED <<served, parcelas>>,
         i \in Docs \/ \A j \in Docs : j < i,
         \A j \in Docs : j < i => summary.failed \/ summary.began <= summaries[j].stored
  PROVE  /\ SummariesMove /\ SummariesSound'
         /\ \A j \in Docs : \/ summaries'[j] = summaries[j]
                            \/ /\ j = i /\ summaries'[j].failed = summary.failed
                               /\ summaries'[j].began = summary.began
                               /\ summaries'[j].collected = summary.collected
<1>0. /\ DOMAIN summaries = Summaries /\ served \in Nat /\ Docs \subseteq Summaries
      /\ Summaries \subseteq Nat
      /\ \A j \in Summaries : /\ IsSummary(summaries[j]) /\ summaries[j].began \in Nat
                              /\ summaries[j].stored \in Nat /\ summaries[j].collected \in Nat
      /\ Total({"PAID"}) \in Nat
  BY TotalIsNat, FinanceAssumption DEF FinanceInvariant, SummariesSound, Docs, IsSummary
<1>1. PICK new : new = [summary EXCEPT !.stored = served]
  OBVIOUS
<1>2. /\ IsSummary(new) /\ new.failed = summary.failed /\ new.began = summary.began
      /\ new.collected = summary.collected /\ new.stored = served
  BY <1>0, <1>1 DEF IsSummary
<1>3. /\ new.began \in 1..served /\ new.collected \in 0..Total({"PAID"})
  BY <1>2 DEF Gathered
<1>4. summaries' = [summaries EXCEPT ![i] = new]
  BY <1>1 DEF PutSummary
<1>5. /\ DOMAIN summaries' = Summaries /\ summaries'[i] = new
      /\ \A j \in Summaries : j # i => summaries'[j] = summaries[j]
  BY <1>0, <1>4
<1>6. Docs' = Docs \cup {i}
  BY <1>0, <1>3, <1>5 DEF Docs, SummaryExists
<1>7. Total({"PAID"})' = Total({"PAID"}) /\ InstallmentsTypeOK'
  BY DEF Total, WithStatus, FinanceInvariant, SummariesSound, InstallmentsTypeOK
<1>8. SummariesMove
  <2>1. \A j \in Docs' : \/ /\ j \in Docs /\ summaries'[j].stored = summaries[j].stored
                             /\ summaries'[j].collected = summaries[j].collected
                          \/ summaries'[j].stored = served'
    BY <1>0, <1>2, <1>5, <1>6
  <2>2. \A j \in Docs' \ Docs, k \in Docs : k < j
    BY <1>6
  <2>3. served' \in Nat /\ served <= served' /\ Total({"PAID"}) <= Total({"PAID"})'
    BY <1>0, <1>7
  <2> QED BY <1>6, <2>1, <2>2, <2>3 DEF SummariesMove
<1>9. SummariesSound'
  <2>1. \A j \in Summaries : IsSummary(summaries'[j])
    BY <1>0, <1>2, <1>5
  <2>2. \A j \in Docs' : summaries'[j].began <= served /\ summaries'[j].stored <= served
    BY <1>0, <1>2, <1>3, <1>5, <1>6 DEF FinanceInvariant, SummariesSound
  <2>3. \A j \in Docs' : summaries'[j].collected <= Total({"PAID"})
    BY <1>0, <1>2, <1>3, <1>5, <1>6 DEF FinanceInvariant, SummariesSound, SummaryNeverOverstates
  <2>4. ASSUME NEW j \in Docs', NEW k \in Docs', j < k
        PROVE  summaries'[k].failed \/ summaries'[k].began <= summaries'[j].stored
    <3>1. CASE k = i
      <4>1. j \in Docs /\ j # i
        BY <1>0, <1>6, <2>4, <3>1
      <4> QED BY <1>0, <1>2, <1>5, <2>4, <3>1, <4>1
    <3>2. CASE k # i /\ j = i
      BY <1>0, <1>2, <1>5, <1>6, <3>2 DEF FinanceInvariant, SummariesSound
    <3>3. CASE k # i /\ j # i
      <4>1. /\ j \in Docs /\ k \in Docs
            /\ summaries'[j] = summaries[j] /\ summaries'[k] = summaries[k]
        BY <1>0, <1>5, <1>6, <3>3
      <4> QED BY <2>4, <4>1 DEF FinanceInvariant, SummariesSound, SecondSummaryOnlyInARace
    <3> QED BY <3>1, <3>2, <3>3
  <2> QED BY <1>5, <1>7, <2>1, <2>2, <2>3, <2>4
          DEF SummariesSound, SummaryNeverOverstates, SecondSummaryOnlyInARace, IsSummary
<1> QED BY <1>0, <1>2, <1>5, <1>8, <1>9

LEMMA InsertSummaryKeeps ==
  ASSUME FinanceInvariant, NEW s \in Slots, InsertSummary(s)
  PROVE  FinanceInvariant' /\ \A j \in Docs : summaries'[j] = summaries[j]
<1>1. PICK i \in Summaries : /\ ~SummaryExists(i) /\ \A j \in Docs : j < i
                             /\ PutSummary(i, [calls[s].summary EXCEPT !.stored = served])
  BY DEF InsertSummary
<1>2. PICK summary : summary = calls[s].summary
  OBVIOUS
<1>3. SummaryCallOK(calls[s]) /\ calls[s].op = "insertSummary"
  BY DEF FinanceInvariant, CallsSound, InsertSummary, At
<1>4. /\ IsSummary(summary) /\ Gathered(summary)
      /\ ~summary.failed => \A j \in Docs : summary.began <= summaries[j].stored
  BY <1>2, <1>3 DEF SummaryCallOK
<1>5. PutSummary(i, [summary EXCEPT !.stored = served])
  BY <1>1, <1>2
<1>6. UNCHANGED <<rateioVars, parcelas, served>> /\ calls' = [calls EXCEPT ![s] = NoCall]
  BY DEF InsertSummary, Finish, Continue
<1>7. /\ SummariesMove /\ SummariesSound'
      /\ \A j \in Docs : summaries'[j] = summaries[j] \/ j = i
  BY <1>1, <1>4, <1>5, <1>6, PutSummaryKeeps
<1>8. i \notin Docs
  BY <1>1 DEF Docs
<1>9. SummaryCallOK(NoCall)' /\ NoCall.op = "none"
  BY DEF NoCall, SummaryCallOK
<1>10. FinanceInvariant'
  BY <1>6, <1>7, <1>9, SummaryStepKeeps
<1> QED BY <1>7, <1>8, <1>10

LEMMA SetSummaryKeeps ==
  ASSUME FinanceInvariant, NEW s \in Slots, SetSummary(s)
  PROVE  /\ FinanceInvariant'
         /\ \A j \in Docs : summaries'[j].collected < summaries[j].collected
                              => summaries'[j].failed \/ summaries'[j].began <= summaries[j].stored
<1>0. PICK i, old : i = calls[s].id /\ old = calls[s].summary
  OBVIOUS
<1>1. PICK summary : summary = [old EXCEPT !.pending = summaries[i].pending]
  OBVIOUS
<1>2. SummaryCallOK(calls[s]) /\ calls[s].op = "setSummary"
  BY DEF FinanceInvariant, CallsSound, SetSummary, At
<1>3. /\ IsSummary(summary) /\ Gathered(summary)
      /\ i \in Docs /\ \A j \in Docs : i <= j
  <2>1. /\ IsSummary(old) /\ Gathered(old)
        /\ i \in Docs /\ \A j \in Docs : i <= j
    BY <1>0, <1>2 DEF SummaryCallOK
  <2>2. /\ IsSummary(summary) /\ summary.collected = old.collected /\ summary.began = old.began
        /\ summary.failed = old.failed
    BY <1>1, <2>1 DEF IsSummary
  <2> QED BY <2>1, <2>2 DEF Gathered
<1>4. PutSummary(i, [summary EXCEPT !.stored = served])
  <2>1. PutSummary(i, [old EXCEPT !.pending = summaries[i].pending, !.stored = served])
    BY <1>0 DEF SetSummary
  <2> QED BY <1>1, <2>1
<1>5. UNCHANGED <<rateioVars, parcelas, served>> /\ calls' = [calls EXCEPT ![s] = NoCall]
  BY DEF SetSummary, Finish, Continue
<1>6. i \in Summaries /\ Docs \subseteq Nat /\ \A j \in Docs : ~(j < i)
  <2>1. i \in Summaries /\ Docs \subseteq Nat
    BY <1>3, FinanceAssumption DEF Docs
  <2> QED BY <1>3, <2>1
<1>7. /\ SummariesMove /\ SummariesSound'
      /\ \A j \in Docs : \/ summaries'[j] = summaries[j]
                         \/ /\ j = i /\ summaries'[j].failed = summary.failed
                            /\ summaries'[j].began = summary.began
                            /\ summaries'[j].collected = summary.collected
  BY <1>3, <1>4, <1>5, <1>6, PutSummaryKeeps
<1>8. SummaryCallOK(NoCall)' /\ NoCall.op = "none"
  BY DEF NoCall, SummaryCallOK
<1>9. FinanceInvariant'
  BY <1>5, <1>7, <1>8, SummaryStepKeeps
<1>10. ASSUME NEW j \in Docs, summaries'[j].collected < summaries[j].collected
       PROVE  summaries'[j].failed \/ summaries'[j].began <= summaries[j].stored
  <2>1. /\ summaries[j].collected \in Nat /\ summaries[j].stored \in Nat
        /\ summary.collected \in Nat /\ summary.began \in Nat
    BY <1>3 DEF FinanceInvariant, SummariesSound, IsSummary, Docs
  <2>2. CASE summaries'[j] = summaries[j]
    BY <1>10, <2>1, <2>2
  <2>3. CASE /\ j = i /\ summaries'[j].failed = summary.failed
             /\ summaries'[j].began = summary.began
             /\ summaries'[j].collected = summary.collected
    BY <1>3, <1>10, <2>1, <2>3 DEF Gathered
  <2> QED BY <1>7, <2>2, <2>3
<1> QED BY <1>9, <1>10

-----------------------------------------------------------------------------
(* The environment.                                                        *)

LEMMA InstallmentsMove ==
  ASSUME InstallmentsTypeOK, FinanceEnvironment
  PROVE  InstallmentsTypeOK' /\ WithStatus({"PAID"}) \subseteq WithStatus({"PAID"})'
<1>1. ASSUME NEW p \in Parcelas, Pay(p)
      PROVE  InstallmentsTypeOK' /\ WithStatus({"PAID"}) \subseteq WithStatus({"PAID"})'
  <2>1. PICK dated \in BOOLEAN, held \in BOOLEAN :
          parcelas' = [parcelas EXCEPT ![p] = [status |-> "PAID", paidAt |-> dated, held |-> held]]
    BY <1>1 DEF Pay
  <2>2. PICK new : new = [status |-> "PAID", paidAt |-> dated, held |-> held]
    OBVIOUS
  <2>3. new \in Parcela /\ new.status = "PAID"
    BY <2>2 DEF Parcela, ParcelaStatus
  <2>4. parcelas' = [parcelas EXCEPT ![p] = new]
    BY <2>1, <2>2
  <2> QED BY <2>3, <2>4 DEF InstallmentsTypeOK, WithStatus
<1>2. ASSUME NEW p \in Parcelas, Lapse(p)
      PROVE  InstallmentsTypeOK' /\ WithStatus({"PAID"}) \subseteq WithStatus({"PAID"})'
  <2>1. PICK st \in {"OVERDUE", "CANCELLED"} : parcelas' = [parcelas EXCEPT ![p].status = st]
    BY <1>2 DEF Lapse
  <2>2. parcelas[p].status # "PAID"
    BY <1>2 DEF Lapse, Unpaid
  <2> QED BY <2>1, <2>2 DEF InstallmentsTypeOK, WithStatus, Parcela, ParcelaStatus, Unpaid
<1>3. ASSUME NEW p \in Parcelas, Release(p)
      PROVE  InstallmentsTypeOK' /\ WithStatus({"PAID"}) \subseteq WithStatus({"PAID"})'
  BY <1>3 DEF Release, InstallmentsTypeOK, Parcela, WithStatus
<1>4. ASSUME cancelParticipantInstallments
      PROVE  InstallmentsTypeOK' /\ WithStatus({"PAID"}) \subseteq WithStatus({"PAID"})'
  <2>1. PICK who \in Participants :
          \E some \in SUBSET (TextIds \cap ParcelasOf(who) \cap WithStatus(Unpaid)) \ {{}} :
            parcelas' = [p \in Parcelas |->
                           IF p \in some THEN [parcelas[p] EXCEPT !.status = "CANCELLED"] ELSE parcelas[p]]
    BY <1>4 DEF cancelParticipantInstallments, CancelParticipantInstallments, CancelByParticipant
  <2>2. PICK some \in SUBSET WithStatus(Unpaid) :
          parcelas' = [p \in Parcelas |->
                         IF p \in some THEN [parcelas[p] EXCEPT !.status = "CANCELLED"] ELSE parcelas[p]]
    BY <2>1
  <2>3. \A p \in Parcelas : /\ [parcelas[p] EXCEPT !.status = "CANCELLED"] \in Parcela
                            /\ parcelas[p] \in Parcela
    BY DEF InstallmentsTypeOK, Parcela, ParcelaStatus
  <2>4. InstallmentsTypeOK'
    BY <2>2, <2>3 DEF InstallmentsTypeOK
  <2>5. \A p \in WithStatus({"PAID"}) : p \in Parcelas /\ p \notin some
    BY <2>2 DEF WithStatus, Unpaid
  <2> QED BY <2>2, <2>4, <2>5 DEF WithStatus
<1>5. ASSUME UNCHANGED parcelas
      PROVE  InstallmentsTypeOK' /\ WithStatus({"PAID"}) \subseteq WithStatus({"PAID"})'
  BY <1>5 DEF InstallmentsTypeOK, WithStatus
<1> QED BY <1>1, <1>2, <1>3, <1>4, <1>5 DEF FinanceEnvironment

\* A withdrawal changes nothing of a summary that a recalculation gathered.
LEMMA WithdrawalMoves ==
  ASSUME FinanceInvariant, NEW i \in FindSummary, Withdraw(i), UNCHANGED <<served, parcelas>>
  PROVE  /\ SummariesMove /\ SummariesSound'
         /\ \A j \in Docs : summaries'[j].collected = summaries[j].collected
<1>0. /\ DOMAIN summaries = Summaries /\ served \in Nat /\ Docs \subseteq Summaries /\ i \in Docs
      /\ \A j \in Summaries : IsSummary(summaries[j])
      /\ Total({"PAID"}) \in Nat
  BY TotalIsNat DEF FinanceInvariant, SummariesSound, Docs, FindSummary
<1>1. PICK old, left, new : /\ old = summaries[i] /\ left = old.collected - Amount
                            /\ new = [old EXCEPT !.pending = Amount, !.available = left]
  OBVIOUS
<1>2. /\ IsSummary(new) /\ new.collected = old.collected /\ new.began = old.began
      /\ new.stored = old.stored /\ new.failed = old.failed
  <2>1. i \in Summaries /\ IsSummary(old)
    BY <1>0, <1>1
  <2>2. new = [goal |-> old.goal, collected |-> old.collected, available |-> left, pending |-> Amount,
               began |-> old.began, stored |-> old.stored, failed |-> old.failed]
    BY ONLY <1>1, <2>1 DEF IsSummary
  <2>3. old.collected \in Nat /\ old.began \in Nat /\ old.stored \in Nat
    BY <2>1 DEF IsSummary
  <2> QED BY ONLY <2>2, <2>3 DEF IsSummary
<1>3. summaries' = [summaries EXCEPT ![i] = new]
  BY <1>1 DEF Withdraw, PutSummary
<1>4. DOMAIN summaries' = Summaries /\
      \A j \in Summaries :
        /\ IsSummary(summaries'[j]) /\ summaries'[j].collected = summaries[j].collected
        /\ summaries'[j].began = summaries[j].began /\ summaries'[j].stored = summaries[j].stored
        /\ summaries'[j].failed = summaries[j].failed
  BY <1>0, <1>1, <1>2, <1>3
<1>5. Docs' = Docs
  BY <1>4 DEF Docs, SummaryExists
<1>6. Total({"PAID"})' = Total({"PAID"}) /\ InstallmentsTypeOK'
  BY DEF Total, WithStatus, FinanceInvariant, SummariesSound, InstallmentsTypeOK
<1>7. SummariesMove
  BY <1>0, <1>4, <1>5, <1>6 DEF SummariesMove
<1>8. SummariesSound'
  <2>1. \A j \in Docs : summaries'[j].began <= served /\ summaries'[j].stored <= served
    BY <1>0, <1>4 DEF FinanceInvariant, SummariesSound
  <2>2. SummaryNeverOverstates'
    BY <1>0, <1>4, <1>5, <1>6 DEF FinanceInvariant, SummariesSound, SummaryNeverOverstates
  <2>3. SecondSummaryOnlyInARace'
    BY <1>0, <1>4, <1>5 DEF FinanceInvariant, SummariesSound, SecondSummaryOnlyInARace
  <2> QED BY <1>4, <1>5, <1>6, <2>1, <2>2, <2>3 DEF SummariesSound, IsSummary
<1> QED BY <1>0, <1>4, <1>7, <1>8

LEMMA EnvironmentKeeps ==
  ASSUME FinanceInvariant,
         FinanceEnvironment \/ UNCHANGED vars
  PROVE  FinanceInvariant'
<1>1. UNCHANGED <<calls, served, rateioVars>>
  BY DEF FinanceEnvironment, vars, handlerVars
<1>2. InstallmentsTypeOK' /\ WithStatus({"PAID"}) \subseteq WithStatus({"PAID"})'
  <2>1. CASE FinanceEnvironment
    BY <2>1, InstallmentsMove DEF FinanceInvariant, SummariesSound
  <2>2. CASE UNCHANGED vars
    BY <2>2 DEF vars, financeVars, FinanceInvariant, SummariesSound, InstallmentsTypeOK, WithStatus
  <2> QED BY <2>1, <2>2
<1>3. SummariesMove /\ SummariesSound'
  <2>1. served' \in Nat /\ served <= served'
    BY <1>1 DEF FinanceInvariant
  <2>2. CASE UNCHANGED summaries
    BY <1>1, <1>2, <2>1, <2>2, SummariesStay
  <2>3. ASSUME NEW i \in FindSummary, Withdraw(i), UNCHANGED parcelas PROVE SummariesMove /\ SummariesSound'
    BY <1>1, <2>3, WithdrawalMoves
  <2> QED BY <2>2, <2>3 DEF FinanceEnvironment, vars, financeVars
<1>4. SplitsSound' /\ (\A d : SplitCallOK(d) => SplitCallOK(d)') /\ (\A d : SummaryCallOK(d) => SummaryCallOK(d)')
  BY <1>1, <1>3, SplitsStay, SummaryCallsKept
<1>5. CallsSound'
  BY <1>1, <1>4, CallsStaySound DEF FinanceInvariant
<1> QED BY <1>1, <1>3, <1>4, <1>5 DEF FinanceInvariant

LEMMA AbortKeeps ==
  ASSUME FinanceInvariant, NEW s \in Slots, Abort(s), UNCHANGED <<rateioVars, financeVars>>
  PROVE  FinanceInvariant'
<1>1. calls' = [calls EXCEPT ![s] = NoCall] /\ served' = served
  BY DEF Abort, Finish, Continue
<1>2. SummaryCallOK(NoCall)' /\ NoCall.op = "none"
  BY DEF SummaryCallOK, NoCall
<1> QED BY <1>1, <1>2, SummaryReadKeeps

-----------------------------------------------------------------------------
(* Theorems.                                                               *)

LEMMA FinanceInvariantHolds == Spec => []FinanceInvariant
<1>1. ASSUME Init PROVE FinanceInvariant
  <2>1. \A s \in Slots : SplitCallOK(calls[s]) /\ SummaryCallOK(calls[s])
    BY <1>1, NoCallSound DEF Init, HandlersInit
  <2>2. SplitsSound
    <3>1. \A r \in Splits : rateios[r] # NewSplit => rateios[r] \in Rateio /\ rateios[r].status = "ABERTO"
      BY <1>1 DEF Init, RateiosInit
    <3>2. << >> \in Seq(Nat)
      OBVIOUS
    <3>3. fechamentos \in [Splits -> Seq(Nat)]
      BY <1>1, <3>2 DEF Init, RateiosInit
    <3>4. rateios \in [Splits -> Rateio \cup {NewSplit, NoSplit}]
      BY <1>1 DEF Init, RateiosInit
    <3>5. \A r \in Splits : RateioExists(r) => CanEditRateio(r)
      BY <3>1 DEF RateioExists, CanEditRateio
    <3>6. ClosedHasSnapshot
      BY <3>5 DEF ClosedHasSnapshot
    <3> QED BY <3>3, <3>4, <3>6 DEF SplitsSound
  <2>3. PICK new : new = NewSummary /\ new.began = 0 /\ IsSummary(new)
    <3>1. NewSummary.began = 0 /\ IsSummary(NewSummary)
      BY DEF NewSummary, IsSummary
    <3> QED BY <3>1
  <2>4. \A i \in Summaries : summaries[i] = new
    BY <1>1, <2>3 DEF Init, FinanceInit
  <2>5. Docs = {}
    BY <2>3, <2>4 DEF Docs, SummaryExists
  <2>6. InstallmentsTypeOK
    BY <1>1 DEF Init, FinanceInit, InstallmentsInit, InstallmentsTypeOK, Parcela, ParcelaStatus, Unpaid
  <2>7. SummariesSound
    BY <1>1, <2>3, <2>4, <2>5, <2>6
       DEF Init, FinanceInit, SummariesSound, SummaryNeverOverstates, SecondSummaryOnlyInARace
  <2> QED BY <1>1, <2>1, <2>2, <2>7 DEF Init, HandlersInit, FinanceInvariant, CallsSound
<1>2. FinanceInvariant /\ [Next]_vars => FinanceInvariant'
  BY SplitRequestKeeps, SplitWriteKeeps, RecalculateKeeps, SumPaidKeeps, ChooseSummaryKeeps,
     InsertSummaryKeeps, SetSummaryKeeps, EnvironmentKeeps, AbortKeeps
  DEF Next, RateiosNext, recalculateFinanceSummary, FinanceStep
<1> QED BY <1>1, <1>2, PTL DEF Spec

\* Wherever a closing was interrupted and whatever copies were written over it, the owner
\* of a closed split finds a snapshot of it.
THEOREM ClosedSplitsHaveSnapshots == Spec => []ClosedHasSnapshot
<1>1. FinanceInvariant => ClosedHasSnapshot
  BY DEF FinanceInvariant, SplitsSound
<1> QED BY <1>1, FinanceInvariantHolds, PTL

\* No summary shows money that was not paid, however many recalculations raced or failed
\* to read.
THEOREM SummariesNeverOverstate == Spec => []SummaryNeverOverstates
<1>1. FinanceInvariant => SummaryNeverOverstates
  BY DEF FinanceInvariant, SummariesSound
<1> QED BY <1>1, FinanceInvariantHolds, PTL

\* A second summary of the event is the work of recalculations that overlapped, or of one
\* that could not read the first.
THEOREM SecondSummaryTakesARace == Spec => []SecondSummaryOnlyInARace
<1>1. FinanceInvariant => SecondSummaryOnlyInARace
  BY DEF FinanceInvariant, SummariesSound
<1> QED BY <1>1, FinanceInvariantHolds, PTL

\* Only the second write of a recalculation changes what a summary that is there says was
\* collected.
THEOREM FallTakesARace == Spec => CollectedFallsOnlyInARace
<1>1. ASSUME FinanceInvariant, [Next]_vars, NEW i \in Docs,
             summaries'[i].collected < summaries[i].collected
      PROVE  summaries'[i].failed \/ summaries'[i].began <= summaries[i].stored
  <2>1. ASSUME summaries'[i].collected = summaries[i].collected PROVE FALSE
    BY <1>1, <2>1 DEF FinanceInvariant, SummariesSound, IsSummary, Docs
  <2>2. ASSUME UNCHANGED summaries PROVE FALSE
    BY <2>1, <2>2
  <2>3. ASSUME FinanceEnvironment PROVE FALSE
    <3>1. PICK j \in FindSummary : Withdraw(j) /\ UNCHANGED <<served, parcelas>>
      BY <2>2, <2>3 DEF FinanceEnvironment, handlerVars
    <3> QED BY <1>1, <2>1, <3>1, WithdrawalMoves
  <2>4. \E s \in Slots : InsertSummary(s) \/ SetSummary(s)
    BY <1>1, <2>2, <2>3 DEF Next, FinanceStep, recalculateFinanceSummary, Recalculate, SumPaid,
       ChooseSummary, financeVars, vars
  <2>5. ASSUME NEW s \in Slots, InsertSummary(s) PROVE FALSE
    BY <1>1, <2>1, <2>5, InsertSummaryKeeps
  <2> QED BY <1>1, <2>4, <2>5, SetSummaryKeeps
<1>2. FinanceInvariant /\ [Next]_vars =>
        [\A i \in Docs :
           summaries'[i].collected < summaries[i].collected
             => summaries'[i].failed \/ summaries'[i].began <= summaries[i].stored]_vars
  BY <1>1
<1> QED BY <1>2, FinanceInvariantHolds, PTL DEF Spec, CollectedFallsOnlyInARace

\* Only an update or a closing that read the split while it was open writes a closed one.
THEOREM ClosedSplitsAreWrittenFromStaleCopies == Spec => ClosedIsWrittenOnlyFromAStaleCopy
<1>1. ASSUME FinanceInvariant, [Next]_vars, NEW r \in Splits, RateioExists(r), ~CanEditRateio(r),
             rateios'[r] \notin {rateios[r], NoSplit}
      PROVE  \E s \in Slots : /\ At(s, "setRateio") /\ calls[s].rateio = r
                              /\ calls[s].read.status = "ABERTO" /\ calls'[s] # calls[s]
  <2>0. rateios \in [Splits -> Rateio \cup {NewSplit, NoSplit}]
    BY <1>1 DEF FinanceInvariant, SplitsSound
  <2>1. ASSUME UNCHANGED rateios PROVE FALSE
    BY <1>1, <2>1
  <2>2. PICK s \in Slots : (\E u \in Users : RateiosRequest(s, u)) \/ RateiosStep(s)
    <3>1. ASSUME NEW s \in Slots, recalculateFinanceSummary(s) \/ FinanceStep(s) PROVE UNCHANGED rateios
      BY <3>1 DEF FinanceStep, recalculateFinanceSummary, Recalculate, SumPaid, ChooseSummary,
         InsertSummary, SetSummary, rateioVars
    <3>2. ASSUME FinanceEnvironment PROVE UNCHANGED rateios
      BY <3>2 DEF FinanceEnvironment, rateioVars
    <3> QED BY <1>1, <2>1, <3>1, <3>2 DEF Next, RateiosNext, rateioVars, vars
  <2>3. ASSUME NEW u \in Users, RateiosRequest(s, u) PROVE FALSE
    <3>1. ASSUME NEW v \in Valores, CreateRateio(s, u, v) PROVE FALSE
      <4>1. PICK q \in Splits : rateios[q] = NewSplit /\ SaveRateio(q, u, v)
        BY <3>1 DEF CreateRateio
      <4>2. q # r
        BY <1>1, <4>1 DEF RateioExists
      <4> QED BY <1>1, <2>0, <4>1, <4>2 DEF SaveRateio
    <3> QED BY <2>1, <2>3, <3>1 DEF RateiosRequest, createRateio, updateRateio, deleteRateio, fecharRateio,
            UpdateRateio, DeleteRateio, FecharRateio, rateioVars
  <2>4. ASSUME DropRateio(s) PROVE FALSE
    BY <1>1, <2>0, <2>4 DEF DropRateio, DeleteRateioByID
  <2>5. ASSUME StoreRateio(s)
        PROVE  /\ At(s, "setRateio") /\ calls[s].rateio = r
               /\ calls[s].read.status = "ABERTO" /\ calls'[s] # calls[s]
    <3>1. SplitCallOK(calls[s]) /\ At(s, "setRateio")
      BY <1>1, <2>5 DEF FinanceInvariant, CallsSound, StoreRateio
    <3>2. calls[s].rateio \in Splits /\ calls[s].copy \in Rateio /\ calls[s].read.status = "ABERTO"
      BY <3>1 DEF SplitCallOK, At
    <3>3. calls[s].rateio = r
      BY <1>1, <2>0, <2>5, <3>2 DEF StoreRateio, UpdateRateioDocument
    <3>4. calls'[s] = NoCall /\ NoCall.op = "none"
      BY <1>1, <2>5 DEF StoreRateio, Finish, Continue, NoCall, FinanceInvariant, CallsSound
    <3>5. calls[s].op = "setRateio"
      BY <3>1 DEF At
    <3> QED BY <3>1, <3>2, <3>3, <3>4, <3>5
  <2> QED BY <2>1, <2>2, <2>3, <2>4, <2>5 DEF RateiosStep, NextVersion, TakeSnapshot, rateioVars
<1>2. FinanceInvariant /\ [Next]_vars =>
        [\A r \in Splits :
           RateioExists(r) /\ ~CanEditRateio(r) /\ rateios'[r] \notin {rateios[r], NoSplit}
             => \E s \in Slots : /\ At(s, "setRateio") /\ calls[s].rateio = r
                                 /\ calls[s].read.status = "ABERTO" /\ calls'[s] # calls[s]
        ]_<<rateioVars, calls>>
  BY <1>1
<1> QED BY <1>2, FinanceInvariantHolds, PTL DEF Spec, ClosedIsWrittenOnlyFromAStaleCopy

-----------------------------------------------------------------------------
(* The installment screens.                                                *)

LEMMA GivenOne == ASSUME NEW x, NEW d PROVE Given(<<x>>, d) = x /\ Given(<< >>, d) = d
BY DEF Given

LEMMA InstallmentListsOf ==
  ASSUME InstallmentsTypeOK, NEW u \in Users, IsParticipantOfEvent(u)
  PROVE  /\ listInstallments(u, << >>, << >>) = TextIds
         /\ \A st : listInstallments(u, << >>, <<st>>) = TextIds \cap WithStatus({st})
         /\ \A who : listInstallments(u, <<who>>, << >>)
                       = IF who = NoOne THEN TextIds ELSE TextIds \cap ParcelasOf(who)
         /\ listUserInstallments(u, << >>, "PUBLICADO")
              = {p \in TextIds : ParcelaOf[p] \in ParticipationsOf[u] \cup {u}}
         /\ \A st : listUserInstallments(u, <<st>>, "PUBLICADO")
                      = {p \in TextIds \cap WithStatus({st}) : ParcelaOf[p] \in ParticipationsOf[u] \cup {u}}
         /\ listUserInstallments(u, << >>, "ORGANIZACAO") = {}
<1>1. TextIds \cap WithStatus(ParcelaStatus) = TextIds
  BY InstallmentsAssumption DEF WithStatus, InstallmentsTypeOK, Parcela
<1>2. \A st : <<st>> # << >> /\ <<st>>[1] = st
  OBVIOUS
<1>3. /\ listInstallments(u, << >>, << >>) = TextIds
      /\ \A st : listInstallments(u, << >>, <<st>>) = TextIds \cap WithStatus({st})
  BY <1>1, <1>2 DEF listInstallments, ListInstallments, Given, FindByEvent
<1>4. \A who : listInstallments(u, <<who>>, << >>)
                 = IF who = NoOne THEN TextIds ELSE TextIds \cap ParcelasOf(who)
  BY <1>1, <1>2 DEF listInstallments, ListInstallments, Given, FindByEvent, FindByEventAndParticipant
<1>5. ~Hidden("PUBLICADO") /\ Hidden("ORGANIZACAO")
  BY DEF Hidden
<1>6. /\ listUserInstallments(u, << >>, "PUBLICADO")
           = {p \in TextIds : ParcelaOf[p] \in ParticipationsOf[u] \cup {u}}
      /\ \A st : listUserInstallments(u, <<st>>, "PUBLICADO")
                   = {p \in TextIds \cap WithStatus({st}) : ParcelaOf[p] \in ParticipationsOf[u] \cup {u}}
      /\ listUserInstallments(u, << >>, "ORGANIZACAO") = {}
  BY <1>1, <1>2, <1>5 DEF listUserInstallments, ListUserInstallments, FindByUserOrParticipations,
     FindParticipationIDsByUserID
<1> QED BY <1>3, <1>4, <1>6

\* In every state of the installments the list of the event, the lists by participant and
\* by status, the single entries and the user's own list agree for who takes part.
THEOREM InstallmentListsStayAgreed == Spec => []InstallmentListsAgree
<1>1. ASSUME FinanceInvariant PROVE InstallmentListsAgree
  <2>0. InstallmentsTypeOK
    BY <1>1 DEF FinanceInvariant, SummariesSound
  <2> SUFFICES ASSUME NEW u \in Users, IsParticipantOfEvent(u),
                      NEW all, all = listInstallments(u, << >>, << >>),
                      NEW mine, mine = {p \in all : ParcelaOf[p] \in ParticipationsOf[u] \cup {u}}
               PROVE  /\ all = UNION {listInstallments(u, << >>, <<st>>) : st \in ParcelaStatus}
                      /\ all = UNION {listInstallments(u, <<who>>, << >>) : who \in Participants}
                      /\ all = {p \in Parcelas : GetInstallment(u, p)}
                      /\ listUserInstallments(u, << >>, "PUBLICADO") = mine
                      /\ mine = UNION {listUserInstallments(u, <<st>>, "PUBLICADO") : st \in ParcelaStatus}
                      /\ listUserInstallments(u, << >>, "ORGANIZACAO") = {}
    BY DEF InstallmentListsAgree
  <2>1. all = TextIds
    BY <2>0, InstallmentListsOf
  <2>2. \A p \in TextIds : /\ p \in Parcelas /\ ParcelaOf[p] \in Participants
                           /\ parcelas[p].status \in ParcelaStatus
    BY <2>0, InstallmentsAssumption DEF InstallmentsTypeOK, Parcela
  <2>3. all = UNION {listInstallments(u, << >>, <<st>>) : st \in ParcelaStatus}
    <3>1. \A st : listInstallments(u, << >>, <<st>>) = TextIds \cap WithStatus({st})
      BY <2>0, InstallmentListsOf
    <3>2. ASSUME NEW p \in TextIds PROVE \E st \in ParcelaStatus : p \in listInstallments(u, << >>, <<st>>)
      BY <2>2, <3>1 DEF WithStatus
    <3>3. \A st : listInstallments(u, << >>, <<st>>) \subseteq TextIds
      BY <3>1
    <3> QED BY <2>1, <3>2, <3>3
  <2>4. all = UNION {listInstallments(u, <<who>>, << >>) : who \in Participants}
    <3>1. \A who : listInstallments(u, <<who>>, << >>)
                     = IF who = NoOne THEN TextIds ELSE TextIds \cap ParcelasOf(who)
      BY <2>0, InstallmentListsOf
    <3>2. ASSUME NEW p \in TextIds PROVE \E who \in Participants : p \in listInstallments(u, <<who>>, << >>)
      BY <2>2, <3>1 DEF ParcelasOf
    <3>3. \A who : listInstallments(u, <<who>>, << >>) \subseteq TextIds
      BY <3>1
    <3> QED BY <2>1, <3>2, <3>3
  <2>5. all = {p \in Parcelas : GetInstallment(u, p)}
    BY <2>1, <2>2 DEF GetInstallment
  <2>6. mine = UNION {listUserInstallments(u, <<st>>, "PUBLICADO") : st \in ParcelaStatus}
    <3>1. \A st : listUserInstallments(u, <<st>>, "PUBLICADO")
                    = {p \in TextIds \cap WithStatus({st}) : ParcelaOf[p] \in ParticipationsOf[u] \cup {u}}
      BY <2>0, InstallmentListsOf
    <3>2. ASSUME NEW p \in mine
          PROVE  \E st \in ParcelaStatus : p \in listUserInstallments(u, <<st>>, "PUBLICADO")
      <4>1. p \in TextIds /\ ParcelaOf[p] \in ParticipationsOf[u] \cup {u}
        BY <2>1
      <4> QED BY <2>2, <3>1, <4>1 DEF WithStatus
    <3>3. \A st : listUserInstallments(u, <<st>>, "PUBLICADO") \subseteq mine
      BY <2>1, <3>1
    <3> DEFINE lists == {listUserInstallments(u, <<st>>, "PUBLICADO") : st \in ParcelaStatus}
    <3>4. mine \subseteq UNION lists
      BY ONLY <3>2
    <3>5. UNION lists \subseteq mine
      BY ONLY <3>3
    <3> HIDE DEF lists
    <3>6. mine = UNION lists
      BY ONLY <3>4, <3>5
    <3> QED BY <3>6 DEF lists
  <2> QED BY <2>0, <2>1, <2>3, <2>4, <2>5, <2>6, InstallmentListsOf
<1> QED BY <1>1, FinanceInvariantHolds, PTL
-----------------------------------------------------------------------------
(* Pages.                                                                  *)

LEMMA MinIs ==
  ASSUME NEW a \in Int, NEW b \in Int
  PROVE  Min({a, b}) = Lesser(a, b)
BY DEF Min, Lesser

LEMMA MaxIs ==
  ASSUME NEW a \in Int, NEW b \in Int
  PROVE  Max({a, b}) = IF a < b THEN b ELSE a
BY DEF Max

LEMMA ClampIs ==
  ASSUME NEW size \in Int
  PROVE  Clamp(size) \in 1..100
<1>1. PICK m : m = Min({100, size})
  OBVIOUS
<1>2. m \in Int /\ m <= 100
  BY <1>1, MinIs DEF Lesser
<1>3. Max({1, m}) = IF 1 < m THEN m ELSE 1
  BY <1>2, MaxIs
<1> QED BY <1>1, <1>2, <1>3 DEF Clamp

\* The list of n documents in their order.
Listed(n) == [i \in 1..n |-> i]

LEMMA ListedIs ==
  ASSUME NEW n \in Nat
  PROVE  Listed(n) \in Seq(Nat) /\ Len(Listed(n)) = n
<1>1. Listed(n) \in [1..n -> Nat]
  BY DEF Listed
<1>2. Listed(n) \in Seq(Nat)
  BY <1>1, SeqDef
<1> QED BY <1>1, <1>2, LenProperties

LEMMA SliceIs ==
  ASSUME NEW n \in Nat, NEW skip \in Nat, NEW size \in Nat
  PROVE  Slice(n, skip, size) = SubSeq(Listed(n), skip + 1, Lesser(skip + size, n))
<1>1. Min({n, skip + size}) = Lesser(n, skip + size)
  BY MinIs
<1>2. Lesser(n, skip + size) = Lesser(skip + size, n)
  BY DEF Lesser
<1> QED BY <1>1, <1>2 DEF Slice, Listed

\* So many pages are enough.
LEMMA PagesAreEnough ==
  ASSUME NEW n \in Nat, NEW size \in 1..100
  PROVE  TotalPages(n, size) \in Nat /\ TotalPages(n, size) * size >= n
<1>1. PICK q : q = (n + size - 1) \div size
  OBVIOUS
<1>2. PICK t : t = n + size - 1
  OBVIOUS
<1>3. t \in Nat /\ q = t \div size
  BY <1>1, <1>2
<1>4. q \in Nat
  BY <1>3
<1>5. t = size * q + (t % size) /\ t % size \in 0..(size - 1)
  BY <1>3
<1>6. size * q \in Int /\ q * size = size * q
  BY <1>4
<1>7. q * size >= n
  BY <1>2, <1>3, <1>5, <1>6
<1> QED BY <1>1, <1>4, <1>7 DEF TotalPages

\* Page p of whatever endpoint.
LEMMA PageIs ==
  ASSUME NEW n \in Nat, NEW size \in 1..100, NEW p \in Nat \ {0}
  PROVE  /\ (p - 1) * size \in Nat
         /\ Slice(n, (p - 1) * size, size) = SubSeq(Listed(n), (p - 1) * size + 1, Lesser(p * size, Len(Listed(n))))
<1>1. PICK m : m = (p - 1) * size
  OBVIOUS
<1>2. m \in Nat /\ p * size = m + size /\ size \in Nat
  BY <1>1
<1>3. Slice(n, m, size) = SubSeq(Listed(n), m + 1, Lesser(m + size, n))
  BY <1>2, SliceIs
<1>4. Len(Listed(n)) = n
  BY ListedIs
<1> QED BY <1>1, <1>2, <1>3, <1>4

AreSlices(pages, n, size, k) ==
  k * size >= n /\ pages = [p \in 1..k |-> Slice(n, (p - 1) * size, size)]

LEMMA SlicesMeetAll ==
  ASSUME NEW n \in Nat, NEW size \in 1..100, NEW k \in Nat, NEW pages, AreSlices(pages, n, size, k)
  PROVE  FlattenSeq(pages) = [i \in 1..n |-> i]
<1> USE DEF AreSlices
<1>2. PICK all : all = Listed(n)
  OBVIOUS
<1>3. all \in Seq(Nat) /\ Len(all) = n
  BY <1>2, ListedIs
<1>4. ASSUME NEW p \in 1..k
      PROVE  pages[p] = SubSeq(all, (p - 1) * size + 1, Lesser(p * size, Len(all)))
  <2>1. p \in Nat \ {0}
    OBVIOUS
  <2> QED BY <1>2, <2>1, PageIs
<1>5. pages = [p \in 1..k |-> pages[p]] /\ size \in Nat
  OBVIOUS
<1>6. FlattenSeq(pages) = all
  <2>1. k * size >= Len(all)
    BY <1>3
  <2>2. ArePages(pages, all, size, k)
    BY <1>4, <1>5, <2>1 DEF ArePages
  <2> QED BY <1>3, <1>5, <2>2, PagesMeetAll
<1> QED BY <1>2, <1>6 DEF Listed
LEMMA LedgerPage ==
  ASSUME NEW n \in Nat, NEW size \in Int, NEW page \in Nat \ {0}
  PROVE  LET shown == getLedgerStatement(n, <<page>>, <<size>>) IN
         /\ shown.failed = FALSE
         /\ shown.totalPages = TotalPages(n, Clamp(size))
         /\ shown.content = Slice(n, (page - 1) * Clamp(size), Clamp(size))
<1>1. PICK L \in 1..100 : L = Clamp(size)
  BY ClampIs
<1>2. Max({0, page}) = page
  <2>1. Max({0, page}) = IF 0 < page THEN page ELSE 0
    BY MaxIs
  <2> QED BY <2>1
<1>3. getLedgerStatement(n, <<page>>, <<size>>) = GetLedgerStatement(n, page, size)
  BY GivenOne DEF getLedgerStatement
<1>4. PICK m : m = (page - 1) * L
  OBVIOUS
<1>5. m \in Nat /\ (m < 0) = FALSE
  BY <1>4
<1>6. LedgerSkip(page, L) = m
  BY <1>4 DEF LedgerSkip
<1>7. GetLedgerStatement(n, page, size)
        = [content |-> Slice(n, m, L), totalPages |-> TotalPages(n, L), failed |-> FALSE]
  BY <1>1, <1>2, <1>5, <1>6 DEF GetLedgerStatement, FindEntries
<1> QED BY <1>1, <1>3, <1>4, <1>7

LEMMA OtherPages ==
  ASSUME NEW n \in Nat, NEW size \in Int, NEW page \in Nat \ {0}
  PROVE  /\ getAuditTrail(n, <<page - 1>>, <<size>>) = Slice(n, (page - 1) * Clamp(size), Clamp(size))
         /\ getParticipantsStatus(n, <<page - 1>>, <<size>>) = Slice(n, (page - 1) * Clamp(size), Clamp(size))
<1>1. PICK p : p = page - 1
  OBVIOUS
<1>2. p \in Nat
  BY <1>1
<1>3. Max({0, p}) = p
  <2>1. Max({0, p}) = IF 0 < p THEN p ELSE 0
    BY <1>2, MaxIs
  <2> QED BY <1>2, <2>1
<1> QED BY <1>1, <1>3, GivenOne DEF getAuditTrail, getParticipantsStatus, GetAuditTrail, FindParticipants

LEMMA FirstPageIsRefused ==
  ASSUME NEW n \in Nat
  PROVE  getLedgerStatement(n, << >>, << >>).failed
<1>1. PICK L \in 1..100 : L = Clamp(20)
  BY ClampIs
<1>2. Max({0, 0}) = 0
  BY MaxIs
<1>3. LedgerSkip(0, L) = -L
  BY DEF LedgerSkip
<1>4. (LedgerSkip(0, L) < 0) = TRUE
  BY <1>3
<1>5. getLedgerStatement(n, << >>, << >>) = GetLedgerStatement(n, 0, 20)
  BY GivenOne DEF getLedgerStatement
<1>6. GetLedgerStatement(n, 0, 20) = [content |-> << >>, totalPages |-> TotalPages(n, L), failed |-> TRUE]
  BY <1>1, <1>2, <1>4 DEF GetLedgerStatement
<1> QED BY <1>5, <1>6

\* What is said of one page size.
PagesHold(n, size) ==
  LET all == [i \in 1..n |-> i]
      last == getLedgerStatement(n, <<1>>, <<size>>).totalPages
      pages == 1..last
  IN
  /\ \A page \in pages : ~getLedgerStatement(n, <<page>>, <<size>>).failed
  /\ FlattenSeq([p \in pages |-> getLedgerStatement(n, <<p>>, <<size>>).content]) = all
  /\ FlattenSeq([p \in pages |-> getAuditTrail(n, <<p - 1>>, <<size>>)]) = all
  /\ FlattenSeq([p \in pages |-> getParticipantsStatus(n, <<p - 1>>, <<size>>)]) = all

LEMMA EveryEntryIsMet == PagesMeetEveryEntry
<1>1. SUFFICES ASSUME NEW n \in 0..Cardinality(Parcelas)
               PROVE  /\ getLedgerStatement(n, << >>, << >>).failed
                      /\ \A size \in -1..Cardinality(Parcelas) : PagesHold(n, size)
  BY ONLY <1>1 DEF PagesMeetEveryEntry, PagesHold
<1>2. n \in Nat
  <2>1. Cardinality(Parcelas) \in Nat
    BY InstallmentsAssumption, FS_CardinalityType
  <2> QED BY <2>1
<1>3. ASSUME NEW size \in -1..Cardinality(Parcelas) PROVE PagesHold(n, size)
  <2>0. PICK last : last = getLedgerStatement(n, <<1>>, <<size>>).totalPages
    OBVIOUS
  <2>1. size \in Int
    OBVIOUS
  <2>2. PICK L \in 1..100 : L = Clamp(size)
    BY <2>1, ClampIs
  <2>3. last = TotalPages(n, L)
    <3>1. 1 \in Nat \ {0}
      OBVIOUS
    <3>2. getLedgerStatement(n, <<1>>, <<size>>).totalPages = TotalPages(n, Clamp(size))
      BY <1>2, <2>1, <3>1, LedgerPage
    <3> QED BY <2>0, <2>2, <3>2
  <2>4. last \in Nat /\ last * L >= n
    BY <1>2, <2>3, PagesAreEnough
  <2>5. PICK slices : slices = [p \in 1..last |-> Slice(n, (p - 1) * L, L)]
    OBVIOUS
  <2>6. FlattenSeq(slices) = [i \in 1..n |-> i]
    <3>1. AreSlices(slices, n, L, last)
      BY <2>4, <2>5, Zenon DEF AreSlices
    <3> QED BY <1>2, <2>4, <3>1, SlicesMeetAll
  <2>7. ASSUME NEW p \in 1..last
        PROVE  /\ getLedgerStatement(n, <<p>>, <<size>>).failed = FALSE
               /\ getLedgerStatement(n, <<p>>, <<size>>).content = Slice(n, (p - 1) * L, L)
               /\ getAuditTrail(n, <<p - 1>>, <<size>>) = Slice(n, (p - 1) * L, L)
               /\ getParticipantsStatus(n, <<p - 1>>, <<size>>) = Slice(n, (p - 1) * L, L)
    <3>1. p \in Nat \ {0}
      BY <2>4
    <3> QED BY <1>2, <2>1, <2>2, <3>1, LedgerPage, OtherPages
  <2>8. /\ [p \in 1..last |-> getLedgerStatement(n, <<p>>, <<size>>).content] = slices
        /\ [p \in 1..last |-> getAuditTrail(n, <<p - 1>>, <<size>>)] = slices
        /\ [p \in 1..last |-> getParticipantsStatus(n, <<p - 1>>, <<size>>)] = slices
    BY <2>5, <2>7
  <2> QED BY <2>0, <2>6, <2>7, <2>8 DEF PagesHold
<1>4. getLedgerStatement(n, << >>, << >>).failed
  BY <1>2, FirstPageIsRefused
<1> QED BY <1>3, <1>4
-----------------------------------------------------------------------------
(* Screens.                                                                *)

\* The rows when every list of installments was read.
Rows == GetParticipantsStatus(Records)

\* The iteration of MapThenSumSet for each of the three sums of the model.
SumsValor(S, g) ==
  g = [s \in SUBSET S |-> IF s = {} THEN 0 ELSE rateios[First(s)].valor + g[s \ {First(s)}]]
SumsPaid(S, g) ==
  g = [s \in SUBSET S |-> IF s = {} THEN 0 ELSE Rows[First(s)].paid + g[s \ {First(s)}]]
SumsPending(S, g) ==
  g = [s \in SUBSET S |-> IF s = {} THEN 0 ELSE Rows[First(s)].pending + g[s \ {First(s)}]]

LEMMA ValorIsSummed ==
  ASSUME NEW S, IsFiniteSet(S), NEW f, f = [r \in S |-> rateios[r].valor]
  PROVE  MapThenSumSet(LAMBDA r : rateios[r].valor, S) = SumFunctionOnSet(f, S)
<1>1. MapThenSumSet(LAMBDA r : rateios[r].valor, S) = (CHOOSE g : SumsValor(S, g))[S]
  BY DEF MapThenSumSet, MapThenFoldSet, SumsValor, First
<1>2. \A s \in SUBSET S : s # {} => f[First(s)] = rateios[First(s)].valor
  BY FirstIsIn
<1>3. \A g : SumsValor(S, g) <=> Sums(f, S, g)
  BY <1>2 DEF SumsValor, Sums
<1>4. PICK g : g = CHOOSE h : SumsValor(S, h)
  OBVIOUS
<1>5. Sums(f, S, g)
  BY <1>3, <1>4, SumsExist
<1> QED BY <1>1, <1>4, <1>5, SumIsAnyOfThem

LEMMA PaidIsSummed ==
  ASSUME NEW S, IsFiniteSet(S), NEW f, f = [w \in S |-> Rows[w].paid]
  PROVE  MapThenSumSet(LAMBDA w : Rows[w].paid, S) = SumFunctionOnSet(f, S)
<1>1. MapThenSumSet(LAMBDA w : Rows[w].paid, S) = (CHOOSE g : SumsPaid(S, g))[S]
  BY DEF MapThenSumSet, MapThenFoldSet, SumsPaid, First
<1>2. \A s \in SUBSET S : s # {} => f[First(s)] = Rows[First(s)].paid
  BY FirstIsIn
<1>3. \A g : SumsPaid(S, g) <=> Sums(f, S, g)
  BY <1>2 DEF SumsPaid, Sums
<1>4. PICK g : g = CHOOSE h : SumsPaid(S, h)
  OBVIOUS
<1>5. Sums(f, S, g)
  BY <1>3, <1>4, SumsExist
<1> QED BY <1>1, <1>4, <1>5, SumIsAnyOfThem

LEMMA PendingIsSummed ==
  ASSUME NEW S, IsFiniteSet(S), NEW f, f = [w \in S |-> Rows[w].pending]
  PROVE  MapThenSumSet(LAMBDA w : Rows[w].pending, S) = SumFunctionOnSet(f, S)
<1>1. MapThenSumSet(LAMBDA w : Rows[w].pending, S) = (CHOOSE g : SumsPending(S, g))[S]
  BY DEF MapThenSumSet, MapThenFoldSet, SumsPending, First
<1>2. \A s \in SUBSET S : s # {} => f[First(s)] = Rows[First(s)].pending
  BY FirstIsIn
<1>3. \A g : SumsPending(S, g) <=> Sums(f, S, g)
  BY <1>2 DEF SumsPending, Sums
<1>4. PICK g : g = CHOOSE h : SumsPending(S, h)
  OBVIOUS
<1>5. Sums(f, S, g)
  BY <1>3, <1>4, SumsExist
<1> QED BY <1>1, <1>4, <1>5, SumIsAnyOfThem

LEMMA TotalOfIs ==
  ASSUME NEW ps \in SUBSET Parcelas
  PROVE  IsFiniteSet(ps) /\ Cardinality(ps) \in Nat /\ TotalOf(ps) = 100 * Cardinality(ps) /\ TotalOf(ps) \in Nat
<1>1. IsFiniteSet(ps) /\ Cardinality(ps) \in Nat
  BY InstallmentsAssumption, FS_Subset, FS_CardinalityType
<1> QED BY <1>1 DEF TotalOf, Amount

\* The parts that some participants have of a set of installments add up to what is filed
\* under these participants.
LEMMA PartsSumUp ==
  ASSUME NEW ps \in SUBSET Parcelas, NEW W \in SUBSET Participants,
         NEW f, f = [w \in W |-> TotalOf(ps \cap ParcelasOf(w))]
  PROVE  SumFunctionOnSet(f, W) = TotalOf({p \in ps : ParcelaOf[p] \in W})
<1> DEFINE part(T) == {p \in ps : ParcelaOf[p] \in T}
           F == {T \in SUBSET W : SumFunctionOnSet(f, T) # TotalOf(part(T))}
<1>0. \A p \in ps : p \in Parcelas
  OBVIOUS
<1>1. SUFFICES ASSUME F # {} PROVE FALSE
  OBVIOUS
<1>2. \A T \in F : IsFiniteSet(T)
  BY InstallmentsAssumption, FS_Subset
<1>3. PICK T \in F : \A U \in F : ~(U \subseteq T /\ U # T)
  <2> HIDE DEF F
  <2> QED BY <1>1, <1>2, SmallestSet
<1>4. T \in SUBSET W /\ SumFunctionOnSet(f, T) # TotalOf(part(T)) /\ IsFiniteSet(T)
  BY <1>2, <1>3
<1>5. T # {}
  <2>1. SumFunctionOnSet(f, {}) = 0
    BY SumOfNone
  <2>2. part({}) = {}
    OBVIOUS
  <2>3. TotalOf({}) = 0
    BY FS_EmptySet DEF TotalOf, Amount
  <2> QED BY <1>4, <2>1, <2>2, <2>3
<1>6. PICK w \in T : w = First(T)
  BY <1>5, FirstIsIn
<1>7. PICK U : U = T \ {w}
  OBVIOUS
<1>8. SumFunctionOnSet(f, T) = f[w] + SumFunctionOnSet(f, U)
  BY <1>4, <1>5, <1>6, <1>7, SumTakesFirst
<1>9. SumFunctionOnSet(f, U) = TotalOf(part(U))
  BY <1>3, <1>4, <1>6, <1>7
<1>10. f[w] = TotalOf(ps \cap ParcelasOf(w))
  BY <1>4, <1>6
<1>11. PICK a, b, c : a = ps \cap ParcelasOf(w) /\ b = part(U) /\ c = part(T)
  OBVIOUS
<1>12. a \in SUBSET Parcelas /\ b \in SUBSET Parcelas /\ c \in SUBSET Parcelas
  BY <1>0, <1>11
<1>13. c = a \cup b /\ a \cap b = {}
  BY <1>0, <1>6, <1>7, <1>11 DEF ParcelasOf
<1>14. Cardinality(c) = Cardinality(a) + Cardinality(b)
  <2>1. IsFiniteSet(a) /\ IsFiniteSet(b) /\ Cardinality(a) \in Nat /\ Cardinality(b) \in Nat
    BY <1>12, TotalOfIs
  <2>2. Cardinality(a \cup b) = Cardinality(a) + Cardinality(b) - Cardinality(a \cap b)
    BY <2>1, FS_Union
  <2>3. Cardinality(a \cap b) = 0
    BY <1>13, FS_EmptySet
  <2> QED BY <1>13, <2>1, <2>2, <2>3
<1>15. TotalOf(c) = TotalOf(a) + TotalOf(b)
  BY <1>12, <1>14, TotalOfIs
<1> QED BY <1>4, <1>8, <1>9, <1>10, <1>11, <1>15

LEMMA TotalsAdd ==
  ASSUME NEW a \in SUBSET Parcelas, NEW b \in SUBSET Parcelas, a \cap b = {}
  PROVE  TotalOf(a \cup b) = TotalOf(a) + TotalOf(b)
<1>1. IsFiniteSet(a) /\ IsFiniteSet(b) /\ Cardinality(a) \in Nat /\ Cardinality(b) \in Nat
  BY TotalOfIs
<1>2. Cardinality(a \cup b) = Cardinality(a) + Cardinality(b) - Cardinality(a \cap b)
  BY <1>1, FS_Union
<1>3. Cardinality(a \cap b) = 0
  BY FS_EmptySet
<1>4. a \cup b \in SUBSET Parcelas
  OBVIOUS
<1> QED BY <1>1, <1>2, <1>3, <1>4, TotalOfIs

LEMMA TotalIsPositive ==
  ASSUME NEW ps \in SUBSET Parcelas
  PROVE  TotalOf(ps) > 0 <=> ps # {}
<1>1. IsFiniteSet(ps) /\ Cardinality(ps) \in Nat /\ TotalOf(ps) = 100 * Cardinality(ps)
  BY TotalOfIs
<1>2. Cardinality(ps) = 0 <=> ps = {}
  BY <1>1, FS_EmptySet
<1> QED BY <1>1, <1>2

\* What a row shows is the participant's part of what the event's totals show.
LEMMA RowIs ==
  ASSUME NEW mine
  PROVE  /\ ParticipantStatus(mine).paid = Collected(mine)
         /\ ParticipantStatus(mine).pending = TotalOf(mine \cap WithStatus(Unpaid))
         /\ ParticipantStatus(mine).status = "PAID" => mine # {} /\ mine \cap WithStatus(Unpaid) = {}
<1>1. PICK st : st = CASE mine \cap WithStatus({"OVERDUE"}) # {} -> "OVERDUE"
                       [] mine # {} /\ mine \cap WithStatus(Unpaid) = {} -> "PAID"
                       [] OTHER -> "PENDING"
  OBVIOUS
<1>2. ParticipantStatus(mine) =
        [paid |-> Collected(mine), pending |-> TotalOf(mine \cap WithStatus(Unpaid)), status |-> st]
  BY <1>1 DEF ParticipantStatus
<1>3. st = "PAID" => mine # {} /\ mine \cap WithStatus(Unpaid) = {}
  BY <1>1
<1> QED BY <1>2, <1>3

LEMMA RowsAre ==
  ASSUME NEW w \in Records
  PROVE  /\ Rows[w].paid = TotalOf((FindByEventID \cap WithStatus({"PAID"})) \cap ParcelasOf(w))
         /\ Rows[w].pending = TotalOf((FindByEventID \cap WithStatus(Unpaid)) \cap ParcelasOf(w))
<1>1. PICK mine : mine = FindByParticipantID(w)
  OBVIOUS
<1>2. Rows[w] = ParticipantStatus(mine)
  BY <1>1 DEF Rows, GetParticipantsStatus
<1>3. /\ mine \cap WithStatus({"PAID"}) = (FindByEventID \cap WithStatus({"PAID"})) \cap ParcelasOf(w)
      /\ mine \cap WithStatus(Unpaid) = (FindByEventID \cap WithStatus(Unpaid)) \cap ParcelasOf(w)
  BY <1>1 DEF FindByParticipantID
<1> QED BY <1>2, <1>3, RowIs DEF Collected

\* A row says PAID only of installments that were read, none of which is owed.
LEMMA PaidRowsOweNothing ==
  ASSUME NEW read \in SUBSET Records, NEW w \in Records, GetParticipantsStatus(read)[w].status = "PAID"
  PROVE  Rows[w].pending = 0
<1>1. PICK mine : mine = IF w \in read THEN FindByParticipantID(w) ELSE {}
  OBVIOUS
<1>2. GetParticipantsStatus(read)[w] = ParticipantStatus(mine)
  BY <1>1 DEF GetParticipantsStatus
<1>3. mine # {} /\ mine \cap WithStatus(Unpaid) = {}
  BY <1>2, RowIs
<1>4. mine = FindByParticipantID(w)
  BY <1>1, <1>3
<1>5. (FindByEventID \cap WithStatus(Unpaid)) \cap ParcelasOf(w) = {}
  BY <1>3, <1>4 DEF FindByParticipantID
<1>6. TotalOf({}) = 0
  BY FS_EmptySet DEF TotalOf, Amount
<1> QED BY <1>5, <1>6, RowsAre

\* Installments that no row shows.
Unlisted == {p \in FindByEventID : ParcelaOf[p] \notin Records}

\* What is filed under a participation record and what is not make up the whole.
LEMMA ListedAndUnlisted ==
  ASSUME NEW ps \in SUBSET FindByEventID, NEW f, f = [w \in Records |-> TotalOf(ps \cap ParcelasOf(w))]
  PROVE  SumFunctionOnSet(f, Records) + TotalOf(Unlisted \cap ps) = TotalOf(ps)
<1>1. PICK a, b : a = {p \in ps : ParcelaOf[p] \in Records} /\ b = Unlisted \cap ps
  OBVIOUS
<1>2. ps \in SUBSET Parcelas /\ a \in SUBSET Parcelas /\ b \in SUBSET Parcelas
  BY <1>1 DEF FindByEventID
<1>3. ps = a \cup b /\ a \cap b = {}
  BY <1>1 DEF Unlisted
<1>4. SumFunctionOnSet(f, Records) = TotalOf(a)
  BY <1>1, <1>2, InstallmentsAssumption, PartsSumUp
<1>5. TotalOf(ps) = TotalOf(a) + TotalOf(b)
  BY <1>2, <1>3, TotalsAdd
<1> QED BY <1>1, <1>4, <1>5

LEMMA RecordsAreFinite == IsFiniteSet(Records)
BY InstallmentsAssumption, FS_Subset

LEMMA PaidRowsAddUp ==
  MapThenSumSet(LAMBDA w : Rows[w].paid, Records) + Collected(Unlisted) = Total({"PAID"})
<1>1. PICK ps \in SUBSET FindByEventID : ps = FindByEventID \cap WithStatus({"PAID"})
  OBVIOUS
<1>2. PICK f : f = [w \in Records |-> Rows[w].paid]
  OBVIOUS
<1>3. f = [w \in Records |-> TotalOf(ps \cap ParcelasOf(w))]
  BY <1>1, <1>2, RowsAre
<1>4. SumFunctionOnSet(f, Records) + TotalOf(Unlisted \cap ps) = TotalOf(ps)
  BY <1>3, ListedAndUnlisted
<1>5. MapThenSumSet(LAMBDA w : Rows[w].paid, Records) = SumFunctionOnSet(f, Records)
  BY <1>2, RecordsAreFinite, PaidIsSummed
<1>6. Collected(Unlisted) = TotalOf(Unlisted \cap ps)
  <2>1. Unlisted \cap WithStatus({"PAID"}) = Unlisted \cap ps
    BY <1>1 DEF Unlisted
  <2> QED BY <2>1 DEF Collected
<1> QED BY <1>1, <1>4, <1>5, <1>6 DEF Total

LEMMA PendingRowsAddUp ==
  MapThenSumSet(LAMBDA w : Rows[w].pending, Records) + TotalOf(Unlisted \cap WithStatus(Unpaid))
    = Total({"PENDING"}) + Total({"OVERDUE"})
<1>1. PICK ps \in SUBSET FindByEventID : ps = FindByEventID \cap WithStatus(Unpaid)
  OBVIOUS
<1>2. PICK f : f = [w \in Records |-> Rows[w].pending]
  OBVIOUS
<1>3. f = [w \in Records |-> TotalOf(ps \cap ParcelasOf(w))]
  BY <1>1, <1>2, RowsAre
<1>4. SumFunctionOnSet(f, Records) + TotalOf(Unlisted \cap ps) = TotalOf(ps)
  BY <1>3, ListedAndUnlisted
<1>5. MapThenSumSet(LAMBDA w : Rows[w].pending, Records) = SumFunctionOnSet(f, Records)
  BY <1>2, RecordsAreFinite, PendingIsSummed
<1>6. Unlisted \cap WithStatus(Unpaid) = Unlisted \cap ps
  BY <1>1 DEF Unlisted
<1>7. PICK a \in SUBSET Parcelas, b \in SUBSET Parcelas :
        a = FindByEventID \cap WithStatus({"PENDING"}) /\ b = FindByEventID \cap WithStatus({"OVERDUE"})
  BY DEF FindByEventID
<1>8. ps = a \cup b /\ a \cap b = {}
  BY <1>1, <1>7 DEF WithStatus, Unpaid
<1>9. TotalOf(ps) = TotalOf(a) + TotalOf(b)
  BY <1>8, TotalsAdd
<1> QED BY <1>4, <1>5, <1>6, <1>7, <1>9 DEF Total

\* Payments of no known date, of which the balance says nothing.
Undated == {p \in FindByEventID \cap WithStatus({"PAID"}) : ~parcelas[p].paidAt}

\* What is held is part of what was paid at a known date, and the rest of it is available.
LEMMA BalanceIsPaid ==
  CalculateHoldBalance.blocked + CalculateHoldBalance.available + TotalOf(Undated) = Total({"PAID"})
<1>1. PICK dated, a, c : /\ dated = {p \in FindByEventID \cap WithStatus({"PAID"}) : parcelas[p].paidAt}
                         /\ a = {p \in dated : parcelas[p].held}
                         /\ c = dated \ a
  OBVIOUS
<1>2. PICK paid : paid = FindByEventID \cap WithStatus({"PAID"})
  OBVIOUS
<1>3. /\ a \in SUBSET Parcelas /\ c \in SUBSET Parcelas /\ dated \in SUBSET Parcelas
      /\ Undated \in SUBSET Parcelas
  BY <1>1 DEF FindByEventID, Undated
<1>4. dated = a \cup c /\ a \cap c = {} /\ paid = dated \cup Undated /\ dated \cap Undated = {}
  BY <1>1, <1>2 DEF Undated
<1>5. TotalOf(dated) = TotalOf(a) + TotalOf(c) /\ TotalOf(paid) = TotalOf(dated) + TotalOf(Undated)
  BY <1>3, <1>4, TotalsAdd
<1>6. TotalOf(a) \in Nat /\ TotalOf(c) \in Nat /\ TotalOf(dated) \in Nat /\ TotalOf(Undated) \in Nat
  BY <1>3, TotalOfIs
<1>7. CalculateHoldBalance = [blocked |-> TotalOf(a), available |-> Max({0, TotalOf(dated) - TotalOf(a)})]
  BY <1>1 DEF CalculateHoldBalance
<1>8. PICK x : x = TotalOf(dated) - TotalOf(a) /\ x \in Nat
  BY <1>5, <1>6
<1>9. Max({0, x}) = x
  BY <1>8, MaxIs
<1>10. CalculateHoldBalance.blocked = TotalOf(a) /\ CalculateHoldBalance.available = x
  BY <1>7, <1>8, <1>9
<1>11. Total({"PAID"}) = TotalOf(paid)
  BY <1>2 DEF Total
<1> QED BY <1>5, <1>6, <1>8, <1>10, <1>11

\* Who is reminded is who is shown to owe something, or who is in no row and does.
LEMMA RemindedOwe ==
  SendPaymentReminders = {w \in Records : Rows[w].pending > 0}
                           \cup {ParcelaOf[p] : p \in Unlisted \cap WithStatus(Unpaid)}
<1>1. PICK ps \in SUBSET Parcelas : ps = FindByEventID \cap WithStatus(Unpaid)
  BY DEF FindByEventID
<1>2. ASSUME NEW w \in Records
      PROVE  Rows[w].pending > 0 <=> \E p \in ps : ParcelaOf[p] = w
  <2>1. PICK mine \in SUBSET Parcelas : mine = ps \cap ParcelasOf(w)
    OBVIOUS
  <2>2. Rows[w].pending = TotalOf(mine)
    BY <1>1, <2>1, RowsAre
  <2>3. mine # {} <=> \E p \in ps : ParcelaOf[p] = w
    BY <2>1 DEF ParcelasOf
  <2> QED BY <2>2, <2>3, TotalIsPositive
<1>3. SendPaymentReminders = {ParcelaOf[p] : p \in ps}
  BY <1>1 DEF SendPaymentReminders, FindPendingByEventID
<1>4. Unlisted \cap WithStatus(Unpaid) = {p \in ps : ParcelaOf[p] \notin Records}
  BY <1>1 DEF Unlisted
<1>5. PICK shown, others : /\ shown = {w \in Records : Rows[w].pending > 0}
                           /\ others = {ParcelaOf[p] : p \in {q \in ps : ParcelaOf[q] \notin Records}}
  OBVIOUS
<1>6. \A w : w \in shown <=> w \in Records /\ \E p \in ps : ParcelaOf[p] = w
  BY <1>2, <1>5
<1>7. \A w : w \in others <=> w \notin Records /\ \E p \in ps : ParcelaOf[p] = w
  BY <1>5
<1>8. {ParcelaOf[p] : p \in ps} = shown \cup others
  BY <1>6, <1>7
<1> QED BY <1>3, <1>4, <1>5, <1>8

\* What is shown as collected was stored, or nothing was.
LEMMA ShownWasPaid ==
  ASSUME SummaryNeverOverstates, NEW u \in Users, NEW goal, NEW summary \in {NewSummary, CurrentSummary},
         NEW shown \in GetFinanceOverview(u, goal, summary)
  PROVE  shown.collected <= Total({"PAID"})
<1>1. shown.collected = summary.collected
  BY DEF GetFinanceOverview, Overview
<1>2. NewSummary.collected <= Total({"PAID"})
  BY TotalIsNat DEF NewSummary
<1>3. CASE FindSummary = {}
  BY <1>1, <1>2, <1>3 DEF CurrentSummary
<1>4. CASE FindSummary # {}
  <2>1. PICK i \in FindSummary : CurrentSummary = summaries[i]
    BY <1>4 DEF CurrentSummary
  <2>2. summaries[i].collected <= Total({"PAID"})
    BY <2>1 DEF FindSummary, SummaryNeverOverstates
  <2> QED BY <1>1, <1>2, <2>1, <2>2
<1> QED BY <1>3, <1>4

\* A row of the list is the overview, but for what is available.
LEMMA ListRowsAre ==
  ASSUME NEW u \in Users, NEW phase \in [Records -> {"AGUARDANDO_ACEITE", "CONFIRMADO"}],
         NEW readable \in BOOLEAN, NEW goal, NEW summary,
         NEW x \in DOMAIN ListFinanceEvents(u, phase, readable, goal, summary, summary)
  PROVE  /\ phase[x] = "CONFIRMADO"
         /\ \E shown \in GetFinanceOverview(u, goal, summary) :
              ListFinanceEvents(u, phase, readable, goal, summary, summary)[x] =
                [shown EXCEPT !.available = ListFinanceEvents(u, phase, readable, goal, summary, summary)[x].available]
<1>1. PICK mine : mine = {y \in FindParticipationIDsByUserID(u) : readable /\ ~Hidden(phase[y])}
  OBVIOUS
<1>2. PICK shown, row : /\ shown = Overview(goal, summary)
                        /\ row = [shown EXCEPT !.available = summary.available, !.pending = summary.pending]
  OBVIOUS
<1>3. ListFinanceEvents(u, phase, readable, goal, summary, summary) = [y \in mine |-> row]
  BY <1>1, <1>2 DEF ListFinanceEvents
<1>4. x \in mine /\ ListFinanceEvents(u, phase, readable, goal, summary, summary)[x] = row
  BY <1>3
<1>5. x \in ParticipationsOf[u] /\ ~Hidden(phase[x])
  BY <1>1, <1>4 DEF FindParticipationIDsByUserID
<1>6. x \in Records
  BY <1>5, InstallmentsAssumption
<1>7. phase[x] = "CONFIRMADO"
  BY <1>5, <1>6 DEF Hidden
<1>8. GetFinanceOverview(u, goal, summary) = {shown}
  BY <1>2, <1>5 DEF GetFinanceOverview, IsParticipantOfEvent
<1>9. row.available = summary.available
  BY <1>2 DEF Overview
<1>10. row = [shown EXCEPT !.available = row.available]
  <2>1. shown = [shown EXCEPT !.pending = summary.pending]
    BY <1>2 DEF Overview
  <2> QED BY <1>2, <1>9, <2>1 DEF Overview
<1> QED BY <1>4, <1>7, <1>8, <1>10

LEMMA ViewsDoAgree ==
  ASSUME SummaryNeverOverstates
  PROVE  ViewsAgree
<1>1. GetEventPaymentStatus.paid = Total({"PAID"}) /\ GetEventPaymentStatus.pending = Total({"PENDING"})
        /\ GetEventPaymentStatus.overdue = Total({"OVERDUE"})
  BY DEF GetEventPaymentStatus
<1>2. /\ MapThenSumSet(LAMBDA w : Rows[w].paid, Records) + Collected(Unlisted) = GetEventPaymentStatus.paid
      /\ CalculateHoldBalance.blocked + CalculateHoldBalance.available + TotalOf(Undated)
           = GetEventPaymentStatus.paid
      /\ MapThenSumSet(LAMBDA w : Rows[w].pending, Records) + TotalOf(Unlisted \cap WithStatus(Unpaid))
           = GetEventPaymentStatus.pending + GetEventPaymentStatus.overdue
  BY <1>1, PaidRowsAddUp, PendingRowsAddUp, BalanceIsPaid
<1>3. \A u \in Users, goal \in {0, Goal}, summary \in {NewSummary, CurrentSummary} :
        \A shown \in GetFinanceOverview(u, goal, summary) : shown.collected <= GetEventPaymentStatus.paid
  BY <1>1, ShownWasPaid
<1>4. \A read \in SUBSET Records, w \in Records :
        GetParticipantsStatus(read)[w].status = "PAID" => Rows[w].pending = 0
  BY PaidRowsOweNothing
<1>5. SendPaymentReminders = {w \in Records : Rows[w].pending > 0}
                               \cup {ParcelaOf[p] : p \in Unlisted \cap WithStatus(Unpaid)}
  BY RemindedOwe
<1>6. \A u \in Users, phase \in [Records -> {"AGUARDANDO_ACEITE", "CONFIRMADO"}], readable \in BOOLEAN :
        \A x \in DOMAIN ListFinanceEvents(u, phase, readable, Goal, CurrentSummary, CurrentSummary) :
          /\ phase[x] = "CONFIRMADO"
          /\ \E shown \in GetFinanceOverview(u, Goal, CurrentSummary) :
               ListFinanceEvents(u, phase, readable, Goal, CurrentSummary, CurrentSummary)[x] =
                 [shown EXCEPT !.available =
                    ListFinanceEvents(u, phase, readable, Goal, CurrentSummary, CurrentSummary)[x].available]
  BY ListRowsAre
<1> QED BY ONLY <1>2, <1>3, <1>4, <1>5, <1>6 DEF ViewsAgree, Rows, Unlisted, Undated

\* Whatever screen somebody asks for, in whichever state of the splits, the installments
\* and the summaries: the rows and the balance miss no money but what is filed under no
\* participation record or has no date of payment, no failed read shows a debtor as PAID
\* or money that was not paid, the list shows the overview but for what is available, and
\* the pages leave no entry out.
THEOREM ScreensStayAgreed == Spec => []ScreensAgree
<1>1. FinanceInvariant => SummaryNeverOverstates /\ ViewsAgree
  BY ViewsDoAgree DEF FinanceInvariant, SummariesSound
<1>2. InstallmentListsAgree /\ SummaryNeverOverstates /\ ViewsAgree => ScreensAgree
  BY EveryEntryIsMet DEF ScreensAgree
<1> QED BY <1>1, <1>2, FinanceInvariantHolds, InstallmentListsStayAgreed, PTL
-----------------------------------------------------------------------------
(* Types.                                                                  *)

\* The closings that have a snapshot to take: a request each, that no snapshot of any
\* split was taken for yet.  So the version of the next snapshot is one of the requests.
ClosingOps == {"versions", "saveFechamento"}
Closing == {s \in Slots : calls[s].op \in ClosingOps}
VersionsCounted == \A r \in Splits : Len(fechamentos[r]) + Cardinality(Closing) <= served

FinanceTyped == TypeOK /\ VersionsCounted
CallTyped(c) == c \in RateiosCall(c.op) \cup FinanceCall(c.op) \cup {NoCall}

LEMMA SplitCallsAre ==
  ASSUME NEW c, CallTyped(c)
  PROVE  /\ c.op \in {"setRateio", "versions"} => c \in [op: {c.op}, rateio: Splits, copy: Rateio, read: Rateio]
         /\ c.op = "saveFechamento" =>
              c \in [op: {c.op}, rateio: Splits, copy: Rateio, versao: 1..MaxRequests, read: Rateio]
         /\ c.op = "deleteRateio" => c \in [op: {c.op}, rateio: Splits]
BY DEF CallTyped, RateiosCall, FinanceCall, NoCall

LEMMA SummaryCallsAre ==
  ASSUME NEW c, CallTyped(c)
  PROVE  /\ c.op = "sumPaid" => c \in [op: {c.op}, goal: Nat, began: Nat, failed: BOOLEAN]
         /\ c.op = "findSummary" =>
              c \in [op: {c.op}, goal: Nat, collected: Nat, began: Nat, failed: BOOLEAN]
         /\ c.op = "insertSummary" => c \in [op: {c.op}, summary: Summary]
         /\ c.op = "setSummary" => c \in [op: {c.op}, id: Summaries, summary: Summary]
BY DEF CallTyped, RateiosCall, FinanceCall, NoCall

LEMMA TypedCalls ==
  /\ CallTyped(NoCall)
  /\ \A op \in {"setRateio", "versions"} :
       \A c \in [op: {op}, rateio: Splits, copy: Rateio, read: Rateio] : CallTyped(c)
  /\ \A c \in [op: {"saveFechamento"}, rateio: Splits, copy: Rateio, versao: 1..MaxRequests, read: Rateio] :
       CallTyped(c)
  /\ \A c \in [op: {"deleteRateio"}, rateio: Splits] : CallTyped(c)
  /\ \A c \in [op: {"sumPaid"}, goal: Nat, began: Nat, failed: BOOLEAN] : CallTyped(c)
  /\ \A c \in [op: {"findSummary"}, goal: Nat, collected: Nat, began: Nat, failed: BOOLEAN] : CallTyped(c)
  /\ \A c \in [op: {"insertSummary"}, summary: Summary] : CallTyped(c)
  /\ \A c \in [op: {"setSummary"}, id: Summaries, summary: Summary] : CallTyped(c)
<1>1. CallTyped(NoCall)
  BY DEF CallTyped
<1>2. \A op \in {"setRateio", "versions"} :
        \A c \in [op: {op}, rateio: Splits, copy: Rateio, read: Rateio] : CallTyped(c)
  BY DEF CallTyped, RateiosCall
<1>3. \A c \in [op: {"saveFechamento"}, rateio: Splits, copy: Rateio, versao: 1..MaxRequests, read: Rateio] :
        CallTyped(c)
  BY DEF CallTyped, RateiosCall
<1>4. \A c \in [op: {"deleteRateio"}, rateio: Splits] : CallTyped(c)
  BY DEF CallTyped, RateiosCall
<1>5. \A c \in [op: {"sumPaid"}, goal: Nat, began: Nat, failed: BOOLEAN] : CallTyped(c)
  BY DEF CallTyped, FinanceCall
<1>6. \A c \in [op: {"findSummary"}, goal: Nat, collected: Nat, began: Nat, failed: BOOLEAN] : CallTyped(c)
  BY DEF CallTyped, FinanceCall
<1>7. \A c \in [op: {"insertSummary"}, summary: Summary] : CallTyped(c)
  BY DEF CallTyped, FinanceCall
<1>8. \A c \in [op: {"setSummary"}, id: Summaries, summary: Summary] : CallTyped(c)
  BY DEF CallTyped, FinanceCall
<1> QED BY <1>1, <1>2, <1>3, <1>4, <1>5, <1>6, <1>7, <1>8

\* A handler that takes its snapshot, or returns, is one closing less.
LEMMA ClosingMoves ==
  ASSUME DOMAIN calls = Slots, NEW s \in Slots, NEW c, calls' = [calls EXCEPT ![s] = c]
  PROVE  /\ Cardinality(Closing) \in Nat /\ Cardinality(Closing') \in Nat
         /\ Cardinality(Closing') <= Cardinality(Closing) + 1
         /\ s \in Closing \/ c.op \notin ClosingOps => Cardinality(Closing') <= Cardinality(Closing)
         /\ s \in Closing /\ c.op \notin ClosingOps => Cardinality(Closing') + 1 <= Cardinality(Closing)
<1>1. \A t \in Slots : calls'[t] = IF t = s THEN c ELSE calls[t]
  OBVIOUS
<1>2. PICK a, b : a = Closing /\ b = Closing'
  OBVIOUS
<1>3. /\ a \in SUBSET Slots /\ b \in SUBSET Slots /\ b \subseteq a \cup {s}
      /\ c.op \notin ClosingOps => s \notin b
  BY <1>1, <1>2 DEF Closing
<1>4. IsFiniteSet(a) /\ IsFiniteSet(b) /\ Cardinality(a) \in Nat /\ Cardinality(b) \in Nat
  BY <1>3, HandlersAssumption, FS_Subset, FS_CardinalityType
<1>5. IsFiniteSet(a \cup {s}) /\ Cardinality(a \cup {s}) = IF s \in a THEN Cardinality(a) ELSE Cardinality(a) + 1
  BY <1>4, FS_AddElement
<1>6. IsFiniteSet(a \ {s}) /\ Cardinality(a \ {s}) = IF s \in a THEN Cardinality(a) - 1 ELSE Cardinality(a)
  BY <1>4, FS_RemoveElement
<1>7. Cardinality(b) <= Cardinality(a \cup {s})
  BY <1>3, <1>5, FS_Subset
<1>8. s \notin b => b \subseteq a \ {s}
  BY <1>3
<1>9. s \notin b => Cardinality(b) <= Cardinality(a \ {s})
  BY <1>6, <1>8, FS_Subset
<1> QED BY <1>2, <1>3, <1>4, <1>5, <1>6, <1>7, <1>9

LEMMA TypedSlot ==
  ASSUME FinanceTyped, NEW s \in Slots
  PROVE  CallTyped(calls[s]) /\ DOMAIN calls = Slots /\ served \in 0..MaxRequests
BY DEF FinanceTyped, TypeOK, CallTyped

\* One handler goes on and the snapshots stay.
LEMMA HandlerStaysTyped ==
  ASSUME FinanceTyped, NEW s \in Slots, NEW c, CallTyped(c), calls' = [calls EXCEPT ![s] = c],
         RateiosTypeOK', FinanceTypeOK', UNCHANGED fechamentos,
         \/ served < MaxRequests /\ served' = served + 1
         \/ served' = served /\ (calls[s].op \in ClosingOps \/ c.op \notin ClosingOps)
  PROVE  FinanceTyped'
<1>1. DOMAIN calls' = Slots /\ \A t \in Slots : calls'[t] = IF t = s THEN c ELSE calls[t]
  BY TypedSlot
<1>2. \A t \in Slots : calls'[t] \in RateiosCall(calls'[t].op) \cup FinanceCall(calls'[t].op) \cup {NoCall}
  BY <1>1, TypedSlot DEF CallTyped
<1>3. served' \in 0..MaxRequests
  BY TypedSlot, HandlersAssumption
<1>4. \A r \in Splits : Len(fechamentos[r]) \in Nat
  BY DEF FinanceTyped, TypeOK, RateiosTypeOK
<1>5. /\ Cardinality(Closing) \in Nat /\ Cardinality(Closing') \in Nat
      /\ Cardinality(Closing') <= Cardinality(Closing) + 1
      /\ s \in Closing \/ c.op \notin ClosingOps => Cardinality(Closing') <= Cardinality(Closing)
  BY TypedSlot, ClosingMoves
<1>6. VersionsCounted'
  <2>1. ASSUME NEW r \in Splits PROVE Len(fechamentos[r]) + Cardinality(Closing') <= served'
    <3>1. Len(fechamentos[r]) + Cardinality(Closing) <= served /\ Len(fechamentos[r]) \in Nat /\ served \in Nat
      BY <1>4, TypedSlot DEF FinanceTyped, VersionsCounted
    <3>2. calls[s].op \in ClosingOps => s \in Closing
      BY DEF Closing
    <3> QED BY <1>5, <3>1, <3>2
  <2> QED BY <2>1 DEF VersionsCounted
<1> QED BY <1>1, <1>2, <1>3, <1>6 DEF FinanceTyped, TypeOK

LEMMA SplitsStayTyped ==
  ASSUME FinanceTyped, UNCHANGED rateioVars PROVE RateiosTypeOK' /\ UNCHANGED fechamentos
BY DEF FinanceTyped, TypeOK, RateiosTypeOK, rateioVars

LEMMA SummariesStayTyped ==
  ASSUME FinanceTyped, UNCHANGED financeVars PROVE FinanceTypeOK'
BY DEF FinanceTyped, TypeOK, FinanceTypeOK, InstallmentsTypeOK, financeVars

LEMMA SplitRequestsStayTyped ==
  ASSUME FinanceTyped, NEW s \in Slots, NEW u \in Users, RateiosRequest(s, u), UNCHANGED financeVars
  PROVE  FinanceTyped'
<1>0. rateios \in [Splits -> Rateio \cup {NewSplit, NoSplit}] /\ FinanceTypeOK'
  BY SummariesStayTyped DEF FinanceTyped, TypeOK, RateiosTypeOK
<1>1. ASSUME NEW v \in Valores, CreateRateio(s, u, v) PROVE FinanceTyped'
  <2>1. PICK rateio : rateio = [owner |-> u, valor |-> StoredValor(v), status |-> "ABERTO"]
    OBVIOUS
  <2>2. rateio \in Rateio
    BY <2>1 DEF Rateio
  <2>3. PICK r \in Splits : rateios' = [rateios EXCEPT ![r] = rateio]
    BY <1>1, <2>1 DEF CreateRateio, SaveRateio
  <2>4. UNCHANGED <<calls, fechamentos>> /\ served' = served + 1 /\ served' \in 0..MaxRequests
    BY <1>1, TypedSlot, HandlersAssumption DEF CreateRateio
  <2>5. RateiosTypeOK'
    BY <1>0, <2>2, <2>3, <2>4 DEF FinanceTyped, TypeOK, RateiosTypeOK
  <2>6. VersionsCounted'
    <3>1. Closing' = Closing
      BY <2>4 DEF Closing
    <3>2. IsFiniteSet(Closing) /\ Cardinality(Closing) \in Nat
      BY HandlersAssumption, FS_Subset, FS_CardinalityType DEF Closing
    <3>3. \A q \in Splits : Len(fechamentos[q]) \in Nat /\ Len(fechamentos[q]) + Cardinality(Closing) <= served
      BY DEF FinanceTyped, TypeOK, RateiosTypeOK, VersionsCounted
    <3>4. ASSUME NEW q \in Splits PROVE Len(fechamentos[q]) + Cardinality(Closing) <= served + 1
      BY <3>2, <3>3, TypedSlot
    <3> QED BY <2>4, <3>1, <3>4 DEF VersionsCounted
  <2>7. DOMAIN calls' = Slots /\
        \A t \in Slots : calls'[t] \in RateiosCall(calls'[t].op) \cup FinanceCall(calls'[t].op) \cup {NoCall}
    BY <2>4, TypedSlot DEF CallTyped
  <2> QED BY <1>0, <2>4, <2>5, <2>6, <2>7 DEF FinanceTyped, TypeOK
<1>2. ASSUME NEW r \in Splits, NEW v \in Valores, UpdateRateio(s, u, r, v) PROVE FinanceTyped'
  <2>1. rateios[r] \in Rateio
    BY <1>0, <1>2 DEF UpdateRateio, IsOwner, RateioExists
  <2>2. PICK copy : copy = [rateios[r] EXCEPT !.valor = StoredValor(v)]
    OBVIOUS
  <2>3. copy \in Rateio
    BY <2>1, <2>2 DEF Rateio
  <2>4. PICK c : c = [op |-> "setRateio", rateio |-> r, read |-> rateios[r], copy |-> copy]
    OBVIOUS
  <2>5. c \in [op: {"setRateio"}, rateio: Splits, copy: Rateio, read: Rateio]
    BY <2>1, <2>3, <2>4
  <2>6. CallTyped(c)
    BY <2>5, TypedCalls
  <2>7. calls' = [calls EXCEPT ![s] = c] /\ served < MaxRequests /\ served' = served + 1 /\ UNCHANGED rateioVars
    BY <1>2, <2>2, <2>4 DEF UpdateRateio, Begin
  <2> QED BY <1>0, <2>6, <2>7, SplitsStayTyped, HandlerStaysTyped
<1>3. ASSUME NEW r \in Splits, DeleteRateio(s, u, r) PROVE FinanceTyped'
  <2>1. PICK c : c = [op |-> "deleteRateio", rateio |-> r]
    OBVIOUS
  <2>2. c \in [op: {"deleteRateio"}, rateio: Splits]
    BY <2>1
  <2>3. CallTyped(c)
    BY <2>2, TypedCalls
  <2>4. calls' = [calls EXCEPT ![s] = c] /\ served < MaxRequests /\ served' = served + 1 /\ UNCHANGED rateioVars
    BY <1>3, <2>1 DEF DeleteRateio, Begin
  <2> QED BY <1>0, <2>3, <2>4, SplitsStayTyped, HandlerStaysTyped
<1>4. ASSUME NEW r \in Splits, FecharRateio(s, u, r) PROVE FinanceTyped'
  <2>1. rateios[r] \in Rateio
    BY <1>0, <1>4 DEF FecharRateio, IsOwner, RateioExists
  <2>2. PICK c : c = [op |-> "versions", rateio |-> r, copy |-> rateios[r], read |-> rateios[r]]
    OBVIOUS
  <2>3. c \in [op: {"versions"}, rateio: Splits, copy: Rateio, read: Rateio]
    BY <2>1, <2>2
  <2>4. CallTyped(c)
    BY <2>3, TypedCalls
  <2>5. calls' = [calls EXCEPT ![s] = c] /\ served < MaxRequests /\ served' = served + 1 /\ UNCHANGED rateioVars
    BY <1>4, <2>2 DEF FecharRateio, Begin
  <2> QED BY <1>0, <2>4, <2>5, SplitsStayTyped, HandlerStaysTyped
<1> QED BY <1>1, <1>2, <1>3, <1>4 DEF RateiosRequest, createRateio, updateRateio, deleteRateio, fecharRateio

LEMMA SplitStepsStayTyped ==
  ASSUME FinanceTyped, NEW s \in Slots, RateiosStep(s), UNCHANGED financeVars
  PROVE  FinanceTyped'
<1>0. /\ rateios \in [Splits -> Rateio \cup {NewSplit, NoSplit}] /\ FinanceTypeOK' /\ CallTyped(calls[s])
      /\ fechamentos \in [Splits -> Seq(1..MaxRequests)] /\ served \in 0..MaxRequests /\ DOMAIN calls = Slots
      /\ CallTyped(NoCall) /\ NoCall.op \notin ClosingOps
  BY SummariesStayTyped, TypedSlot, TypedCalls DEF FinanceTyped, TypeOK, RateiosTypeOK, NoCall, ClosingOps
<1>1. ASSUME NextVersion(s) PROVE FinanceTyped'
  <2>1. calls[s].op = "versions"
    BY <1>1 DEF NextVersion, At
  <2>2. calls[s] \in [op: {"versions"}, rateio: Splits, copy: Rateio, read: Rateio]
    BY <1>0, <2>1, SplitCallsAre
  <2>3. PICK r \in Splits, copy \in Rateio, read \in Rateio :
          r = calls[s].rateio /\ copy = calls[s].copy /\ read = calls[s].read
    BY <2>2
  <2>4. PICK n \in CountFechamentos(r) :
          Continue(s, [op |-> "saveFechamento", rateio |-> r, copy |-> copy, versao |-> n + 1, read |-> read])
    BY <1>1, <2>3 DEF NextVersion
  <2>5. n + 1 \in 1..MaxRequests
    <3>0. IsFiniteSet(Closing) /\ Cardinality(Closing) \in Nat /\ s \in Closing
      <4>1. IsFiniteSet(Closing)
        BY HandlersAssumption, FS_Subset DEF Closing
      <4>2. s \in Closing
        BY <2>1 DEF Closing, ClosingOps
      <4> QED BY <4>1, <4>2, FS_CardinalityType
    <3>1. PICK k \in Nat, l \in Nat : k = Cardinality(Closing) /\ l = Len(fechamentos[r])
      BY <1>0, <3>0
    <3>2. k # 0
      BY <3>0, <3>1, FS_EmptySet
    <3>3. l + k <= served
      BY <3>1 DEF FinanceTyped, VersionsCounted
    <3>4. n = l \/ n = 0
      BY <2>4, <3>1 DEF CountFechamentos
    <3> QED BY <1>0, <3>1, <3>2, <3>3, <3>4, HandlersAssumption
  <2>6. PICK c : c = [op |-> "saveFechamento", rateio |-> r, copy |-> copy, versao |-> n + 1, read |-> read]
    OBVIOUS
  <2>7. c \in [op: {"saveFechamento"}, rateio: Splits, copy: Rateio, versao: 1..MaxRequests, read: Rateio]
    BY <2>5, <2>6
  <2>8. CallTyped(c)
    BY <2>7, TypedCalls
  <2>9. calls' = [calls EXCEPT ![s] = c] /\ served' = served /\ UNCHANGED rateioVars
    BY <1>1, <2>4, <2>6 DEF NextVersion, Continue
  <2>10. calls[s].op \in ClosingOps
    BY <2>1 DEF ClosingOps
  <2> QED BY <1>0, <2>8, <2>9, <2>10, SplitsStayTyped, HandlerStaysTyped
<1>2. ASSUME TakeSnapshot(s) PROVE FinanceTyped'
  <2>1. calls[s].op = "saveFechamento"
    BY <1>2 DEF TakeSnapshot, At
  <2>2. calls[s] \in [op: {"saveFechamento"}, rateio: Splits, copy: Rateio, versao: 1..MaxRequests, read: Rateio]
    BY <1>0, <2>1, SplitCallsAre
  <2>3. PICK r \in Splits, old \in Rateio, versao \in 1..MaxRequests, read \in Rateio :
          r = calls[s].rateio /\ old = calls[s].copy /\ versao = calls[s].versao /\ read = calls[s].read
    BY <2>2
  <2>4. PICK copy : copy = [old EXCEPT !.status = "FECHADO"]
    OBVIOUS
  <2>5. copy \in Rateio
    BY <2>4 DEF Rateio
  <2>6. PICK c : c = [op |-> "setRateio", rateio |-> r, read |-> read, copy |-> copy]
    OBVIOUS
  <2>7. c \in [op: {"setRateio"}, rateio: Splits, copy: Rateio, read: Rateio] /\ c.op \notin ClosingOps
    BY <2>5, <2>6 DEF ClosingOps
  <2>8. CallTyped(c)
    BY <2>7, TypedCalls
  <2>9. /\ calls' = [calls EXCEPT ![s] = c] /\ served' = served /\ UNCHANGED rateios
        /\ fechamentos' = [fechamentos EXCEPT ![r] = Append(fechamentos[r], versao)]
    BY <1>2, <2>3, <2>4, <2>6 DEF TakeSnapshot, Continue, SaveFechamento
  <2>10. fechamentos[r] \in Seq(1..MaxRequests) /\ Len(fechamentos[r]) \in Nat
    BY <1>0
  <2>11. Append(fechamentos[r], versao) \in Seq(1..MaxRequests)
    BY <2>10
  <2>12. Len(Append(fechamentos[r], versao)) = Len(fechamentos[r]) + 1
    BY <2>10
  <2>13. RateiosTypeOK'
    BY <1>0, <2>9, <2>11 DEF RateiosTypeOK
  <2>14. s \in Closing
    BY <2>1 DEF Closing, ClosingOps
  <2>15. VersionsCounted'
    <3>1. PICK k \in Nat, l \in Nat : k = Cardinality(Closing) /\ l = Cardinality(Closing') /\ l + 1 <= k
      BY <1>0, <2>7, <2>9, <2>14, ClosingMoves
    <3>2. ASSUME NEW q \in Splits PROVE Len(fechamentos'[q]) + l <= served
      <4>1. PICK m \in Nat : m = Len(fechamentos[q]) /\ m + k <= served
        BY <1>0, <3>1 DEF FinanceTyped, VersionsCounted
      <4>2. Len(fechamentos'[q]) = m \/ Len(fechamentos'[q]) = m + 1
        BY <1>0, <2>9, <2>12, <4>1
      <4> QED BY <1>0, <3>1, <4>1, <4>2
    <3> QED BY <2>9, <3>1, <3>2 DEF VersionsCounted
  <2>16. \A t \in Slots : calls'[t] = IF t = s THEN c ELSE calls[t]
    BY <1>0, <2>9
  <2>17. DOMAIN calls' = Slots /\
         \A t \in Slots : calls'[t] \in RateiosCall(calls'[t].op) \cup FinanceCall(calls'[t].op) \cup {NoCall}
    BY <1>0, <2>8, <2>9, <2>16, TypedSlot DEF CallTyped
  <2> QED BY <1>0, <2>9, <2>13, <2>15, <2>17 DEF FinanceTyped, TypeOK
<1>3. ASSUME NEW r, NEW copy, StoreRateio(s), calls[s].rateio = r, calls[s].copy = copy PROVE FinanceTyped'
  <2>1. calls[s].op = "setRateio"
    BY <1>3 DEF StoreRateio, At
  <2>2. calls[s] \in [op: {"setRateio"}, rateio: Splits, copy: Rateio, read: Rateio]
    BY <1>0, <2>1, SplitCallsAre
  <2>3. r \in Splits /\ copy \in Rateio
    BY <1>3, <2>2
  <2>4. rateios' = IF RateioExists(r) THEN [rateios EXCEPT ![r] = copy] ELSE rateios
    BY <1>3 DEF StoreRateio, UpdateRateioDocument
  <2>5. calls' = [calls EXCEPT ![s] = NoCall] /\ served' = served /\ UNCHANGED fechamentos
    BY <1>3 DEF StoreRateio, Finish, Continue
  <2>6. RateiosTypeOK'
    BY <1>0, <2>3, <2>4, <2>5 DEF RateiosTypeOK
  <2> QED BY <1>0, <2>5, <2>6, HandlerStaysTyped
<1>4. ASSUME DropRateio(s) PROVE FinanceTyped'
  <2>1. PICK r : r = calls[s].rateio
    OBVIOUS
  <2>2. rateios' = IF RateioExists(r) THEN [rateios EXCEPT ![r] = NoSplit] ELSE rateios
    BY <1>4, <2>1 DEF DropRateio, DeleteRateioByID
  <2>3. calls' = [calls EXCEPT ![s] = NoCall] /\ served' = served /\ UNCHANGED fechamentos
    BY <1>4 DEF DropRateio, Finish, Continue
  <2>4. RateiosTypeOK'
    BY <1>0, <2>2, <2>3 DEF RateiosTypeOK
  <2> QED BY <1>0, <2>3, <2>4, HandlerStaysTyped
<1> QED BY <1>1, <1>2, <1>3, <1>4 DEF RateiosStep

\* The amounts of the open splits add up to a number of centavos.
LEMMA GoalIsNat == RateiosTypeOK => Goal \in Nat
<1> SUFFICES ASSUME RateiosTypeOK PROVE Goal \in Nat
  OBVIOUS
<1>1. PICK S : S = Open
  OBVIOUS
<1>2. IsFiniteSet(S)
  BY <1>1, RateiosAssumption, FS_Subset DEF Open
<1>3. \A v \in Valores : StoredValor(v) \in Nat
  BY DEF Valores, StoredValor
<1>4. \A r \in S : rateios[r].valor \in Nat
  <2>1. ASSUME NEW r \in S PROVE rateios[r].valor \in Nat
    <3>1. r \in Splits /\ RateioExists(r)
      BY <1>1, <2>1 DEF Open
    <3>2. rateios[r] \in Rateio
      BY <3>1 DEF RateioExists, RateiosTypeOK
    <3>3. PICK v \in Valores : rateios[r].valor = StoredValor(v)
      BY <3>2 DEF Rateio
    <3> QED BY <1>3, <3>3
  <2> QED BY <2>1
<1>5. PICK f : f = [r \in S |-> rateios[r].valor]
  OBVIOUS
<1>6. f \in [S -> Nat]
  BY <1>4, <1>5
<1>7. MapThenSumSet(LAMBDA r : rateios[r].valor, S) = SumFunctionOnSet(f, S)
  BY <1>2, <1>5, ValorIsSummed
<1>8. SumFunctionOnSet(f, S) \in Nat
  BY <1>2, <1>6, SumIsNat
<1> QED BY <1>1, <1>7, <1>8 DEF Goal

LEMMA RecalculationsStayTyped ==
  ASSUME FinanceTyped, NEW s \in Slots, recalculateFinanceSummary(s) \/ FinanceStep(s)
  PROVE  FinanceTyped'
<1>0. /\ RateiosTypeOK /\ InstallmentsTypeOK /\ summaries \in [Summaries -> Summary]
      /\ CallTyped(calls[s]) /\ served \in 0..MaxRequests
      /\ CallTyped(NoCall) /\ NoCall.op \notin ClosingOps
  BY TypedSlot, TypedCalls DEF FinanceTyped, TypeOK, FinanceTypeOK, NoCall, ClosingOps
<1>1. ASSUME UNCHANGED rateioVars PROVE RateiosTypeOK' /\ UNCHANGED fechamentos
  BY <1>1, SplitsStayTyped
<1>2. ASSUME UNCHANGED <<rateioVars, financeVars>>
      PROVE  RateiosTypeOK' /\ FinanceTypeOK' /\ UNCHANGED fechamentos
  BY <1>2, SplitsStayTyped, SummariesStayTyped
<1>3. CollectedNow \in Nat
  <2>1. FindByEventID \cap WithStatus({"PAID"}) \in SUBSET Parcelas
    BY DEF FindByEventID
  <2> QED BY <2>1, TotalOfIs DEF CollectedNow, Collected
<1>4. ASSUME Recalculate(s) PROVE FinanceTyped'
  <2>1. PICK failed \in BOOLEAN, goal \in Nat :
          Begin(s, [op |-> "sumPaid", goal |-> goal, began |-> served + 1, failed |-> failed])
    <3>1. PICK failed \in BOOLEAN :
            Begin(s, [op |-> "sumPaid", goal |-> IF failed THEN 0 ELSE Goal, began |-> served + 1, failed |-> failed])
      BY <1>4 DEF Recalculate
    <3>2. (IF failed THEN 0 ELSE Goal) \in Nat
      BY <1>0, GoalIsNat
    <3> QED BY <3>1, <3>2
  <2>2. PICK c : c = [op |-> "sumPaid", goal |-> goal, began |-> served + 1, failed |-> failed]
    OBVIOUS
  <2>3. served + 1 \in Nat
    BY <1>0, HandlersAssumption
  <2>4. c \in [op: {"sumPaid"}, goal: Nat, began: Nat, failed: BOOLEAN]
    BY <2>2, <2>3
  <2>5. CallTyped(c)
    BY <2>4, TypedCalls
  <2>6. calls' = [calls EXCEPT ![s] = c] /\ served < MaxRequests /\ served' = served + 1
    BY <2>1, <2>2 DEF Begin
  <2>7. UNCHANGED <<rateioVars, financeVars>>
    BY <1>4 DEF Recalculate
  <2> QED BY <1>2, <2>5, <2>6, <2>7, HandlerStaysTyped
<1>5. ASSUME SumPaid(s) PROVE FinanceTyped'
  <2>1. calls[s].op = "sumPaid"
    BY <1>5 DEF SumPaid, At
  <2>2. calls[s] \in [op: {"sumPaid"}, goal: Nat, began: Nat, failed: BOOLEAN]
    BY <1>0, <2>1, SummaryCallsAre
  <2>3. PICK goal \in Nat, began \in Nat, before \in BOOLEAN :
          goal = calls[s].goal /\ began = calls[s].began /\ before = calls[s].failed
    BY <2>2
  <2>4. PICK failed \in BOOLEAN, collected \in Nat :
          Continue(s, [op |-> "findSummary", goal |-> goal, began |-> began, collected |-> collected,
                       failed |-> before \/ failed])
    <3>1. PICK failed \in BOOLEAN :
            Continue(s, [op |-> "findSummary", goal |-> goal, began |-> began,
                         collected |-> IF failed THEN 0 ELSE CollectedNow, failed |-> before \/ failed])
      BY <1>5, <2>3 DEF SumPaid
    <3>2. (IF failed THEN 0 ELSE CollectedNow) \in Nat
      BY <1>3
    <3> QED BY <3>1, <3>2
  <2>5. PICK c : c = [op |-> "findSummary", goal |-> goal, began |-> began, collected |-> collected,
                      failed |-> before \/ failed]
    OBVIOUS
  <2>6. c \in [op: {"findSummary"}, goal: Nat, collected: Nat, began: Nat, failed: BOOLEAN] /\ c.op \notin ClosingOps
    BY <2>5 DEF ClosingOps
  <2>7. CallTyped(c)
    BY <2>6, TypedCalls
  <2>8. calls' = [calls EXCEPT ![s] = c] /\ served' = served
    BY <2>4, <2>5 DEF Continue
  <2>9. UNCHANGED <<rateioVars, financeVars>>
    BY <1>5 DEF SumPaid
  <2> QED BY <1>2, <2>6, <2>7, <2>8, <2>9, HandlerStaysTyped
<1>6. ASSUME ChooseSummary(s) PROVE FinanceTyped'
  <2>1. calls[s].op = "findSummary"
    BY <1>6 DEF ChooseSummary, At
  <2>2. calls[s] \in [op: {"findSummary"}, goal: Nat, collected: Nat, began: Nat, failed: BOOLEAN]
    BY <1>0, <2>1, SummaryCallsAre
  <2>3. PICK goal \in Nat, collected \in Nat, began \in Nat, before \in BOOLEAN :
          /\ goal = calls[s].goal /\ collected = calls[s].collected
          /\ began = calls[s].began /\ before = calls[s].failed
    BY <2>2
  <2>4. PICK failed \in BOOLEAN :
          LET found == IF failed THEN {} ELSE Existing
              new == [NewSummary EXCEPT !.goal = goal, !.collected = collected, !.began = began,
                                        !.failed = before \/ failed]
              first == CHOOSE i \in found : TRUE
          IN Continue(s, IF found = {} THEN [op |-> "insertSummary", summary |-> new]
                         ELSE [op |-> "setSummary", id |-> first,
                               summary |-> [new EXCEPT !.available = summaries[first].available]])
    BY <1>6, <2>3 DEF ChooseSummary
  <2>5. PICK found, new : /\ found = IF failed THEN {} ELSE Existing
                          /\ new = [NewSummary EXCEPT !.goal = goal, !.collected = collected,
                                                      !.began = began, !.failed = before \/ failed]
    OBVIOUS
  <2>6. new \in Summary
    BY <2>5 DEF Summary, NewSummary
  <2>7. found \subseteq Summaries
    BY <2>5 DEF Existing, FindSummary, Docs
  <2>8. PICK first, kept, c :
          /\ first = CHOOSE i \in found : TRUE
          /\ kept = [new EXCEPT !.available = summaries[first].available]
          /\ c = IF found = {} THEN [op |-> "insertSummary", summary |-> new]
                 ELSE [op |-> "setSummary", id |-> first, summary |-> kept]
    OBVIOUS
  <2>9. CallTyped(c) /\ c.op \notin ClosingOps
    <3>1. CASE found = {}
      <4>1. c \in [op: {"insertSummary"}, summary: Summary] /\ c.op \notin ClosingOps
        BY <2>6, <2>8, <3>1 DEF ClosingOps
      <4> QED BY <4>1, TypedCalls
    <3>2. CASE found # {}
      <4>1. first \in Summaries
        BY <2>7, <2>8, <3>2
      <4>3. kept \in Summary
        <5>1. summaries[first].available \in Nat
          BY <1>0, <4>1 DEF Summary
        <5> QED BY <2>6, <2>8, <5>1 DEF Summary
      <4>2. c \in [op: {"setSummary"}, id: Summaries, summary: Summary] /\ c.op \notin ClosingOps
        BY <2>8, <3>2, <4>1, <4>3 DEF ClosingOps
      <4> QED BY <4>2, TypedCalls
    <3> QED BY <3>1, <3>2
  <2>10. calls' = [calls EXCEPT ![s] = c] /\ served' = served
    BY <2>4, <2>5, <2>8 DEF Continue
  <2>11. UNCHANGED <<rateioVars, financeVars>>
    BY <1>6 DEF ChooseSummary
  <2> QED BY <1>2, <2>9, <2>10, <2>11, HandlerStaysTyped
<1>7. ASSUME NEW i \in Summaries, NEW x \in Summary, summaries' = [summaries EXCEPT ![i] = x],
             Finish(s), UNCHANGED <<rateioVars, parcelas>>
      PROVE  FinanceTyped'
  <2>1. FinanceTypeOK'
    BY <1>0, <1>7 DEF FinanceTypeOK, InstallmentsTypeOK
  <2>2. calls' = [calls EXCEPT ![s] = NoCall] /\ served' = served
    BY <1>7 DEF Finish, Continue
  <2> QED BY <1>0, <1>1, <1>7, <2>1, <2>2, HandlerStaysTyped
<1>8. ASSUME NEW x \in Summary PROVE [x EXCEPT !.stored = served] \in Summary
  <2>1. served \in Nat
    BY <1>0, HandlersAssumption
  <2> QED BY <2>1 DEF Summary
<1>9. ASSUME InsertSummary(s) PROVE FinanceTyped'
  <2>1. calls[s].op = "insertSummary"
    BY <1>9 DEF InsertSummary, At
  <2>2. calls[s] \in [op: {"insertSummary"}, summary: Summary]
    BY <1>0, <2>1, SummaryCallsAre
  <2>3. PICK i \in Summaries : summaries' = [summaries EXCEPT ![i] = [calls[s].summary EXCEPT !.stored = served]]
    BY <1>9 DEF InsertSummary, PutSummary
  <2>4. [calls[s].summary EXCEPT !.stored = served] \in Summary
    BY <1>8, <2>2
  <2> QED BY <1>7, <1>9, <2>3, <2>4 DEF InsertSummary
<1>10. ASSUME SetSummary(s) PROVE FinanceTyped'
  <2>1. calls[s].op = "setSummary"
    BY <1>10 DEF SetSummary, At
  <2>2. calls[s] \in [op: {"setSummary"}, id: Summaries, summary: Summary]
    BY <1>0, <2>1, SummaryCallsAre
  <2>3. PICK i \in Summaries : i = calls[s].id
    BY <2>2
  <2>4. PICK x \in Summary : x = [calls[s].summary EXCEPT !.pending = summaries[i].pending]
    <3>1. summaries[i].pending \in Nat /\ calls[s].summary \in Summary
      BY <1>0, <2>2 DEF Summary
    <3> QED BY <3>1 DEF Summary
  <2>5. PICK y \in Summary : y = [x EXCEPT !.stored = served]
    BY <1>8
  <2>6. summaries' = [summaries EXCEPT ![i] = y]
    <3>1. summaries' = [summaries EXCEPT ![i] =
                          [calls[s].summary EXCEPT !.pending = summaries[i].pending, !.stored = served]]
      BY <1>10, <2>3 DEF SetSummary, PutSummary
    <3> QED BY <2>4, <2>5, <3>1
  <2> QED BY <1>7, <1>10, <2>6 DEF SetSummary
<1> QED BY <1>4, <1>5, <1>6, <1>9, <1>10 DEF recalculateFinanceSummary, FinanceStep

\* In every state the splits, the snapshots, the installments, the summaries and whatever
\* the handlers keep are of their types: a total is a number, and the version of a
\* snapshot numbers one of the requests.
THEOREM FinanceIsTyped == Spec => []TypeOK
<1>1. Init => FinanceTyped
  <2> SUFFICES ASSUME Init PROVE FinanceTyped
    OBVIOUS
  <2>1. /\ calls = [t \in Slots |-> NoCall] /\ served = 0
        /\ fechamentos = [r \in Splits |-> << >>] /\ summaries = [i \in Summaries |-> NewSummary]
        /\ parcelas = [p \in Parcelas |-> [status |-> "PENDING", paidAt |-> FALSE, held |-> FALSE]]
    BY DEF Init, HandlersInit, RateiosInit, FinanceInit, InstallmentsInit
  <2>2. << >> \in Seq(1..MaxRequests) /\ Len(<< >>) = 0
    OBVIOUS
  <2>3. RateiosTypeOK
    <3>1. rateios \in [Splits -> Rateio \cup {NewSplit, NoSplit}]
      BY DEF Init, RateiosInit
    <3> QED BY <2>1, <2>2, <3>1 DEF RateiosTypeOK
  <2>4. NewSummary \in Summary
    BY DEF NewSummary, Summary
  <2>5. FinanceTypeOK
    BY <2>1, <2>4 DEF FinanceTypeOK, InstallmentsTypeOK, Parcela, ParcelaStatus, Unpaid
  <2>6. Closing = {} /\ Cardinality({}) = 0
    BY <2>1, FS_EmptySet DEF Closing, ClosingOps, NoCall
  <2>7. VersionsCounted
    BY <2>1, <2>2, <2>6 DEF VersionsCounted
  <2>8. served \in 0..MaxRequests
    BY <2>1, HandlersAssumption
  <2> QED BY <2>1, <2>3, <2>5, <2>7, <2>8 DEF FinanceTyped, TypeOK
<1>2. FinanceTyped /\ [Next]_vars => FinanceTyped'
  <2> SUFFICES ASSUME FinanceTyped, [Next]_vars PROVE FinanceTyped'
    OBVIOUS
  <2>1. ASSUME UNCHANGED <<calls, served, rateioVars>>, FinanceTypeOK' PROVE FinanceTyped'
    <3>1. RateiosTypeOK' /\ UNCHANGED fechamentos
      BY <2>1, SplitsStayTyped
    <3>2. VersionsCounted'
      BY <2>1, <3>1 DEF FinanceTyped, VersionsCounted, Closing
    <3> QED BY <2>1, <3>1, <3>2 DEF FinanceTyped, TypeOK
  <2>2. CASE UNCHANGED vars
    BY <2>1, <2>2, SummariesStayTyped DEF vars, handlerVars, financeVars
  <2>3. CASE FinanceEnvironment
    <3>1. UNCHANGED <<calls, served, rateioVars>>
      BY <2>3 DEF FinanceEnvironment, handlerVars
    <3>2. InstallmentsTypeOK' /\ summaries \in [Summaries -> Summary]
      BY <2>3, InstallmentsMove DEF FinanceTyped, TypeOK, FinanceTypeOK
    <3>3. ASSUME NEW i \in FindSummary, Withdraw(i) PROVE summaries' \in [Summaries -> Summary]
      <4>1. i \in Summaries /\ summaries[i] \in Summary
        BY <3>2 DEF FindSummary, Docs
      <4>2. PICK n \in Nat : n = summaries[i].collected - Amount
        BY <3>3, <4>1 DEF Withdraw, Amount, Summary
      <4>3. PICK x : x = [summaries[i] EXCEPT !.pending = Amount, !.available = n]
        OBVIOUS
      <4>4. x \in Summary
        BY <4>1, <4>3 DEF Summary, Amount
      <4>5. summaries' = [summaries EXCEPT ![i] = x]
        BY <3>3, <4>2, <4>3 DEF Withdraw, PutSummary
      <4> QED BY <3>2, <4>4, <4>5
    <3>4. FinanceTypeOK'
      BY <2>3, <3>2, <3>3 DEF FinanceEnvironment, FinanceTypeOK
    <3> QED BY <2>1, <3>1, <3>4
  <2>4. ASSUME NEW s \in Slots, Abort(s), UNCHANGED <<rateioVars, financeVars>> PROVE FinanceTyped'
    <3>1. calls' = [calls EXCEPT ![s] = NoCall] /\ served' = served
      BY <2>4 DEF Abort, Finish, Continue
    <3>2. CallTyped(NoCall) /\ NoCall.op \notin ClosingOps
      BY TypedCalls DEF NoCall, ClosingOps
    <3> QED BY <2>4, <3>1, <3>2, SplitsStayTyped, SummariesStayTyped, HandlerStaysTyped
  <2> QED BY <2>2, <2>3, <2>4, SplitRequestsStayTyped, SplitStepsStayTyped, RecalculationsStayTyped
       DEF Next, RateiosNext
<1>3. FinanceTyped => TypeOK
  BY DEF FinanceTyped
<1> QED BY <1>1, <1>2, <1>3, PTL DEF Spec

=============================================================================
