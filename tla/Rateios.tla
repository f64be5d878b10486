------------------------------ MODULE Rateios -------------------------------
(***************************************************************************)
(* The cost splits of one event and the snapshots taken when a split is    *)
(* closed.  A split and its snapshots are two collections, written one     *)
(* after the other.                                                        *)
(***************************************************************************)
EXTENDS Handlers, Sequences

CONSTANTS
  Splits,                \* ids drawn for rateios, never drawn twice
  NewSplit, NoSplit      \* an id not drawn yet; a rateio that was deleted

VARIABLES rateios, fechamentos
rateioVars == <<rateios, fechamentos>>

\* Amounts are in centavos; the collection keeps whole reais.
Valores == {100, 250}
StoredValor(v) == v - (v % 100)
Rateio == [owner: Users, valor: {StoredValor(v) : v \in Valores}, status: {"ABERTO", "FECHADO"}]

ASSUME RateiosAssumption ==
  {NewSplit, NoSplit} \cap Rateio = {} /\ NewSplit # NoSplit /\ IsFiniteSet(Splits)

\* Some splits are there already, open and with no snapshot.
RateiosInit ==
  /\ rateios \in [Splits -> {r \in Rateio : r.status = "ABERTO"} \cup {NewSplit}]
  /\ fechamentos = [r \in Splits |-> << >>]

RateiosTypeOK ==
  /\ rateios \in [Splits -> Rateio \cup {NewSplit, NoSplit}]
  /\ fechamentos \in [Splits -> Seq(1..MaxRequests)]

RateiosCall(op) ==
  CASE op \in {"setRateio", "versions"} -> [op: {op}, rateio: Splits, copy: Rateio, read: Rateio]
    [] op = "saveFechamento" -> [op: {op}, rateio: Splits, copy: Rateio, versao: 1..MaxRequests, read: Rateio]
    [] op = "deleteRateio" -> [op: {op}, rateio: Splits]
    [] OTHER -> {}

RateioExists(r) == rateios[r] \notin {NewSplit, NoSplit}
IsOwner(u, r) == RateioExists(r) /\ rateios[r].owner = u
CanEditRateio(r) == rateios[r].status = "ABERTO"
Open == {r \in Splits : RateioExists(r) /\ CanEditRateio(r)}

-----------------------------------------------------------------------------
(* Repository methods.                                                     *)

SaveRateio(r, u, v) ==
  rateios' = [rateios EXCEPT ![r] = [owner |-> u, valor |-> StoredValor(v), status |-> "ABERTO"]]
\* $set of every field of the copy but the owner.
UpdateRateioDocument(r, copy) ==
  rateios' = IF RateioExists(r) THEN [rateios EXCEPT ![r] = copy] ELSE rateios
DeleteRateioByID(r) == rateios' = IF RateioExists(r) THEN [rateios EXCEPT ![r] = NoSplit] ELSE rateios
SaveFechamento(r, versao) == fechamentos' = [fechamentos EXCEPT ![r] = Append(@, versao)]
\* The result of a find that fails is ignored.
CountFechamentos(r) == {Len(fechamentos[r]), 0}

-----------------------------------------------------------------------------
(* Use cases.                                                              *)

CreateRateio(s, u, v) ==
  /\ At(s, "none") /\ served < MaxRequests
  /\ \E r \in Splits : rateios[r] = NewSplit /\ SaveRateio(r, u, v)
  /\ served' = served + 1 /\ UNCHANGED <<calls, fechamentos>>

\* Mutant: whether it is still open is not asked.
UpdateAnyRateio(s, u, r, v) ==
  /\ IsOwner(u, r)
  /\ Begin(s, [op |-> "setRateio", rateio |-> r, read |-> rateios[r],
               copy |-> [rateios[r] EXCEPT !.valor = StoredValor(v)]])
  /\ UNCHANGED rateioVars
UpdateRateio(s, u, r, v) ==
  /\ IsOwner(u, r) /\ CanEditRateio(r)
  /\ Begin(s, [op |-> "setRateio", rateio |-> r, read |-> rateios[r],
               copy |-> [rateios[r] EXCEPT !.valor = StoredValor(v)]])
  /\ UNCHANGED rateioVars
\* Whether it is open or closed.
DeleteRateio(s, u, r) ==
  /\ IsOwner(u, r)
  /\ Begin(s, [op |-> "deleteRateio", rateio |-> r]) /\ UNCHANGED rateioVars

FecharRateio(s, u, r) ==
  /\ IsOwner(u, r) /\ CanEditRateio(r)
  /\ Begin(s, [op |-> "versions", rateio |-> r, copy |-> rateios[r], read |-> rateios[r]])
  /\ UNCHANGED rateioVars
\* Mutant: the version is the number of snapshots already there.
NextVersionOffByOne(s) ==
  LET c == calls[s] IN
  /\ At(s, "versions")
  /\ \E n \in CountFechamentos(c.rateio) :
       Continue(s, [op |-> "saveFechamento", rateio |-> c.rateio, copy |-> c.copy, versao |-> n, read |-> c.read])
  /\ UNCHANGED rateioVars
NextVersion(s) ==
  LET c == calls[s] IN
  /\ At(s, "versions")
  /\ \E n \in CountFechamentos(c.rateio) :
       Continue(s, [op |-> "saveFechamento", rateio |-> c.rateio, copy |-> c.copy, versao |-> n + 1, read |-> c.read])
  /\ UNCHANGED rateioVars
\* Mutant: the split is closed before its snapshot is taken.
CloseFirst(s) ==
  LET c == calls[s] IN
  /\ At(s, "saveFechamento")
  /\ UpdateRateioDocument(c.rateio, [c.copy EXCEPT !.status = "FECHADO"])
  /\ Finish(s) /\ UNCHANGED fechamentos
TakeSnapshot(s) ==
  LET c == calls[s] IN
  /\ At(s, "saveFechamento") /\ SaveFechamento(c.rateio, c.versao)
  /\ Continue(s, [op |-> "setRateio", rateio |-> c.rateio, read |-> c.read,
                  copy |-> [c.copy EXCEPT !.status = "FECHADO"]])
  /\ UNCHANGED rateios
\* The end of an update and of a closing.
StoreRateio(s) ==
  /\ At(s, "setRateio") /\ UpdateRateioDocument(calls[s].rateio, calls[s].copy)
  /\ Finish(s) /\ UNCHANGED fechamentos
DropRateio(s) ==
  /\ At(s, "deleteRateio") /\ DeleteRateioByID(calls[s].rateio)
  /\ Finish(s) /\ UNCHANGED fechamentos

\* The owner sees the snapshots of a split, whether or not it is still open.
GetFechamentos(u, r) == IF IsOwner(u, r) THEN fechamentos[r] ELSE << >>

-----------------------------------------------------------------------------
(* Handlers.                                                               *)

createRateio(s, u) == \E v \in Valores : CreateRateio(s, u, v)
updateRateio(s, u) == \E r \in Splits, v \in Valores : UpdateRateio(s, u, r, v)
deleteRateio(s, u) == \E r \in Splits : DeleteRateio(s, u, r)
fecharRateio(s, u) == \E r \in Splits : FecharRateio(s, u, r)
getFechamentos(u, r) == GetFechamentos(u, r)

RateiosRequest(s, u) == createRateio(s, u) \/ updateRateio(s, u) \/ deleteRateio(s, u) \/ fecharRateio(s, u)
RateiosStep(s) == NextVersion(s) \/ TakeSnapshot(s) \/ StoreRateio(s) \/ DropRateio(s)
RateiosNext == \E s \in Slots : (\E u \in Users : RateiosRequest(s, u)) \/ RateiosStep(s)

-----------------------------------------------------------------------------

\* The owner of a closed split finds a snapshot of it, wherever its closing was
\* interrupted, and whatever other copies were written over it.
ClosedHasSnapshot ==
  \A r \in Splits : RateioExists(r) /\ ~CanEditRateio(r) => getFechamentos(rateios[r].owner, r) # << >>

\* A closed split is written again, whether that reopens it or not, only from a copy
\* that was read while it was open: one request after the other never changes it.
ClosedIsWrittenOnlyFromAStaleCopy ==
  [][\A r \in Splits :
       RateioExists(r) /\ ~CanEditRateio(r) /\ rateios'[r] \notin {rateios[r], NoSplit}
         => \E s \in Slots : /\ At(s, "setRateio") /\ calls[s].rateio = r
                             /\ calls[s].read.status = "ABERTO" /\ calls'[s] # calls[s]
    ]_<<rateioVars, calls>>

=============================================================================
