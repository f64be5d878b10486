---------------------------- MODULE EventosProofs ----------------------------
(***************************************************************************)
(* Safety of Eventos for every number of drafts, events, handlers and      *)
(* requests, and the walk of a client over the pages of his events for     *)
(* every number of events and every limit of a page.                       *)
(***************************************************************************)
EXTENDS Eventos, FoldFacts

\* One handler moves to c.
Moves(s, c) == calls' = [calls EXCEPT ![s] = c]

\* What a handler that is about to replace a draft has kept: the draft was there, its
\* client had seen what the handler saw or did not say what it had seen, and until the draft is written again the scalar
\* fields differ from it by the edit only.
Fresh(c) ==
  /\ c.lastRead \in {<< >>, <<c.seen>>}
  /\ drafts[c.draft] # NewDraft
  /\ DraftExists(c.draft) =>
       /\ c.seen <= drafts[c.draft].writes
       /\ c.seen = drafts[c.draft].writes =>
            c.content["texto"] \in {c.edit, drafts[c.draft].content["texto"]}

\* An edit is written only from a copy of an event that was published.
CallOK(c) ==
  \/ c = NoCall
  \/ /\ c \in EventosCall(c.op)
     /\ c.op = "replaceDraft" => Fresh(c)
     /\ c.op = "setEvento" => c.read.status = "PUBLICADO"

DraftsSound ==
  /\ drafts \in [Drafts -> EventoDraft \cup {NewDraft, Removed}]
  /\ \A d \in Drafts : DraftExists(d) => drafts[d].writes >= 1

EventosInvariant ==
  /\ DraftsSound
  /\ EventosTypeOK
  /\ served \in 0..MaxRequests
  /\ DOMAIN calls = Slots
  /\ \A s \in Slots : CallOK(calls[s])

\* Ids are not drawn twice, and every write of a draft is counted.
DraftsGrow ==
  \A d \in Drafts :
    /\ drafts[d] # NewDraft => drafts'[d] # NewDraft
    /\ drafts[d] # NewDraft /\ DraftExists(d)' =>
         DraftExists(d) /\ (drafts'[d] = drafts[d] \/ drafts'[d].writes > drafts[d].writes)

LEMMA FreshStays ==
  ASSUME DraftsSound, DraftsSound', DraftsGrow, NEW c, c \in EventosCall("replaceDraft"), Fresh(c)
  PROVE  Fresh(c)'
<1>1. c.draft \in Drafts /\ c.seen \in Nat
  BY DEF EventosCall
<1>2. PICK d \in Drafts : d = c.draft
  BY <1>1
<1>3. c.lastRead \in {<< >>, <<c.seen>>} /\ drafts'[d] # NewDraft
  BY <1>2 DEF Fresh, DraftsGrow
<1>4. ASSUME DraftExists(d)'
      PROVE  /\ c.seen <= drafts'[d].writes
             /\ c.seen = drafts'[d].writes => c.content["texto"] \in {c.edit, drafts'[d].content["texto"]}
  <2>1. DraftExists(d) /\ (drafts'[d] = drafts[d] \/ drafts'[d].writes > drafts[d].writes)
    BY <1>2, <1>4 DEF Fresh, DraftsGrow
  <2>2. /\ c.seen <= drafts[d].writes
        /\ c.seen = drafts[d].writes => c.content["texto"] \in {c.edit, drafts[d].content["texto"]}
    BY <1>2, <2>1 DEF Fresh
  <2>3. drafts[d].writes \in Nat /\ drafts'[d].writes \in Nat
    BY <1>4, <2>1 DEF DraftsSound, DraftExists, EventoDraft
  <2>4. CASE drafts'[d] = drafts[d]
    BY <2>2, <2>4
  <2>5. CASE drafts'[d].writes > drafts[d].writes
    BY <1>1, <2>2, <2>3, <2>5
  <2> QED BY <2>1, <2>4, <2>5
<1> QED BY <1>2, <1>3, <1>4 DEF Fresh

\* A sound handler stays sound while drafts only grow.
LEMMA CallStays ==
  ASSUME DraftsSound, DraftsSound', DraftsGrow, NEW c, CallOK(c)
  PROVE  CallOK(c)'
<1>1. c.op = "replaceDraft" /\ c # NoCall => Fresh(c)'
  BY FreshStays DEF CallOK
<1> QED BY <1>1 DEF CallOK

LEMMA CallsStay ==
  ASSUME DraftsSound, DraftsSound', DraftsGrow, \A s \in Slots : CallOK(calls[s]), UNCHANGED calls
  PROVE  (\A s \in Slots : CallOK(calls[s]))'
<1> SUFFICES ASSUME NEW s \in Slots PROVE CallOK(calls[s])'
  OBVIOUS
<1>1. PICK c : c = calls[s]
  OBVIOUS
<1>2. CallOK(c)'
  BY <1>1, CallStays
<1> QED BY <1>1, <1>2

LEMMA CallsMove ==
  ASSUME DraftsSound, DraftsSound', DraftsGrow, DOMAIN calls = Slots, \A s \in Slots : CallOK(calls[s]),
         NEW s \in Slots, NEW c, Moves(s, c), CallOK(c)'
  PROVE  DOMAIN calls' = Slots /\ (\A t \in Slots : CallOK(calls[t]))'
<1>1. DOMAIN calls' = Slots /\ \A t \in Slots : calls'[t] = IF t = s THEN c ELSE calls[t]
  BY DEF Moves
<1>2. ASSUME NEW t \in Slots PROVE CallOK(calls[t])'
  <2>1. PICK d : d = calls'[t]
    OBVIOUS
  <2>2. CallOK(d)'
    BY <1>1, <2>1, CallStays
  <2> QED BY <2>1, <2>2
<1> QED BY <1>1, <1>2
\* The step of one handler that leaves the documents alone.
HandlerStep == UNCHANGED eventosVars /\ \E s \in Slots : \E c : Moves(s, c) /\ CallOK(c)

LEMMA ServedNext ==
  ASSUME served \in 0..MaxRequests, served' = served \/ (served < MaxRequests /\ served' = served + 1)
  PROVE  served' \in 0..MaxRequests
BY HandlersAssumption

\* What a step must keep of the documents, of the count and of the handler that moves.
LEMMA StepKeeps ==
  ASSUME EventosInvariant, DraftsSound', DraftsGrow, EventosTypeOK', served' \in 0..MaxRequests,
         UNCHANGED calls \/ \E s \in Slots : \E c : Moves(s, c) /\ CallOK(c)'
  PROVE  EventosInvariant'
<1>1. CASE UNCHANGED calls
  <2>1. (\A s \in Slots : CallOK(calls[s]))'
    BY <1>1, CallsStay DEF EventosInvariant
  <2> QED BY <1>1, <2>1 DEF EventosInvariant
<1>2. ASSUME NEW s \in Slots, NEW c, Moves(s, c), CallOK(c)' PROVE EventosInvariant'
  <2>1. DOMAIN calls' = Slots /\ (\A t \in Slots : CallOK(calls[t]))'
    BY <1>2, CallsMove DEF EventosInvariant
  <2> QED BY <2>1 DEF EventosInvariant
<1> QED BY <1>1, <1>2

LEMMA DocumentsStay ==
  ASSUME EventosInvariant, UNCHANGED eventosVars
  PROVE  DraftsSound' /\ DraftsGrow /\ EventosTypeOK'
<1>1. UNCHANGED <<drafts, eventos, organizadores>>
  BY DEF eventosVars
<1> QED BY <1>1 DEF EventosInvariant, DraftsSound, DraftsGrow, EventosTypeOK, DraftExists

LEMMA HandlerSteps ==
  ASSUME EventosInvariant, HandlerStep, served' \in 0..MaxRequests
  PROVE  EventosInvariant'
<1>1. DraftsSound' /\ DraftsGrow /\ EventosTypeOK'
  BY DocumentsStay DEF HandlerStep
<1>2. PICK s \in Slots : \E c : Moves(s, c) /\ CallOK(c)
  BY DEF HandlerStep
<1>c. PICK c : Moves(s, c) /\ CallOK(c)
  BY <1>2
<1>3. CallOK(c)'
  BY <1>1, <1>c, CallStays DEF EventosInvariant
<1> QED BY <1>1, <1>c, <1>3, StepKeeps

LEMMA BeginMoves ==
  ASSUME NEW s, NEW c, Begin(s, c), served \in 0..MaxRequests
  PROVE  /\ Moves(s, c) /\ calls[s].op = "none"
         /\ served' \in 0..MaxRequests /\ served + 1 \in Edits
<1>1. served < MaxRequests /\ served' = served + 1
  BY DEF Begin
<1>2. served + 1 \in 0..MaxRequests
  BY <1>1, HandlersAssumption
<1> QED BY <1>1, <1>2 DEF Begin, Moves, At, Edits

LEMMA DraftIsTyped ==
  ASSUME DraftsSound, NEW d \in Drafts, DraftExists(d)
  PROVE  /\ drafts[d] \in EventoDraft /\ drafts[d].content \in Content
         /\ drafts[d].writes \in Nat /\ drafts[d].writes >= 1 /\ drafts[d].owner \in Users
         /\ drafts[d] # NewDraft /\ drafts[d] # Removed
BY EventosAssumption DEF DraftsSound, DraftExists, EventoDraft

LEMMA EventoIsTyped ==
  ASSUME EventosTypeOK, NEW e \in Events, EventoExists(e)
  PROVE  /\ eventos[e] \in Evento /\ eventos[e].content \in Content
         /\ eventos[e].status \in {"PUBLICADO", "CANCELADO"} /\ eventos[e].convidados \in Nat
         /\ eventos[e].owner \in Users /\ eventos[e].from \in Drafts \cup {NoDraft}
BY EventosAssumption DEF EventosTypeOK, EventoExists, Evento

\* What an autosave makes of a draft.
LEMMA PartialIsContent ==
  ASSUME NEW old \in Content, NEW set, NEW edit \in Edits
  PROVE  /\ ApplyPartial(old, set, edit) \in Content
         /\ ApplyPartial(old, set, edit)["texto"] \in {edit, old["texto"]}
BY DEF ApplyPartial, Content, Fields

\* An autosave whose client has seen the last write, or does not say what it has seen.
LEMMA AutosaveIsSound ==
  ASSUME DraftsSound, NEW d \in Drafts, DraftExists(d), NEW edit \in Edits, NEW content \in Content,
         content["texto"] \in {edit, drafts[d].content["texto"]}, 
         NEW lastRead, lastRead \in {<< >>, <<drafts[d].writes>>}
  PROVE  CallOK(Autosave(d, edit, content, lastRead))
<1>1. PICK c : c = Autosave(d, edit, content, lastRead)
  OBVIOUS
<1>2. /\ c.op = "replaceDraft" /\ c.draft = d /\ c.edit = edit /\ c.content = content
      /\ c.seen = drafts[d].writes /\ c.lastRead = lastRead
  BY <1>1 DEF Autosave
<1>3. drafts[d].writes \in Nat /\ drafts[d] # NewDraft
  BY DraftIsTyped
<1>4. c \in EventosCall(c.op)
  <2>1. << >> \in Seq(Nat) /\ <<drafts[d].writes>> \in Seq(Nat)
    BY <1>3
  <2>2. lastRead \in Seq(Nat)
    BY <2>1
  <2> QED BY <1>1, <1>3, <2>2 DEF Autosave, EventosCall
<1>5. Fresh(c)
  BY <1>2, <1>3 DEF Fresh
<1>6. CallOK(c)
  BY <1>2, <1>4, <1>5 DEF CallOK
<1> QED BY <1>1, <1>6
-----------------------------------------------------------------------------
(* Requests.                                                               *)

LEMMA UpdateDraftIsSound ==
  ASSUME EventosInvariant, NEW s \in Slots, NEW u \in Users, updateDraft(s, u)
  PROVE  HandlerStep /\ served' \in 0..MaxRequests
<1>1. PICK d \in Drafts, sent \in SUBSET Fields :
        /\ DraftExists(d)
        /\ \E lastRead \in {<< >>, <<drafts[d].writes>>, <<drafts[d].writes - 1>>} :
             LET kept == ApplyPartial(drafts[d].content, sent, served + 1) IN
             UpdateDraft(s, u, d, IF "itens" \in sent THEN kept ELSE [kept EXCEPT !["itens"] = 0], lastRead)
  BY DEF updateDraft
<1> DEFINE kept == ApplyPartial(drafts[d].content, sent, served + 1)
           content == IF "itens" \in sent THEN kept ELSE [kept EXCEPT !["itens"] = 0]
<1>a. PICK lastRead \in {<< >>, <<drafts[d].writes>>, <<drafts[d].writes - 1>>} :
        UpdateDraft(s, u, d, content, lastRead)
  BY <1>1
<1>2. /\ ~HasConflict(d, lastRead) /\ Begin(s, Autosave(d, served + 1, content, lastRead))
      /\ UNCHANGED eventosVars
  BY <1>a DEF UpdateDraft
<1>3. DraftsSound /\ served \in 0..MaxRequests
  BY DEF EventosInvariant
<1>4. drafts[d].writes \in Nat /\ drafts[d].content \in Content
  BY <1>1, <1>3, DraftIsTyped
<1>5. lastRead \in {<< >>, <<drafts[d].writes>>}
  <2>1. CASE lastRead = <<drafts[d].writes - 1>>
    <3>1. lastRead # << >> /\ lastRead[1] = drafts[d].writes - 1
      BY <2>1
    <3> QED BY <1>2, <1>4, <3>1 DEF HasConflict
  <2> QED BY <1>a, <2>1
<1>6. PICK c : c = Autosave(d, served + 1, content, lastRead)
  OBVIOUS
<1>7. Moves(s, c) /\ served' \in 0..MaxRequests /\ served + 1 \in Edits
  BY <1>2, <1>3, <1>6, BeginMoves
<1>8. kept \in Content /\ kept["texto"] \in {served + 1, drafts[d].content["texto"]}
  BY <1>4, <1>7, PartialIsContent
<1>9. content \in Content /\ content["texto"] = kept["texto"]
  <2> HIDE DEF kept
  <2>1. 0 \in Edits /\ "itens" \in Fields /\ "texto" \in Fields
    BY HandlersAssumption DEF Edits, Fields
  <2> QED BY <1>8, <2>1 DEF Content
<1>10. CallOK(c)
  <2> HIDE DEF content, kept
  <2> QED BY <1>1, <1>3, <1>5, <1>6, <1>7, <1>8, <1>9, AutosaveIsSound
<1> QED BY <1>2, <1>7, <1>10 DEF HandlerStep

LEMMA RequestsAreSound ==
  ASSUME EventosInvariant, NEW s \in Slots, NEW u \in Users, EventosRequest(s, u)
  PROVE  EventosInvariant'
<1>i. DraftsSound /\ EventosTypeOK /\ served \in 0..MaxRequests
  BY DEF EventosInvariant
<1>e. Empty \in Content /\ 0 \in Edits
  BY HandlersAssumption DEF Empty, Content, Edits
<1>1. CASE createDraft(s, u)
  <2>1. PICK d \in Drafts :
          /\ drafts[d] = NewDraft /\ SaveDraft(d, u) /\ UNCHANGED <<eventos, organizadores>>
          /\ Begin(s, [op |-> "fillDraft", user |-> u, draft |-> d, edit |-> served + 1])
    BY <1>1 DEF createDraft, CreateDraft
  <2>2. PICK c : c = [op |-> "fillDraft", user |-> u, draft |-> d, edit |-> served + 1]
    OBVIOUS
  <2>3. Moves(s, c) /\ served' \in 0..MaxRequests /\ served + 1 \in Edits
    BY <1>i, <2>1, <2>2, BeginMoves
  <2>4. c \in EventosCall(c.op) /\ c.op = "fillDraft"
    BY <2>2, <2>3 DEF EventosCall
  <2>5. CallOK(c)'
    BY <2>4 DEF CallOK
  <2>6. PICK x : x = [owner |-> u, content |-> Empty, writes |-> 1]
    OBVIOUS
  <2>7. x \in EventoDraft /\ x.writes = 1
    BY <1>e, <2>6 DEF EventoDraft
  <2>8. drafts' = [drafts EXCEPT ![d] = x]
    BY <2>1, <2>6 DEF SaveDraft
  <2>9. x # NewDraft /\ x # Removed
    BY <2>7, EventosAssumption
  <2>10. DraftsSound' /\ DraftsGrow
    BY <1>i, <2>1, <2>7, <2>8, <2>9 DEF DraftsSound, DraftsGrow, DraftExists
  <2>11. EventosTypeOK'
    BY <1>i, <2>1, <2>10 DEF EventosTypeOK, DraftsSound
  <2> QED BY <2>3, <2>5, <2>10, <2>11, StepKeeps
<1>2. CASE updateDraft(s, u)
  BY <1>2, UpdateDraftIsSound, HandlerSteps
<1>3. CASE deleteDraft(s, u)
  <2>1. PICK d \in Drafts : Begin(s, [op |-> "deleteDraft", draft |-> d]) /\ UNCHANGED eventosVars
    BY <1>3 DEF deleteDraft, DeleteDraft
  <2>2. PICK c : c = [op |-> "deleteDraft", draft |-> d]
    OBVIOUS
  <2>3. c \in EventosCall(c.op) /\ c.op = "deleteDraft"
    BY <2>2 DEF EventosCall
  <2>4. Moves(s, c) /\ served' \in 0..MaxRequests /\ CallOK(c)
    BY <1>i, <2>1, <2>2, <2>3, BeginMoves DEF CallOK
  <2> QED BY <2>1, <2>4, HandlerSteps DEF HandlerStep
<1>4. CASE publishDraft(s, u)
  <2>1. PICK d \in Drafts :
          /\ DraftExists(d) /\ UNCHANGED eventosVars
          /\ Begin(s, [op |-> "saveEvento",
                       evento |-> [owner |-> u, from |-> d, content |-> drafts[d].content,
                                   status |-> "PUBLICADO", convidados |-> 0]])
    BY <1>4 DEF publishDraft, PublishDraft, OwnsDraft
  <2>2. PICK x : x = [owner |-> u, from |-> d, content |-> drafts[d].content,
                      status |-> "PUBLICADO", convidados |-> 0]
    OBVIOUS
  <2>3. x \in Evento
    BY <1>i, <2>1, <2>2, DraftIsTyped DEF Evento
  <2>4. PICK c : c = [op |-> "saveEvento", evento |-> x]
    OBVIOUS
  <2>5. c \in EventosCall(c.op) /\ c.op = "saveEvento"
    BY <2>3, <2>4 DEF EventosCall
  <2>6. Begin(s, c)
    BY <2>1, <2>2, <2>4
  <2>7. Moves(s, c) /\ served' \in 0..MaxRequests /\ CallOK(c)
    BY <1>i, <2>5, <2>6, BeginMoves DEF CallOK
  <2> QED BY <2>1, <2>7, HandlerSteps DEF HandlerStep
<1>5. CASE createEvento(s, u)
  <2>1. PICK k : k = [Empty EXCEPT !["texto"] = served + 1]
    OBVIOUS
  <2>2. PICK x : x = [owner |-> u, from |-> NoDraft, content |-> k, status |-> "PUBLICADO", convidados |-> 0]
    OBVIOUS
  <2>3. PICK c : c = [op |-> "saveEvento", evento |-> x]
    OBVIOUS
  <2>4. Begin(s, c) /\ UNCHANGED eventosVars
    BY <1>5, <2>1, <2>2, <2>3 DEF createEvento, CreateEvento
  <2>5. Moves(s, c) /\ served' \in 0..MaxRequests /\ served + 1 \in Edits
    BY <1>i, <2>4, BeginMoves
  <2>6. k \in Content
    BY <1>e, <2>1, <2>5 DEF Content
  <2>7. x \in Evento
    BY <2>2, <2>6 DEF Evento
  <2>8. c \in EventosCall(c.op) /\ c.op = "saveEvento"
    BY <2>3, <2>7 DEF EventosCall
  <2>9. CallOK(c)
    BY <2>8 DEF CallOK
  <2> QED BY <2>4, <2>5, <2>9, HandlerSteps DEF HandlerStep
<1>6. CASE updateEvento(s, u)
  <2>1. PICK e \in Events :
          /\ EventoExists(e) /\ eventos[e].status = "PUBLICADO" /\ UNCHANGED eventosVars
          /\ Begin(s, [op |-> "setEvento", evento |-> e, edit |-> served + 1, read |-> eventos[e]])
    BY <1>6 DEF updateEvento, UpdateEvento, Owns, CanEdit
  <2>2. PICK c : c = [op |-> "setEvento", evento |-> e, edit |-> served + 1, read |-> eventos[e]]
    OBVIOUS
  <2>3. Moves(s, c) /\ served' \in 0..MaxRequests /\ served + 1 \in Edits
    BY <1>i, <2>1, <2>2, BeginMoves
  <2>4. eventos[e] \in Evento
    BY <1>i, <2>1, EventoIsTyped
  <2>5. c \in EventosCall(c.op) /\ c.op = "setEvento" /\ c.read.status = "PUBLICADO"
    BY <2>1, <2>2, <2>3, <2>4 DEF EventosCall
  <2>6. CallOK(c)
    BY <2>5 DEF CallOK
  <2> QED BY <2>1, <2>3, <2>6, HandlerSteps DEF HandlerStep
<1>7. CASE deleteEvento(s, u)
  <2>1. PICK e \in Events : Begin(s, [op |-> "deleteEvento", evento |-> e]) /\ UNCHANGED eventosVars
    BY <1>7 DEF deleteEvento, DeleteEvento
  <2>2. PICK c : c = [op |-> "deleteEvento", evento |-> e]
    OBVIOUS
  <2>3. c \in EventosCall(c.op) /\ c.op = "deleteEvento"
    BY <2>2 DEF EventosCall
  <2>4. Moves(s, c) /\ served' \in 0..MaxRequests /\ CallOK(c)
    BY <1>i, <2>1, <2>2, <2>3, BeginMoves DEF CallOK
  <2> QED BY <2>1, <2>4, HandlerSteps DEF HandlerStep
<1> QED BY <1>1, <1>2, <1>3, <1>4, <1>5, <1>6, <1>7 DEF EventosRequest
-----------------------------------------------------------------------------
(* The calls of a handler after its first, the Java backend and the index. *)

\* A handler that ends, whatever it did to the documents.
LEMMA HandlerEnds ==
  ASSUME EventosInvariant, NEW s \in Slots, Finish(s), DraftsSound', DraftsGrow, EventosTypeOK'
  PROVE  EventosInvariant'
<1>1. PICK c : c = NoCall
  OBVIOUS
<1>2. Moves(s, c) /\ UNCHANGED served
  BY <1>1 DEF Finish, Continue, Moves
<1>3. CallOK(c)'
  BY <1>1 DEF CallOK
<1>4. served' \in 0..MaxRequests
  BY <1>2 DEF EventosInvariant
<1> QED BY <1>2, <1>3, <1>4, StepKeeps

LEMMA ReplaceKeeps ==
  ASSUME DraftsSound, NEW d \in Drafts, NEW content \in Content, ReplaceDraft(d, content)
  PROVE  DraftsSound' /\ DraftsGrow
<1>1. CASE ~DraftExists(d)
  <2>1. drafts' = drafts
    BY <1>1 DEF ReplaceDraft
  <2> QED BY <2>1 DEF DraftsSound, DraftsGrow, DraftExists
<1>2. CASE DraftExists(d)
  <2>1. PICK x : x = [drafts[d] EXCEPT !.content = content, !.writes = drafts[d].writes + 1]
    OBVIOUS
  <2>2. /\ drafts[d] \in EventoDraft /\ drafts[d].writes \in Nat /\ drafts[d] # NewDraft
        /\ drafts[d].writes >= 1
    BY <1>2, DraftIsTyped
  <2>3. drafts' = [drafts EXCEPT ![d] = x]
    BY <1>2, <2>1, <2>2 DEF ReplaceDraft, DraftsSound, EventoDraft
  <2>w. drafts[d].writes + 1 \in Nat
    BY <2>2
  <2>4. x.writes = drafts[d].writes + 1
    BY <2>1, <2>2 DEF EventoDraft
  <2>t. x \in EventoDraft
    BY <2>1, <2>2, <2>w DEF EventoDraft
  <2>5. x # NewDraft /\ x # Removed
    BY <2>t, EventosAssumption
  <2>6. x.writes >= 1 /\ x.writes > drafts[d].writes
    BY <2>2, <2>4
  <2> QED BY <1>2, <2>2, <2>3, <2>t, <2>5, <2>6 DEF DraftsSound, DraftsGrow, DraftExists
<1> QED BY <1>1, <1>2

LEMMA DeletionKeeps ==
  ASSUME DraftsSound, NEW d \in Drafts, DeleteDraftByID(d)
  PROVE  DraftsSound' /\ DraftsGrow
<1>1. CASE ~DraftExists(d)
  <2>1. drafts' = drafts
    BY <1>1 DEF DeleteDraftByID
  <2> QED BY <2>1 DEF DraftsSound, DraftsGrow, DraftExists
<1>2. CASE DraftExists(d)
  <2>1. drafts' = [drafts EXCEPT ![d] = Removed]
    BY <1>2 DEF DeleteDraftByID
  <2>2. Removed # NewDraft
    BY EventosAssumption
  <2> QED BY <2>1, <2>2 DEF DraftsSound, DraftsGrow, DraftExists
<1> QED BY <1>1, <1>2

\* What a step writes to one event.
EventoChanges(e) ==
  \/ eventos' = eventos
  \/ \E x \in Evento \cup {Removed} : eventos' = [eventos EXCEPT ![e] = x]

LEMMA SaveEventoChanges ==
  ASSUME NEW e \in Events, NEW new \in Evento, SaveEvento(e, new)
  PROVE  EventoChanges(e)
<1>1. PICK k : k = [new.content EXCEPT !["itens"] = 0]
  OBVIOUS
<1>2. new.content \in Content /\ 0 \in Edits
  BY HandlersAssumption DEF Evento, Edits
<1>3. k \in Content
  BY <1>1, <1>2 DEF Content
<1>4. PICK x : x = [new EXCEPT !.content = k, !.convidados = 0]
  OBVIOUS
<1>5. x \in Evento
  BY <1>3, <1>4 DEF Evento
<1>6. x = [new EXCEPT !.content["itens"] = 0, !.convidados = 0]
  BY <1>1, <1>4 DEF Evento
<1> QED BY <1>5, <1>6 DEF SaveEvento, EventoChanges

LEMMA SetEventoChanges ==
  ASSUME EventosTypeOK, NEW e \in Events, NEW copy \in Evento, SetEvento(e, copy)
  PROVE  EventoChanges(e)
<1>1. CASE ~EventoExists(e)
  BY <1>1 DEF SetEvento, EventoChanges
<1>2. CASE EventoExists(e)
  <2>1. PICK old : old = eventos[e]
    OBVIOUS
  <2>2. old \in Evento /\ old.content \in Content
    BY <1>2, <2>1, EventoIsTyped
  <2>3. copy.content["texto"] \in Edits /\ copy.status \in {"PUBLICADO", "CANCELADO"}
    BY DEF Evento, Content, Fields
  <2>4. PICK k : k = [old.content EXCEPT !["texto"] = copy.content["texto"]]
    OBVIOUS
  <2>5. k \in Content
    BY <2>2, <2>3, <2>4 DEF Content
  <2>6. PICK x : x = [old EXCEPT !.content = k, !.status = copy.status]
    OBVIOUS
  <2>7. x \in Evento
    BY <2>2, <2>3, <2>5, <2>6 DEF Evento
  <2>8. eventos' = [eventos EXCEPT ![e].content["texto"] = copy.content["texto"], ![e].status = copy.status]
    BY <1>2 DEF SetEvento
  <2>9. eventos' = [eventos EXCEPT ![e] = x]
    BY <2>1, <2>2, <2>4, <2>6, <2>8 DEF EventosTypeOK, Evento
  <2> QED BY <2>7, <2>9 DEF EventoChanges
<1> QED BY <1>1, <1>2

LEMMA EventosStayTyped ==
  ASSUME EventosInvariant, NEW e \in Events, EventoChanges(e), UNCHANGED <<drafts, organizadores>>
  PROVE  DraftsSound' /\ DraftsGrow /\ EventosTypeOK'
<1>1. eventos' \in [Events -> Evento \cup {NewEvent, Removed}]
  BY DEF EventosInvariant, EventosTypeOK, EventoChanges
<1> QED BY <1>1 DEF EventosInvariant, DraftsSound, DraftsGrow, EventosTypeOK, DraftExists

LEMMA DraftsStayTyped ==
  ASSUME EventosInvariant, DraftsSound', UNCHANGED <<eventos, organizadores>>
  PROVE  EventosTypeOK'
BY DEF EventosInvariant, DraftsSound, EventosTypeOK

LEMMA FillDraftIsSound ==
  ASSUME EventosInvariant, NEW s \in Slots, FillDraft(s)
  PROVE  EventosInvariant'
<1>1. PICK c : c = calls[s]
  OBVIOUS
<1>2. UNCHANGED eventosVars /\ c.op = "fillDraft"
  BY <1>1 DEF FillDraft, At
<1>3. CallOK(c) /\ c # NoCall
  BY <1>1, <1>2 DEF EventosInvariant, NoCall
<1>4. c.draft \in Drafts /\ c.edit \in Edits
  BY <1>2, <1>3 DEF CallOK, EventosCall
<1>5. CASE Finish(s)
  BY <1>2, <1>5, DocumentsStay, HandlerEnds
<1>6. CASE OwnsDraft(c.user, c.draft)
           /\ Continue(s, Autosave(c.draft, c.edit,
                ApplyPartial(drafts[c.draft].content, {"texto"}, c.edit), << >>))
  <2>1. PICK d \in Drafts : d = c.draft
    BY <1>4
  <2>2. PICK k : k = ApplyPartial(drafts[d].content, {"texto"}, c.edit)
    OBVIOUS
  <2>3. PICK n : n = Autosave(d, c.edit, k, << >>)
    OBVIOUS
  <2>4. DraftExists(d) /\ Moves(s, n) /\ UNCHANGED served
    BY <1>6, <2>1, <2>2, <2>3 DEF OwnsDraft, Continue, Moves
  <2>5. DraftsSound /\ drafts[d].content \in Content
    BY <2>4, DraftIsTyped DEF EventosInvariant
  <2>6. k \in Content /\ k["texto"] \in {c.edit, drafts[d].content["texto"]}
    BY <1>4, <2>2, <2>5, PartialIsContent
  <2>7. CallOK(n)
    BY <1>4, <2>3, <2>4, <2>5, <2>6, AutosaveIsSound
  <2>8. served' \in 0..MaxRequests
    BY <2>4 DEF EventosInvariant
  <2> QED BY <1>2, <2>4, <2>7, <2>8, HandlerSteps DEF HandlerStep
<1> QED BY <1>1, <1>5, <1>6 DEF FillDraft
\* What a handler at each of its calls has kept.
LEMMA CallIsTyped ==
  ASSUME EventosInvariant, NEW s \in Slots, ~At(s, "none")
  PROVE  /\ calls[s] \in EventosCall(calls[s].op)
         /\ At(s, "replaceDraft") => Fresh(calls[s])
         /\ At(s, "setEvento") => calls[s].read.status = "PUBLICADO"
<1>1. CallOK(calls[s]) /\ calls[s] # NoCall
  BY DEF EventosInvariant, NoCall, At
<1> QED BY <1>1 DEF CallOK, At

LEMMA StepsAreSound ==
  ASSUME EventosInvariant, NEW s \in Slots, EventosStep(s)
  PROVE  EventosInvariant'
<1>i. DraftsSound /\ EventosTypeOK
  BY DEF EventosInvariant
<1>c. PICK c : c = calls[s]
  OBVIOUS
<1>1. CASE FillDraft(s)
  BY <1>1, FillDraftIsSound
<1>2. CASE StoreDraft(s)
  <2>1. /\ c.op = "replaceDraft" /\ ReplaceDraft(c.draft, c.content) /\ Finish(s)
        /\ UNCHANGED <<eventos, organizadores>>
    BY <1>2, <1>c DEF StoreDraft, At
  <2>2. c \in EventosCall("replaceDraft")
    BY <1>c, <2>1, CallIsTyped DEF At
  <2>3. c.draft \in Drafts /\ c.content \in Content
    BY <2>2 DEF EventosCall
  <2>4. DraftsSound' /\ DraftsGrow
    BY <1>i, <2>1, <2>3, ReplaceKeeps
  <2> QED BY <2>1, <2>4, DraftsStayTyped, HandlerEnds
<1>3. CASE DropDraft(s)
  <2>1. /\ c.op \in {"deleteDraft", "dropDraft"} /\ DeleteDraftByID(c.draft) /\ Finish(s)
        /\ UNCHANGED <<eventos, organizadores>>
    BY <1>3, <1>c DEF DropDraft, At
  <2>2. c \in EventosCall(c.op)
    BY <1>c, <2>1, CallIsTyped DEF At
  <2>3. c.draft \in Drafts
    BY <2>1, <2>2 DEF EventosCall
  <2>4. DraftsSound' /\ DraftsGrow
    BY <1>i, <2>1, <2>3, DeletionKeeps
  <2> QED BY <2>1, <2>4, DraftsStayTyped, HandlerEnds
<1>4. CASE StoreEvento(s)
  <2>1. c.op = "saveEvento" /\ UNCHANGED <<drafts, organizadores>>
    BY <1>4, <1>c DEF StoreEvento, At
  <2>2. PICK e \in Events :
          /\ SaveEvento(e, c.evento)
          /\ Continue(s, IF c.evento.from = NoDraft
                           THEN [op |-> "saveOrganizador", evento |-> e, user |-> c.evento.owner]
                           ELSE [op |-> "dropDraft", draft |-> c.evento.from])
    BY <1>4, <1>c DEF StoreEvento
  <2>3. c \in EventosCall("saveEvento")
    BY <1>c, <2>1, CallIsTyped DEF At
  <2>4. c.evento \in Evento
    BY <2>3 DEF EventosCall
  <2>5. c.evento.from \in Drafts \cup {NoDraft} /\ c.evento.owner \in Users
    BY <2>4 DEF Evento
  <2>6. DraftsSound' /\ DraftsGrow /\ EventosTypeOK'
    BY <2>1, <2>2, <2>4, SaveEventoChanges, EventosStayTyped
  <2>7. served' \in 0..MaxRequests
    BY <2>2 DEF Continue, EventosInvariant
  <2>8. CASE c.evento.from = NoDraft
    <3>1. PICK n : n = [op |-> "saveOrganizador", evento |-> e, user |-> c.evento.owner]
      OBVIOUS
    <3>2. n \in EventosCall(n.op) /\ n.op = "saveOrganizador"
      BY <2>5, <3>1 DEF EventosCall
    <3>3. Moves(s, n) /\ CallOK(n)'
      BY <2>2, <2>8, <3>1, <3>2 DEF Continue, Moves, CallOK
    <3> QED BY <2>6, <2>7, <3>3, StepKeeps
  <2>9. CASE c.evento.from # NoDraft
    <3>1. PICK n : n = [op |-> "dropDraft", draft |-> c.evento.from]
      OBVIOUS
    <3>2. n \in EventosCall(n.op) /\ n.op = "dropDraft"
      BY <2>5, <2>9, <3>1 DEF EventosCall
    <3>3. Moves(s, n) /\ CallOK(n)'
      BY <2>2, <2>9, <3>1, <3>2 DEF Continue, Moves, CallOK
    <3> QED BY <2>6, <2>7, <3>3, StepKeeps
  <2> QED BY <2>8, <2>9
<1>5. CASE RegisterCreator(s)
  <2>1. /\ c.op = "saveOrganizador" /\ SaveOrganizador(c.evento, c.user) /\ Finish(s)
        /\ UNCHANGED <<drafts, eventos>>
    BY <1>5, <1>c DEF RegisterCreator, At
  <2>2. c \in EventosCall("saveOrganizador")
    BY <1>c, <2>1, CallIsTyped DEF At
  <2>3. c.evento \in Events /\ c.user \in Users
    BY <2>2 DEF EventosCall
  <2>4. DraftsSound' /\ DraftsGrow /\ EventosTypeOK'
    BY <1>i, <2>1, <2>3 DEF SaveOrganizador, DraftsSound, DraftsGrow, EventosTypeOK, DraftExists
  <2> QED BY <2>1, <2>4, HandlerEnds
<1>6. CASE StoreEdit(s)
  <2>1. PICK copy : copy = [c.read EXCEPT !.content["texto"] = c.edit]
    OBVIOUS
  <2>2. /\ c.op = "setEvento" /\ SetEvento(c.evento, copy) /\ Finish(s)
        /\ UNCHANGED <<drafts, organizadores>>
    BY <1>6, <1>c, <2>1 DEF StoreEdit, At
  <2>3. c \in EventosCall("setEvento")
    BY <1>c, <2>2, CallIsTyped DEF At
  <2>4. c.evento \in Events /\ c.read \in Evento /\ c.edit \in Edits
    BY <2>3 DEF EventosCall
  <2>5. copy \in Evento
    BY <2>1, <2>4 DEF Evento, Content
  <2>6. DraftsSound' /\ DraftsGrow /\ EventosTypeOK'
    BY <1>i, <2>2, <2>4, <2>5, SetEventoChanges, EventosStayTyped
  <2> QED BY <2>2, <2>6, HandlerEnds
<1>7. CASE DropEvento(s)
  <2>1. /\ c.op = "deleteEvento" /\ DeleteEventoByID(c.evento) /\ Finish(s)
        /\ UNCHANGED <<drafts, organizadores>>
    BY <1>7, <1>c DEF DropEvento, At
  <2>2. c \in EventosCall("deleteEvento")
    BY <1>c, <2>1, CallIsTyped DEF At
  <2>3. c.evento \in Events
    BY <2>2 DEF EventosCall
  <2>4. EventoChanges(c.evento)
    BY <2>1 DEF DeleteEventoByID, EventoChanges
  <2>5. DraftsSound' /\ DraftsGrow /\ EventosTypeOK'
    BY <2>1, <2>3, <2>4, EventosStayTyped
  <2> QED BY <2>1, <2>5, HandlerEnds
<1> QED BY <1>1, <1>2, <1>3, <1>4, <1>5, <1>6, <1>7 DEF EventosStep

\* Guests, the index and the Java backend: no handler moves.
LEMMA OthersAreSound ==
  ASSUME EventosInvariant,
         \/ \E s \in Slots : addConvidados(s)
         \/ \E d \in Drafts : ExpireDraft(d)
         \/ \E e \in Events : Cancel(e)
  PROVE  EventosInvariant'
<1>i. DraftsSound /\ EventosTypeOK /\ served \in 0..MaxRequests
  BY DEF EventosInvariant
<1>1. ASSUME NEW s \in Slots, NEW e \in Events, AddConvidados(s, e) PROVE EventosInvariant'
  <2>1. /\ EventoExists(e) /\ PushConvidado(e) /\ served < MaxRequests /\ served' = served + 1
        /\ UNCHANGED <<calls, drafts, organizadores>>
    BY <1>1 DEF AddConvidados
  <2>2. PICK old : old = eventos[e]
    OBVIOUS
  <2>3. old \in Evento /\ old.convidados \in Nat
    BY <1>i, <2>1, <2>2, EventoIsTyped
  <2>4. PICK x : x = [old EXCEPT !.convidados = old.convidados + 1]
    OBVIOUS
  <2>5. old.convidados + 1 \in Nat
    BY <2>3
  <2>6. x \in Evento
    BY <2>3, <2>4, <2>5 DEF Evento
  <2>7. eventos' = [eventos EXCEPT ![e] = x]
    BY <1>i, <2>1, <2>2, <2>3, <2>4 DEF PushConvidado, EventosTypeOK, Evento
  <2>8. EventoChanges(e)
    BY <2>6, <2>7 DEF EventoChanges
  <2>9. served' \in 0..MaxRequests
    BY <1>i, <2>1, ServedNext
  <2> QED BY <2>1, <2>8, <2>9, EventosStayTyped, StepKeeps
<1>2. ASSUME NEW d \in Drafts, ExpireDraft(d) PROVE EventosInvariant'
  <2>1. DeleteDraftByID(d) /\ UNCHANGED <<handlerVars, eventos, organizadores>>
    BY <1>2 DEF ExpireDraft
  <2>2. UNCHANGED calls /\ UNCHANGED served
    BY <2>1 DEF handlerVars
  <2>3. DraftsSound' /\ DraftsGrow
    BY <1>i, <2>1, DeletionKeeps
  <2>4. EventosTypeOK'
    BY <2>1, <2>3, DraftsStayTyped
  <2> QED BY <1>i, <2>2, <2>3, <2>4, StepKeeps
<1>3. ASSUME NEW e \in Events, Cancel(e) PROVE EventosInvariant'
  <2>1. /\ EventoExists(e) /\ eventos' = [eventos EXCEPT ![e].status = "CANCELADO"]
        /\ UNCHANGED <<calls, served, drafts, organizadores>>
    BY <1>3 DEF Cancel, handlerVars
  <2>2. PICK old : old = eventos[e]
    OBVIOUS
  <2>3. old \in Evento
    BY <1>i, <2>1, <2>2, EventoIsTyped
  <2>4. PICK x : x = [old EXCEPT !.status = "CANCELADO"]
    OBVIOUS
  <2>5. x \in Evento
    BY <2>3, <2>4 DEF Evento
  <2>6. eventos' = [eventos EXCEPT ![e] = x]
    BY <1>i, <2>1, <2>2, <2>4 DEF EventosTypeOK
  <2>7. EventoChanges(e)
    BY <2>5, <2>6 DEF EventoChanges
  <2> QED BY <1>i, <2>1, <2>7, EventosStayTyped, StepKeeps
<1> QED BY <1>1, <1>2, <1>3 DEF addConvidados

LEMMA EventosIsInvariant == Spec => []EventosInvariant
<1>1. Init => EventosInvariant
  <2> SUFFICES ASSUME Init PROVE EventosInvariant
    OBVIOUS
  <2>1. DraftsSound /\ EventosTypeOK
    BY DEF Init, EventosInit, DraftsSound, EventosTypeOK, DraftExists
  <2>2. served \in 0..MaxRequests /\ DOMAIN calls = Slots /\ \A s \in Slots : calls[s] = NoCall
    BY HandlersAssumption DEF Init, HandlersInit
  <2> QED BY <2>1, <2>2 DEF EventosInvariant, CallOK
<1>2. EventosInvariant /\ [Next]_vars => EventosInvariant'
  <2> SUFFICES ASSUME EventosInvariant, [Next]_vars PROVE EventosInvariant'
    OBVIOUS
  <2>1. CASE EventosNext
    BY <2>1, RequestsAreSound, StepsAreSound, OthersAreSound DEF EventosNext
  <2>2. CASE (\E s \in Slots : Abort(s)) /\ UNCHANGED eventosVars
    BY <2>2, DocumentsStay, HandlerEnds DEF Abort
  <2>3. CASE UNCHANGED vars
    <3>1. UNCHANGED calls /\ UNCHANGED served /\ UNCHANGED eventosVars
      BY <2>3 DEF vars, handlerVars
    <3>2. served' \in 0..MaxRequests
      BY <3>1 DEF EventosInvariant
    <3> QED BY <3>1, <3>2, DocumentsStay, StepKeeps
  <2> QED BY <2>1, <2>2, <2>3 DEF Next
<1> QED BY <1>1, <1>2, PTL DEF Spec
-----------------------------------------------------------------------------
(* What follows.                                                           *)

\* Drafts, events, organizers and what every handler keeps stay what the code stores.
THEOREM EventosAreTyped == Spec => []TypeOK
<1>1. EventosInvariant => TypeOK
  <2> SUFFICES ASSUME EventosInvariant PROVE TypeOK
    OBVIOUS
  <2>1. \A s \in Slots : calls[s] \in EventosCall(calls[s].op) \cup {NoCall}
    BY DEF EventosInvariant, CallOK
  <2> QED BY <2>1 DEF EventosInvariant, TypeOK
<1> QED BY <1>1, EventosIsInvariant, PTL

\* Only the call that replaces a draft changes one while its own handler moves on from it.
LEMMA DraftsChangeAt ==
  ASSUME EventosInvariant, [Next]_vars, NEW s \in Slots, At(s, "replaceDraft"),
         drafts' # drafts, calls'[s] # calls[s]
  PROVE  StoreDraft(s)
<1>1. \A t \in Slots : \A c : Continue(t, c) \/ Begin(t, c) => t = s
  BY DEF Continue, Begin, EventosInvariant
<1>2. EventosNext
  BY DEF Next, vars, eventosVars
<1>3. PICK t \in Slots : (\E u \in Users : EventosRequest(t, u)) \/ addConvidados(t) \/ EventosStep(t)
  BY <1>2 DEF EventosNext, ExpireDraft, Cancel, handlerVars
<1>4. ASSUME NEW u \in Users, EventosRequest(t, u) PROVE FALSE
  <2>1. PICK c : Begin(t, c) \/ drafts' = drafts
    BY <1>4 DEF EventosRequest, createDraft, CreateDraft, updateDraft, UpdateDraft, deleteDraft, DeleteDraft,
                publishDraft, PublishDraft, createEvento, CreateEvento, updateEvento, UpdateEvento,
                deleteEvento, DeleteEvento, eventosVars
  <2>2. t = s
    BY <1>1, <2>1
  <2> QED BY <2>1, <2>2 DEF Begin, At
<1>5. CASE addConvidados(t)
  BY <1>5 DEF addConvidados, AddConvidados
<1>6. CASE EventosStep(t)
  <2>1. CASE StoreDraft(t)
    BY <1>1, <2>1 DEF StoreDraft, Finish
  <2>2. CASE DropDraft(t)
    <3>1. t = s
      BY <1>1, <2>2 DEF DropDraft, Finish
    <3> QED BY <2>2, <3>1 DEF DropDraft, At
  <2>3. CASE ~StoreDraft(t) /\ ~DropDraft(t)
    BY <1>6, <2>3 DEF EventosStep, FillDraft, StoreEvento, RegisterCreator, StoreEdit, DropEvento, eventosVars
  <2> QED BY <2>1, <2>2, <2>3
<1> QED BY <1>3, <1>4, <1>5, <1>6

\* AutosaveDraft: however autosaves, publications, deletions and the index interleave, a
\* draft is replaced by a copy of what its handler read, and its client if the payload says
\* when, unless another write came between the two calls of the handler.
THEOREM AutosavesDiscardWhatWasRead == Spec => AutosaveDiscardsOnlyWhatWasRead
<1>1. ASSUME EventosInvariant, [Next]_vars, NEW s \in Slots, At(s, "replaceDraft"),
             drafts' # drafts, calls'[s] # calls[s]
      PROVE  LET c == calls[s] IN
             \/ c.seen < drafts[c.draft].writes
             \/ /\ c.lastRead \in {<< >>, <<drafts[c.draft].writes>>}
                /\ drafts'[c.draft].content["texto"] \in {c.edit, drafts[c.draft].content["texto"]}
  <2>1. PICK c : c = calls[s]
    OBVIOUS
  <2>2. c \in EventosCall("replaceDraft") /\ Fresh(c)
    BY <1>1, <2>1, CallIsTyped DEF At
  <2>3. PICK d \in Drafts : d = c.draft
    BY <2>2 DEF EventosCall
  <2>4. ReplaceDraft(d, c.content)
    BY <1>1, <2>1, <2>3, DraftsChangeAt DEF StoreDraft
  <2>5. DraftExists(d) /\ drafts' = [drafts EXCEPT ![d].content = c.content, ![d].writes = @ + 1]
    BY <1>1, <2>4 DEF ReplaceDraft
  <2>6. drafts[d] \in EventoDraft /\ drafts[d].writes \in Nat
    BY <2>5, DraftIsTyped, <1>1 DEF EventosInvariant
  <2>7. drafts'[d].content = c.content
    BY <1>1, <2>5, <2>6 DEF EventosInvariant, DraftsSound, EventoDraft
  <2>8. /\ c.lastRead \in {<< >>, <<c.seen>>} /\ c.seen <= drafts[d].writes
        /\ c.seen = drafts[d].writes => c.content["texto"] \in {c.edit, drafts[d].content["texto"]}
    BY <2>2, <2>3, <2>5 DEF Fresh
  <2>9. c.seen \in Nat
    BY <2>2 DEF EventosCall
  <2>10. c.seen < drafts[d].writes \/ c.seen = drafts[d].writes
    BY <2>6, <2>8, <2>9
  <2> QED BY <2>1, <2>3, <2>7, <2>8, <2>10
<1>2. EventosInvariant /\ [Next]_vars =>
        [\A s \in Slots :
           LET c == calls[s] IN
           At(s, "replaceDraft") /\ drafts' # drafts /\ calls'[s] # c
             => \/ c.seen < drafts[c.draft].writes
                \/ /\ c.lastRead \in {<< >>, <<drafts[c.draft].writes>>}
                   /\ drafts'[c.draft].content["texto"] \in {c.edit, drafts[c.draft].content["texto"]}
        ]_<<eventosVars, calls>>
  BY <1>1
<1> QED BY <1>2, EventosIsInvariant, PTL DEF Spec, AutosaveDiscardsOnlyWhatWasRead

\* Which step writes an event that was cancelled.
LEMMA CancelledChangesAt ==
  ASSUME EventosInvariant, [Next]_vars, NEW e \in Events, EventoExists(e), eventos[e].status = "CANCELADO",
         eventos'[e] \notin {eventos[e], Removed, [eventos[e] EXCEPT !.convidados = @ + 1]}
  PROVE  \E s \in Slots : StoreEdit(s) /\ calls[s].evento = e
<1>i. EventosTypeOK /\ eventos[e] # NewEvent
  BY DEF EventosInvariant, EventoExists
<1>1. EventosNext
  BY DEF Next, vars, eventosVars
<1>2. ASSUME NEW s \in Slots, (\E u \in Users : EventosRequest(s, u)) PROVE FALSE
  <2>1. eventos' = eventos
    BY <1>2 DEF EventosRequest, createDraft, CreateDraft, updateDraft, UpdateDraft, deleteDraft, DeleteDraft,
                publishDraft, PublishDraft, createEvento, CreateEvento, updateEvento, UpdateEvento,
                deleteEvento, DeleteEvento, eventosVars
  <2> QED BY <2>1
<1>3. ASSUME NEW s \in Slots, addConvidados(s) PROVE FALSE
  <2>1. PICK x \in Events : EventoExists(x) /\ eventos' = [eventos EXCEPT ![x].convidados = @ + 1]
    BY <1>3 DEF addConvidados, AddConvidados, PushConvidado
  <2>2. CASE x = e
    BY <1>i, <2>1, <2>2 DEF EventosTypeOK
  <2>3. CASE x # e
    BY <1>i, <2>1, <2>3 DEF EventosTypeOK
  <2> QED BY <2>2, <2>3
<1>4. ASSUME NEW x \in Events, Cancel(x) PROVE FALSE
  <2>1. eventos[x].status = "PUBLICADO" /\ eventos' = [eventos EXCEPT ![x].status = "CANCELADO"]
    BY <1>4 DEF Cancel
  <2>2. x # e
    BY <2>1
  <2> QED BY <1>i, <2>1, <2>2 DEF EventosTypeOK
<1>5. ASSUME NEW d \in Drafts, ExpireDraft(d) PROVE FALSE
  BY <1>5 DEF ExpireDraft
<1>6. ASSUME NEW s \in Slots, EventosStep(s) PROVE StoreEdit(s) /\ calls[s].evento = e
  <2>1. CASE StoreEdit(s)
    <3>1. PICK copy : SetEvento(calls[s].evento, copy)
      BY <2>1 DEF StoreEdit
    <3>2. calls[s].evento = e
      BY <1>i, <3>1 DEF SetEvento, EventosTypeOK
    <3> QED BY <2>1, <3>2
  <2>2. CASE StoreEvento(s)
    <3>1. PICK x \in Events : eventos[x] = NewEvent /\ SaveEvento(x, calls[s].evento)
      BY <2>2 DEF StoreEvento
    <3>2. eventos'[e] = eventos[e]
      BY <1>i, <3>1 DEF SaveEvento, EventosTypeOK
    <3> QED BY <3>2
  <2>3. CASE DropEvento(s)
    <3>1. eventos'[e] = eventos[e] \/ eventos'[e] = Removed
      BY <1>i, <2>3 DEF DropEvento, DeleteEventoByID, EventosTypeOK
    <3> QED BY <3>1
  <2>4. CASE ~StoreEdit(s) /\ ~StoreEvento(s) /\ ~DropEvento(s)
    BY <1>6, <2>4 DEF EventosStep, FillDraft, StoreDraft, DropDraft, RegisterCreator, eventosVars
  <2> QED BY <2>1, <2>2, <2>3, <2>4
<1> QED BY <1>1, <1>2, <1>3, <1>4, <1>5, <1>6 DEF EventosNext

\* UpdateEvento: an event the Java backend has cancelled is written again only by an edit
\* that had read it while it was published.
THEOREM CancelledNeedsAStaleCopy == Spec => CancelledIsEditedOnlyByAStaleCopy
<1>1. ASSUME EventosInvariant, [Next]_vars, NEW e \in Events, EventoExists(e), eventos[e].status = "CANCELADO",
             eventos'[e] \notin {eventos[e], Removed, [eventos[e] EXCEPT !.convidados = @ + 1]}
      PROVE  \E s \in Slots : At(s, "setEvento") /\ calls[s].evento = e /\ calls[s].read.status = "PUBLICADO"
  <2>1. PICK s \in Slots : StoreEdit(s) /\ calls[s].evento = e
    BY <1>1, CancelledChangesAt
  <2>2. At(s, "setEvento") /\ ~At(s, "none")
    BY <2>1 DEF StoreEdit, At
  <2> QED BY <1>1, <2>1, <2>2, CallIsTyped
<1>2. EventosInvariant /\ [Next]_vars =>
        [\A e \in Events :
           /\ EventoExists(e) /\ eventos[e].status = "CANCELADO"
           /\ eventos'[e] \notin {eventos[e], Removed, [eventos[e] EXCEPT !.convidados = @ + 1]}
           => \E s \in Slots : At(s, "setEvento") /\ calls[s].evento = e /\ calls[s].read.status = "PUBLICADO"
        ]_<<eventosVars, calls>>
  BY <1>1
<1> QED BY <1>2, EventosIsInvariant, PTL DEF Spec, CancelledIsEditedOnlyByAStaleCopy
-----------------------------------------------------------------------------
(* The walk over the pages.                                                *)

\* A page is the next PageLimit of the documents and says whether more follow.
LEMMA PageIs ==
  ASSUME NEW S, NEW found \in Seq(S), NEW skip \in 0..Len(found)
  PROVE  /\ Page(found, skip).hasNext <=> skip + PageLimit < Len(found)
         /\ Page(found, skip).next = skip + PageLimit
         /\ Page(found, skip).items = SubSeq(found, skip + 1, UpTo(found, skip + PageLimit))
<1> DEFINE n == Len(found)
           L == PageLimit
           last == UpTo(found, skip + L + 1)
           docs == SubSeq(found, skip + 1, last)
<1>1. n \in Nat /\ L \in Nat /\ L >= 1 /\ skip \in Nat /\ skip <= n
  BY LenProperties, EventosAssumption
<1>2. last \in Nat /\ last <= n /\ last >= skip /\ (last = n \/ last = skip + L + 1) /\ last <= skip + L + 1
  BY <1>1 DEF UpTo
<1>3. \A i \in (skip + 1)..last : found[i] \in S
  BY <1>1, <1>2, ElementOfSeq
<1>4. /\ docs \in Seq(S) /\ Len(docs) = last - skip
      /\ \A i \in 1..(last - skip) : docs[i] = found[skip + i]
  <2> HIDE DEF last
  <2>1. /\ docs \in Seq(S) /\ Len(docs) = IF skip + 1 <= last THEN last - (skip + 1) + 1 ELSE 0
        /\ \A i \in 1..(last - (skip + 1) + 1) : docs[i] = found[skip + 1 + i - 1]
    BY <1>1, <1>2, <1>3, SubSeqProperties
  <2> QED BY <1>1, <1>2, <2>1
<1>5. Len(docs) > L <=> skip + L < n
  <2> HIDE DEF docs, n, L
  <2>1. last = IF n < skip + L + 1 THEN n ELSE skip + L + 1
    BY DEF UpTo, n, L
  <2> HIDE DEF last
  <2> QED BY <1>1, <1>2, <1>4, <2>1
<1>6. SubSeq(docs, 1, UpTo(docs, L)) = SubSeq(found, skip + 1, UpTo(found, skip + L))
  <2> DEFINE upto == UpTo(docs, L)
             end == UpTo(found, skip + L)
             a == SubSeq(docs, 1, upto)
             b == SubSeq(found, skip + 1, end)
  <2>1. /\ upto = IF last - skip < L THEN last - skip ELSE L
        /\ end = IF n < skip + L THEN n ELSE skip + L
    BY <1>4 DEF UpTo
  <2>2. last = IF n < skip + L + 1 THEN n ELSE skip + L + 1
    BY DEF UpTo
  <2> HIDE DEF upto, end, last, n, L, docs
  <2>3. upto \in Nat /\ end \in Nat /\ upto = end - skip /\ end <= n /\ upto <= last - skip
    BY <1>1, <1>2, <2>1, <2>2
  <2>4. \A i \in 1..upto : docs[i] \in S /\ docs[i] = found[skip + i]
    BY <1>1, <1>2, <1>4, <2>3, ElementOfSeq
  <2>5. \A i \in (skip + 1)..end : found[i] \in S
    BY <1>1, <1>2, <2>3, ElementOfSeq DEF n
  <2>6. a \in Seq(S) /\ Len(a) = upto /\ \A i \in 1..upto : a[i] = docs[i]
    <3>1. /\ a \in Seq(S) /\ Len(a) = IF 1 <= upto THEN upto - 1 + 1 ELSE 0
          /\ \A i \in 1..(upto - 1 + 1) : a[i] = docs[1 + i - 1]
      BY <2>3, <2>4, SubSeqProperties
    <3> HIDE DEF a
    <3> QED BY <2>3, <3>1
  <2>7. b \in Seq(S) /\ Len(b) = upto /\ \A i \in 1..upto : b[i] = found[skip + i]
    <3>1. /\ b \in Seq(S) /\ Len(b) = IF skip + 1 <= end THEN end - (skip + 1) + 1 ELSE 0
          /\ \A i \in 1..(end - (skip + 1) + 1) : b[i] = found[skip + 1 + i - 1]
      BY <1>1, <2>3, <2>5, SubSeqProperties
    <3> HIDE DEF b
    <3> QED BY <1>1, <2>3, <3>1
  <2> HIDE DEF a, b
  <2>8. a = b
    BY <2>4, <2>6, <2>7, SeqEqual
  <2> QED BY <2>8 DEF a, b, upto, end, docs, last, n, L
<1> QED BY <1>5, <1>6 DEF Page

\* What is left of the list after a page is what the next pages hold.
LEMMA PageThenRest ==
  ASSUME NEW S, NEW found \in Seq(S), NEW skip \in 0..Len(found), skip + PageLimit < Len(found)
  PROVE  Page(found, skip).items \o SubSeq(found, skip + PageLimit + 1, Len(found))
           = SubSeq(found, skip + 1, Len(found))
<1>1. Len(found) \in Nat /\ PageLimit \in Nat /\ PageLimit >= 1 /\ skip \in Nat
  BY LenProperties, EventosAssumption
<1>2. Page(found, skip).items = SubSeq(found, skip + 1, skip + PageLimit)
  BY <1>1, PageIs DEF UpTo
<1>3. skip + 1 \in 1..Len(found) + 1 /\ skip + PageLimit \in skip + 1 - 1..Len(found)
  BY <1>1
<1> QED BY <1>1, <1>2, <1>3, ConcatAdjacentSubSeq

LEMMA LastPage ==
  ASSUME NEW S, NEW found \in Seq(S), NEW skip \in 0..Len(found), ~(skip + PageLimit < Len(found))
  PROVE  Page(found, skip).items = SubSeq(found, skip + 1, Len(found))
<1>1. Len(found) \in Nat /\ PageLimit \in Nat /\ skip \in Nat
  BY LenProperties, EventosAssumption
<1>2. UpTo(found, skip + PageLimit) = Len(found)
  BY <1>1 DEF UpTo
<1> QED BY <1>2, PageIs
\* A function walk that follows next from page to page.
Walks(requester, u, walk) ==
  walk = [skip \in 0..Cardinality(Events) |->
            LET page == IF skip = 0 THEN listEventoByUsuario(requester, u, skip)
                        ELSE listEventoByUsuarioV1(requester, u, skip)
            IN page.items \o IF page.hasNext THEN walk[page.next] ELSE << >>]

\* What is left of the list at a cursor.
Rest(requester, u, skip) ==
  IF requester = u THEN SubSeq(FindByUsuarioID(u), skip + 1, Len(FindByUsuarioID(u))) ELSE << >>

LEMMA FoundIsSequence ==
  ASSUME NEW u
  PROVE  /\ Cardinality(Events) \in Nat
         /\ \E S : FindByUsuarioID(u) \in Seq(S)
         /\ Len(FindByUsuarioID(u)) \in 0..Cardinality(Events)
<1> DEFINE mine == {e \in Events : Owns(u, e)}
           found == FindByUsuarioID(u)
<1>1. /\ IsFiniteSet(mine) /\ Cardinality(mine) <= Cardinality(Events)
      /\ Cardinality(mine) \in Nat /\ Cardinality(Events) \in Nat
  <2>1. IsFiniteSet(Events) /\ mine \subseteq Events
    BY EventosAssumption
  <2> HIDE DEF mine
  <2> QED BY <2>1, FS_Subset, FS_CardinalityType
<1>2. found = [i \in 1..Cardinality(mine) |-> CHOOSE e \in mine : Cardinality({x \in mine : x >= e}) = i]
  BY DEF FindByUsuarioID
<1> HIDE DEF found, mine
<1>3. PICK S : S = {found[i] : i \in 1..Cardinality(mine)}
  OBVIOUS
<1>4. found \in [1..Cardinality(mine) -> S]
  BY <1>2, <1>3
<1>5. found \in Seq(S)
  BY <1>1, <1>4, SeqDef
<1>6. Len(found) = Cardinality(mine)
  BY <1>1, <1>2, <1>5, LenProperties
<1> QED BY <1>1, <1>5, <1>6 DEF found

\* A page, then what is left at the next cursor, is what was left at this one.
LEMMA PageOfList ==
  ASSUME NEW requester \in Users, NEW u \in Users, NEW skip \in 0..Len(FindByUsuarioID(u)),
         NEW page, page = ListEventosByUsuario(requester, u, skip)
  PROVE  /\ page.hasNext => page.next \in 0..Len(FindByUsuarioID(u)) /\ page.next > skip
         /\ page.items \o (IF page.hasNext THEN Rest(requester, u, page.next) ELSE << >>) = Rest(requester, u, skip)
<1> DEFINE found == FindByUsuarioID(u)
<1>1. PICK S : found \in Seq(S)
  BY FoundIsSequence
<1>2. Len(found) \in Nat /\ PageLimit \in Nat /\ PageLimit >= 1
  BY <1>1, LenProperties, EventosAssumption
<1>3. CASE requester = u
  <2>1. page = Page(found, skip)
    BY <1>3 DEF ListEventosByUsuario
  <2>2. /\ page.hasNext <=> skip + PageLimit < Len(found)
        /\ page.next = skip + PageLimit
    BY <1>1, <2>1, PageIs
  <2>3. page.hasNext => page.next \in 0..Len(found) /\ page.next > skip
    <3> HIDE DEF found
    <3> QED BY <1>2, <2>2
  <2>4. CASE page.hasNext
    <3>1. page.items \o SubSeq(found, skip + PageLimit + 1, Len(found)) = SubSeq(found, skip + 1, Len(found))
      BY <1>1, <2>1, <2>2, <2>4, PageThenRest
    <3> QED BY <1>3, <2>2, <2>3, <2>4, <3>1 DEF Rest
  <2>5. CASE ~page.hasNext
    <3>1. page.items = SubSeq(found, skip + 1, Len(found))
      BY <1>1, <2>1, <2>2, <2>5, LastPage
    <3>2. \A i \in (skip + 1)..Len(found) : found[i] \in S
      <4> HIDE DEF found
      <4> QED BY <1>1, <1>2, ElementOfSeq
    <3>3. page.items \in Seq(S)
      <4> HIDE DEF found
      <4> QED BY <1>2, <3>1, <3>2, SubSeqProperties
    <3>4. page.items \o << >> = page.items
      BY <3>3, ConcatEmptySeq
    <3> QED BY <1>3, <2>3, <2>5, <3>1, <3>4 DEF Rest
  <2> QED BY <2>4, <2>5
<1>4. CASE requester # u
  <2>1. page = [items |-> << >>, hasNext |-> FALSE, next |-> skip]
    BY <1>4, HandlersAssumption DEF ListEventosByUsuario
  <2>2. << >> \o << >> = << >>
    BY EmptySeq, ConcatEmptySeq
  <2> QED BY <1>4, <2>1, <2>2 DEF Rest
<1> QED BY <1>3, <1>4

\* A cursor past the end gets an empty page and no next one.
LEMMA PageBeyond ==
  ASSUME NEW requester \in Users, NEW u \in Users, NEW skip \in 0..Cardinality(Events),
         skip \notin 0..Len(FindByUsuarioID(u)), NEW page, page = ListEventosByUsuario(requester, u, skip)
  PROVE  ~page.hasNext /\ page.items = << >> /\ Rest(requester, u, skip) = << >>
<1> DEFINE found == FindByUsuarioID(u)
<1>1. Len(found) \in Nat /\ PageLimit \in Nat /\ PageLimit >= 1 /\ skip \in Nat /\ Len(found) < skip
  BY FoundIsSequence, EventosAssumption
<1>2. Rest(requester, u, skip) = << >>
  BY <1>1, SubSeqEmpty DEF Rest
<1>3. CASE requester = u
  <2>1. page = Page(found, skip)
    BY <1>3 DEF ListEventosByUsuario
  <2> HIDE DEF found
  <2>2. UpTo(found, skip + PageLimit + 1) = Len(found)
    BY <1>1 DEF UpTo
  <2>3. SubSeq(found, skip + 1, Len(found)) = << >>
    BY <1>1, SubSeqEmpty
  <2>4. PICK docs : docs = SubSeq(found, skip + 1, UpTo(found, skip + PageLimit + 1))
    OBVIOUS
  <2>5. docs = << >> /\ Len(docs) = 0
    BY <2>2, <2>3, <2>4
  <2>6. UpTo(docs, PageLimit) = 0 /\ (Len(docs) > PageLimit) = FALSE
    BY <1>1, <2>5 DEF UpTo
  <2>7. SubSeq(docs, 1, 0) = << >>
    BY SubSeqEmpty
  <2>8. page = [items |-> << >>, hasNext |-> FALSE, next |-> skip + PageLimit]
    BY <2>1, <2>4, <2>6, <2>7 DEF Page
  <2> QED BY <1>2, <2>8
<1>4. CASE requester # u
  <2>1. page = [items |-> << >>, hasNext |-> FALSE, next |-> skip]
    BY <1>4, HandlersAssumption DEF ListEventosByUsuario
  <2> QED BY <1>2, <2>1
<1> QED BY <1>3, <1>4

\* Both routes hand out the same pages.
LEMMA RoutesAgree ==
  ASSUME NEW requester, NEW u, NEW skip
  PROVE  (IF skip = 0 THEN listEventoByUsuario(requester, u, skip)
          ELSE listEventoByUsuarioV1(requester, u, skip)) = ListEventosByUsuario(requester, u, skip)
BY DEF listEventoByUsuario, listEventoByUsuarioV1

LEMMA WalkExists ==
  ASSUME NEW requester \in Users, NEW u \in Users
  PROVE  \E walk : Walks(requester, u, walk)
<1> DEFINE N == Cardinality(Events)
           page(skip) == ListEventosByUsuario(requester, u, skip)
           walk == [skip \in 0..N |-> Rest(requester, u, skip)]
<1>1. ASSUME NEW skip \in 0..N
      PROVE  Rest(requester, u, skip) = page(skip).items \o IF page(skip).hasNext THEN walk[page(skip).next] ELSE << >>
  <2>1. PICK p : p = page(skip)
    OBVIOUS
  <2>2. CASE skip \in 0..Len(FindByUsuarioID(u))
    <3>1. /\ p.hasNext => p.next \in 0..Len(FindByUsuarioID(u))
          /\ p.items \o (IF p.hasNext THEN Rest(requester, u, p.next) ELSE << >>) = Rest(requester, u, skip)
      BY <2>1, <2>2, PageOfList
    <3>2. p.hasNext => p.next \in 0..N
      BY <3>1, FoundIsSequence
    <3>3. p.hasNext => walk[p.next] = Rest(requester, u, p.next)
      BY <3>2
    <3> QED BY <2>1, <3>1, <3>3
  <2>3. CASE skip \notin 0..Len(FindByUsuarioID(u))
    <3>1. ~p.hasNext /\ p.items = << >> /\ Rest(requester, u, skip) = << >>
      BY <2>1, <2>3, PageBeyond
    <3>2. << >> \o << >> = << >>
      BY EmptySeq, ConcatEmptySeq
    <3> QED BY <2>1, <3>1, <3>2
  <2> QED BY <2>2, <2>3
<1>2. walk = [skip \in 0..N |-> page(skip).items \o IF page(skip).hasNext THEN walk[page(skip).next] ELSE << >>]
  BY <1>1
<1>3. Walks(requester, u, walk)
  BY <1>2, RoutesAgree DEF Walks
<1> QED BY <1>3

\* The greatest cursor at which a walk is not what is left of the list does not exist.
LEMMA WalkIsRest ==
  ASSUME NEW requester \in Users, NEW u \in Users, NEW walk, Walks(requester, u, walk)
  PROVE  walk[0] = Rest(requester, u, 0)
<1> DEFINE N == Cardinality(Events)
           n == Len(FindByUsuarioID(u))
           F == {skip \in 0..n : walk[skip] # Rest(requester, u, skip)}
<1>0. N \in Nat /\ n \in 0..N
  BY FoundIsSequence
<1>1. SUFFICES ASSUME F # {} PROVE FALSE
  BY <1>0
<1>2. PICK k \in F : \A j \in F : j <= k
  <2>1. F \in SUBSET (0..n) /\ n \in Nat
    BY <1>0
  <2> HIDE DEF F, N, n
  <2> QED BY <1>0, <1>1, <2>1, GreatestBelow
<1>3. k \in 0..n /\ k \in 0..N /\ walk[k] # Rest(requester, u, k)
  BY <1>0, <1>2
<1>4. PICK p : p = ListEventosByUsuario(requester, u, k)
  OBVIOUS
<1>5. walk[k] = p.items \o IF p.hasNext THEN walk[p.next] ELSE << >>
  BY <1>3, <1>4, RoutesAgree DEF Walks
<1>6. /\ p.hasNext => p.next \in 0..n /\ p.next > k
      /\ p.items \o (IF p.hasNext THEN Rest(requester, u, p.next) ELSE << >>) = Rest(requester, u, k)
  BY <1>3, <1>4, PageOfList
<1>7. p.hasNext => walk[p.next] = Rest(requester, u, p.next)
  <2> SUFFICES ASSUME p.hasNext, walk[p.next] # Rest(requester, u, p.next) PROVE FALSE
    OBVIOUS
  <2>1. p.next \in F
    BY <1>6
  <2>2. p.next <= k /\ p.next > k /\ p.next \in 0..n /\ k \in 0..n
    BY <1>2, <1>3, <1>6, <2>1
  <2> HIDE DEF F, n
  <2> QED BY <1>0, <2>2
<1> QED BY <1>3, <1>5, <1>6, <1>7

\* A walk from the first page is the whole list.
LEMMA WalkIsWholeList == CursorMeetsEveryEvent
<1> SUFFICES ASSUME NEW requester \in Users, NEW u \in Users
             PROVE  LET walk[skip \in 0..Cardinality(Events)] ==
                          LET page == IF skip = 0 THEN listEventoByUsuario(requester, u, skip)
                                      ELSE listEventoByUsuarioV1(requester, u, skip)
                          IN page.items \o IF page.hasNext THEN walk[page.next] ELSE << >>
                    IN walk[0] = IF requester = u THEN FindByUsuarioID(u) ELSE << >>
  BY DEF CursorMeetsEveryEvent
<1>1. Rest(requester, u, 0) = IF requester = u THEN FindByUsuarioID(u) ELSE << >>
  <2>1. PICK found : found = FindByUsuarioID(u)
    OBVIOUS
  <2>2. SubSeq(found, 1, Len(found)) = found
    BY <2>1, FoundIsSequence, SubSeqFull
  <2>3. CASE requester = u
    <3>1. Rest(requester, u, 0) = SubSeq(found, 0 + 1, Len(found))
      BY <2>1, <2>3 DEF Rest
    <3>2. 0 + 1 = 1
      OBVIOUS
    <3> QED BY <2>1, <2>2, <2>3, <3>1, <3>2, Zenon
  <2>4. CASE requester # u
    BY <2>4 DEF Rest
  <2> QED BY <2>3, <2>4
<1>2. PICK w : w = CHOOSE walk : Walks(requester, u, walk)
  OBVIOUS
<1>3. w[0] = Rest(requester, u, 0)
  BY <1>2, WalkExists, WalkIsRest
<1> QED BY <1>1, <1>2, <1>3 DEF Walks

\* The cursor of both lists of events: whatever events there are, whoever asks and however
\* many a page holds, following next to the end meets each of them once, and meets none when
\* the list is somebody else's.
THEOREM CursorsMeetEveryEvent == Spec => []CursorMeetsEveryEvent
<1>1. Init => CursorMeetsEveryEvent
  BY WalkIsWholeList
<1>2. CursorMeetsEveryEvent /\ [Next]_vars => CursorMeetsEveryEvent'
  <2>1. CursorMeetsEveryEvent'
    BY WalkIsWholeList, PTL
  <2> QED BY <2>1
<1> QED BY <1>1, <1>2, PTL DEF Spec

=============================================================================
