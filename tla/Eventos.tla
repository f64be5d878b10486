------------------------------ MODULE Eventos -------------------------------
(***************************************************************************)
(* Drafts of the creation wizard, the events published from them or        *)
(* created at once, and the participant document that makes a creator the  *)
(* ORGANIZADOR of the event.  The Java backend writes events too: it is    *)
(* the one that cancels them.                                              *)
(***************************************************************************)
EXTENDS Handlers, Sequences

CONSTANTS
  Drafts, Events,          \* ids drawn for documents, never drawn twice
  NewDraft, NewEvent,      \* an id not drawn yet
  Removed,                 \* a document that was deleted
  NoDraft,                 \* the origin of an event created at once
  PageLimit                \* limit of a page of events

VARIABLES drafts, eventos, organizadores
eventosVars == <<drafts, eventos, organizadores>>

Fields == {"texto", "itens"}       \* the scalar fields of the steps; the list of split items
Edits == 0..MaxRequests            \* what a field holds: the request that wrote it, 0 when empty
Content == [Fields -> Edits]
Empty == [f \in Fields |-> 0]
EventoDraft == [owner: Users, content: Content, writes: Nat]
Evento == [owner: Users, from: Drafts \cup {NoDraft}, content: Content,
           status: {"PUBLICADO", "CANCELADO"}, convidados: Nat]

ASSUME EventosAssumption ==
  /\ {NewDraft, Removed} \cap EventoDraft = {} /\ NewDraft # Removed
  /\ {NewEvent, Removed} \cap Evento = {} /\ NewEvent # Removed
  /\ NoDraft \notin Drafts /\ PageLimit \in Nat \ {0} /\ Events \subseteq Nat /\ IsFiniteSet(Events)

EventosInit ==
  /\ drafts = [d \in Drafts |-> NewDraft]
  /\ eventos = [e \in Events |-> NewEvent]
  /\ organizadores = {}

EventosTypeOK ==
  /\ drafts \in [Drafts -> EventoDraft \cup {NewDraft, Removed}]
  /\ eventos \in [Events -> Evento \cup {NewEvent, Removed}]
  /\ organizadores \subseteq Events \X Users

EventosCall(op) ==
  CASE op = "fillDraft" -> [op: {op}, user: Users, draft: Drafts, edit: Edits]
    [] op = "replaceDraft" -> [op: {op}, draft: Drafts, edit: Edits, content: Content, seen: Nat, lastRead: Seq(Nat)]
    [] op \in {"deleteDraft", "dropDraft"} -> [op: {op}, draft: Drafts]
    [] op = "saveEvento" -> [op: {op}, evento: Evento]
    [] op = "saveOrganizador" -> [op: {op}, evento: Events, user: Users]
    [] op = "setEvento" -> [op: {op}, evento: Events, edit: Edits, read: Evento]
    [] op = "deleteEvento" -> [op: {op}, evento: Events]
    [] OTHER -> {}

DraftExists(d) == drafts[d] \notin {NewDraft, Removed}
EventoExists(e) == eventos[e] \notin {NewEvent, Removed}

-----------------------------------------------------------------------------
(* Repository methods.                                                     *)

SaveDraft(d, u) ==
  drafts' = [drafts EXCEPT ![d] = [owner |-> u, content |-> Empty, writes |-> 1]]
\* ReplaceOne by id: no upsert, and no look at the matched count.
ReplaceDraft(d, content) ==
  drafts' = IF DraftExists(d)
              THEN [drafts EXCEPT ![d].content = content, ![d].writes = @ + 1] ELSE drafts
DeleteDraftByID(d) == drafts' = IF DraftExists(d) THEN [drafts EXCEPT ![d] = Removed] ELSE drafts

\* Neither the guests nor the split of the draft are stored.
SaveEvento(e, evento) ==
  eventos' = [eventos EXCEPT ![e] = [evento EXCEPT !.content["itens"] = 0, !.convidados = 0]]
\* $set of the fields of the caller's copy, the status among them.
SetEvento(e, copy) ==
  eventos' = IF EventoExists(e)
               THEN [eventos EXCEPT ![e].content["texto"] = copy.content["texto"],
                                    ![e].status = copy.status] ELSE eventos
DeleteEventoByID(e) == eventos' = IF EventoExists(e) THEN [eventos EXCEPT ![e] = Removed] ELSE eventos
PushConvidado(e) == eventos' = [eventos EXCEPT ![e].convidados = @ + 1]
\* Mutant: the two ids change places.
SaveOrganizadorSwapped(e, u) == organizadores' = organizadores \cup {<<u, e>>}
SaveOrganizador(e, u) == organizadores' = organizadores \cup {<<e, u>>}

-----------------------------------------------------------------------------
(* Use cases on drafts.                                                    *)

OwnsDraft(u, d) == DraftExists(d) /\ drafts[d].owner = u
\* Mutant: the comparison the wrong way round.
HasConflictSwapped(d, lastRead) == lastRead # << >> /\ drafts[d].writes < lastRead[1]
\* updatedAt is compared with the time at which the client read, both counted in writes
\* here; a payload without LastReadAt (<< >>) is not compared at all.
HasConflict(d, lastRead) == lastRead # << >> /\ drafts[d].writes > lastRead[1]
Autosave(d, edit, content, lastRead) ==
  [op |-> "replaceDraft", draft |-> d, edit |-> edit, content |-> content,
   seen |-> drafts[d].writes, lastRead |-> lastRead]

\* Mutant: what the payload leaves out is blanked.
FillEmpty(old, sent, edit) == [f \in Fields |-> IF f \in sent THEN edit ELSE 0]
\* Partial update: a nil field is not applied.
ApplyPartial(old, sent, edit) == [f \in Fields |-> IF f \in sent THEN edit ELSE old[f]]

\* The empty document first; the fields of the body go through an autosave of their own.
CreateDraft(s, u) ==
  /\ \E d \in Drafts :
       /\ drafts[d] = NewDraft /\ SaveDraft(d, u)
       /\ Begin(s, [op |-> "fillDraft", user |-> u, draft |-> d, edit |-> served + 1])
  /\ UNCHANGED <<eventos, organizadores>>
\* content is what the payload makes of the draft.
UpdateDraft(s, u, d, content, lastRead) ==
  /\ OwnsDraft(u, d) /\ ~HasConflict(d, lastRead)
  /\ Begin(s, Autosave(d, served + 1, content, lastRead)) /\ UNCHANGED eventosVars
DeleteDraft(s, u, d) ==
  /\ OwnsDraft(u, d)
  /\ Begin(s, [op |-> "deleteDraft", draft |-> d]) /\ UNCHANGED eventosVars
\* No field is required.
PublishDraft(s, u, d) ==
  /\ OwnsDraft(u, d)
  /\ Begin(s, [op |-> "saveEvento",
               evento |-> [owner |-> u, from |-> d, content |-> drafts[d].content,
                           status |-> "PUBLICADO", convidados |-> 0]])
  /\ UNCHANGED eventosVars

FillDraft(s) ==
  LET c == calls[s] IN
  /\ At(s, "fillDraft")
  /\ \/ /\ OwnsDraft(c.user, c.draft)
        /\ Continue(s, Autosave(c.draft, c.edit,
             ApplyPartial(drafts[c.draft].content, {"texto"}, c.edit), << >>))
     \/ Finish(s)
  /\ UNCHANGED eventosVars
\* 200 whether or not there was a document to replace.
StoreDraft(s) ==
  /\ At(s, "replaceDraft") /\ ReplaceDraft(calls[s].draft, calls[s].content)
  /\ Finish(s) /\ UNCHANGED <<eventos, organizadores>>
DropDraft(s) ==
  /\ At(s, "deleteDraft") \/ At(s, "dropDraft")
  /\ DeleteDraftByID(calls[s].draft)
  /\ Finish(s) /\ UNCHANGED <<eventos, organizadores>>

-----------------------------------------------------------------------------
(* Use cases on events.                                                    *)

Owns(u, e) == EventoExists(e) /\ eventos[e].owner = u
CanEdit(e) == eventos[e].status = "PUBLICADO"

CreateEvento(s, u) ==
  /\ Begin(s, [op |-> "saveEvento",
               evento |-> [owner |-> u, from |-> NoDraft, content |-> [Empty EXCEPT !["texto"] = served + 1],
                           status |-> "PUBLICADO", convidados |-> 0]])
  /\ UNCHANGED eventosVars
\* The id is new: a created event has its creator registered next, one from a draft
\* has its draft deleted.
StoreEvento(s) ==
  LET new == calls[s].evento IN
  /\ At(s, "saveEvento")
  /\ \E e \in Events :
       /\ eventos[e] = NewEvent /\ SaveEvento(e, new)
       /\ Continue(s, IF new.from = NoDraft THEN [op |-> "saveOrganizador", evento |-> e, user |-> new.owner]
                      ELSE [op |-> "dropDraft", draft |-> new.from])
  /\ UNCHANGED <<drafts, organizadores>>
\* A failure to do so is not reported: Abort.
RegisterCreator(s) ==
  /\ At(s, "saveOrganizador") /\ SaveOrganizador(calls[s].evento, calls[s].user)
  /\ Finish(s) /\ UNCHANGED <<drafts, eventos>>

\* Mutant: the status is not looked at.
UpdateAnyEvento(s, u, e) ==
  /\ Owns(u, e)
  /\ Begin(s, [op |-> "setEvento", evento |-> e, edit |-> served + 1, read |-> eventos[e]])
  /\ UNCHANGED eventosVars
UpdateEvento(s, u, e) ==
  /\ Owns(u, e) /\ CanEdit(e)
  /\ Begin(s, [op |-> "setEvento", evento |-> e, edit |-> served + 1, read |-> eventos[e]])
  /\ UNCHANGED eventosVars
StoreEdit(s) ==
  LET c == calls[s] IN
  /\ At(s, "setEvento") /\ SetEvento(c.evento, [c.read EXCEPT !.content["texto"] = c.edit])
  /\ Finish(s) /\ UNCHANGED <<drafts, organizadores>>
DeleteEvento(s, u, e) ==
  /\ Owns(u, e)
  /\ Begin(s, [op |-> "deleteEvento", evento |-> e]) /\ UNCHANGED eventosVars
DropEvento(s) ==
  /\ At(s, "deleteEvento") /\ DeleteEventoByID(calls[s].evento)
  /\ Finish(s) /\ UNCHANGED <<drafts, organizadores>>
\* One update; whoever X-Usuario-Id names is not compared with the owner.
AddConvidados(s, e) ==
  /\ At(s, "none") /\ served < MaxRequests
  /\ EventoExists(e) /\ PushConvidado(e)
  /\ served' = served + 1 /\ UNCHANGED <<calls, drafts, organizadores>>

UpTo(found, n) == IF Len(found) < n THEN Len(found) ELSE n
\* Mutant: the next page starts after the document that was only peeked at.
PageAfterPeeked(found, skip) ==
  LET docs == SubSeq(found, skip + 1, UpTo(found, skip + PageLimit + 1)) IN
  [items |-> SubSeq(docs, 1, UpTo(docs, PageLimit)),
   hasNext |-> Len(docs) > PageLimit, next |-> skip + PageLimit + 1]
\* A cursor page: skip is what the cursor decodes to; one more document than the limit
\* is fetched to learn whether there is a next page.
Page(found, skip) ==
  LET docs == SubSeq(found, skip + 1, UpTo(found, skip + PageLimit + 1)) IN
  [items |-> SubSeq(docs, 1, UpTo(docs, PageLimit)),
   hasNext |-> Len(docs) > PageLimit, next |-> skip + PageLimit]
\* The documents of a user, newest first.
FindByUsuarioID(u) ==
  LET mine == {e \in Events : Owns(u, e)} IN
  [i \in 1..Cardinality(mine) |-> CHOOSE e \in mine : Cardinality({x \in mine : x >= e}) = i]

\* The page after a cursor, for the user himself or for no requester at all.
ListEventosByUsuario(requester, u, skip) ==
  IF requester \in {NoOne, u} THEN Page(FindByUsuarioID(u), skip)
  ELSE [items |-> << >>, hasNext |-> FALSE, next |-> skip]

-----------------------------------------------------------------------------
(* Handlers.                                                               *)

createDraft(s, u) == CreateDraft(s, u)
\* The split items of a payload are never nil: a list left out is applied as an empty one.
\* The client names the version it read, the last one or the one before, or none.
updateDraft(s, u) ==
  \E d \in Drafts, sent \in SUBSET Fields :
    /\ DraftExists(d)
    /\ \E lastRead \in {<< >>, <<drafts[d].writes>>, <<drafts[d].writes - 1>>} :
         LET kept == ApplyPartial(drafts[d].content, sent, served + 1) IN
         UpdateDraft(s, u, d, IF "itens" \in sent THEN kept ELSE [kept EXCEPT !["itens"] = 0], lastRead)
deleteDraft(s, u) == \E d \in Drafts : DeleteDraft(s, u, d)
publishDraft(s, u) == \E d \in Drafts : PublishDraft(s, u, d)
createEvento(s, u) == CreateEvento(s, u)
updateEvento(s, u) == \E e \in Events : UpdateEvento(s, u, e)
deleteEvento(s, u) == \E e \in Events : DeleteEvento(s, u, e)
addConvidados(s) == \E e \in Events : AddConvidados(s, e)
\* The requester is the user of the context; one who is not signed in gets no page.
listEventoByUsuario(requester, u, skip) == ListEventosByUsuario(requester, u, skip)
listEventoByUsuarioV1(requester, u, skip) == ListEventosByUsuario(requester, u, skip)

\* The TTL index on atualizadoEm; the Java backend.
ExpireDraft(d) ==
  /\ DraftExists(d) /\ DeleteDraftByID(d) /\ UNCHANGED <<handlerVars, eventos, organizadores>>
Cancel(e) ==
  /\ EventoExists(e) /\ eventos[e].status = "PUBLICADO"
  /\ eventos' = [eventos EXCEPT ![e].status = "CANCELADO"]
  /\ UNCHANGED <<handlerVars, drafts, organizadores>>

EventosRequest(s, u) ==
  \/ createDraft(s, u) \/ updateDraft(s, u) \/ deleteDraft(s, u) \/ publishDraft(s, u)
  \/ createEvento(s, u) \/ updateEvento(s, u) \/ deleteEvento(s, u)
EventosStep(s) ==
  \/ FillDraft(s) \/ StoreDraft(s) \/ DropDraft(s) \/ StoreEvento(s) \/ RegisterCreator(s)
  \/ StoreEdit(s) \/ DropEvento(s)
EventosNext ==
  \/ \E s \in Slots : (\E u \in Users : EventosRequest(s, u)) \/ addConvidados(s) \/ EventosStep(s)
  \/ \E d \in Drafts : ExpireDraft(d)
  \/ \E e \in Events : Cancel(e)

vars == <<handlerVars, eventosVars>>
Init == HandlersInit /\ EventosInit
Next == EventosNext \/ ((\E s \in Slots : Abort(s)) /\ UNCHANGED eventosVars)
Spec == Init /\ [][Next]_vars

TypeOK ==
  /\ EventosTypeOK
  /\ served \in 0..MaxRequests
  /\ DOMAIN calls = Slots
  /\ \A s \in Slots : calls[s] \in EventosCall(calls[s].op) \cup {NoCall}

-----------------------------------------------------------------------------

\* What an autosave replaces was there when its handler read the draft, and when its
\* client did if the payload says when that was, unless another write came between the
\* two calls of the handler; and of that it changes only the fields it carries, the split
\* items apart, which every autosave replaces (draft.go:137).  A payload without
\* LastReadAt discards whatever was written since its client read.
AutosaveDiscardsOnlyWhatWasRead ==
  [][\A s \in Slots :
       LET c == calls[s] IN
       At(s, "replaceDraft") /\ drafts' # drafts /\ calls'[s] # c
         => \/ c.seen < drafts[c.draft].writes
            \/ /\ c.lastRead \in {<< >>, <<drafts[c.draft].writes>>}
               /\ drafts'[c.draft].content["texto"] \in {c.edit, drafts[c.draft].content["texto"]}
    ]_<<eventosVars, calls>>

\* An event that was cancelled is written again only by an edit that had read it before.
CancelledIsEditedOnlyByAStaleCopy ==
  [][\A e \in Events :
       /\ EventoExists(e) /\ eventos[e].status = "CANCELADO"
       /\ eventos'[e] \notin {eventos[e], Removed, [eventos[e] EXCEPT !.convidados = @ + 1]}
       => \E s \in Slots : At(s, "setEvento") /\ calls[s].evento = e /\ calls[s].read.status = "PUBLICADO"
    ]_<<eventosVars, calls>>

\* A client that follows nextCursor to the end of the list of his events, which nobody
\* changes, meets every one of them once and none of anybody else, under both routes and
\* when he changes from one to the other.
CursorMeetsEveryEvent ==
  \A requester, u \in Users :
    LET walk[skip \in 0..Cardinality(Events)] ==
          LET page == IF skip = 0 THEN listEventoByUsuario(requester, u, skip)
                      ELSE listEventoByUsuarioV1(requester, u, skip)
          IN page.items \o IF page.hasNext THEN walk[page.next] ELSE << >>
    IN walk[0] = IF requester = u THEN FindByUsuarioID(u) ELSE << >>

=============================================================================
