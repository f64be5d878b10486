---------------------------- MODULE Notifications ----------------------------
(***************************************************************************)
(* In-app notifications with their read mark, and the templates they are   *)
(* written from.  The documents of both are replaced as a whole, from a    *)
(* copy read before.                                                       *)
(***************************************************************************)
EXTENDS Handlers, SequencesExt, FiniteSetsExt

CONSTANTS
  Notices,        \* numbers drawn for notifications, in the order they are created
  Templates,      \* ids drawn for templates
  Absent,         \* a document not created yet
  Dropped,        \* a document that was deleted
  NoticePage      \* page_size of a list

VARIABLES notificacoes, templates, updated
noticeVars == <<notificacoes, templates, updated>>

\* lida: the request that marked it read, 0 for NAO_LIDA.
Reads == 0..MaxRequests
Notificacao == [owner: Users, lida: Reads]
\* Of the text fields one stands for all; a partial update leaves it empty.
NotificationTemplate == [corpo: 1..MaxRequests, ativo: BOOLEAN]

ASSUME NotificationsAssumption ==
  /\ Notices \subseteq Nat /\ IsFiniteSet(Notices) /\ NoticePage \in Nat \ {0} /\ Absent # Dropped
  /\ {Absent, Dropped} \cap (Notificacao \cup NotificationTemplate) = {}

NoticesInit ==
  /\ notificacoes = [n \in Notices |-> Absent]
  /\ templates = [t \in Templates |-> Absent]
  /\ updated = [t \in Templates |-> 0]

NoticesTypeOK ==
  /\ notificacoes \in [Notices -> Notificacao \cup {Absent, Dropped}]
  /\ templates \in [Templates -> NotificationTemplate \cup {Absent, Dropped}]
  /\ updated \in [Templates -> Nat]

NoticesCall(op) ==
  CASE op = "replaceNotice" -> [op: {op}, notice: Notices, copy: Notificacao]
    [] op = "deleteNotice" -> [op: {op}, notice: Notices]
    [] op = "replaceTemplate" ->
         [op: {op}, template: Templates, copy: NotificationTemplate, corpo: Reads, seen: Nat]
    [] op = "deleteTemplate" -> [op: {op}, template: Templates]
    [] OTHER -> {}

NoticeExists(n) == notificacoes[n] \notin {Absent, Dropped}
TemplateExists(t) == templates[t] \notin {Absent, Dropped}

-----------------------------------------------------------------------------
(* Repository methods.                                                     *)

SaveNotice(n, u) == notificacoes' = [notificacoes EXCEPT ![n] = [owner |-> u, lida |-> 0]]
\* ReplaceOne by id without upsert: what is gone is not found.
UpdateNotice(n, copy) ==
  notificacoes' = IF NoticeExists(n) THEN [notificacoes EXCEPT ![n] = copy] ELSE notificacoes
MarkAllRead(u) ==
  notificacoes' = [n \in Notices |->
                     IF NoticeExists(n) /\ notificacoes[n] = [owner |-> u, lida |-> 0]
                       THEN [owner |-> u, lida |-> served + 1] ELSE notificacoes[n]]
DeleteNoticeByID(n) ==
  notificacoes' = IF NoticeExists(n) THEN [notificacoes EXCEPT ![n] = Dropped] ELSE notificacoes

OfUser(u) == {n \in Notices : NoticeExists(n) /\ notificacoes[n].owner = u}
\* Newest first, skip (page - 1) * pageSize, limit pageSize.
NewestFirst(ns) ==
  CHOOSE order \in [1..Cardinality(ns) -> ns] : \A i, j \in DOMAIN order : i < j => order[i] > order[j]
PageFrom(all, skip) == SubSeq(all, skip + 1, IF skip + NoticePage < Len(all) THEN skip + NoticePage ELSE Len(all))
\* Mutant: pages are counted from 0.
PageSkippingTheFirst(u, page) == PageFrom(NewestFirst(OfUser(u)), page * NoticePage)
FindByUsuarioID(u, page) == PageFrom(NewestFirst(OfUser(u)), (page - 1) * NoticePage)
FindUnreadByUsuarioID(u) == {n \in OfUser(u) : notificacoes[n].lida = 0}

SaveTemplate(t, ativo) == templates' = [templates EXCEPT ![t] = [corpo |-> served + 1, ativo |-> ativo]]
UpdateTemplate(t, copy) ==
  templates' = IF TemplateExists(t) THEN [templates EXCEPT ![t] = copy] ELSE templates
DeleteTemplateByID(t) ==
  templates' = IF TemplateExists(t) THEN [templates EXCEPT ![t] = Dropped] ELSE templates

-----------------------------------------------------------------------------
(* Use cases.                                                              *)

\* For any user the body names.
CreateNotificacao(u) ==
  \E n \in Notices : /\ notificacoes[n] = Absent /\ \A m \in Notices : m < n => notificacoes[m] # Absent
                     /\ SaveNotice(n, u)
MarcarLida(s, u, n) ==
  /\ n \in OfUser(u) /\ notificacoes[n].lida = 0
  /\ Begin(s, [op |-> "replaceNotice", notice |-> n, copy |-> [owner |-> u, lida |-> served + 1]])
  /\ UNCHANGED noticeVars
StoreNotice(s) ==
  /\ At(s, "replaceNotice") /\ UpdateNotice(calls[s].notice, calls[s].copy)
  /\ Finish(s) /\ UNCHANGED <<templates, updated>>
DeleteNotificacao(s, u, n) ==
  n \in OfUser(u) /\ Begin(s, [op |-> "deleteNotice", notice |-> n]) /\ UNCHANGED noticeVars
EraseNotice(s) ==
  /\ At(s, "deleteNotice") /\ DeleteNoticeByID(calls[s].notice)
  /\ Finish(s) /\ UNCHANGED <<templates, updated>>
ListNotificacoes(u, page) == FindByUsuarioID(u, page)
CountUnread(u) == Cardinality(FindUnreadByUsuarioID(u))
MarcarTodasLidas(u) == MarkAllRead(u)

\* Neither the type nor the text is compared with the templates there are.
CreateNotificationTemplate(ativo) == \E t \in Templates : templates[t] = Absent /\ SaveTemplate(t, ativo)
\* What is empty in the request is left alone; ativo is always taken from it.
ApplyNonEmpty(t, corpo, ativo) ==
  [corpo |-> IF corpo = 0 THEN templates[t].corpo ELSE corpo, ativo |-> ativo]
UpdateNotificationTemplate(s, t, corpo, ativo) ==
  /\ TemplateExists(t)
  /\ Begin(s, [op |-> "replaceTemplate", template |-> t, copy |-> ApplyNonEmpty(t, corpo, ativo),
               corpo |-> corpo, seen |-> updated[t]])
  /\ UNCHANGED noticeVars
StoreTemplate(s) ==
  /\ At(s, "replaceTemplate") /\ UpdateTemplate(calls[s].template, calls[s].copy)
  /\ updated' = [updated EXCEPT ![calls[s].template] = @ + 1]
  /\ Finish(s) /\ UNCHANGED notificacoes
DeleteNotificationTemplate(s, t) ==
  TemplateExists(t) /\ Begin(s, [op |-> "deleteTemplate", template |-> t]) /\ UNCHANGED noticeVars
EraseTemplate(s) ==
  /\ At(s, "deleteTemplate") /\ DeleteTemplateByID(calls[s].template)
  /\ Finish(s) /\ UNCHANGED <<notificacoes, updated>>

-----------------------------------------------------------------------------
(* Handlers.                                                               *)

Once(s) == At(s, "none") /\ served < MaxRequests /\ served' = served + 1 /\ UNCHANGED calls

\* A page below 1 is the first one.
list(u, page) == ListNotificacoes(u, IF page < 1 THEN 1 ELSE page)
countUnread(u) == CountUnread(u)
create(s) == Once(s) /\ (\E u \in Users : CreateNotificacao(u)) /\ UNCHANGED <<templates, updated>>
marcarLida(s, u) == \E n \in Notices : MarcarLida(s, u, n)
marcarTodas(s, u) == Once(s) /\ MarcarTodasLidas(u) /\ UNCHANGED <<templates, updated>>
delete(s, u) == \E n \in Notices : DeleteNotificacao(s, u, n)
createTemplate(s) ==
  /\ Once(s) /\ UNCHANGED <<notificacoes, updated>>
  /\ \E ativo \in BOOLEAN : CreateNotificationTemplate(ativo)
update(s) ==
  \E t \in Templates, corpo \in {0, served + 1}, ativo \in BOOLEAN :
    UpdateNotificationTemplate(s, t, corpo, ativo)
deleteTemplate(s) == \E t \in Templates : DeleteNotificationTemplate(s, t)

NoticesRequest(s) ==
  \/ create(s) \/ createTemplate(s) \/ update(s) \/ deleteTemplate(s)
  \/ \E u \in Users : marcarLida(s, u) \/ marcarTodas(s, u) \/ delete(s, u)
NoticesStep(s) == StoreNotice(s) \/ EraseNotice(s) \/ StoreTemplate(s) \/ EraseTemplate(s)
NoticesNext == \E s \in Slots : NoticesRequest(s) \/ NoticesStep(s)

-----------------------------------------------------------------------------

\* A notification that was read stays read and one that was deleted stays deleted, although
\* its mark is written with a whole copy that may be older than the deletion, or than a
\* mark set for all notifications at once.
NoticesOnlyAdvance ==
  [][\A n \in Notices :
       /\ notificacoes[n] = Dropped => notificacoes'[n] = Dropped
       /\ NoticeExists(n) /\ notificacoes[n].lida # 0 =>
            notificacoes'[n] = Dropped \/ notificacoes'[n].lida # 0]_notificacoes

\* The badge and the list agree: the pages of a user together show every notification of
\* his once, and the badge counts those of them that are unread.
BadgeAgreesWithPages ==
  \A u \in Users :
    LET pages == FlattenSeq([page \in 1..Cardinality(Notices) |-> list(u, page)]) IN
    /\ IsInjective(pages) /\ ToSet(pages) = OfUser(u) /\ list(u, 0) = list(u, 1)
    /\ countUnread(u) = Cardinality({i \in DOMAIN pages : notificacoes[pages[i]].lida = 0})

\* An update of a template that overlapped no other update of it changes the text only to
\* the text it was sent.
AloneKeepsTheText ==
  [][\A s \in Slots :
       LET c == calls[s] IN
       At(s, "replaceTemplate") /\ c.seen = updated[c.template] /\ calls'[s] # c /\ templates' # templates
         => templates'[c.template].corpo = IF c.corpo = 0 THEN templates[c.template].corpo ELSE c.corpo
    ]_<<noticeVars, calls>>

=============================================================================
