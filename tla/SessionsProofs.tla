--------------------------- MODULE SessionsProofs ----------------------------
(***************************************************************************)
(* Safety of Sessions for every number of accounts, tokens, handlers and   *)
(* requests.                                                               *)
(***************************************************************************)
EXTENDS Sessions, FiniteSetTheorems, TLAPS

Typed(c) == c \in SessionsCall(c.op) \cup {NoCall}

\* Exchanges of a refresh token: those done, and those a handler is at.
Exchanged(t) == {c \in Tokens : Issued(c) /\ tokens[c].from = t}
Exchanging(t) ==
  {s \in Slots : \/ At(s, "refresh") /\ calls[s].token = t
                 \/ At(s, "issue") /\ calls[s].from = t}

\* A token that was not used yet is not exchanged; one that was is exchanged only by the
\* handlers that had read it before.
ExchangesCounted ==
  \A t \in Tokens :
    /\ IsFiniteSet(Exchanged(t))
    /\ Cardinality(Exchanged(t)) + Cardinality(Exchanging(t)) <= Cardinality(Slots)
    /\ ~Issued(t) => Exchanging(t) = {} /\ Exchanged(t) = {}
    /\ Issued(t) /\ ~tokens[t].used =>
         Exchanged(t) = {} /\ \A s \in Exchanging(t) : At(s, "refresh")

\* The copy an update writes is the account as it is, but for the field it is for, unless
\* another update came between.
CopyIsCurrent(c) ==
  LET old == usuarios[c.user] IN
  CASE c.by = "profile" -> c.usuario = [old EXCEPT !.email = c.usuario.email]
    [] c.by = "roles" -> c.usuario = [old EXCEPT !.role = c.usuario.role]
    [] c.by = "link" -> /\ c.usuario = [old EXCEPT !.links = c.usuario.links]
                        /\ old.links \subseteq c.usuario.links
UpdatesAreCurrent ==
  \A s \in Slots :
    LET c == calls[s] IN
    At(s, "update") =>
      /\ Registered(c.user) /\ c.seen <= updates[c.user]
      /\ c.seen = updates[c.user] => CopyIsCurrent(c)

-----------------------------------------------------------------------------
(* Types.                                                                  *)

CallsTypeOK == DOMAIN calls = Slots /\ \A s \in Slots : Typed(calls[s])

LEMMA CallsAfter ==
  ASSUME CallsTypeOK, NEW s \in Slots, NEW c, calls' = [calls EXCEPT ![s] = c]
  PROVE  DOMAIN calls' = Slots /\ \A t \in Slots : calls'[t] = IF t = s THEN c ELSE calls[t]
BY DEF CallsTypeOK

LEMMA OneCallTyped ==
  ASSUME CallsTypeOK, NEW s \in Slots, NEW c, Typed(c), calls' = [calls EXCEPT ![s] = c]
  PROVE  CallsTypeOK'
<1>1. \A t \in Slots : calls'[t] = IF t = s THEN c ELSE calls[t]
  BY CallsAfter
<1>2. ASSUME NEW t \in Slots PROVE Typed(calls[t])'
  BY <1>1 DEF CallsTypeOK, Typed, SessionsCall
<1> QED BY <1>2, CallsAfter DEF CallsTypeOK

LEMMA BeginTyped ==
  ASSUME TypeOK, NEW s \in Slots, NEW c, Typed(c), Begin(s, c)
  PROVE  CallsTypeOK' /\ served' \in 0..MaxRequests
<1>1. CallsTypeOK'
  BY OneCallTyped DEF Begin, TypeOK, CallsTypeOK, Typed
<1> QED BY <1>1, HandlersAssumption DEF Begin, TypeOK

LEMMA ContinueTyped ==
  ASSUME TypeOK, NEW s \in Slots, NEW c, Typed(c), Continue(s, c)
  PROVE  CallsTypeOK' /\ served' \in 0..MaxRequests
BY OneCallTyped DEF Continue, TypeOK, CallsTypeOK, Typed

LEMMA NoCallTyped == Typed(NoCall)
BY DEF Typed, NoCall

\* What the handler at an operation has kept.
LEMMA CallAt ==
  ASSUME TypeOK, NEW s \in Slots
  PROVE  /\ At(s, "byEmail") => calls[s] \in [op: {"byEmail"}, link: Providers \X People, email: Emails]
         /\ At(s, "saveUser") => calls[s] \in [op: {"saveUser"}, usuario: Usuario]
         /\ At(s, "update") =>
              calls[s] \in [op: {"update"}, user: Users, usuario: Usuario, seen: Nat,
                            by: {"profile", "roles", "link"}]
         /\ At(s, "refresh") => calls[s] \in [op: {"refresh"}, token: Tokens]
         /\ At(s, "issue") => calls[s] \in [op: {"issue"}, user: Users, from: Tokens \cup {NoToken}]
BY DEF TypeOK, At, SessionsCall, NoCall

LEMMA IssueTyped ==
  ASSUME NEW u \in Users, NEW from \in Tokens \cup {NoToken}
  PROVE  Typed(Issue(u, from))
BY DEF Issue, Typed, SessionsCall

LEMMA NewAccountTyped ==
  ASSUME NEW email \in Emails, NEW senha \in BOOLEAN, NEW links \in SUBSET (Providers \X People)
  PROVE  Typed(NewAccount(email, senha, links))
BY DEF NewAccount, Typed, SessionsCall, Usuario, Roles

LEMMA ByEmailTyped ==
  ASSUME NEW link \in Providers \X People, NEW email \in Emails
  PROVE  Typed([op |-> "byEmail", link |-> link, email |-> email])
BY DEF Typed, SessionsCall

LEMMA UpdateTyped ==
  ASSUME NEW u \in Users, NEW usuario \in Usuario, NEW seen \in Nat, NEW by \in {"profile", "roles", "link"}
  PROVE  Typed([op |-> "update", user |-> u, seen |-> seen, by |-> by, usuario |-> usuario])
BY DEF Typed, SessionsCall

LEMMA RefreshTyped ==
  ASSUME NEW t \in Tokens
  PROVE  Typed([op |-> "refresh", token |-> t])
BY DEF Typed, SessionsCall

\* The steps that only begin or continue a handler.
Reading(s) ==
  \/ AuthLogin(s) \/ AuthRegister(s) \/ AuthGoogle(s) \/ AuthApple(s) \/ AuthRefresh(s)
  \/ LinkByEmail(s) \/ \E u \in Users : UpdateMe(s, u) \/ UpdateByID(s, u) \/ UpdateRole(s, u)

LEMMA ReadingTyped ==
  ASSUME TypeOK, NEW s \in Slots, Reading(s)
  PROVE  CallsTypeOK' /\ served' \in 0..MaxRequests /\ UNCHANGED sessionVars
<1> USE DEF SessionsTypeOK
<1>0. usuarios \in [Users -> Usuario \cup {NewUser}] /\ updates \in [Users -> Nat]
  BY DEF TypeOK
<1>1. ASSUME NEW p \in People, Login(s, p) PROVE CallsTypeOK' /\ served' \in 0..MaxRequests
  BY <1>1, BeginTyped, IssueTyped DEF Login, FindByEmail
<1>2. ASSUME NEW p \in People, Register(s, p) PROVE CallsTypeOK' /\ served' \in 0..MaxRequests
  BY <1>2, BeginTyped, NewAccountTyped DEF Register, Emails
<1>3. ASSUME NEW p \in People, NEW email \in Emails, GoogleAuth(s, p, email)
      PROVE  CallsTypeOK' /\ served' \in 0..MaxRequests
  <2>1. <<"google", p>> \in Providers \X People
    BY DEF Providers
  <2> QED BY <1>3, <2>1, BeginTyped, IssueTyped, ByEmailTyped DEF GoogleAuth, FindByProviderID
<1>4. ASSUME NEW p \in People, NEW email \in {p, NoOne}, AppleAuth(s, p, email)
      PROVE  CallsTypeOK' /\ served' \in 0..MaxRequests
  <2>1. <<"apple", p>> \in Providers \X People
    BY DEF Providers
  <2>2. CASE \E u \in FindByProviderID(<<"apple", p>>) : Begin(s, Issue(u, NoToken))
    BY <2>2, BeginTyped, IssueTyped DEF FindByProviderID
  <2>3. CASE Begin(s, NewAccount(NoOne, FALSE, {<<"apple", p>>}))
    <3>1. Typed(NewAccount(NoOne, FALSE, {<<"apple", p>>}))
      BY <2>1, NewAccountTyped DEF Emails
    <3> QED BY <2>3, <3>1, BeginTyped
  <2>4. CASE email \in Emails /\ Begin(s, [op |-> "byEmail", link |-> <<"apple", p>>, email |-> email])
    BY <2>1, <2>4, BeginTyped, ByEmailTyped
  <2> QED BY <1>4, <2>2, <2>3, <2>4 DEF AppleAuth, Emails
<1>5. ASSUME NEW t \in Tokens, RefreshTokenExecute(s, t) PROVE CallsTypeOK' /\ served' \in 0..MaxRequests
  BY <1>5, BeginTyped, RefreshTyped DEF RefreshTokenExecute
<1>6. ASSUME LinkByEmail(s) PROVE CallsTypeOK' /\ served' \in 0..MaxRequests
  <2>1. calls[s].link \in Providers \X People /\ calls[s].email \in Emails
    BY <1>6, CallAt DEF LinkByEmail
  <2>2. CASE Continue(s, NewAccount(calls[s].email, FALSE, {calls[s].link}))
    <3>1. Typed(NewAccount(calls[s].email, FALSE, {calls[s].link}))
      BY <2>1, NewAccountTyped DEF Emails
    <3> QED BY <2>2, <3>1, ContinueTyped
  <2>3. ASSUME NEW u \in FindByEmail(calls[s].email), Continue(s, Issue(u, NoToken))
        PROVE  CallsTypeOK' /\ served' \in 0..MaxRequests
    BY <2>3, ContinueTyped, IssueTyped DEF FindByEmail
  <2>4. ASSUME NEW u \in FindByEmail(calls[s].email),
               Continue(s, [op |-> "update", user |-> u, seen |-> updates[u], by |-> "link",
                            usuario |-> [usuarios[u] EXCEPT !.links = @ \cup {calls[s].link}]])
        PROVE  CallsTypeOK' /\ served' \in 0..MaxRequests
    <3>1. u \in Users /\ usuarios[u] \in Usuario
      BY <1>0 DEF FindByEmail, Registered
    <3>2. [usuarios[u] EXCEPT !.links = @ \cup {calls[s].link}] \in Usuario
      BY <2>1, <3>1 DEF Usuario
    <3> QED BY <1>0, <2>4, <3>1, <3>2, ContinueTyped, UpdateTyped
  <2> QED BY <1>6, <2>2, <2>3, <2>4 DEF LinkByEmail
<1>7. ASSUME NEW u \in Users, NEW email \in People, UpdateUsuario(s, u, email)
      PROVE  CallsTypeOK' /\ served' \in 0..MaxRequests
  <2>1. [usuarios[u] EXCEPT !.email = email] \in Usuario
    BY <1>0, <1>7 DEF UpdateUsuario, Registered, Usuario, Emails
  <2> QED BY <1>0, <1>7, <2>1, BeginTyped, UpdateTyped DEF UpdateUsuario
<1>8. ASSUME NEW u \in Users, NEW role \in Roles, UpdateUserRole(s, u, role)
      PROVE  CallsTypeOK' /\ served' \in 0..MaxRequests
  <2>1. [usuarios[u] EXCEPT !.role = role] \in Usuario
    BY <1>0, <1>8 DEF UpdateUserRole, Registered, Usuario
  <2> QED BY <1>0, <1>8, <2>1, BeginTyped, UpdateTyped DEF UpdateUserRole
<1>9. CallsTypeOK' /\ served' \in 0..MaxRequests
  BY <1>1, <1>2, <1>3, <1>4, <1>5, <1>6, <1>7, <1>8 DEF Reading, AuthLogin, AuthRegister, AuthGoogle,
     AuthApple, AuthRefresh, UpdateMe, UpdateByID, UpdateRole
<1>10. UNCHANGED sessionVars
  BY DEF Reading, AuthLogin, AuthRegister, AuthGoogle, AuthApple, AuthRefresh, UpdateMe, UpdateByID,
     UpdateRole, Login, Register, GoogleAuth, AppleAuth, RefreshTokenExecute, LinkByEmail,
     UpdateUsuario, UpdateUserRole
<1> QED BY <1>9, <1>10

\* The steps that write.
LEMMA StoreUserTyped ==
  ASSUME TypeOK, NEW s \in Slots, StoreUser(s)
  PROVE  TypeOK'
<1>1. PICK u \in Users : ~Registered(u) /\ SaveUsuario(u, calls[s].usuario) /\ Continue(s, Issue(u, NoToken))
  BY DEF StoreUser
<1>2. calls[s].usuario \in Usuario
  BY CallAt DEF StoreUser
<1>3. CallsTypeOK' /\ served' \in 0..MaxRequests
  BY <1>1, ContinueTyped, IssueTyped
<1>4. SessionsTypeOK'
  BY <1>1, <1>2 DEF StoreUser, SaveUsuario, TypeOK, SessionsTypeOK
<1> QED BY <1>3, <1>4 DEF TypeOK, CallsTypeOK, Typed

\* What an update writes: an empty field of the copy stands for the one in the document.
LEMMA UpdateWrites ==
  ASSUME TypeOK, UpdatesAreCurrent, NEW s \in Slots, StoreUpdate(s)
  PROVE  /\ calls[s].user \in Users /\ calls[s].usuario \in Usuario /\ usuarios[calls[s].user] \in Usuario
         /\ \E new \in Usuario :
              /\ usuarios' = [usuarios EXCEPT ![calls[s].user] = new]
              /\ new = [calls[s].usuario EXCEPT
                          !.senha = calls[s].usuario.senha \/ usuarios[calls[s].user].senha,
                          !.links = IF calls[s].usuario.links = {} THEN usuarios[calls[s].user].links
                                    ELSE calls[s].usuario.links]
<1> DEFINE u == calls[s].user
           copy == calls[s].usuario
           new == [copy EXCEPT !.senha = copy.senha \/ usuarios[u].senha,
                               !.links = IF copy.links = {} THEN usuarios[u].links ELSE copy.links]
<1>1. u \in Users /\ copy \in Usuario
  BY CallAt DEF StoreUpdate
<1>2. usuarios[u] \in Usuario
  BY <1>1 DEF StoreUpdate, UpdatesAreCurrent, Registered, TypeOK, SessionsTypeOK
<1>3. new \in Usuario
  BY <1>1, <1>2 DEF Usuario
<1>4. usuarios' = [usuarios EXCEPT ![u] = new]
  BY DEF StoreUpdate, UpdateUsuarioDocument
<1> QED BY <1>1, <1>2, <1>3, <1>4

LEMMA StoreUpdateTyped ==
  ASSUME TypeOK, UpdatesAreCurrent, NEW s \in Slots, StoreUpdate(s)
  PROVE  TypeOK'
<1>1. calls[s].user \in Users /\ calls[s].usuario \in Usuario
  BY CallAt DEF StoreUpdate
<1>2. CallsTypeOK' /\ served' \in 0..MaxRequests
  <2>1. PICK c : Typed(c) /\ Continue(s, c)
    BY <1>1, IssueTyped, NoCallTyped DEF StoreUpdate
  <2> QED BY <2>1, ContinueTyped
<1>3. usuarios' \in [Users -> Usuario \cup {NewUser}]
  BY UpdateWrites DEF TypeOK, SessionsTypeOK
<1>4. updates' \in [Users -> Nat]
  BY <1>1 DEF StoreUpdate, TypeOK, SessionsTypeOK
<1> QED BY <1>2, <1>3, <1>4 DEF StoreUpdate, TypeOK, SessionsTypeOK, CallsTypeOK, Typed

\* A token that is being exchanged was issued.
LEMMA ExchangedIsIssued ==
  ASSUME ExchangesCounted, NEW s \in Slots, NEW t \in Tokens, s \in Exchanging(t)
  PROVE  Issued(t)
BY DEF ExchangesCounted

LEMMA TokenStepTyped ==
  ASSUME TypeOK, ExchangesCounted, NEW s \in Slots, Revoke(s) \/ issueTokens(s)
  PROVE  TypeOK'
<1>1. CASE Revoke(s)
  <2> DEFINE t == calls[s].token
  <2>1. t \in Tokens /\ Issued(t)
    BY <1>1, CallAt, ExchangedIsIssued DEF Revoke, Exchanging
  <2>2. tokens[t] \in RefreshToken
    BY <2>1 DEF Issued, TypeOK, SessionsTypeOK
  <2>3. CallsTypeOK' /\ served' \in 0..MaxRequests
    BY <1>1, <2>1, <2>2, ContinueTyped, IssueTyped DEF Revoke, RefreshToken
  <2>4. [tokens[t] EXCEPT !.used = TRUE] \in RefreshToken
    BY <2>2 DEF RefreshToken
  <2>5. tokens' \in [Tokens -> RefreshToken \cup {NoToken}]
    BY <1>1, <2>1, <2>4 DEF Revoke, RevokeToken, TypeOK, SessionsTypeOK
  <2> QED BY <1>1, <2>3, <2>5 DEF Revoke, TypeOK, SessionsTypeOK, CallsTypeOK, Typed
<1>2. CASE issueTokens(s)
  <2>1. PICK t \in Tokens : ~Issued(t) /\ SaveToken(t, calls[s].user, calls[s].from)
    BY <1>2 DEF issueTokens
  <2>2. calls[s].user \in Users /\ calls[s].from \in Tokens \cup {NoToken}
    BY <1>2, CallAt DEF issueTokens
  <2>3. tokens' \in [Tokens -> RefreshToken \cup {NoToken}]
    BY <2>1, <2>2 DEF SaveToken, RefreshToken, TypeOK, SessionsTypeOK
  <2>4. CallsTypeOK' /\ served' \in 0..MaxRequests
    BY <1>2, ContinueTyped, NoCallTyped DEF issueTokens, Finish
  <2> QED BY <1>2, <2>3, <2>4 DEF issueTokens, TypeOK, SessionsTypeOK, CallsTypeOK, Typed
<1> QED BY <1>1, <1>2

LEMMA LogoutTyped ==
  ASSUME TypeOK, NEW s \in Slots, NEW u \in Users, AuthLogout(s, u)
  PROVE  TypeOK'
<1>1. tokens' \in [Tokens -> RefreshToken \cup {NoToken}]
  <2>1. CASE UNCHANGED tokens
    BY <2>1 DEF TypeOK, SessionsTypeOK
  <2>2. CASE RevokeAllForUser(u)
    <3>1. \A t \in TokensOf(u) : [tokens[t] EXCEPT !.used = TRUE] \in RefreshToken
      BY DEF TokensOf, Issued, RefreshToken, TypeOK, SessionsTypeOK
    <3> QED BY <2>2, <3>1 DEF RevokeAllForUser, TypeOK, SessionsTypeOK
  <2> QED BY <2>1, <2>2 DEF AuthLogout, LogoutExecute
<1>2. ended' \subseteq Tokens
  BY DEF AuthLogout, TokensOf, TypeOK, SessionsTypeOK
<1> QED BY <1>1, <1>2, HandlersAssumption DEF AuthLogout, TypeOK, SessionsTypeOK

LEMMA ExpiryTyped ==
  ASSUME TypeOK, NEW t \in Tokens, IsExpired(t)
  PROVE  TypeOK'
<1>1. tokens[t] \in RefreshToken
  BY DEF IsExpired, Issued, TypeOK, SessionsTypeOK
<1>2. [tokens[t] EXCEPT !.expired = TRUE] \in RefreshToken
  BY <1>1 DEF RefreshToken
<1> QED BY <1>2 DEF IsExpired, TypeOK, SessionsTypeOK, handlerVars

LEMMA AbortTyped ==
  ASSUME TypeOK, NEW s \in Slots, Abort(s), UNCHANGED sessionVars
  PROVE  TypeOK'
<1>1. CallsTypeOK' /\ served' \in 0..MaxRequests
  BY ContinueTyped, NoCallTyped DEF Abort, Finish
<1> QED BY <1>1 DEF sessionVars, TypeOK, SessionsTypeOK, CallsTypeOK, Typed

LEMMA NextTyped ==
  ASSUME TypeOK, UpdatesAreCurrent, ExchangesCounted, [Next]_vars
  PROVE  TypeOK'
<1>1. ASSUME NEW s \in Slots, Reading(s) PROVE TypeOK'
  <2>1. CallsTypeOK' /\ served' \in 0..MaxRequests /\ UNCHANGED sessionVars
    BY <1>1, ReadingTyped
  <2> QED BY <2>1 DEF sessionVars, TypeOK, SessionsTypeOK, CallsTypeOK, Typed
<1>2. CASE UNCHANGED vars
  BY <1>2 DEF vars, handlerVars, sessionVars, TypeOK, SessionsTypeOK
<1> QED
  BY <1>1, <1>2, StoreUserTyped, StoreUpdateTyped, TokenStepTyped, LogoutTyped, ExpiryTyped, AbortTyped
  DEF Next, SessionsNext, SessionsRequest, SessionsStep, Reading

-----------------------------------------------------------------------------
(* Updates of accounts.                                                    *)

LEMMA UsuariosKept ==
  ASSUME TypeOK, UpdatesAreCurrent, NEW s \in Slots, NEW c,
         calls' = [calls EXCEPT ![s] = c], UNCHANGED <<usuarios, updates>>,
         c.op = "update" => /\ Registered(c.user) /\ c.seen <= updates[c.user]
                            /\ c.seen = updates[c.user] => CopyIsCurrent(c)
  PROVE  UpdatesAreCurrent'
<1>1. \A t \in Slots : calls'[t] = IF t = s THEN c ELSE calls[t]
  BY CallsAfter DEF TypeOK, CallsTypeOK, Typed
<1> SUFFICES ASSUME NEW t \in Slots, calls'[t].op = "update"
             PROVE  /\ Registered(calls'[t].user) /\ calls'[t].seen <= updates[calls'[t].user]
                    /\ calls'[t].seen = updates[calls'[t].user] => CopyIsCurrent(calls'[t])
  BY DEF UpdatesAreCurrent, At, Registered, CopyIsCurrent
<1> QED BY <1>1 DEF UpdatesAreCurrent, At
LEMMA ReadingKeepsUpdates ==
  ASSUME TypeOK, UpdatesAreCurrent, NEW s \in Slots, Reading(s)
  PROVE  UpdatesAreCurrent'
<1> DEFINE Fresh(c) ==
      c.op = "update" => /\ Registered(c.user) /\ c.seen <= updates[c.user]
                         /\ c.seen = updates[c.user] => CopyIsCurrent(c)
<1>0. usuarios \in [Users -> Usuario \cup {NewUser}] /\ updates \in [Users -> Nat]
  BY DEF TypeOK, SessionsTypeOK
<1>1. \A u, from : Fresh(Issue(u, from))
  BY DEF Issue
<1>2. \A email, senha, links : Fresh(NewAccount(email, senha, links))
  BY DEF NewAccount
<1>3. ASSUME NEW u \in Users, Registered(u), NEW email
      PROVE  Fresh([op |-> "update", user |-> u, seen |-> updates[u], by |-> "profile",
                    usuario |-> [usuarios[u] EXCEPT !.email = email]])
  BY <1>0, <1>3 DEF CopyIsCurrent, Registered, Usuario
<1>4. ASSUME NEW u \in Users, Registered(u), NEW role
      PROVE  Fresh([op |-> "update", user |-> u, seen |-> updates[u], by |-> "roles",
                    usuario |-> [usuarios[u] EXCEPT !.role = role]])
  BY <1>0, <1>4 DEF CopyIsCurrent, Registered, Usuario
<1>5. ASSUME NEW u \in Users, Registered(u), NEW link
      PROVE  Fresh([op |-> "update", user |-> u, seen |-> updates[u], by |-> "link",
                    usuario |-> [usuarios[u] EXCEPT !.links = @ \cup {link}]])
  <2>1. PICK links : links = usuarios[u].links \cup {link}
    OBVIOUS
  <2>2. [usuarios[u] EXCEPT !.links = links].links = links
    BY <1>0, <1>5 DEF Registered, Usuario
  <2>3. CopyIsCurrent([op |-> "update", user |-> u, seen |-> updates[u], by |-> "link",
                       usuario |-> [usuarios[u] EXCEPT !.links = links]])
    BY <2>1, <2>2 DEF CopyIsCurrent
  <2> QED BY <1>0, <1>5, <2>1, <2>3
<1>6. \E c : calls' = [calls EXCEPT ![s] = c] /\ Fresh(c)
  <2> HIDE DEF Fresh
  <2>1. ASSUME NEW c, Begin(s, c) \/ Continue(s, c), Fresh(c)
        PROVE  \E d : calls' = [calls EXCEPT ![s] = d] /\ Fresh(d)
    BY <2>1 DEF Begin, Continue
  <2>2. ASSUME AuthLogin(s) \/ AuthRegister(s) \/ AuthGoogle(s) \/ AuthApple(s) \/ AuthRefresh(s)
        PROVE  \E c : (Begin(s, c) \/ Continue(s, c)) /\ Fresh(c)
    <3>1. \A link, email : Fresh([op |-> "byEmail", link |-> link, email |-> email])
      BY DEF Fresh
    <3>2. \A t : Fresh([op |-> "refresh", token |-> t])
      BY DEF Fresh
    <3>3. CASE AuthLogin(s) \/ AuthRegister(s)
      BY <1>1, <1>2, <3>3 DEF AuthLogin, AuthRegister, Login, Register
    <3>4. CASE AuthGoogle(s)
      BY <1>1, <3>1, <3>4 DEF AuthGoogle, GoogleAuth
    <3>5. ASSUME NEW p, NEW email, AppleAuth(s, p, email)
          PROVE  \E c : (Begin(s, c) \/ Continue(s, c)) /\ Fresh(c)
      BY <1>1, <1>2, <3>1, <3>5 DEF AppleAuth
    <3>6. CASE AuthRefresh(s)
      BY <3>2, <3>6 DEF AuthRefresh, RefreshTokenExecute
    <3> QED BY <2>2, <3>3, <3>4, <3>5, <3>6 DEF AuthApple
  <2>3. ASSUME LinkByEmail(s) PROVE \E c : (Begin(s, c) \/ Continue(s, c)) /\ Fresh(c)
    BY <1>1, <1>2, <1>5, <2>3 DEF LinkByEmail, FindByEmail
  <2>4. ASSUME NEW u \in Users, NEW email, UpdateUsuario(s, u, email)
        PROVE  \E c : (Begin(s, c) \/ Continue(s, c)) /\ Fresh(c)
    BY <1>3, <2>4 DEF UpdateUsuario
  <2>5. ASSUME NEW u \in Users, NEW role, UpdateUserRole(s, u, role)
        PROVE  \E c : (Begin(s, c) \/ Continue(s, c)) /\ Fresh(c)
    BY <1>4, <2>5 DEF UpdateUserRole
  <2> QED BY <2>1, <2>2, <2>3, <2>4, <2>5 DEF Reading, UpdateMe, UpdateByID, UpdateRole
<1>7. UNCHANGED <<usuarios, updates>>
  BY ReadingTyped DEF sessionVars
<1> QED BY <1>6, <1>7, UsuariosKept

LEMMA StoreUserKeepsUpdates ==
  ASSUME TypeOK, UpdatesAreCurrent, NEW s \in Slots, StoreUser(s)
  PROVE  UpdatesAreCurrent'
<1>1. PICK u \in Users : ~Registered(u) /\ SaveUsuario(u, calls[s].usuario) /\ Continue(s, Issue(u, NoToken))
  BY DEF StoreUser
<1>2. \A t \in Slots : calls'[t] = IF t = s THEN Issue(u, NoToken) ELSE calls[t]
  BY <1>1, CallsAfter DEF Continue, TypeOK, CallsTypeOK, Typed
<1>3. \A v \in Users : v # u => usuarios'[v] = usuarios[v]
  BY <1>1 DEF SaveUsuario, TypeOK, SessionsTypeOK
<1> SUFFICES ASSUME NEW t \in Slots, calls'[t].op = "update"
             PROVE  /\ (usuarios' [calls'[t].user] # NewUser) /\ calls'[t].seen <= updates'[calls'[t].user]
                    /\ calls'[t].seen = updates'[calls'[t].user] => CopyIsCurrent(calls[t])'
  BY DEF UpdatesAreCurrent, At, Registered
<1>4. t # s /\ calls'[t] = calls[t]
  BY <1>2 DEF Issue
<1>5. Registered(calls[t].user) /\ usuarios'[calls[t].user] = usuarios[calls[t].user]
  BY <1>1, <1>3, <1>4, CallAt DEF UpdatesAreCurrent, At
<1>6. updates' = updates
  BY DEF StoreUser
<1> QED BY <1>4, <1>5, <1>6 DEF UpdatesAreCurrent, At, Registered, CopyIsCurrent

\* After the write every other copy of the account is one behind.
LEMMA StoreUpdateKeepsUpdates ==
  ASSUME TypeOK, UpdatesAreCurrent, NEW s \in Slots, StoreUpdate(s)
  PROVE  UpdatesAreCurrent'
<1>1. PICK u \in Users : u = calls[s].user
  BY UpdateWrites
<1>2. /\ usuarios'[u] # NewUser
      /\ \A v \in Users : v # u => usuarios'[v] = usuarios[v]
  <2>1. PICK new \in Usuario : usuarios' = [usuarios EXCEPT ![u] = new]
    BY <1>1, UpdateWrites
  <2> QED BY <2>1, SessionsAssumption DEF TypeOK, SessionsTypeOK
<1>3. /\ updates'[u] = updates[u] + 1 /\ updates[u] \in Nat
      /\ \A v \in Users : v # u => updates'[v] = updates[v]
  BY <1>1 DEF StoreUpdate, TypeOK, SessionsTypeOK
<1>4. PICK c : calls' = [calls EXCEPT ![s] = c] /\ c.op # "update"
  <2>1. PICK c : Continue(s, c) /\ (c = NoCall \/ c = Issue(calls[s].user, NoToken))
    BY DEF StoreUpdate
  <2>2. c.op # "update"
    BY <2>1 DEF Issue, NoCall
  <2> QED BY <2>1, <2>2 DEF Continue
<1>5. \A t \in Slots : calls'[t] = IF t = s THEN c ELSE calls[t]
  BY <1>4, CallsAfter DEF TypeOK, CallsTypeOK, Typed
<1> SUFFICES ASSUME NEW t \in Slots, calls'[t].op = "update"
             PROVE  /\ usuarios'[calls'[t].user] # NewUser /\ calls'[t].seen <= updates'[calls'[t].user]
                    /\ calls'[t].seen = updates'[calls'[t].user] => CopyIsCurrent(calls[t])'
  BY DEF UpdatesAreCurrent, At, Registered
<1>6. t # s /\ calls'[t] = calls[t] /\ At(t, "update")
  BY <1>4, <1>5 DEF At
<1>7. calls[t].seen \in Nat /\ calls[t].user \in Users
  BY <1>6, CallAt
<1>8. CASE calls[t].user = u
  BY <1>2, <1>3, <1>6, <1>7, <1>8 DEF UpdatesAreCurrent
<1>9. CASE calls[t].user # u
  <2>1. /\ usuarios'[calls'[t].user] = usuarios[calls[t].user]
        /\ updates'[calls'[t].user] = updates[calls[t].user]
    BY <1>2, <1>3, <1>6, <1>7, <1>9
  <2> QED BY <1>6, <2>1 DEF UpdatesAreCurrent, Registered, CopyIsCurrent
<1> QED BY <1>8, <1>9

LEMMA NextKeepsUpdates ==
  ASSUME TypeOK, UpdatesAreCurrent, [Next]_vars
  PROVE  UpdatesAreCurrent'
<1>1. ASSUME NEW s \in Slots, NEW c, calls' = [calls EXCEPT ![s] = c], c.op # "update",
             UNCHANGED <<usuarios, updates>>
      PROVE  UpdatesAreCurrent'
  BY <1>1, UsuariosKept
<1>2. ASSUME NEW s \in Slots, Revoke(s) PROVE UpdatesAreCurrent'
  <2>1. PICK c : Continue(s, c) /\ c.op # "update"
    BY <1>2 DEF Revoke, Issue
  <2> QED BY <1>1, <1>2, <2>1 DEF Revoke, Continue
<1>3. ASSUME NEW s \in Slots, issueTokens(s) PROVE UpdatesAreCurrent'
  <2>1. NoCall.op # "update"
    BY DEF NoCall
  <2> QED BY <1>1, <1>3, <2>1 DEF issueTokens, Finish, Continue
<1>4. ASSUME NEW s \in Slots, Abort(s), UNCHANGED sessionVars PROVE UpdatesAreCurrent'
  <2>1. NoCall.op # "update"
    BY DEF NoCall
  <2> QED BY <1>1, <1>4, <2>1 DEF Abort, Finish, Continue, sessionVars
<1>5. ASSUME UNCHANGED <<calls, usuarios, updates>> PROVE UpdatesAreCurrent'
  BY <1>5 DEF UpdatesAreCurrent, At, Registered, CopyIsCurrent
<1>6. ASSUME NEW s \in Slots, NEW u \in Users, AuthLogout(s, u) PROVE UpdatesAreCurrent'
  BY <1>5, <1>6 DEF AuthLogout
<1>7. ASSUME NEW t \in Tokens, IsExpired(t) PROVE UpdatesAreCurrent'
  BY <1>5, <1>7 DEF IsExpired, handlerVars
<1>8. CASE UNCHANGED vars
  BY <1>5, <1>8 DEF vars, handlerVars, sessionVars
<1> QED
  BY <1>2, <1>3, <1>4, <1>6, <1>7, <1>8, ReadingKeepsUpdates, StoreUserKeepsUpdates, StoreUpdateKeepsUpdates
  DEF Next, SessionsNext, SessionsRequest, SessionsStep, Reading

-----------------------------------------------------------------------------
(* Exchanges of a refresh token.                                           *)

\* The handlers at an exchange after a step of one of them.
LEMMA ExchangingAfter ==
  ASSUME TypeOK, NEW s \in Slots, NEW c, calls' = [calls EXCEPT ![s] = c], NEW t \in Tokens
  PROVE  /\ \A r \in Slots \ {s} : r \in Exchanging(t)' <=> r \in Exchanging(t)
         /\ \A r \in Slots \ {s} : At(r, "refresh")' <=> At(r, "refresh")
         /\ s \in Exchanging(t)' <=> \/ c.op = "refresh" /\ c.token = t
                                     \/ c.op = "issue" /\ c.from = t
<1>1. \A r \in Slots : calls'[r] = IF r = s THEN c ELSE calls[r]
  BY CallsAfter DEF TypeOK, CallsTypeOK, Typed
<1> QED BY <1>1 DEF Exchanging, At

LEMMA ExchangingIsFinite ==
  ASSUME NEW t
  PROVE  /\ IsFiniteSet(Exchanging(t)) /\ Cardinality(Exchanging(t)) \in Nat
         /\ Cardinality(Exchanging(t)) <= Cardinality(Slots) /\ Cardinality(Slots) \in Nat
<1>1. Exchanging(t) \subseteq Slots /\ IsFiniteSet(Slots)
  BY HandlersAssumption DEF Exchanging
<1> QED BY <1>1, FS_Subset, FS_CardinalityType

\* Steps that issue no token and let no handler begin an exchange but of an unused token.
LEMMA ExchangesKept ==
  ASSUME TypeOK, ExchangesCounted,
         \A t \in Tokens :
           /\ Issued(t)' <=> Issued(t)
           /\ Issued(t) => tokens'[t].from = tokens[t].from /\ (tokens[t].used => tokens'[t].used)
           /\ \/ /\ Exchanging(t)' \subseteq Exchanging(t)
                 /\ ~tokens'[t].used => \A s \in Exchanging(t)' : At(s, "refresh")' <=> At(s, "refresh")
              \/ /\ Issued(t) /\ ~tokens[t].used
                 /\ \A s \in Exchanging(t)' : ~tokens'[t].used => At(s, "refresh")'
  PROVE  ExchangesCounted'
<1> SUFFICES ASSUME NEW t \in Tokens
             PROVE  /\ IsFiniteSet(Exchanged(t)')
                    /\ Cardinality(Exchanged(t)') + Cardinality(Exchanging(t)') <= Cardinality(Slots)
                    /\ ~Issued(t)' => Exchanging(t)' = {} /\ Exchanged(t)' = {}
                    /\ Issued(t)' /\ ~tokens'[t].used =>
                         Exchanged(t)' = {} /\ \A s \in Exchanging(t)' : At(s, "refresh")'
  BY DEF ExchangesCounted
<1>1. Exchanged(t)' = Exchanged(t)
  BY DEF Exchanged, Issued
<1>2. IsFiniteSet(Exchanging(t)') /\ Cardinality(Exchanging(t)') \in Nat
      /\ Cardinality(Exchanging(t)') <= Cardinality(Slots) /\ Cardinality(Slots) \in Nat
  <2>1. Exchanging(t)' \subseteq Slots /\ IsFiniteSet(Slots)
    BY HandlersAssumption DEF Exchanging
  <2> QED BY <2>1, FS_Subset, FS_CardinalityType
<1>3. CASE /\ Exchanging(t)' \subseteq Exchanging(t)
           /\ ~tokens'[t].used => \A s \in Exchanging(t)' : At(s, "refresh")' <=> At(s, "refresh")
  <2>1. Cardinality(Exchanging(t)') <= Cardinality(Exchanging(t))
    BY <1>3, ExchangingIsFinite, FS_Subset
  <2>2. Cardinality(Exchanged(t)) \in Nat /\ Cardinality(Exchanging(t)) \in Nat
    BY ExchangingIsFinite, FS_CardinalityType DEF ExchangesCounted
  <2> QED BY <1>1, <1>2, <1>3, <2>1, <2>2 DEF ExchangesCounted
<1>4. CASE /\ Issued(t) /\ ~tokens[t].used
           /\ \A s \in Exchanging(t)' : ~tokens'[t].used => At(s, "refresh")'
  <2>1. Exchanged(t) = {}
    BY <1>4 DEF ExchangesCounted
  <2>2. Cardinality(Exchanged(t)) = 0
    BY <2>1, FS_EmptySet
  <2> QED BY <1>1, <1>2, <1>4, <2>1, <2>2 DEF ExchangesCounted
<1> QED BY <1>3, <1>4

\* A handler ends, or goes on to something else than the exchange of a used token.
LEMMA OneHandlerKeepsExchanges ==
  ASSUME TypeOK, ExchangesCounted, NEW s \in Slots, NEW c, calls' = [calls EXCEPT ![s] = c],
         UNCHANGED tokens,
         c.op = "issue" => c.from = NoToken,
         c.op = "refresh" => c.token \in Tokens /\ Issued(c.token) /\ ~tokens[c.token].used
  PROVE  ExchangesCounted'
<1> SUFFICES ASSUME NEW t \in Tokens
             PROVE  \/ /\ Exchanging(t)' \subseteq Exchanging(t)
                       /\ \A r \in Exchanging(t)' : At(r, "refresh")' <=> At(r, "refresh")
                    \/ /\ Issued(t) /\ ~tokens[t].used
                       /\ \A r \in Exchanging(t)' : At(r, "refresh")'
  BY ExchangesKept DEF Issued
<1>1. Exchanging(t)' \subseteq Slots
  BY DEF Exchanging
<1>2. /\ \A r \in Slots \ {s} : r \in Exchanging(t)' <=> r \in Exchanging(t)
      /\ \A r \in Slots \ {s} : At(r, "refresh")' <=> At(r, "refresh")
      /\ s \in Exchanging(t)' <=> c.op = "refresh" /\ c.token = t
  BY ExchangingAfter, SessionsAssumption
<1>3. CASE c.op = "refresh" /\ c.token = t
  <2>1. At(s, "refresh")'
    BY <1>3 DEF At, TypeOK
  <2>2. \A r \in Exchanging(t)' : r # s => At(r, "refresh")'
    BY <1>1, <1>2, <1>3 DEF ExchangesCounted
  <2> QED BY <1>3, <2>1, <2>2
<1>4. CASE ~(c.op = "refresh" /\ c.token = t)
  BY <1>1, <1>2, <1>4
<1> QED BY <1>3, <1>4

LEMMA ReadingKeepsExchanges ==
  ASSUME TypeOK, ExchangesCounted, NEW s \in Slots, Reading(s)
  PROVE  ExchangesCounted'
<1> DEFINE Unused(c) ==
      /\ c.op = "issue" => c.from = NoToken
      /\ c.op = "refresh" => c.token \in Tokens /\ Issued(c.token) /\ ~tokens[c.token].used
<1>1. \A u : Unused(Issue(u, NoToken))
  BY DEF Issue
<1>2. \A email, senha, links : Unused(NewAccount(email, senha, links))
  BY DEF NewAccount
<1>3. \A u, seen, by, usuario :
        Unused([op |-> "update", user |-> u, seen |-> seen, by |-> by, usuario |-> usuario])
  OBVIOUS
<1>4. \A link, email : Unused([op |-> "byEmail", link |-> link, email |-> email])
  OBVIOUS
<1>5. \A t \in Tokens : Issued(t) /\ ~tokens[t].used => Unused([op |-> "refresh", token |-> t])
  OBVIOUS
<1>6. \E c : (Begin(s, c) \/ Continue(s, c)) /\ Unused(c)
  <2> HIDE DEF Unused
  <2>1. CASE AuthLogin(s) \/ AuthRegister(s)
    BY <1>1, <1>2, <2>1 DEF AuthLogin, AuthRegister, Login, Register
  <2>2. CASE AuthGoogle(s)
    BY <1>1, <1>4, <2>2 DEF AuthGoogle, GoogleAuth
  <2>3. CASE AuthApple(s)
    <3>1. ASSUME NEW p, NEW email, AppleAuth(s, p, email)
          PROVE  \E c : (Begin(s, c) \/ Continue(s, c)) /\ Unused(c)
      BY <1>1, <1>2, <1>4, <3>1 DEF AppleAuth
    <3> QED BY <2>3, <3>1 DEF AuthApple
  <2>4. CASE AuthRefresh(s)
    BY <1>5, <2>4 DEF AuthRefresh, RefreshTokenExecute
  <2>5. CASE LinkByEmail(s)
    BY <1>1, <1>2, <1>3, <2>5 DEF LinkByEmail
  <2>6. ASSUME NEW u, NEW email, UpdateUsuario(s, u, email)
        PROVE  \E c : (Begin(s, c) \/ Continue(s, c)) /\ Unused(c)
    BY <1>3, <2>6 DEF UpdateUsuario
  <2>7. ASSUME NEW u, NEW role, UpdateUserRole(s, u, role)
        PROVE  \E c : (Begin(s, c) \/ Continue(s, c)) /\ Unused(c)
    BY <1>3, <2>7 DEF UpdateUserRole
  <2> QED BY <2>1, <2>2, <2>3, <2>4, <2>5, <2>6, <2>7 DEF Reading, UpdateMe, UpdateByID, UpdateRole
<1>7. PICK c : calls' = [calls EXCEPT ![s] = c] /\ Unused(c)
  BY <1>6 DEF Begin, Continue
<1>8. UNCHANGED tokens
  BY ReadingTyped DEF sessionVars
<1> QED BY <1>7, <1>8, OneHandlerKeepsExchanges

LEMMA WritingKeepsExchanges ==
  ASSUME TypeOK, ExchangesCounted, NEW s \in Slots,
         StoreUser(s) \/ StoreUpdate(s) \/ (Abort(s) /\ UNCHANGED sessionVars)
  PROVE  ExchangesCounted'
<1>1. PICK c : Continue(s, c) /\ (c = NoCall \/ \E u : c = Issue(u, NoToken))
  BY DEF StoreUser, StoreUpdate, Abort, Finish
<1>2. c.op # "refresh" /\ (c.op = "issue" => c.from = NoToken)
  BY <1>1 DEF NoCall, Issue
<1>3. UNCHANGED tokens
  BY DEF StoreUser, StoreUpdate, sessionVars
<1> QED BY <1>1, <1>2, <1>3, OneHandlerKeepsExchanges DEF Continue

\* The handler of the token moves from the read to the new pair.
LEMMA RevokeKeepsExchanges ==
  ASSUME TypeOK, ExchangesCounted, NEW s \in Slots, Revoke(s)
  PROVE  ExchangesCounted'
<1>1. PICK t \in Tokens : t = calls[s].token
  BY CallAt DEF Revoke
<1>2. s \in Exchanging(t) /\ Issued(t)
  BY <1>1, ExchangedIsIssued DEF Revoke, Exchanging
<1>3. tokens[t] \in RefreshToken
  BY <1>2 DEF Issued, TypeOK, SessionsTypeOK
<1>4. PICK c : calls' = [calls EXCEPT ![s] = c] /\ c.op = "issue" /\ c.from = t
  <2>1. PICK u : u = tokens[t].owner
    OBVIOUS
  <2>2. calls' = [calls EXCEPT ![s] = Issue(u, t)]
    BY <1>1, <2>1 DEF Revoke, Continue
  <2>3. Issue(u, t).op = "issue" /\ Issue(u, t).from = t
    BY DEF Issue
  <2> QED BY <2>2, <2>3
<1>5. /\ \A v \in Tokens \ {t} : tokens'[v] = tokens[v]
      /\ tokens'[t].used /\ tokens'[t].from = tokens[t].from /\ tokens'[t] \in RefreshToken
  BY <1>1, <1>3 DEF Revoke, RevokeToken, RefreshToken, TypeOK, SessionsTypeOK
<1> SUFFICES ASSUME NEW v \in Tokens
             PROVE  /\ Issued(v)' <=> Issued(v)
                    /\ Issued(v) => tokens'[v].from = tokens[v].from /\ (tokens[v].used => tokens'[v].used)
                    /\ Exchanging(v)' \subseteq Exchanging(v)
                    /\ ~tokens'[v].used => \A r \in Exchanging(v)' : At(r, "refresh")' <=> At(r, "refresh")
  BY ExchangesKept
<1>6. Exchanging(v)' \subseteq Slots
  BY DEF Exchanging
<1>7. /\ \A r \in Slots \ {s} : r \in Exchanging(v)' <=> r \in Exchanging(v)
      /\ \A r \in Slots \ {s} : At(r, "refresh")' <=> At(r, "refresh")
      /\ s \in Exchanging(v)' <=> v = t
  BY <1>4, ExchangingAfter
<1>8. Issued(v)' <=> Issued(v)
  BY <1>2, <1>5, SessionsAssumption DEF Issued
<1> QED BY <1>2, <1>5, <1>6, <1>7, <1>8

\* The new token takes the place of its handler among the exchanges of the old one.
LEMMA IssueKeepsExchanges ==
  ASSUME TypeOK, ExchangesCounted, NEW s \in Slots, issueTokens(s)
  PROVE  ExchangesCounted'
<1>1. PICK c \in Tokens : ~Issued(c) /\ SaveToken(c, calls[s].user, calls[s].from)
  BY DEF issueTokens
<1>2. PICK from : from = calls[s].from
  OBVIOUS
<1>3. /\ \A v \in Tokens \ {c} : tokens'[v] = tokens[v]
      /\ tokens'[c].from = from /\ ~tokens'[c].used /\ Issued(c)'
  <2>1. from \in Tokens \cup {NoToken} /\ calls[s].user \in Users
    BY <1>2, CallAt DEF issueTokens
  <2>2. /\ \A v \in Tokens \ {c} : tokens'[v] = tokens[v]
        /\ tokens'[c] = [owner |-> calls[s].user, from |-> from, used |-> FALSE, expired |-> FALSE]
    BY <1>1, <1>2 DEF SaveToken, TypeOK, SessionsTypeOK
  <2>3. tokens'[c] \in RefreshToken
    BY <2>1, <2>2 DEF RefreshToken
  <2>4. Issued(c)'
    BY <2>3, SessionsAssumption DEF Issued
  <2>5. tokens'[c].from = from /\ tokens'[c].used = FALSE
    BY <2>2
  <2> QED BY <2>2, <2>4, <2>5
<1>4. calls' = [calls EXCEPT ![s] = NoCall]
  BY DEF issueTokens, Finish, Continue
<1> SUFFICES ASSUME NEW t \in Tokens
             PROVE  /\ IsFiniteSet(Exchanged(t)')
                    /\ Cardinality(Exchanged(t)') + Cardinality(Exchanging(t)') <= Cardinality(Slots)
                    /\ ~Issued(t)' => Exchanging(t)' = {} /\ Exchanged(t)' = {}
                    /\ Issued(t)' /\ ~tokens'[t].used =>
                         Exchanged(t)' = {} /\ \A r \in Exchanging(t)' : At(r, "refresh")'
  BY DEF ExchangesCounted
<1>5. Exchanging(t)' = Exchanging(t) \ {s} /\ \A r \in Exchanging(t)' : At(r, "refresh")' <=> At(r, "refresh")
  <2>1. Exchanging(t)' \subseteq Slots /\ Exchanging(t) \subseteq Slots
    BY DEF Exchanging
  <2>2. /\ \A r \in Slots \ {s} : r \in Exchanging(t)' <=> r \in Exchanging(t)
        /\ \A r \in Slots \ {s} : At(r, "refresh")' <=> At(r, "refresh")
        /\ s \notin Exchanging(t)'
    <3>1. NoCall.op # "refresh" /\ NoCall.op # "issue"
      BY DEF NoCall
    <3> QED BY <1>4, <3>1, ExchangingAfter
  <2> QED BY <2>1, <2>2
<1>6. s \in Exchanging(t) <=> from = t
  BY <1>2 DEF issueTokens, Exchanging, At
<1>7. IsFiniteSet(Exchanged(t)) /\ Cardinality(Exchanged(t)) \in Nat
  BY FS_CardinalityType DEF ExchangesCounted
<1>8. CASE from = t
  <2>1. Issued(t) /\ tokens[t].used /\ t # c
    <3>1. ~At(s, "refresh")
      BY DEF issueTokens, At
    <3> QED BY <1>1, <1>6, <1>8, <3>1 DEF ExchangesCounted
  <2>2. Exchanged(t)' = Exchanged(t) \cup {c} /\ c \notin Exchanged(t)
    BY <1>1, <1>3, <1>8 DEF Exchanged, Issued
  <2>3. IsFiniteSet(Exchanged(t)') /\ Cardinality(Exchanged(t)') = Cardinality(Exchanged(t)) + 1
    BY <1>7, <2>2, FS_AddElement
  <2>4. Cardinality(Exchanging(t)') = Cardinality(Exchanging(t)) - 1
    BY <1>5, <1>6, <1>8, ExchangingIsFinite, FS_RemoveElement
  <2>5. Issued(t)' /\ tokens'[t].used
    BY <1>3, <2>1 DEF Issued
  <2> QED BY <1>7, <2>3, <2>4, <2>5, ExchangingIsFinite DEF ExchangesCounted
<1>9. CASE from # t
  <2>1. Exchanged(t)' = Exchanged(t)
    BY <1>1, <1>3, <1>9 DEF Exchanged, Issued
  <2>2. Exchanging(t)' = Exchanging(t)
    BY <1>5, <1>6, <1>9
  <2>3. CASE t = c
    BY <1>1, <2>1, <2>2, <2>3 DEF ExchangesCounted
  <2>4. CASE t # c
    BY <1>3, <1>5, <2>1, <2>2, <2>4 DEF ExchangesCounted, Issued
  <2> QED BY <2>3, <2>4
<1> QED BY <1>8, <1>9

LEMMA TimeKeepsExchanges ==
  ASSUME TypeOK, ExchangesCounted,
         \/ \E s \in Slots, u \in Users : AuthLogout(s, u)
         \/ \E t \in Tokens : IsExpired(t)
         \/ UNCHANGED vars
  PROVE  ExchangesCounted'
<1>1. UNCHANGED calls
  BY DEF AuthLogout, IsExpired, vars, handlerVars
<1>2. ASSUME NEW v \in Tokens
      PROVE  /\ Issued(v)' <=> Issued(v)
             /\ Issued(v) => tokens'[v].from = tokens[v].from /\ (tokens[v].used => tokens'[v].used)
  <2>0. Issued(v) => tokens[v] \in RefreshToken
    BY DEF Issued, TypeOK, SessionsTypeOK
  <2>1. CASE UNCHANGED tokens
    BY <2>1 DEF Issued
  <2>2. ASSUME NEW u \in Users, RevokeAllForUser(u)
        PROVE  Issued(v) => tokens'[v] = tokens[v] \/ tokens'[v] = [tokens[v] EXCEPT !.used = TRUE]
    BY <2>2 DEF RevokeAllForUser
  <2>3. ASSUME NEW u \in Users, RevokeAllForUser(u) PROVE ~Issued(v) => tokens'[v] = tokens[v]
    BY <2>3 DEF RevokeAllForUser, TokensOf
  <2>4. ASSUME NEW t \in Tokens, IsExpired(t)
        PROVE  tokens'[v] = tokens[v] \/ (Issued(v) /\ tokens'[v] = [tokens[v] EXCEPT !.expired = TRUE])
    BY <2>4 DEF IsExpired, TypeOK, SessionsTypeOK
  <2>5. /\ Issued(v) => \/ tokens'[v] = tokens[v]
                        \/ tokens'[v] = [tokens[v] EXCEPT !.used = TRUE]
                        \/ tokens'[v] = [tokens[v] EXCEPT !.expired = TRUE]
        /\ ~Issued(v) => tokens'[v] = tokens[v]
    BY <2>1, <2>2, <2>3, <2>4 DEF AuthLogout, LogoutExecute, vars, sessionVars
  <2>6. Issued(v) => tokens'[v] \in RefreshToken
    BY <2>0, <2>5 DEF RefreshToken
  <2> QED BY <2>0, <2>5, <2>6, SessionsAssumption DEF RefreshToken, Issued
<1>3. \A t \in Tokens : Exchanging(t)' = Exchanging(t) /\ \A s \in Slots : At(s, "refresh")' <=> At(s, "refresh")
  BY <1>1 DEF Exchanging, At
<1>4. \A t \in Tokens : Exchanging(t) \subseteq Slots
  BY DEF Exchanging
<1> QED BY <1>2, <1>3, <1>4, ExchangesKept

LEMMA NextKeepsExchanges ==
  ASSUME TypeOK, ExchangesCounted, [Next]_vars
  PROVE  ExchangesCounted'
BY ReadingKeepsExchanges, WritingKeepsExchanges, RevokeKeepsExchanges, IssueKeepsExchanges,
   TimeKeepsExchanges
DEF Next, SessionsNext, SessionsRequest, SessionsStep, Reading

-----------------------------------------------------------------------------
(* Theorems.                                                               *)

\* What every state of Sessions keeps.
SessionsInvariant == TypeOK /\ UpdatesAreCurrent /\ ExchangesCounted

LEMMA SessionsInvariantHolds == Spec => []SessionsInvariant
<1>1. Init => SessionsInvariant
  <2> SUFFICES ASSUME Init PROVE SessionsInvariant
    OBVIOUS
  <2>1. TypeOK
    BY HandlersAssumption DEF Init, HandlersInit, SessionsInit, TypeOK, SessionsTypeOK
  <2>2. \A s \in Slots : calls[s].op = "none"
    BY DEF Init, HandlersInit, NoCall
  <2>3. UpdatesAreCurrent
    BY <2>2 DEF UpdatesAreCurrent, At
  <2>4. \A t \in Tokens : ~Issued(t) /\ Exchanging(t) = {} /\ Exchanged(t) = {}
    BY <2>2 DEF Init, SessionsInit, Issued, Exchanged, Exchanging, At
  <2>5. Cardinality({}) = 0 /\ IsFiniteSet({}) /\ Cardinality(Slots) \in Nat
    BY FS_EmptySet, FS_CardinalityType, HandlersAssumption
  <2>6. ExchangesCounted
    BY <2>4, <2>5 DEF ExchangesCounted
  <2> QED BY <2>1, <2>3, <2>6 DEF SessionsInvariant
<1>2. SessionsInvariant /\ [Next]_vars => SessionsInvariant'
  BY NextTyped, NextKeepsUpdates, NextKeepsExchanges DEF SessionsInvariant
<1> QED BY <1>1, <1>2, PTL DEF Spec

\* Accounts, refresh tokens and what the handlers keep of them are of their types.
THEOREM SessionsAreTyped == Spec => []TypeOK
<1>1. SessionsInvariant => TypeOK
  BY DEF SessionsInvariant
<1> QED BY <1>1, SessionsInvariantHolds, PTL

\* However many handlers are sent one refresh token, each of them exchanges it at most
\* once, whatever they read before its revocation.
THEOREM ExchangesStayBounded == Spec => []ExchangesAreBounded
<1>1. SessionsInvariant => ExchangesAreBounded
  <2> SUFFICES ASSUME SessionsInvariant, NEW t \in Tokens
               PROVE  Cardinality(Exchanged(t)) <= Cardinality(Slots)
    BY DEF ExchangesAreBounded, Exchanged
  <2>1. Cardinality(Exchanged(t)) \in Nat
    BY FS_CardinalityType DEF SessionsInvariant, ExchangesCounted
  <2> QED BY <2>1, ExchangingIsFinite DEF SessionsInvariant, ExchangesCounted
<1> QED BY <1>1, SessionsInvariantHolds, PTL

\* Only the two stores change an account.
LEMMA UsuariosWrittenByStores ==
  ASSUME TypeOK, [Next]_vars, usuarios' # usuarios
  PROVE  \E s \in Slots : /\ StoreUser(s) \/ StoreUpdate(s)
                          /\ \A r \in Slots : r # s => calls'[r] = calls[r]
<1>1. \E s \in Slots : StoreUser(s) \/ StoreUpdate(s)
  <2>1. ASSUME NEW s \in Slots, Reading(s) PROVE usuarios' = usuarios
    BY <2>1, ReadingTyped DEF sessionVars
  <2>2. ASSUME NEW s \in Slots, Revoke(s) \/ issueTokens(s) \/ \E u \in Users : AuthLogout(s, u)
        PROVE  usuarios' = usuarios
    BY <2>2 DEF Revoke, issueTokens, AuthLogout
  <2> QED
    BY <2>1, <2>2 DEF Next, SessionsNext, SessionsRequest, SessionsStep, Reading, IsExpired, vars, sessionVars
<1>2. ASSUME NEW s \in Slots, NEW c, Continue(s, c)
      PROVE  \A r \in Slots : r # s => calls'[r] = calls[r]
  BY <1>2, CallsAfter DEF Continue, TypeOK, CallsTypeOK, Typed
<1>3. ASSUME NEW s \in Slots, StoreUser(s) \/ StoreUpdate(s) PROVE \E c : Continue(s, c)
  BY <1>3 DEF StoreUser, StoreUpdate
<1> QED BY <1>1, <1>2, <1>3

LEMMA LinksStay ==
  ASSUME SessionsInvariant, [Next]_vars, NEW u \in Users, Registered(u), usuarios[u].links # {}
  PROVE  usuarios'[u].links # {}
<1> USE DEF SessionsInvariant
<1>1. CASE usuarios' = usuarios
  BY <1>1
<1>2. ASSUME NEW s \in Slots, StoreUser(s) PROVE usuarios'[u] = usuarios[u]
  BY <1>2 DEF StoreUser, SaveUsuario, TypeOK, SessionsTypeOK
<1>3. ASSUME NEW s \in Slots, StoreUpdate(s) PROVE usuarios'[u].links # {}
  <2>1. PICK v \in Users, new \in Usuario :
          /\ v = calls[s].user /\ usuarios' = [usuarios EXCEPT ![v] = new]
          /\ new = [calls[s].usuario EXCEPT
                      !.senha = calls[s].usuario.senha \/ usuarios[v].senha,
                      !.links = IF calls[s].usuario.links = {} THEN usuarios[v].links
                                ELSE calls[s].usuario.links]
    BY <1>3, UpdateWrites
  <2>2. new.links = IF calls[s].usuario.links = {} THEN usuarios[v].links ELSE calls[s].usuario.links
    BY <1>3, <2>1, UpdateWrites DEF Usuario
  <2>3. CASE u = v
    BY <2>1, <2>2, <2>3 DEF TypeOK, SessionsTypeOK
  <2>4. CASE u # v
    BY <2>1, <2>4 DEF TypeOK, SessionsTypeOK
  <2> QED BY <2>3, <2>4
<1> QED BY <1>1, <1>2, <1>3, UsuariosWrittenByStores

LEMMA AloneUpdateKeepsTheRest ==
  ASSUME SessionsInvariant, NEW s \in Slots, StoreUpdate(s), calls[s].seen = updates[calls[s].user]
  PROVE  LET c == calls[s]  old == usuarios[c.user]  new == usuarios'[c.user] IN
         CASE c.by = "profile" -> new = [old EXCEPT !.email = new.email]
           [] c.by = "roles" -> new = [old EXCEPT !.role = new.role]
           [] c.by = "link" -> new = [old EXCEPT !.links = new.links] /\ old.links \subseteq new.links
<1> USE DEF SessionsInvariant
<1>1. PICK u \in Users, copy \in Usuario, old \in Usuario :
        u = calls[s].user /\ copy = calls[s].usuario /\ old = usuarios[u]
  BY UpdateWrites
<1>0. PICK new \in Usuario :
        /\ usuarios' = [usuarios EXCEPT ![u] = new]
        /\ new.email = copy.email /\ new.role = copy.role /\ new.senha = (copy.senha \/ old.senha)
        /\ new.links = IF copy.links = {} THEN old.links ELSE copy.links
  <2>1. PICK new \in Usuario :
          /\ usuarios' = [usuarios EXCEPT ![calls[s].user] = new]
          /\ new = [calls[s].usuario EXCEPT
                      !.senha = calls[s].usuario.senha \/ usuarios[calls[s].user].senha,
                      !.links = IF calls[s].usuario.links = {} THEN usuarios[calls[s].user].links
                                ELSE calls[s].usuario.links]
    BY UpdateWrites
  <2>2. /\ new.email = copy.email /\ new.role = copy.role /\ new.senha = (copy.senha \/ old.senha)
        /\ new.links = IF copy.links = {} THEN old.links ELSE copy.links
    BY <1>1, <2>1 DEF Usuario
  <2> QED BY <1>1, <2>1, <2>2
<1>2. usuarios'[u] = new
  BY <1>0 DEF TypeOK, SessionsTypeOK
<1>3. /\ new.email = copy.email /\ new.role = copy.role /\ new.senha = (copy.senha \/ old.senha)
      /\ new.links = IF copy.links = {} THEN old.links ELSE copy.links
  BY <1>0
<1>4. calls[s].by \in {"profile", "roles", "link"} /\ At(s, "update")
  BY CallAt DEF StoreUpdate
<1>5. CopyIsCurrent(calls[s])
  BY <1>4 DEF UpdatesAreCurrent
<1>6. ASSUME copy = [old EXCEPT !.email = copy.email]
      PROVE  new = [old EXCEPT !.email = new.email]
  <2>1. copy.senha = old.senha /\ copy.role = old.role /\ copy.links = old.links
    BY <1>6 DEF Usuario
  <2>2. new.senha = old.senha
    BY <1>3, <2>1 DEF Usuario
  <2> QED BY <1>3, <2>1, <2>2 DEF Usuario
<1>7. ASSUME copy = [old EXCEPT !.role = copy.role]
      PROVE  new = [old EXCEPT !.role = new.role]
  <2>1. copy.senha = old.senha /\ copy.email = old.email /\ copy.links = old.links
    BY <1>7 DEF Usuario
  <2>2. new.senha = old.senha
    BY <1>3, <2>1 DEF Usuario
  <2> QED BY <1>3, <2>1, <2>2 DEF Usuario
<1>8. ASSUME copy = [old EXCEPT !.links = copy.links], old.links \subseteq copy.links
      PROVE  new = [old EXCEPT !.links = new.links] /\ old.links \subseteq new.links
  <2>1. copy.senha = old.senha /\ copy.email = old.email /\ copy.role = old.role
    BY <1>8 DEF Usuario
  <2>2. new.senha = old.senha
    BY <1>3, <2>1 DEF Usuario
  <2>3. new.links = copy.links \/ new.links = old.links
    BY <1>3
  <2> QED BY <1>3, <1>8, <2>1, <2>2, <2>3 DEF Usuario
<1>9. CASE calls[s].by = "profile"
  BY <1>1, <1>2, <1>5, <1>6, <1>9 DEF CopyIsCurrent
<1>10. CASE calls[s].by = "roles"
  BY <1>1, <1>2, <1>5, <1>7, <1>10 DEF CopyIsCurrent
<1>11. CASE calls[s].by = "link"
  BY <1>1, <1>2, <1>5, <1>8, <1>11 DEF CopyIsCurrent
<1> QED BY <1>4, <1>9, <1>10, <1>11

\* An account keeps being linked to a provider whatever copy is written over it, and an
\* update that none other overlapped changes nothing but the field it is for: no sign-in
\* takes a role, an address or a password with it.
THEOREM AccountsStayKept == Spec => AccountsAreKept
<1>1. SessionsInvariant /\ [Next]_vars
        => [\A u \in Users : Registered(u) /\ usuarios[u].links # {} => usuarios'[u].links # {}]_usuarios
  BY LinksStay
<1>2. ASSUME SessionsInvariant, [Next]_vars, NEW s \in Slots, At(s, "update"),
             calls[s].seen = updates[calls[s].user], calls'[s] # calls[s], usuarios' # usuarios
      PROVE  StoreUpdate(s)
  <2>1. PICK r \in Slots : (StoreUser(r) \/ StoreUpdate(r)) /\ \A t \in Slots : t # r => calls'[t] = calls[t]
    BY <1>2, UsuariosWrittenByStores DEF SessionsInvariant
  <2> QED BY <1>2, <2>1 DEF StoreUser, At
<1>3. SessionsInvariant /\ [Next]_vars =>
        [\A s \in Slots :
           LET c == calls[s] IN
           At(s, "update") /\ c.seen = updates[c.user] /\ calls'[s] # c /\ usuarios' # usuarios
             => LET old == usuarios[c.user]  new == usuarios'[c.user] IN
                CASE c.by = "profile" -> new = [old EXCEPT !.email = new.email]
                  [] c.by = "roles" -> new = [old EXCEPT !.role = new.role]
                  [] c.by = "link" -> new = [old EXCEPT !.links = new.links] /\ old.links \subseteq new.links
        ]_<<sessionVars, calls>>
  BY <1>2, AloneUpdateKeepsTheRest
<1> QED BY <1>1, <1>3, SessionsInvariantHolds, PTL
        DEF Spec, AccountsAreKept, AccountStaysLinked, AloneChangesItsField

=============================================================================
