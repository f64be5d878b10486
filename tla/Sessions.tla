------------------------------ MODULE Sessions ------------------------------
(***************************************************************************)
(* Accounts and refresh tokens: sign-up and sign-in with a password,       *)
(* Google or Apple, the exchange of refresh tokens, logout, and the        *)
(* updates of a profile and of its roles.  Access tokens are signed and    *)
(* kept nowhere: whoever was issued one may use it.                        *)
(***************************************************************************)
EXTENDS Handlers

CONSTANTS
  People,      \* one e-mail address, Google sub and Apple sub each
  Tokens,      \* refresh tokens; the jti keeps them distinct
  NewUser,     \* an account id not drawn yet
  NoToken      \* a token not issued yet, or issued from no other

VARIABLES
  usuarios,    \* account documents
  tokens,      \* refresh token documents
  updates,     \* updates made to each account document so far
  ended        \* tokens their owner had when a logout of his was answered

sessionVars == <<usuarios, tokens, updates, ended>>

Providers == {"google", "apple"}
Roles == {"USER", "ADMIN"}
Emails == People \cup {NoOne}       \* a provider may withhold the address
Usuario == [email: Emails, senha: BOOLEAN, role: Roles, links: SUBSET (Providers \X People)]
RefreshToken == [owner: Users, from: Tokens \cup {NoToken}, used: BOOLEAN, expired: BOOLEAN]

ASSUME SessionsAssumption == NewUser \notin Usuario /\ NoToken \notin Tokens \cup RefreshToken

SessionsInit ==
  /\ usuarios = [u \in Users |-> NewUser]
  /\ tokens = [t \in Tokens |-> NoToken]
  /\ updates = [u \in Users |-> 0]
  /\ ended = {}

SessionsTypeOK ==
  /\ usuarios \in [Users -> Usuario \cup {NewUser}]
  /\ tokens \in [Tokens -> RefreshToken \cup {NoToken}]
  /\ updates \in [Users -> Nat]
  /\ ended \subseteq Tokens

SessionsCall(op) ==
  CASE op = "byEmail" -> [op: {op}, link: Providers \X People, email: Emails]
    [] op = "saveUser" -> [op: {op}, usuario: Usuario]
    [] op = "update" -> [op: {op}, user: Users, usuario: Usuario, seen: Nat, by: {"profile", "roles", "link"}]
    [] op = "refresh" -> [op: {op}, token: Tokens]
    [] op = "issue" -> [op: {op}, user: Users, from: Tokens \cup {NoToken}]
    [] OTHER -> {}

Registered(u) == usuarios[u] # NewUser
Issued(t) == tokens[t] # NoToken

-----------------------------------------------------------------------------
(* Repository methods.  No unique index on the address is known here.      *)

FindByEmail(email) == {u \in Users : Registered(u) /\ usuarios[u].email = email}
FindByProviderID(link) == {u \in Users : Registered(u) /\ link \in usuarios[u].links}

SaveUsuario(u, usuario) == usuarios' = [usuarios EXCEPT ![u] = usuario]
\* $set of the fields of the caller's copy; what is empty in the copy is left alone.
UpdateUsuarioDocument(u, copy) ==
  usuarios' = [usuarios EXCEPT ![u] =
                 [copy EXCEPT !.senha = copy.senha \/ usuarios[u].senha,
                              !.links = IF copy.links = {} THEN usuarios[u].links ELSE copy.links]]

\* Mutant: the owner and the jti change places.
SaveTokenSwapped(t, u, from) ==
  tokens' = [tokens EXCEPT ![t] = [owner |-> t, from |-> from, used |-> FALSE, expired |-> FALSE]]
SaveToken(t, u, from) ==
  tokens' = [tokens EXCEPT ![t] = [owner |-> u, from |-> from, used |-> FALSE, expired |-> FALSE]]
\* usado_em is set whether or not it was set before.
RevokeToken(t) == tokens' = [tokens EXCEPT ![t].used = TRUE]
TokensOf(u) == {t \in Tokens : Issued(t) /\ tokens[t].owner = u}
RevokeAllForUser(u) ==
  tokens' = [t \in Tokens |-> IF t \in TokensOf(u) THEN [tokens[t] EXCEPT !.used = TRUE] ELSE tokens[t]]

-----------------------------------------------------------------------------
(* Middleware.                                                             *)

\* /api/auth/ and /api/v1/auth/ bypass JWTAuth.
publicPrefixes == {"auth"}
\* A request outside them needs an access token, issued together with a refresh token.
JWTAuth(u) == TokensOf(u) # {}
\* Only JWTAuth puts the user in the context.
UserIDFromContext(prefix, u) == IF prefix \notin publicPrefixes /\ JWTAuth(u) THEN u ELSE NoOne

-----------------------------------------------------------------------------
(* Use cases.                                                              *)

Issue(u, from) == [op |-> "issue", user |-> u, from |-> from]
NewAccount(email, senha, links) ==
  [op |-> "saveUser", usuario |-> [email |-> email, senha |-> senha, role |-> "USER", links |-> links]]

\* Several accounts of one address: any of them is found.
Login(s, p) ==
  /\ \E u \in FindByEmail(p) : usuarios[u].senha /\ Begin(s, Issue(u, NoToken))
  /\ UNCHANGED sessionVars
\* Any error of the look-up counts as no account found, an account there is included.
Register(s, p) ==
  /\ \E failed \in BOOLEAN : failed \/ FindByEmail(p) = {}
  /\ Begin(s, NewAccount(p, TRUE, {})) /\ UNCHANGED sessionVars
StoreUser(s) ==
  /\ At(s, "saveUser")
  /\ \E u \in Users : ~Registered(u) /\ SaveUsuario(u, calls[s].usuario) /\ Continue(s, Issue(u, NoToken))
  /\ UNCHANGED <<tokens, updates, ended>>

\* By provider id, then by address.  The second look-up is made without an address too, and
\* then finds an account whose address was withheld.
GoogleAuth(s, p, email) ==
  LET link == <<"google", p>> IN
  /\ \/ \E u \in FindByProviderID(link) : Begin(s, Issue(u, NoToken))
     \/ FindByProviderID(link) = {} /\ Begin(s, [op |-> "byEmail", link |-> link, email |-> email])
  /\ UNCHANGED sessionVars
\* Without an address the second lookup is left out.
AppleAuth(s, p, email) ==
  LET link == <<"apple", p>> IN
  /\ \/ \E u \in FindByProviderID(link) : Begin(s, Issue(u, NoToken))
     \/ /\ FindByProviderID(link) = {}
        /\ Begin(s, IF email = NoOne THEN NewAccount(NoOne, FALSE, {link})
                    ELSE [op |-> "byEmail", link |-> link, email |-> email])
  /\ UNCHANGED sessionVars

\* Mutant: the account is rebuilt from the provider's data.
LinkRebuilt(s) ==
  LET c == calls[s] IN
  /\ At(s, "byEmail")
  /\ \/ FindByEmail(c.email) = {} /\ Continue(s, NewAccount(c.email, FALSE, {c.link}))
     \/ \E u \in FindByEmail(c.email) :
          Continue(s, [op |-> "update", user |-> u, seen |-> updates[u], by |-> "link",
                       usuario |-> [usuarios[u] EXCEPT !.role = "USER", !.links = @ \cup {c.link}]])
  /\ UNCHANGED sessionVars
\* An account found by its address gets the link; otherwise there will be a new one.
LinkByEmail(s) ==
  LET c == calls[s] IN
  /\ At(s, "byEmail")
  /\ \/ FindByEmail(c.email) = {} /\ Continue(s, NewAccount(c.email, FALSE, {c.link}))
     \/ \E u \in FindByEmail(c.email) :
          Continue(s, IF c.link \in usuarios[u].links THEN Issue(u, NoToken)
                      ELSE [op |-> "update", user |-> u, seen |-> updates[u], by |-> "link",
                            usuario |-> [usuarios[u] EXCEPT !.links = @ \cup {c.link}]])
  /\ UNCHANGED sessionVars

\* The profile form: the address is the field another account may hold.
UpdateUsuario(s, u, email) ==
  /\ Registered(u)
  /\ Begin(s, [op |-> "update", user |-> u, seen |-> updates[u], by |-> "profile",
               usuario |-> [usuarios[u] EXCEPT !.email = email]])
  /\ UNCHANGED sessionVars
UpdateUserRole(s, u, role) ==
  /\ Registered(u)
  /\ Begin(s, [op |-> "update", user |-> u, seen |-> updates[u], by |-> "roles",
               usuario |-> [usuarios[u] EXCEPT !.role = role]])
  /\ UNCHANGED sessionVars
StoreUpdate(s) ==
  LET c == calls[s] IN
  /\ At(s, "update") /\ UpdateUsuarioDocument(c.user, c.usuario)
  /\ updates' = [updates EXCEPT ![c.user] = @ + 1]
  /\ Continue(s, IF c.by = "link" THEN Issue(c.user, NoToken) ELSE NoCall)
  /\ UNCHANGED <<tokens, ended>>

\* Mutant: the used mark is not looked at.
RefreshUsedToken(s, t) ==
  /\ Issued(t) /\ ~tokens[t].expired
  /\ Begin(s, [op |-> "refresh", token |-> t]) /\ UNCHANGED sessionVars
\* FindByToken and its checks, then Revoke, then the new pair.
RefreshTokenExecute(s, t) ==
  /\ Issued(t) /\ ~tokens[t].expired /\ ~tokens[t].used
  /\ Begin(s, [op |-> "refresh", token |-> t]) /\ UNCHANGED sessionVars
Revoke(s) ==
  LET t == calls[s].token IN
  /\ At(s, "refresh") /\ RevokeToken(t)
  /\ Continue(s, Issue(tokens[t].owner, t)) /\ UNCHANGED <<usuarios, updates, ended>>
issueTokens(s) ==
  /\ At(s, "issue")
  /\ \E t \in Tokens : ~Issued(t) /\ SaveToken(t, calls[s].user, calls[s].from)
  /\ Finish(s) /\ UNCHANGED <<usuarios, updates, ended>>

LogoutExecute(u) == RevokeAllForUser(u)

-----------------------------------------------------------------------------
(* Handlers.                                                               *)

AuthLogin(s) == \E p \in People : Login(s, p)
AuthRegister(s) == \E p \in People : Register(s, p)
AuthGoogle(s) == \E p \in People, email \in Emails : email \in {p, NoOne} /\ GoogleAuth(s, p, email)
AuthApple(s) == \E p \in People, email \in Emails : email \in {p, NoOne} /\ AppleAuth(s, p, email)
AuthRefresh(s) == \E t \in Tokens : RefreshTokenExecute(s, t)

\* 204 whether or not there is a user in the context; u is who holds the access token.
AuthLogout(s, u) ==
  /\ At(s, "none") /\ served < MaxRequests /\ JWTAuth(u)
  /\ IF UserIDFromContext("auth", u) = NoOne THEN UNCHANGED tokens ELSE LogoutExecute(u)
  /\ ended' = ended \cup TokensOf(u)
  /\ served' = served + 1 /\ UNCHANGED <<calls, usuarios, updates>>

UpdateMe(s, u) == UserIDFromContext("usuarios", u) = u /\ \E email \in People : UpdateUsuario(s, u, email)
UpdateByID(s, u) == JWTAuth(u) /\ \E v \in Users, email \in People : UpdateUsuario(s, v, email)
UpdateRole(s, u) == JWTAuth(u) /\ \E v \in Users, role \in Roles : UpdateUserRole(s, v, role)

\* Time passes.
IsExpired(t) ==
  /\ Issued(t) /\ ~tokens[t].expired
  /\ tokens' = [tokens EXCEPT ![t].expired = TRUE]
  /\ UNCHANGED <<handlerVars, usuarios, updates, ended>>

SessionsRequest(s) ==
  \/ AuthLogin(s) \/ AuthRegister(s) \/ AuthGoogle(s) \/ AuthApple(s) \/ AuthRefresh(s)
  \/ \E u \in Users : AuthLogout(s, u) \/ UpdateMe(s, u) \/ UpdateByID(s, u) \/ UpdateRole(s, u)
SessionsStep(s) == StoreUser(s) \/ LinkByEmail(s) \/ StoreUpdate(s) \/ Revoke(s) \/ issueTokens(s)
SessionsNext ==
  \/ \E s \in Slots : SessionsRequest(s) \/ SessionsStep(s)
  \/ \E t \in Tokens : IsExpired(t)

vars == <<handlerVars, sessionVars>>
Init == HandlersInit /\ SessionsInit
Next == SessionsNext \/ ((\E s \in Slots : Abort(s)) /\ UNCHANGED sessionVars)
Spec == Init /\ [][Next]_vars

TypeOK ==
  /\ SessionsTypeOK
  /\ served \in 0..MaxRequests
  /\ DOMAIN calls = Slots
  /\ \A s \in Slots : calls[s] \in SessionsCall(calls[s].op) \cup {NoCall}

-----------------------------------------------------------------------------

\* A refresh token is exchanged at most once by each handler, however often it is sent:
\* those that read it before the first revocation are the last that can exchange it.
ExchangesAreBounded ==
  \A t \in Tokens :
    Cardinality({c \in Tokens : Issued(c) /\ tokens[c].from = t}) <= Cardinality(Slots)

\* An account that signs in with a provider keeps some provider link, whatever copy of
\* the account is written over it: a copy made before the first link sets no links.
AccountStaysLinked ==
  [][\A u \in Users : Registered(u) /\ usuarios[u].links # {} => usuarios'[u].links # {}]_usuarios

\* An update that no other update of the account overlapped changes the field it is for
\* and nothing else: a sign-in adds its link and keeps role, address and password.
AloneChangesItsField ==
  [][\A s \in Slots :
       LET c == calls[s] IN
       At(s, "update") /\ c.seen = updates[c.user] /\ calls'[s] # c /\ usuarios' # usuarios
         => LET old == usuarios[c.user]  new == usuarios'[c.user] IN
            CASE c.by = "profile" -> new = [old EXCEPT !.email = new.email]
              [] c.by = "roles" -> new = [old EXCEPT !.role = new.role]
              [] c.by = "link" -> new = [old EXCEPT !.links = new.links] /\ old.links \subseteq new.links
    ]_<<sessionVars, calls>>

\* What an update of an account is not for survives it: all of it when no other update
\* overlapped, and at least the account's being linked when one did.
AccountsAreKept == AccountStaysLinked /\ AloneChangesItsField

\* port/in/auth.go: logout revokes all refresh tokens of the authenticated user.
LogoutEndsSessions == \A t \in ended : tokens[t].used

=============================================================================
