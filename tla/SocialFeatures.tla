--------------------------- MODULE SocialFeatures ---------------------------
(***************************************************************************)
(* The social features of one event: dress code, playlists, the list of    *)
(* things to bring, check-ins and photo albums, all in one document of     *)
(* evento_social_features.  Documents of two events share nothing.         *)
(***************************************************************************)
EXTENDS Membership

CONSTANTS
  Links,          \* ids drawn for playlists and albums
  Items, NoItem,  \* ids drawn for bring-list items
  Names,          \* what an item can be called
  MaxPlaylists, MaxAlbumLinks

ASSUME SocialAssumption ==
  /\ MaxPlaylists \in Nat \ {0} /\ MaxAlbumLinks \in Nat \ {0}
  /\ NoItem \notin [name: Names, claimedBy: Users \cup {NoOne}]

VARIABLE
  social          \* the document; exists is FALSE until something creates it

socialVars == <<social>>

BringListItem == [name: Names, claimedBy: Users \cup {NoOne}]
DressCodes == {"none", "CASUAL", "TEMATICO"}
Document == [exists: BOOLEAN, dressCode: DressCodes, playlists: SUBSET Links, albums: SUBSET Links,
             bringList: [Items -> BringListItem \cup {NoItem}],
             checkinEnabled: BOOLEAN, checkins: [Users -> Nat]]

Empty == [exists |-> FALSE, dressCode |-> "none", playlists |-> {}, albums |-> {},
          bringList |-> [i \in Items |-> NoItem],
          checkinEnabled |-> FALSE, checkins |-> [u \in Users |-> 0]]
SocialInit == social = Empty

SocialCall(op) ==
  CASE op \in {"setDressCode"} -> [op: {op}, user: {Organizer}, arg: DressCodes]
    [] op \in {"addPlaylist", "removePlaylist", "removeAlbumLink"} -> [op: {op}, user: {Organizer}, arg: Links]
    [] op = "addAlbumLink" -> [op: {op}, user: Users, arg: Links]
    [] op \in {"addItem", "updateItem"} -> [op: {op}, user: {Organizer}, arg: Items, name: Names]
    [] op = "removeItem" -> [op: {op}, user: {Organizer}, arg: Items]
    [] op \in {"claim", "unclaim"} -> [op: {op}, user: Users, arg: Items]
    [] op = "setCheckin" -> [op: {op}, user: {Organizer}, enabled: BOOLEAN]
    [] op = "checkin" -> [op: {op}, user: Users]
    [] OTHER -> {}

SocialTypeOK == social \in Document

-----------------------------------------------------------------------------
(* Repository methods.  One update of the document each.                   *)

Write(doc) == social' = [doc EXCEPT !.exists = TRUE]
WriteIfExists(doc) == social' = [doc EXCEPT !.exists = social.exists]

FindByEventoID == IF social.exists THEN {social} ELSE {}
\* Upsert of the empty document.
FindOrCreate == Write(social)
WriteDressCode(d) == Write([social EXCEPT !.dressCode = d])
PushPlaylist(l) == WriteIfExists([social EXCEPT !.playlists = @ \cup {l}])
PullPlaylist(l) == WriteIfExists([social EXCEPT !.playlists = @ \ {l}])
PushAlbumLink(l) == WriteIfExists([social EXCEPT !.albums = @ \cup {l}])
PullAlbumLink(l) == WriteIfExists([social EXCEPT !.albums = @ \ {l}])
PushItem(i, n) == WriteIfExists([social EXCEPT !.bringList[i] = [name |-> n, claimedBy |-> NoOne]])

Listed(i) == social.bringList[i] # NoItem

\* The positional update sets the fields of the description only.
SetItem(i, n) ==
  WriteIfExists([social EXCEPT !.bringList[i] = IF Listed(i) THEN [@ EXCEPT !.name = n] ELSE NoItem])
PullItem(i) == WriteIfExists([social EXCEPT !.bringList[i] = NoItem])

\* Mutant: the filter matches the id alone.
SetAnyClaim(i, u) ==
  WriteIfExists([social EXCEPT !.bringList[i] = IF Listed(i) THEN [@ EXCEPT !.claimedBy = u] ELSE NoItem])
\* The filter matches an unclaimed element: otherwise nothing is written (conflict).
SetClaim(i, u) ==
  WriteIfExists([social EXCEPT !.bringList[i] =
                   IF Listed(i) /\ @.claimedBy = NoOne THEN [@ EXCEPT !.claimedBy = u] ELSE @])
UnsetClaim(i) ==
  WriteIfExists([social EXCEPT !.bringList[i] = IF Listed(i) THEN [@ EXCEPT !.claimedBy = NoOne] ELSE NoItem])
WriteCheckinEnabled(b) == Write([social EXCEPT !.checkinEnabled = b])

\* The filter matches a document without a check-in of this user; the flag is not in it.
PushCheckin(u) == WriteIfExists([social EXCEPT !.checkins[u] = IF @ = 0 THEN 1 ELSE @])

-----------------------------------------------------------------------------
(* Use cases.  The first step is the checks, the second the write.         *)

\* Reading creates no document.
GetSocialFeatures(u) ==
  IF ~MayTakePart(u) THEN {} ELSE IF FindByEventoID = {} THEN {Empty} ELSE FindByEventoID

SetDressCode(s, u, d) ==
  MayOrganize(u) /\ FindOrCreate /\ Begin(s, [op |-> "setDressCode", user |-> u, arg |-> d])
RemoveDressCode(s, u) ==
  MayOrganize(u) /\ Begin(s, [op |-> "setDressCode", user |-> u, arg |-> "none"]) /\ UNCHANGED socialVars

\* Mutant: one more is let in.
AddPlaylistOffByOne(s, u, l) ==
  /\ MayOrganize(u) /\ Cardinality(social.playlists) <= MaxPlaylists
  /\ FindOrCreate /\ Begin(s, [op |-> "addPlaylist", user |-> u, arg |-> l])
\* The limit is checked on the document read; the push has no limit.
AddPlaylist(s, u, l) ==
  /\ MayOrganize(u) /\ Cardinality(social.playlists) < MaxPlaylists
  /\ FindOrCreate /\ Begin(s, [op |-> "addPlaylist", user |-> u, arg |-> l])
RemovePlaylist(s, u, l) ==
  MayOrganize(u) /\ Begin(s, [op |-> "removePlaylist", user |-> u, arg |-> l]) /\ UNCHANGED socialVars
AddAlbumLink(s, u, l) ==
  /\ MayTakePart(u) /\ Cardinality(social.albums) < MaxAlbumLinks
  /\ FindOrCreate /\ Begin(s, [op |-> "addAlbumLink", user |-> u, arg |-> l])
RemoveAlbumLink(s, u, l) ==
  MayOrganize(u) /\ Begin(s, [op |-> "removeAlbumLink", user |-> u, arg |-> l]) /\ UNCHANGED socialVars
AddBringListItem(s, u, i, n) ==
  MayOrganize(u) /\ FindOrCreate /\ Begin(s, [op |-> "addItem", user |-> u, arg |-> i, name |-> n])
UpdateBringListItem(s, u, i, n) ==
  MayOrganize(u) /\ Begin(s, [op |-> "updateItem", user |-> u, arg |-> i, name |-> n]) /\ UNCHANGED socialVars
RemoveBringListItem(s, u, i) ==
  MayOrganize(u) /\ Begin(s, [op |-> "removeItem", user |-> u, arg |-> i]) /\ UNCHANGED socialVars
ClaimBringListItem(s, u, i) ==
  MayTakePart(u) /\ Begin(s, [op |-> "claim", user |-> u, arg |-> i]) /\ UNCHANGED socialVars
\* Any participant may release any claim.
UnclaimBringListItem(s, u, i) ==
  MayTakePart(u) /\ Begin(s, [op |-> "unclaim", user |-> u, arg |-> i]) /\ UNCHANGED socialVars
SetCheckinHabilitado(s, u, b) ==
  MayOrganize(u) /\ Begin(s, [op |-> "setCheckin", user |-> u, enabled |-> b]) /\ UNCHANGED socialVars
DoCheckin(s, u) ==
  /\ MayTakePart(u) /\ social.exists /\ social.checkinEnabled
  /\ Begin(s, [op |-> "checkin", user |-> u]) /\ UNCHANGED socialVars

\* The write of each use case.
WriteOf(c) ==
  CASE c.op = "setDressCode" -> WriteDressCode(c.arg)
    [] c.op = "addPlaylist" -> PushPlaylist(c.arg)
    [] c.op = "removePlaylist" -> PullPlaylist(c.arg)
    [] c.op = "addAlbumLink" -> PushAlbumLink(c.arg)
    [] c.op = "removeAlbumLink" -> PullAlbumLink(c.arg)
    [] c.op = "addItem" -> PushItem(c.arg, c.name)
    [] c.op = "updateItem" -> SetItem(c.arg, c.name)
    [] c.op = "removeItem" -> PullItem(c.arg)
    [] c.op = "claim" -> SetClaim(c.arg, c.user)
    [] c.op = "unclaim" -> UnsetClaim(c.arg)
    [] c.op = "setCheckin" -> WriteCheckinEnabled(c.enabled)
    [] c.op = "checkin" -> PushCheckin(c.user)
    [] OTHER -> FALSE

-----------------------------------------------------------------------------
(* Handlers: which inputs they hand to the use cases.  A uuid is one that  *)
(* nothing holds yet.                                                      *)

InFlight(op) == {calls[s].arg : s \in {t \in Slots : At(t, op)}}
FreshLinks == Links \ (social.playlists \cup social.albums \cup InFlight("addPlaylist") \cup InFlight("addAlbumLink"))
FreshItems == {i \in Items : ~Listed(i)} \ InFlight("addItem")

setDressCode(s, u) == \E d \in DressCodes \ {"none"} : SetDressCode(s, u, d)
removeDressCode(s, u) == RemoveDressCode(s, u)
addPlaylist(s, u) == \E l \in FreshLinks : AddPlaylist(s, u, l)
removePlaylist(s, u) == \E l \in social.playlists : RemovePlaylist(s, u, l)
addAlbumLink(s, u) == \E l \in FreshLinks : AddAlbumLink(s, u, l)
removeAlbumLink(s, u) == \E l \in social.albums : RemoveAlbumLink(s, u, l)
addBringListItem(s, u) == \E i \in FreshItems, n \in Names : AddBringListItem(s, u, i, n)
updateBringListItem(s, u) == \E i \in Items, n \in Names : Listed(i) /\ UpdateBringListItem(s, u, i, n)
removeBringListItem(s, u) == \E i \in Items : Listed(i) /\ RemoveBringListItem(s, u, i)
claimBringListItem(s, u) == \E i \in Items : Listed(i) /\ ClaimBringListItem(s, u, i)
unclaimBringListItem(s, u) == \E i \in Items : Listed(i) /\ UnclaimBringListItem(s, u, i)
setCheckinHabilitado(s, u) == \E b \in BOOLEAN : SetCheckinHabilitado(s, u, b)
doCheckin(s, u) == DoCheckin(s, u)

-----------------------------------------------------------------------------

SocialRequest(s, u) ==
  \/ setDressCode(s, u) \/ removeDressCode(s, u) \/ addPlaylist(s, u) \/ removePlaylist(s, u)
  \/ addAlbumLink(s, u) \/ removeAlbumLink(s, u) \/ addBringListItem(s, u)
  \/ updateBringListItem(s, u) \/ removeBringListItem(s, u) \/ claimBringListItem(s, u)
  \/ unclaimBringListItem(s, u) \/ setCheckinHabilitado(s, u) \/ doCheckin(s, u)

SocialWrite(s) == WriteOf(calls[s]) /\ Finish(s)

SocialNext ==
  (\E s \in Slots : (\E u \in Users : SocialRequest(s, u)) \/ SocialWrite(s)) /\ UNCHANGED memberVars

-----------------------------------------------------------------------------

\* Nobody who may read the document sees a user checked in twice, although a check-in
\* that was answered twice or sent twice passes its first check twice: the filter of the
\* push decides.
CheckedInOnce ==
  \A u, reader \in Users : \A seen \in GetSocialFeatures(reader) : seen.checkins[u] <= 1

\* A claim ends only by the write of an unclaim or a removal of that item: no other
\* claim takes it over, and an edit that runs at the same time keeps it.
ClaimsEndOnRequest ==
  [][\A i \in Items :
       Listed(i) /\ social.bringList[i].claimedBy # NoOne
         => \/ Listed(i)' /\ social'.bringList[i].claimedBy = social.bringList[i].claimedBy
            \/ \E s \in Slots : calls[s].op \in {"unclaim", "removeItem"} /\ calls[s].arg = i
                                 /\ calls'[s] = NoCall]_<<socialVars, handlerVars>>

\* The limit of playlists is overrun by no more than the requests that were counted
\* against the same document: with n handlers there are at most n - 1 too many,
\* whatever is removed and added in between.
PlaylistsOverrunIsBounded ==
  Cardinality(social.playlists) + Cardinality({s \in Slots : At(s, "addPlaylist")})
    <= MaxPlaylists - 1 + Cardinality(Slots)

=============================================================================
