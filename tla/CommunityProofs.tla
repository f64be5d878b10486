---------------------------- MODULE CommunityProofs ----------------------------
(***************************************************************************)
(* Safety of Community for every number of guests, items, gifts, handlers  *)
(* and requests.  Each component has an invariant of its documents and of  *)
(* what its handlers have kept; a step of another component leaves both.   *)
(***************************************************************************)
EXTENDS Community, FoldFacts

SocialOps == {"setDressCode", "addPlaylist", "removePlaylist", "removeAlbumLink", "addAlbumLink", "addItem",
              "updateItem", "removeItem", "claim", "unclaim", "setCheckin", "checkin"}
GiftOps == {"addGift", "reserve", "removeGift"}
CofrinhoOps == {"confirm", "removeContribution"}

\* One handler moves to c.
Moves(s, c) == calls' = [calls EXCEPT ![s] = c]
\* The step of a component: at most one handler moves, to a step of it or to its end.
Works(ops) == UNCHANGED calls \/ \E s \in Slots : \E c : Moves(s, c) /\ (c = NoCall \/ c.op \in ops)
\* No handler enters a step of these operations.
Elsewhere(ops) == UNCHANGED calls \/ \E s \in Slots : \E c : Moves(s, c) /\ c.op \notin ops

LEMMA CallsAfter ==
  ASSUME DOMAIN calls = Slots, NEW s \in Slots, NEW c, Moves(s, c)
  PROVE  DOMAIN calls' = Slots /\ \A t \in Slots : calls'[t] = IF t = s THEN c ELSE calls[t]
BY DEF Moves

\* Who is at one of the operations was there before, with the same record.
LEMMA ElsewhereKeeps ==
  ASSUME DOMAIN calls = Slots, NEW ops, Elsewhere(ops)
  PROVE  /\ DOMAIN calls' = Slots
         /\ \A t \in Slots : calls'[t].op \in ops => calls'[t] = calls[t]
<1>1. CASE UNCHANGED calls
  BY <1>1
<1>2. ASSUME NEW s \in Slots, NEW c, Moves(s, c), c.op \notin ops
      PROVE  /\ DOMAIN calls' = Slots
             /\ \A t \in Slots : calls'[t].op \in ops => calls'[t] = calls[t]
  BY <1>2, CallsAfter
<1> QED BY <1>1, <1>2 DEF Elsewhere

LEMMA OperationsDiffer ==
  /\ NoCall.op = "none"
  /\ \A c : /\ c = NoCall \/ c.op \in SocialOps => c.op \notin GiftOps \cup CofrinhoOps
            /\ c = NoCall \/ c.op \in GiftOps => c.op \notin SocialOps \cup CofrinhoOps
            /\ c = NoCall \/ c.op \in CofrinhoOps => c.op \notin SocialOps \cup GiftOps
  /\ "none" \notin SocialOps \cup GiftOps \cup CofrinhoOps
BY DEF NoCall, SocialOps, GiftOps, CofrinhoOps

\* The three components stay out of each other's way.
LEMMA WorksElsewhere ==
  /\ Works(SocialOps) => Elsewhere(GiftOps) /\ Elsewhere(CofrinhoOps)
  /\ Works(GiftOps) => Elsewhere(SocialOps) /\ Elsewhere(CofrinhoOps)
  /\ Works(CofrinhoOps) => Elsewhere(SocialOps) /\ Elsewhere(GiftOps)
  /\ Works({}) => Elsewhere(SocialOps) /\ Elsewhere(GiftOps) /\ Elsewhere(CofrinhoOps)
BY OperationsDiffer DEF Works, Elsewhere

\* What is counted of the requests.
LEMMA ServedNext ==
  ASSUME served \in 0..MaxRequests, served' = served \/ (served < MaxRequests /\ served' = served + 1)
  PROVE  served' \in 0..MaxRequests
BY HandlersAssumption

-----------------------------------------------------------------------------
(* Social features.                                                        *)

\* An item that is being added is not listed yet.
SocialCallOK(c) ==
  c.op \in SocialOps => c \in SocialCall(c.op) /\ (c.op = "addItem" => ~Listed(c.arg))

Adders == {s \in Slots : At(s, "addPlaylist")}

\* No two requests add the same item; the playlists and those who add one are bounded together.
SocialSound ==
  /\ SocialTypeOK
  /\ \A u \in Users : social.checkins[u] <= 1
  /\ IsFiniteSet(social.playlists)
  /\ Cardinality(social.playlists) + Cardinality(Adders) <= MaxPlaylists - 1 + Cardinality(Slots)
  /\ \A s \in Slots : SocialCallOK(calls[s])
  /\ \A s, t \in Slots : s # t /\ At(s, "addItem") /\ At(t, "addItem") => calls[s].arg # calls[t].arg

LEMMA SlotsAreFinite ==
  ASSUME NEW C \in SUBSET Slots
  PROVE  /\ IsFiniteSet(C) /\ Cardinality(C) \in Nat /\ Cardinality(Slots) \in Nat
         /\ Cardinality(C) <= Cardinality(Slots)
<1>1. IsFiniteSet(C) /\ Cardinality(C) <= Cardinality(Slots)
  BY HandlersAssumption, FS_Subset
<1> QED BY <1>1, HandlersAssumption, FS_CardinalityType

\* The bound holds while the playlists and those who add one become fewer,
LEMMA OverrunShrinks ==
  ASSUME NEW S, NEW T \in SUBSET S, NEW C \in SUBSET Slots, NEW D \in SUBSET C, IsFiniteSet(S),
         Cardinality(S) + Cardinality(C) <= MaxPlaylists - 1 + Cardinality(Slots)
  PROVE  IsFiniteSet(T) /\ Cardinality(T) + Cardinality(D) <= MaxPlaylists - 1 + Cardinality(Slots)
<1>1. IsFiniteSet(T) /\ Cardinality(T) <= Cardinality(S)
  BY FS_Subset
<1>2. Cardinality(D) <= Cardinality(C) /\ D \in SUBSET Slots
  BY SlotsAreFinite, FS_Subset
<1>3. /\ Cardinality(S) \in Nat /\ Cardinality(T) \in Nat /\ Cardinality(C) \in Nat
      /\ Cardinality(D) \in Nat /\ Cardinality(Slots) \in Nat /\ MaxPlaylists \in Nat
  BY <1>1, <1>2, SlotsAreFinite, FS_CardinalityType, SocialAssumption
<1> QED BY <1>1, <1>2, <1>3

\* when one of those who add one does,
LEMMA OverrunMoves ==
  ASSUME NEW S, NEW l, NEW T \in SUBSET (S \cup {l}), NEW C \in SUBSET Slots, NEW s \in C,
         NEW D \in SUBSET (C \ {s}), IsFiniteSet(S),
         Cardinality(S) + Cardinality(C) <= MaxPlaylists - 1 + Cardinality(Slots)
  PROVE  IsFiniteSet(T) /\ Cardinality(T) + Cardinality(D) <= MaxPlaylists - 1 + Cardinality(Slots)
<1>1. Cardinality(S) \in Nat
  BY FS_CardinalityType
<1>2. /\ IsFiniteSet(S \cup {l})
      /\ Cardinality(S \cup {l}) = IF l \in S THEN Cardinality(S) ELSE Cardinality(S) + 1
  BY FS_AddElement
<1>3. Cardinality(S \cup {l}) <= Cardinality(S) + 1
  BY <1>1, <1>2
<1>4. IsFiniteSet(T) /\ Cardinality(T) <= Cardinality(S \cup {l})
  BY <1>2, FS_Subset
<1>5. IsFiniteSet(C \ {s}) /\ Cardinality(C \ {s}) = Cardinality(C) - 1
  BY SlotsAreFinite, FS_RemoveElement
<1>6. Cardinality(D) <= Cardinality(C \ {s}) /\ D \in SUBSET Slots
  BY <1>5, FS_Subset
<1>7. /\ Cardinality(T) \in Nat /\ Cardinality(C) \in Nat /\ Cardinality(D) \in Nat
      /\ Cardinality(Slots) \in Nat /\ Cardinality(S \cup {l}) \in Nat /\ MaxPlaylists \in Nat
  BY <1>2, <1>4, <1>6, SlotsAreFinite, FS_CardinalityType, SocialAssumption
<1> QED BY <1>1, <1>3, <1>4, <1>5, <1>6, <1>7

\* and when one more starts to, below the limit.
LEMMA OverrunStarts ==
  ASSUME NEW S, IsFiniteSet(S), NEW D \in SUBSET Slots, Cardinality(S) < MaxPlaylists
  PROVE  Cardinality(S) + Cardinality(D) <= MaxPlaylists - 1 + Cardinality(Slots)
<1>1. Cardinality(S) \in Nat /\ MaxPlaylists \in Nat
  BY FS_CardinalityType, SocialAssumption
<1>2. Cardinality(D) \in Nat /\ Cardinality(Slots) \in Nat /\ Cardinality(D) <= Cardinality(Slots)
  BY SlotsAreFinite
<1> QED BY <1>1, <1>2

LEMMA SocialStays ==
  ASSUME SocialSound, DOMAIN calls = Slots, Elsewhere(SocialOps), UNCHANGED socialVars
  PROVE  SocialSound'
<1>0. UNCHANGED social
  BY DEF socialVars
<1>1. \A t \in Slots : calls'[t].op \in SocialOps => calls'[t] = calls[t]
  BY ElsewhereKeeps
<1>2. SocialTypeOK' /\ \A u \in Users : social'.checkins[u] <= 1
  BY <1>0 DEF SocialSound, SocialTypeOK
<1>3. /\ IsFiniteSet(social'.playlists)
      /\ Cardinality(social'.playlists) + Cardinality(Adders') <= MaxPlaylists - 1 + Cardinality(Slots)
  <2>1. Adders \in SUBSET Slots /\ Adders' \in SUBSET Adders
    BY <1>1 DEF Adders, At, SocialOps
  <2>2. PICK S, C, D : S = social.playlists /\ C = Adders /\ D = Adders'
    OBVIOUS
  <2>3. IsFiniteSet(S) /\ Cardinality(S) + Cardinality(C) <= MaxPlaylists - 1 + Cardinality(Slots)
    BY <2>2 DEF SocialSound
  <2>4. IsFiniteSet(S) /\ Cardinality(S) + Cardinality(D) <= MaxPlaylists - 1 + Cardinality(Slots)
    BY <2>1, <2>2, <2>3, OverrunShrinks
  <2> QED BY <1>0, <2>2, <2>4
<1>4. \A s \in Slots : SocialCallOK(calls[s])'
  <2> SUFFICES ASSUME NEW s \in Slots, calls'[s].op \in SocialOps PROVE SocialCallOK(calls[s])'
    BY DEF SocialCallOK
  <2>1. calls'[s] = calls[s] /\ SocialCallOK(calls[s])
    BY <1>1 DEF SocialSound
  <2> QED BY <1>0, <2>1 DEF SocialCallOK, SocialCall, Listed
<1>5. \A s, t \in Slots : s # t /\ At(s, "addItem")' /\ At(t, "addItem")' => calls'[s].arg # calls'[t].arg
  BY <1>1 DEF SocialSound, At, SocialOps
<1> QED BY <1>2, <1>3, <1>4, <1>5 DEF SocialSound

\* A handler begins: the document is what it was, or now exists.
LEMMA SocialBegins ==
  ASSUME SocialSound, DOMAIN calls = Slots, NEW s \in Slots, NEW c, Begin(s, c),
         c.op \in SocialOps, c \in SocialCall(c.op),
         c.op = "addItem" => ~Listed(c.arg) /\ c.arg \notin InFlight("addItem"),
         c.op = "addPlaylist" => Cardinality(social.playlists) < MaxPlaylists,
         UNCHANGED socialVars \/ FindOrCreate
  PROVE  SocialSound' /\ Works(SocialOps)
<1>0. Moves(s, c) /\ calls[s].op = "none"
  BY DEF Begin, Moves, At
<1>1. DOMAIN calls' = Slots /\ \A t \in Slots : calls'[t] = IF t = s THEN c ELSE calls[t]
  BY <1>0, CallsAfter
<1>2. /\ social' \in Document /\ social'.playlists = social.playlists
      /\ social'.checkins = social.checkins /\ social'.bringList = social.bringList
  <2>1. social \in Document
    BY DEF SocialSound, SocialTypeOK
  <2>2. CASE UNCHANGED socialVars
    BY <2>1, <2>2 DEF socialVars
  <2>3. CASE FindOrCreate
    BY <2>1, <2>3 DEF FindOrCreate, Write, Document
  <2> QED BY <2>2, <2>3
<1>3. /\ IsFiniteSet(social'.playlists)
      /\ Cardinality(social'.playlists) + Cardinality(Adders') <= MaxPlaylists - 1 + Cardinality(Slots)
  <2>1. Adders \in SUBSET Slots /\ Adders' \in SUBSET Slots
    BY DEF Adders
  <2>2. PICK S, C, D : S = social.playlists /\ C = Adders /\ D = Adders'
    OBVIOUS
  <2>3. IsFiniteSet(S) /\ Cardinality(S) + Cardinality(C) <= MaxPlaylists - 1 + Cardinality(Slots)
    BY <2>2 DEF SocialSound
  <2>4. CASE c.op = "addPlaylist"
    <3>1. Cardinality(S) + Cardinality(D) <= MaxPlaylists - 1 + Cardinality(Slots)
      BY <2>1, <2>2, <2>3, <2>4, OverrunStarts
    <3> QED BY <1>2, <2>2, <2>3, <3>1
  <2>5. CASE c.op # "addPlaylist"
    <3>1. D \in SUBSET C
      BY <1>1, <2>2, <2>5 DEF Adders, At
    <3>2. Cardinality(S) + Cardinality(D) <= MaxPlaylists - 1 + Cardinality(Slots)
      BY <2>1, <2>2, <2>3, <3>1, OverrunShrinks
    <3> QED BY <1>2, <2>2, <2>3, <3>2
  <2> QED BY <2>4, <2>5
<1>4. \A t \in Slots : SocialCallOK(calls[t])'
  <2> SUFFICES ASSUME NEW t \in Slots PROVE SocialCallOK(calls[t])'
    OBVIOUS
  <2>1. PICK d : d = calls'[t]
    OBVIOUS
  <2>2. SocialCallOK(d)
    BY <1>1, <2>1 DEF SocialCallOK, SocialSound
  <2>3. SocialCallOK(d)'
    BY <1>2, <2>2 DEF SocialCallOK, SocialCall, Listed
  <2> QED BY <2>1, <2>3
<1>5. \A t, w \in Slots : t # w /\ At(t, "addItem")' /\ At(w, "addItem")' => calls'[t].arg # calls'[w].arg
  <2>1. \A t \in Slots : At(t, "addItem") /\ c.op = "addItem" => calls[t].arg # c.arg
    BY DEF InFlight
  <2> QED BY <1>1, <2>1 DEF SocialSound, At
<1>6. SocialTypeOK' /\ \A u \in Users : social'.checkins[u] <= 1
  BY <1>2 DEF SocialSound, SocialTypeOK
<1> QED BY <1>0, <1>3, <1>4, <1>5, <1>6 DEF SocialSound, Works

LEMMA OrganizerBegins ==
  ASSUME NEW u \in Users, MayOrganize(u)
  PROVE  u = Organizer /\ u \in {Organizer}
BY DEF MayOrganize

LEMMA DraftedIsFresh ==
  ASSUME NEW i \in FreshItems
  PROVE  i \in Items /\ ~Listed(i) /\ i \notin InFlight("addItem")
BY DEF FreshItems

LEMMA SocialRequests ==
  ASSUME SocialSound, DOMAIN calls = Slots, NEW s \in Slots, NEW u \in Users, SocialRequest(s, u)
  PROVE  SocialSound' /\ Works(SocialOps) /\ (UNCHANGED socialVars \/ FindOrCreate)
<1>d. social \in Document
  BY DEF SocialSound, SocialTypeOK
<1>1. ASSUME NEW d \in DressCodes, SetDressCode(s, u, d) \/ (d = "none" /\ RemoveDressCode(s, u))
      PROVE  SocialSound' /\ Works(SocialOps) /\ (UNCHANGED socialVars \/ FindOrCreate)
  <2>1. PICK c : c = [op |-> "setDressCode", user |-> u, arg |-> d]
    OBVIOUS
  <2>2. c \in SocialCall(c.op) /\ c.op = "setDressCode" /\ c.op \in SocialOps
    BY <1>1, <2>1 DEF SocialCall, SocialOps, SetDressCode, RemoveDressCode, MayOrganize
  <2>3. Begin(s, c) /\ (UNCHANGED socialVars \/ FindOrCreate)
    BY <1>1, <2>1 DEF SetDressCode, RemoveDressCode
  <2> QED BY <2>2, <2>3, SocialBegins
<1>2. ASSUME NEW l \in FreshLinks, AddPlaylist(s, u, l)
      PROVE  SocialSound' /\ Works(SocialOps) /\ (UNCHANGED socialVars \/ FindOrCreate)
  <2>1. PICK c : c = [op |-> "addPlaylist", user |-> u, arg |-> l]
    OBVIOUS
  <2>2. c \in SocialCall(c.op) /\ c.op = "addPlaylist" /\ c.op \in SocialOps
    BY <1>2, <2>1 DEF SocialCall, SocialOps, AddPlaylist, MayOrganize, FreshLinks
  <2>3. Begin(s, c) /\ FindOrCreate /\ Cardinality(social.playlists) < MaxPlaylists
    BY <1>2, <2>1 DEF AddPlaylist
  <2> QED BY <2>2, <2>3, SocialBegins
<1>3. ASSUME NEW l \in Links, NEW op \in {"removePlaylist", "removeAlbumLink"}, MayOrganize(u),
             Begin(s, [op |-> op, user |-> u, arg |-> l]), UNCHANGED socialVars
      PROVE  SocialSound' /\ Works(SocialOps) /\ (UNCHANGED socialVars \/ FindOrCreate)
  <2>1. PICK c : c = [op |-> op, user |-> u, arg |-> l]
    OBVIOUS
  <2>2. c \in SocialCall(c.op) /\ c.op \in SocialOps /\ c.op # "addItem" /\ c.op # "addPlaylist"
    BY <1>3, <2>1 DEF SocialCall, SocialOps, MayOrganize
  <2> QED BY <1>3, <2>1, <2>2, SocialBegins
<1>4. ASSUME NEW l \in FreshLinks, AddAlbumLink(s, u, l)
      PROVE  SocialSound' /\ Works(SocialOps) /\ (UNCHANGED socialVars \/ FindOrCreate)
  <2>1. PICK c : c = [op |-> "addAlbumLink", user |-> u, arg |-> l]
    OBVIOUS
  <2>2. c \in SocialCall(c.op) /\ c.op = "addAlbumLink" /\ c.op \in SocialOps
    BY <1>4, <2>1 DEF SocialCall, SocialOps, FreshLinks
  <2>3. Begin(s, c) /\ FindOrCreate
    BY <1>4, <2>1 DEF AddAlbumLink
  <2> QED BY <2>2, <2>3, SocialBegins
<1>5. ASSUME NEW i \in FreshItems, NEW n \in Names, AddBringListItem(s, u, i, n)
      PROVE  SocialSound' /\ Works(SocialOps) /\ (UNCHANGED socialVars \/ FindOrCreate)
  <2>1. PICK c : c = [op |-> "addItem", user |-> u, arg |-> i, name |-> n]
    OBVIOUS
  <2>2. c \in SocialCall(c.op) /\ c.op = "addItem" /\ c.arg = i /\ c.op \in SocialOps
    BY <1>5, <2>1 DEF SocialCall, SocialOps, AddBringListItem, MayOrganize, FreshItems
  <2>3. Begin(s, c) /\ FindOrCreate
    BY <1>5, <2>1 DEF AddBringListItem
  <2> QED BY <2>2, <2>3, DraftedIsFresh, SocialBegins
<1>6. ASSUME NEW i \in Items, NEW n \in Names, UpdateBringListItem(s, u, i, n)
      PROVE  SocialSound' /\ Works(SocialOps) /\ (UNCHANGED socialVars \/ FindOrCreate)
  <2>1. PICK c : c = [op |-> "updateItem", user |-> u, arg |-> i, name |-> n]
    OBVIOUS
  <2>2. c \in SocialCall(c.op) /\ c.op = "updateItem" /\ c.op \in SocialOps
    BY <1>6, <2>1 DEF SocialCall, SocialOps, UpdateBringListItem, MayOrganize
  <2>3. Begin(s, c) /\ UNCHANGED socialVars
    BY <1>6, <2>1 DEF UpdateBringListItem
  <2> QED BY <2>2, <2>3, SocialBegins
<1>7. ASSUME NEW i \in Items, NEW op \in {"removeItem", "claim", "unclaim"}, op = "removeItem" => MayOrganize(u),
             Begin(s, [op |-> op, user |-> u, arg |-> i]), UNCHANGED socialVars
      PROVE  SocialSound' /\ Works(SocialOps) /\ (UNCHANGED socialVars \/ FindOrCreate)
  <2>1. PICK c : c = [op |-> op, user |-> u, arg |-> i]
    OBVIOUS
  <2>2. c \in SocialCall(c.op) /\ c.op \in SocialOps /\ c.op # "addItem" /\ c.op # "addPlaylist"
    BY <1>7, <2>1 DEF SocialCall, SocialOps, MayOrganize
  <2> QED BY <1>7, <2>1, <2>2, SocialBegins
<1>8. ASSUME NEW b \in BOOLEAN, SetCheckinHabilitado(s, u, b)
      PROVE  SocialSound' /\ Works(SocialOps) /\ (UNCHANGED socialVars \/ FindOrCreate)
  <2>1. PICK c : c = [op |-> "setCheckin", user |-> u, enabled |-> b]
    OBVIOUS
  <2>2. c \in SocialCall(c.op) /\ c.op = "setCheckin" /\ c.op \in SocialOps
    BY <1>8, <2>1 DEF SocialCall, SocialOps, SetCheckinHabilitado, MayOrganize
  <2>3. Begin(s, c) /\ UNCHANGED socialVars
    BY <1>8, <2>1 DEF SetCheckinHabilitado
  <2> QED BY <2>2, <2>3, SocialBegins
<1>9. ASSUME DoCheckin(s, u)
      PROVE  SocialSound' /\ Works(SocialOps) /\ (UNCHANGED socialVars \/ FindOrCreate)
  <2>1. PICK c : c = [op |-> "checkin", user |-> u]
    OBVIOUS
  <2>2. c \in SocialCall(c.op) /\ c.op = "checkin" /\ c.op \in SocialOps
    BY <2>1 DEF SocialCall, SocialOps
  <2>3. Begin(s, c) /\ UNCHANGED socialVars
    BY <1>9, <2>1 DEF DoCheckin
  <2> QED BY <2>2, <2>3, SocialBegins
<1>10. social.playlists \subseteq Links /\ social.albums \subseteq Links
  BY <1>d DEF Document
<1>11. CASE setDressCode(s, u) \/ removeDressCode(s, u)
  BY <1>1, <1>11 DEF setDressCode, removeDressCode, DressCodes
<1>12. CASE addPlaylist(s, u) \/ addAlbumLink(s, u)
  BY <1>2, <1>4, <1>12 DEF addPlaylist, addAlbumLink
<1>13. CASE removePlaylist(s, u) \/ removeAlbumLink(s, u)
  BY <1>3, <1>10, <1>13 DEF removePlaylist, removeAlbumLink, RemovePlaylist, RemoveAlbumLink
<1>14. CASE addBringListItem(s, u) \/ updateBringListItem(s, u)
  BY <1>5, <1>6, <1>14 DEF addBringListItem, updateBringListItem
<1>15. CASE removeBringListItem(s, u) \/ claimBringListItem(s, u) \/ unclaimBringListItem(s, u)
  BY <1>7, <1>15 DEF removeBringListItem, claimBringListItem, unclaimBringListItem, RemoveBringListItem,
                     ClaimBringListItem, UnclaimBringListItem
<1>16. CASE setCheckinHabilitado(s, u) \/ doCheckin(s, u)
  BY <1>8, <1>9, <1>16 DEF setCheckinHabilitado, doCheckin
<1> QED BY <1>11, <1>12, <1>13, <1>14, <1>15, <1>16 DEF SocialRequest

LEMMA Written ==
  ASSUME SocialTypeOK, NEW doc \in Document, Write(doc) \/ WriteIfExists(doc)
  PROVE  /\ social' \in Document /\ social'.playlists = doc.playlists
         /\ social'.checkins = doc.checkins /\ social'.bringList = doc.bringList
BY DEF SocialTypeOK, Document, Write, WriteIfExists

\* What the write of a handler may do to an item.
ItemMoves(c, i) ==
  \/ social'.bringList[i] = social.bringList[i]
  \/ c.op = "addItem" /\ c.arg = i /\ Listed(i)'
  \/ /\ Listed(i) /\ Listed(i)'
     /\ social.bringList[i].claimedBy \in {NoOne, social'.bringList[i].claimedBy}
  \/ c.op \in {"unclaim", "removeItem"} /\ c.arg = i /\ (Listed(i)' => Listed(i))

\* What the write of a handler may do.
DocumentMoves(c) ==
  /\ social' \in Document
  /\ social'.playlists \subseteq social.playlists \cup {l \in {c.arg} : c.op = "addPlaylist"}
  /\ \A u \in Users : social'.checkins[u] \in {social.checkins[u], 1}
  /\ \A i \in Items : ItemMoves(c, i)

\* The write of one element of the bring list.
LEMMA ItemWritten ==
  ASSUME SocialTypeOK, NEW i \in Items, NEW item \in BringListItem \cup {NoItem},
         WriteIfExists([social EXCEPT !.bringList[i] = item])
  PROVE  /\ social' \in Document /\ social'.playlists = social.playlists /\ social'.checkins = social.checkins
         /\ \A j \in Items : social'.bringList[j] = IF j = i THEN item ELSE social.bringList[j]
<1>1. social \in Document
  BY DEF SocialTypeOK
<1>2. PICK list : list = [social.bringList EXCEPT ![i] = item]
  OBVIOUS
<1>3. social.bringList \in [Items -> BringListItem \cup {NoItem}]
  BY <1>1 DEF Document
<1>4. /\ list \in [Items -> BringListItem \cup {NoItem}]
      /\ \A j \in Items : list[j] = IF j = i THEN item ELSE social.bringList[j]
  BY <1>2, <1>3
<1>5. PICK doc : doc = [social EXCEPT !.bringList = list]
  OBVIOUS
<1>6. /\ doc \in Document /\ doc.playlists = social.playlists /\ doc.checkins = social.checkins
      /\ doc.bringList = list
  BY <1>1, <1>4, <1>5 DEF Document
<1>7. doc = [social EXCEPT !.bringList[i] = item]
  BY <1>1, <1>2, <1>5 DEF Document
<1>8. WriteIfExists(doc)
  BY <1>7
<1> QED BY <1>4, <1>6, <1>8, Written

LEMMA SocialWriteMoves ==
  ASSUME SocialTypeOK, NEW c, c.op \in SocialOps, c \in SocialCall(c.op), WriteOf(c)
  PROVE  DocumentMoves(c)
<1>0. social \in Document
  BY DEF SocialTypeOK
<1>l. \A i \in Items : social.bringList[i] \in BringListItem \cup {NoItem}
  BY <1>0 DEF Document
<1>n. NoItem \notin BringListItem
  BY SocialAssumption DEF BringListItem
<1>1. ASSUME NEW doc \in Document, Write(doc) \/ WriteIfExists(doc), doc.bringList = social.bringList,
             doc.playlists \subseteq social.playlists \cup {l \in {c.arg} : c.op = "addPlaylist"},
             \A u \in Users : doc.checkins[u] \in {social.checkins[u], 1}
      PROVE  DocumentMoves(c)
  <2>1. /\ social' \in Document /\ social'.playlists = doc.playlists
        /\ social'.checkins = doc.checkins /\ social'.bringList = doc.bringList
    BY <1>1, Written
  <2> QED BY <1>1, <2>1 DEF DocumentMoves, ItemMoves
<1>2. ASSUME NEW i \in Items, NEW item \in BringListItem \cup {NoItem},
             WriteIfExists([social EXCEPT !.bringList[i] = item]),
             \/ item = social.bringList[i]
             \/ c.op = "addItem" /\ c.arg = i /\ item # NoItem
             \/ Listed(i) /\ item # NoItem /\ social.bringList[i].claimedBy \in {NoOne, item.claimedBy}
             \/ c.op \in {"unclaim", "removeItem"} /\ c.arg = i /\ (item # NoItem => Listed(i))
      PROVE  DocumentMoves(c)
  <2>1. /\ social' \in Document /\ social'.playlists = social.playlists /\ social'.checkins = social.checkins
        /\ \A j \in Items : social'.bringList[j] = IF j = i THEN item ELSE social.bringList[j]
    BY <1>2, ItemWritten
  <2>2. ASSUME NEW j \in Items PROVE ItemMoves(c, j)
    <3>1. CASE j = i
      <4>1. social'.bringList[j] = item
        BY <2>1, <3>1
      <4> QED BY <1>2, <3>1, <4>1 DEF ItemMoves, Listed
    <3>2. CASE j # i
      BY <2>1, <3>2 DEF ItemMoves
    <3> QED BY <3>1, <3>2
  <2> QED BY <2>1, <2>2 DEF DocumentMoves
<1>3. CASE c.op = "setDressCode"
  <2>1. PICK doc : doc = [social EXCEPT !.dressCode = c.arg]
    OBVIOUS
  <2>2. c.arg \in DressCodes /\ Write(doc)
    BY <1>3, <2>1 DEF SocialCall, WriteOf, WriteDressCode
  <2>3. /\ doc \in Document /\ doc.bringList = social.bringList /\ doc.playlists = social.playlists
        /\ doc.checkins = social.checkins
    BY <1>0, <2>1, <2>2 DEF Document
  <2> QED BY <1>1, <2>2, <2>3
<1>4. CASE c.op \in {"addPlaylist", "removePlaylist"}
  <2>1. PICK S : S = IF c.op = "addPlaylist" THEN social.playlists \cup {c.arg} ELSE social.playlists \ {c.arg}
    OBVIOUS
  <2>2. PICK doc : doc = [social EXCEPT !.playlists = S]
    OBVIOUS
  <2>3. c.arg \in Links /\ WriteIfExists(doc)
    BY <1>4, <2>1, <2>2 DEF SocialCall, WriteOf, PushPlaylist, PullPlaylist
  <2>4. S \in SUBSET Links /\ S \subseteq social.playlists \cup {l \in {c.arg} : c.op = "addPlaylist"}
    BY <1>0, <2>1, <2>3 DEF Document
  <2>5. /\ doc \in Document /\ doc.bringList = social.bringList /\ doc.playlists = S
        /\ doc.checkins = social.checkins
    BY <1>0, <2>2, <2>4 DEF Document
  <2> QED BY <1>1, <2>3, <2>4, <2>5
<1>5. CASE c.op \in {"addAlbumLink", "removeAlbumLink"}
  <2>1. PICK S : S = IF c.op = "addAlbumLink" THEN social.albums \cup {c.arg} ELSE social.albums \ {c.arg}
    OBVIOUS
  <2>2. PICK doc : doc = [social EXCEPT !.albums = S]
    OBVIOUS
  <2>3. c.arg \in Links /\ WriteIfExists(doc)
    BY <1>5, <2>1, <2>2 DEF SocialCall, WriteOf, PushAlbumLink, PullAlbumLink
  <2>4. S \in SUBSET Links
    BY <1>0, <2>1, <2>3 DEF Document
  <2>5. /\ doc \in Document /\ doc.bringList = social.bringList /\ doc.playlists = social.playlists
        /\ doc.checkins = social.checkins
    BY <1>0, <2>2, <2>4 DEF Document
  <2> QED BY <1>1, <2>3, <2>5
<1>6. CASE c.op = "addItem"
  <2>1. PICK item : item = [name |-> c.name, claimedBy |-> NoOne]
    OBVIOUS
  <2>2. c.arg \in Items /\ c.name \in Names
    BY <1>6 DEF SocialCall
  <2>3. item \in BringListItem
    BY <2>1, <2>2 DEF BringListItem
  <2>4. WriteIfExists([social EXCEPT !.bringList[c.arg] = item])
    BY <1>6, <2>1 DEF WriteOf, PushItem
  <2> QED BY <1>2, <1>6, <1>n, <2>2, <2>3, <2>4
<1>7. CASE c.op = "updateItem"
  <2>1. c.arg \in Items /\ c.name \in Names
    BY <1>7 DEF SocialCall
  <2>2. PICK item : item = IF Listed(c.arg) THEN [social.bringList[c.arg] EXCEPT !.name = c.name] ELSE NoItem
    OBVIOUS
  <2>3. CASE Listed(c.arg)
    <3>1. social.bringList[c.arg] \in BringListItem
      BY <1>l, <2>1, <2>3 DEF Listed
    <3>2. item \in BringListItem /\ item.claimedBy = social.bringList[c.arg].claimedBy
      BY <2>1, <2>2, <2>3, <3>1 DEF BringListItem
    <3>3. WriteIfExists([social EXCEPT !.bringList[c.arg] = item])
      BY <1>7, <2>2 DEF WriteOf, SetItem
    <3> QED BY <1>2, <1>n, <2>1, <2>3, <3>2, <3>3
  <2>4. CASE ~Listed(c.arg)
    <3>1. item = NoItem /\ social.bringList[c.arg] = NoItem
      BY <2>2, <2>4 DEF Listed
    <3>2. WriteIfExists([social EXCEPT !.bringList[c.arg] = item])
      BY <1>7, <2>2 DEF WriteOf, SetItem
    <3> QED BY <1>2, <2>1, <3>1, <3>2
  <2> QED BY <2>3, <2>4
<1>8. CASE c.op = "removeItem"
  <2>1. c.arg \in Items
    BY <1>8 DEF SocialCall
  <2>2. WriteIfExists([social EXCEPT !.bringList[c.arg] = NoItem])
    BY <1>8 DEF WriteOf, PullItem
  <2> QED BY <1>2, <1>8, <2>1, <2>2
<1>9. CASE c.op = "claim"
  <2>1. c.arg \in Items /\ c.user \in Users
    BY <1>9 DEF SocialCall
  <2>2. PICK item : item = IF Listed(c.arg) /\ social.bringList[c.arg].claimedBy = NoOne
                             THEN [social.bringList[c.arg] EXCEPT !.claimedBy = c.user] ELSE social.bringList[c.arg]
    OBVIOUS
  <2>3. WriteIfExists([social EXCEPT !.bringList[c.arg] = item])
    BY <1>9, <2>2 DEF WriteOf, SetClaim
  <2>4. CASE Listed(c.arg) /\ social.bringList[c.arg].claimedBy = NoOne
    <3>1. social.bringList[c.arg] \in BringListItem
      BY <1>l, <2>1, <2>4 DEF Listed
    <3>2. item \in BringListItem
      BY <2>1, <2>2, <2>4, <3>1 DEF BringListItem
    <3> QED BY <1>2, <1>n, <2>1, <2>3, <2>4, <3>2
  <2>5. CASE ~(Listed(c.arg) /\ social.bringList[c.arg].claimedBy = NoOne)
    <3>1. item = social.bringList[c.arg]
      BY <2>2, <2>5
    <3> QED BY <1>2, <1>l, <2>1, <2>3, <3>1
  <2> QED BY <2>4, <2>5
<1>10. CASE c.op = "unclaim"
  <2>1. c.arg \in Items
    BY <1>10 DEF SocialCall
  <2>2. PICK item : item = IF Listed(c.arg) THEN [social.bringList[c.arg] EXCEPT !.claimedBy = NoOne] ELSE NoItem
    OBVIOUS
  <2>3. WriteIfExists([social EXCEPT !.bringList[c.arg] = item])
    BY <1>10, <2>2 DEF WriteOf, UnsetClaim
  <2>4. item \in BringListItem \cup {NoItem} /\ (item # NoItem => Listed(c.arg))
    BY <1>l, <2>1, <2>2 DEF Listed, BringListItem
  <2> QED BY <1>2, <1>10, <2>1, <2>3, <2>4
<1>11. CASE c.op = "setCheckin"
  <2>1. PICK doc : doc = [social EXCEPT !.checkinEnabled = c.enabled]
    OBVIOUS
  <2>2. c.enabled \in BOOLEAN /\ Write(doc)
    BY <1>11, <2>1 DEF SocialCall, WriteOf, WriteCheckinEnabled
  <2>3. /\ doc \in Document /\ doc.bringList = social.bringList /\ doc.playlists = social.playlists
        /\ doc.checkins = social.checkins
    BY <1>0, <2>1, <2>2 DEF Document
  <2> QED BY <1>1, <2>2, <2>3
<1>12. CASE c.op = "checkin"
  <2>1. PICK n : n = IF social.checkins[c.user] = 0 THEN 1 ELSE social.checkins[c.user]
    OBVIOUS
  <2>2. c.user \in Users /\ social.checkins \in [Users -> Nat]
    BY <1>0, <1>12 DEF SocialCall, Document
  <2>3. PICK counts : counts = [social.checkins EXCEPT ![c.user] = n]
    OBVIOUS
  <2>4. /\ counts \in [Users -> Nat] /\ \A u \in Users : counts[u] \in {social.checkins[u], 1}
    BY <2>1, <2>2, <2>3
  <2>5. PICK doc : doc = [social EXCEPT !.checkins = counts]
    OBVIOUS
  <2>6. WriteIfExists(doc)
    BY <1>0, <1>12, <2>1, <2>3, <2>5 DEF WriteOf, PushCheckin, Document
  <2>7. /\ doc \in Document /\ doc.bringList = social.bringList /\ doc.playlists = social.playlists
        /\ doc.checkins = counts
    BY <1>0, <2>4, <2>5 DEF Document
  <2> QED BY <1>1, <2>4, <2>6, <2>7
<1> QED BY <1>3, <1>4, <1>5, <1>6, <1>7, <1>8, <1>9, <1>10, <1>11, <1>12 DEF SocialOps

LEMMA SocialWrites ==
  ASSUME SocialSound, DOMAIN calls = Slots, NEW s \in Slots, SocialWrite(s)
  PROVE  SocialSound' /\ Works(SocialOps) /\ DocumentMoves(calls[s])
<1> PICK c : c = calls[s]
  OBVIOUS
<1>0. SocialTypeOK /\ WriteOf(c) /\ Moves(s, NoCall) /\ SocialCallOK(c)
  BY DEF SocialSound, SocialWrite, Finish, Continue, Moves
<1>1. c.op \in SocialOps
  BY <1>0 DEF WriteOf, SocialOps
<1>2. c \in SocialCall(c.op)
  BY <1>0, <1>1 DEF SocialCallOK
<1>3. DocumentMoves(c)
  BY <1>0, <1>1, <1>2, SocialWriteMoves
<1>4. DOMAIN calls' = Slots /\ \A t \in Slots : calls'[t] = IF t = s THEN NoCall ELSE calls[t]
  BY <1>0, CallsAfter
<1>5. NoCall.op = "none" /\ "none" \notin SocialOps
  BY OperationsDiffer
<1>6. SocialTypeOK' /\ \A u \in Users : social'.checkins[u] <= 1
  BY <1>3 DEF DocumentMoves, SocialSound, SocialTypeOK
<1>7. /\ IsFiniteSet(social'.playlists)
      /\ Cardinality(social'.playlists) + Cardinality(Adders') <= MaxPlaylists - 1 + Cardinality(Slots)
  <2>1. PICK S, T, C, D : S = social.playlists /\ T = social'.playlists /\ C = Adders /\ D = Adders'
    OBVIOUS
  <2>2. /\ IsFiniteSet(S) /\ Cardinality(S) + Cardinality(C) <= MaxPlaylists - 1 + Cardinality(Slots)
        /\ C \in SUBSET Slots /\ D \in SUBSET (C \ {s})
    BY <1>4, <1>5, <2>1 DEF SocialSound, Adders, At
  <2>3. CASE c.op = "addPlaylist"
    <3>1. s \in C
      BY <2>1, <2>3 DEF Adders, At
    <3>2. T \in SUBSET (S \cup {c.arg})
      BY <1>3, <2>1 DEF DocumentMoves
    <3>3. IsFiniteSet(T) /\ Cardinality(T) + Cardinality(D) <= MaxPlaylists - 1 + Cardinality(Slots)
      BY <2>2, <3>1, <3>2, OverrunMoves
    <3> QED BY <2>1, <3>3
  <2>4. CASE c.op # "addPlaylist"
    <3>1. T \in SUBSET S
      BY <1>3, <2>1, <2>4 DEF DocumentMoves
    <3>2. D \in SUBSET C
      BY <2>2
    <3>3. IsFiniteSet(T) /\ Cardinality(T) + Cardinality(D) <= MaxPlaylists - 1 + Cardinality(Slots)
      BY <2>2, <3>1, <3>2, OverrunShrinks
    <3> QED BY <2>1, <3>3
  <2> QED BY <2>3, <2>4
<1>8. \A t \in Slots : SocialCallOK(calls[t])'
  <2> SUFFICES ASSUME NEW t \in Slots, calls'[t].op \in SocialOps PROVE SocialCallOK(calls[t])'
    BY DEF SocialCallOK
  <2>1. t # s /\ calls'[t] = calls[t]
    BY <1>4, <1>5
  <2>2. calls[t] \in SocialCall(calls[t].op) /\ (calls[t].op = "addItem" => ~Listed(calls[t].arg))
    BY <2>1 DEF SocialSound, SocialCallOK
  <2>3. ASSUME calls[t].op = "addItem" PROVE ~Listed(calls[t].arg)'
    <3>1. PICK i \in Items : i = calls[t].arg
      BY <2>2, <2>3 DEF SocialCall
    <3>2. ~Listed(i) /\ ItemMoves(c, i)
      BY <1>3, <2>2, <2>3, <3>1 DEF DocumentMoves
    <3>3. ~(c.op = "addItem" /\ c.arg = i)
      BY <2>1, <2>3, <3>1 DEF SocialSound, At
    <3>4. ~Listed(i)'
      BY <3>2, <3>3 DEF ItemMoves, Listed
    <3> QED BY <2>1, <3>1, <3>4
  <2>4. PICK d : d = calls[t]
    OBVIOUS
  <2>5. d \in SocialCall(d.op)' /\ (d.op = "addItem" => ~Listed(d.arg)')
    BY <2>1, <2>2, <2>3, <2>4 DEF SocialCall
  <2>6. SocialCallOK(d)'
    BY <2>5 DEF SocialCallOK, SocialCall
  <2> QED BY <2>1, <2>4, <2>6
<1>9. \A t, w \in Slots : t # w /\ At(t, "addItem")' /\ At(w, "addItem")' => calls'[t].arg # calls'[w].arg
  BY <1>4, <1>5 DEF SocialSound, At
<1>10. Works(SocialOps)
  BY <1>0 DEF Works
<1> QED BY <1>3, <1>6, <1>7, <1>8, <1>9, <1>10 DEF SocialSound

LEMMA SocialNextKeeps ==
  ASSUME SocialSound, DOMAIN calls = Slots, SocialNext, served \in 0..MaxRequests
  PROVE  SocialSound' /\ Works(SocialOps) /\ served' \in 0..MaxRequests
<1>1. served' = served \/ (served < MaxRequests /\ served' = served + 1)
  <2>1. ASSUME NEW s \in Slots, NEW c, Begin(s, c) PROVE served < MaxRequests /\ served' = served + 1
    BY <2>1 DEF Begin
  <2>2. ASSUME NEW s \in Slots, NEW u \in Users, SocialRequest(s, u) PROVE \E c : Begin(s, c)
    <3>1. CASE setDressCode(s, u) \/ removeDressCode(s, u) \/ setCheckinHabilitado(s, u) \/ doCheckin(s, u)
      BY <3>1 DEF setDressCode, removeDressCode, setCheckinHabilitado, doCheckin, SetDressCode, RemoveDressCode,
                  SetCheckinHabilitado, DoCheckin
    <3>2. CASE addPlaylist(s, u) \/ removePlaylist(s, u) \/ addAlbumLink(s, u) \/ removeAlbumLink(s, u)
      BY <3>2 DEF addPlaylist, removePlaylist, addAlbumLink, removeAlbumLink, AddPlaylist, RemovePlaylist,
                  AddAlbumLink, RemoveAlbumLink
    <3>3. CASE addBringListItem(s, u) \/ updateBringListItem(s, u) \/ removeBringListItem(s, u)
      BY <3>3 DEF addBringListItem, updateBringListItem, removeBringListItem, AddBringListItem,
                  UpdateBringListItem, RemoveBringListItem
    <3>4. CASE claimBringListItem(s, u) \/ unclaimBringListItem(s, u)
      BY <3>4 DEF claimBringListItem, unclaimBringListItem, ClaimBringListItem, UnclaimBringListItem
    <3> QED BY <2>2, <3>1, <3>2, <3>3, <3>4 DEF SocialRequest
  <2>3. ASSUME NEW s \in Slots, SocialWrite(s) PROVE served' = served
    BY <2>3 DEF SocialWrite, Finish, Continue
  <2> QED BY <2>1, <2>2, <2>3 DEF SocialNext
<1>2. SocialSound' /\ Works(SocialOps)
  BY SocialRequests, SocialWrites DEF SocialNext
<1> QED BY <1>1, <1>2, ServedNext

LEMMA LimitsHold ==
  ASSUME SocialSound
  PROVE  SocialLimitsHold
<1>1. ASSUME NEW u \in Users, NEW reader \in Users, NEW seen \in GetSocialFeatures(reader)
      PROVE  seen.checkins[u] <= 1
  <2>1. seen = Empty \/ seen = social
    BY <1>1 DEF GetSocialFeatures, FindByEventoID
  <2>2. Empty.checkins[u] = 0
    BY DEF Empty
  <2> QED BY <2>1, <2>2 DEF SocialSound
<1>2. PlaylistsOverrunIsBounded
  BY DEF SocialSound, PlaylistsOverrunIsBounded, Adders
<1> QED BY <1>1, <1>2 DEF SocialLimitsHold, CheckedInOnce

\* A claim ends by the write of a handler that unclaims or removes the item.
LEMMA ClaimsEnd ==
  ASSUME SocialSound, DOMAIN calls = Slots, SocialNext, NEW i \in Items,
         Listed(i), social.bringList[i].claimedBy # NoOne,
         ~(Listed(i)' /\ social'.bringList[i].claimedBy = social.bringList[i].claimedBy)
  PROVE  \E s \in Slots : calls[s].op \in {"unclaim", "removeItem"} /\ calls[s].arg = i /\ calls'[s] = NoCall
<1>1. ASSUME NEW s \in Slots, NEW u \in Users, SocialRequest(s, u) PROVE FALSE
  <2>1. UNCHANGED socialVars \/ FindOrCreate
    BY <1>1, SocialRequests
  <2>2. social'.bringList = social.bringList
    BY <2>1 DEF socialVars, FindOrCreate, Write, SocialSound, SocialTypeOK, Document
  <2> QED BY <2>2 DEF Listed
<1>2. PICK s \in Slots : SocialWrite(s)
  BY <1>1 DEF SocialNext
<1>3. DocumentMoves(calls[s]) /\ SocialCallOK(calls[s])
  BY <1>2, SocialWrites DEF SocialSound
<1>4. ItemMoves(calls[s], i)
  BY <1>3 DEF DocumentMoves
<1>5. ~(calls[s].op = "addItem" /\ calls[s].arg = i)
  BY <1>3 DEF SocialCallOK, SocialOps
<1>6. calls[s].op \in {"unclaim", "removeItem"} /\ calls[s].arg = i
  BY <1>4, <1>5 DEF ItemMoves, Listed
<1>7. calls'[s] = NoCall
  BY <1>2 DEF SocialWrite, Finish, Continue
<1> QED BY <1>6, <1>7

-----------------------------------------------------------------------------
(* Gift list.                                                              *)

\* n reservations of a gift that is wanted in a quantity, with the status they give it.
Honest(n, status, quantidade) == n <= quantidade /\ (status = "RESERVADO") = (n >= quantidade)

\* A gift is added under an id never used; a reservation holds a count for the gift's
\* quantity, which is not higher than what guests will have been told.
GiftCallOK(c) ==
  c.op \in GiftOps =>
    /\ c \in GiftCall(c.op)
    /\ c.op = "addGift" => gifts[c.gift] = NewGift
    /\ c.op # "addGift" => gifts[c.gift] # NewGift
    /\ c.op = "reserve" /\ InList(c.gift) =>
         Honest(c.reservado, c.status, gifts[c.gift].quantidade) /\ c.reservado <= granted[c.gift] + 1

GiftSound ==
  /\ GiftTypeOK
  /\ \A g \in Gifts : InList(g) =>
       Honest(gifts[g].reservado, gifts[g].status, gifts[g].quantidade) /\ gifts[g].reservado <= granted[g]
  /\ \A s \in Slots : GiftCallOK(calls[s])
  /\ \A s, t \in Slots : s # t /\ At(s, "addGift") /\ At(t, "addGift") => calls[s].gift # calls[t].gift

\* An id is used once, the quantity of a gift does not change, and what guests were told stands.
GiftMoves(g) ==
  /\ gifts[g] # NewGift =>
       gifts'[g] # NewGift /\ (InList(g)' => InList(g) /\ gifts'[g].quantidade = gifts[g].quantidade)
  /\ granted'[g] >= granted[g]

LEMMA GiftStays ==
  ASSUME GiftSound, DOMAIN calls = Slots, Elsewhere(GiftOps), UNCHANGED giftVars
  PROVE  GiftSound'
<1>0. UNCHANGED gifts /\ UNCHANGED granted
  BY DEF giftVars
<1>1. \A t \in Slots : calls'[t].op \in GiftOps => calls'[t] = calls[t]
  BY ElsewhereKeeps
<1>2. /\ GiftTypeOK'
      /\ \A g \in Gifts : InList(g)' =>
           /\ Honest(gifts'[g].reservado, gifts'[g].status, gifts'[g].quantidade)
           /\ gifts'[g].reservado <= granted'[g]
  BY <1>0 DEF GiftSound, GiftTypeOK, InList
<1>3. \A s \in Slots : GiftCallOK(calls[s])'
  <2> SUFFICES ASSUME NEW s \in Slots, calls'[s].op \in GiftOps PROVE GiftCallOK(calls[s])'
    BY DEF GiftCallOK
  <2>1. PICK d : d = calls[s]
    OBVIOUS
  <2>2. calls'[s] = d /\ GiftCallOK(d)
    BY <1>1, <2>1 DEF GiftSound
  <2>3. GiftCallOK(d)'
    BY <1>0, <2>2 DEF GiftCallOK, GiftCall, InList, Honest
  <2> QED BY <2>2, <2>3
<1>4. \A s, t \in Slots : s # t /\ At(s, "addGift")' /\ At(t, "addGift")' => calls'[s].gift # calls'[t].gift
  BY <1>1 DEF GiftSound, At, GiftOps
<1> QED BY <1>2, <1>3, <1>4 DEF GiftSound, Honest

LEMMA GiftBegins ==
  ASSUME GiftSound, DOMAIN calls = Slots, NEW s \in Slots, NEW c, Begin(s, c), c.op \in GiftOps, GiftCallOK(c),
         c.op = "addGift" => ~\E t \in Slots : At(t, "addGift") /\ calls[t].gift = c.gift,
         UNCHANGED giftVars
  PROVE  GiftSound' /\ Works(GiftOps)
<1>0. Moves(s, c) /\ UNCHANGED gifts /\ UNCHANGED granted
  BY DEF Begin, Moves, giftVars
<1>1. DOMAIN calls' = Slots /\ \A t \in Slots : calls'[t] = IF t = s THEN c ELSE calls[t]
  BY <1>0, CallsAfter
<1>2. /\ GiftTypeOK'
      /\ \A g \in Gifts : InList(g)' =>
           /\ Honest(gifts'[g].reservado, gifts'[g].status, gifts'[g].quantidade)
           /\ gifts'[g].reservado <= granted'[g]
  BY <1>0 DEF GiftSound, GiftTypeOK, InList
<1>3. \A t \in Slots : GiftCallOK(calls[t])'
  <2> SUFFICES ASSUME NEW t \in Slots PROVE GiftCallOK(calls[t])'
    OBVIOUS
  <2>1. PICK d : d = calls'[t]
    OBVIOUS
  <2>2. GiftCallOK(d)
    BY <1>1, <2>1 DEF GiftSound
  <2>3. GiftCallOK(d)'
    BY <1>0, <2>2 DEF GiftCallOK, GiftCall, InList, Honest
  <2> QED BY <2>1, <2>3
<1>4. \A t, w \in Slots : t # w /\ At(t, "addGift")' /\ At(w, "addGift")' => calls'[t].gift # calls'[w].gift
  BY <1>1 DEF GiftSound, At
<1> QED BY <1>0, <1>2, <1>3, <1>4 DEF GiftSound, Honest, Works

LEMMA GiftRequests ==
  ASSUME GiftSound, DOMAIN calls = Slots, NEW s \in Slots, NEW u \in Users, GiftRequest(s, u)
  PROVE  GiftSound' /\ Works(GiftOps)
<1>0. gifts \in [Gifts -> Gift \cup {NewGift, Removed}] /\ granted \in [Gifts -> Nat]
  BY DEF GiftSound, GiftTypeOK
<1>1. ASSUME NEW g \in Gifts, NEW q \in 1..MaxQuantity, AddItem(s, u, g, q) PROVE GiftSound' /\ Works(GiftOps)
  <2>1. PICK c : c = [op |-> "addGift", user |-> u, gift |-> g, quantidade |-> q]
    OBVIOUS
  <2>2. c \in GiftCall(c.op) /\ c.op = "addGift" /\ c.gift = g /\ c.op \in GiftOps
    BY <1>1, <2>1 DEF GiftCall, GiftOps, AddItem
  <2>3. GiftCallOK(c)
    BY <1>1, <2>2 DEF GiftCallOK, AddItem
  <2>4. Begin(s, c) /\ UNCHANGED giftVars /\ ~\E t \in Slots : At(t, "addGift") /\ calls[t].gift = c.gift
    BY <1>1, <2>1, <2>2 DEF AddItem
  <2> QED BY <2>2, <2>3, <2>4, GiftBegins
<1>2. ASSUME NEW g \in Gifts, ReservarItem(s, u, g) PROVE GiftSound' /\ Works(GiftOps)
  <2>0. InList(g) /\ gifts[g] \in Gift /\ gifts[g].reservado < gifts[g].quantidade
    BY <1>0, <1>2 DEF ReservarItem, InList, CanReserve
  <2>1. PICK n, q : n = gifts[g].reservado + 1 /\ q = gifts[g].quantidade
    OBVIOUS
  <2>2. n \in Nat /\ q \in Nat /\ n <= q /\ n <= granted[g] + 1
    <3>1. gifts[g].reservado <= granted[g]
      BY <2>0 DEF GiftSound
    <3>2. gifts[g].reservado \in Nat /\ gifts[g].quantidade \in Nat /\ granted[g] \in Nat
      BY <1>0, <2>0, GiftAssumption DEF Gift
    <3> QED BY <2>0, <2>1, <3>1, <3>2
  <2>3. PICK status : status = IF n >= q THEN "RESERVADO" ELSE "DISPONIVEL"
    OBVIOUS
  <2>4. status \in {"DISPONIVEL", "RESERVADO"} /\ Honest(n, status, q)
    BY <2>2, <2>3 DEF Honest
  <2>5. PICK c : c = [op |-> "reserve", user |-> u, gift |-> g, reservado |-> n, status |-> status]
    OBVIOUS
  <2>6. /\ c \in GiftCall(c.op) /\ c.op = "reserve" /\ c.gift = g /\ c.reservado = n /\ c.status = status
        /\ c.op \in GiftOps
    BY <2>2, <2>4, <2>5 DEF GiftCall, GiftOps
  <2>7. GiftCallOK(c)
    BY <2>0, <2>1, <2>2, <2>4, <2>6 DEF GiftCallOK, InList
  <2>8. Begin(s, c) /\ UNCHANGED giftVars
    BY <1>2, <2>1, <2>3, <2>5 DEF ReservarItem
  <2> QED BY <2>6, <2>7, <2>8, GiftBegins
<1>3. ASSUME NEW g \in Gifts, RemoveItem(s, u, g) PROVE GiftSound' /\ Works(GiftOps)
  <2>1. PICK c : c = [op |-> "removeGift", user |-> u, gift |-> g]
    OBVIOUS
  <2>2. c \in GiftCall(c.op) /\ c.op = "removeGift" /\ c.gift = g /\ c.op \in GiftOps
    BY <1>3, <2>1 DEF GiftCall, GiftOps, RemoveItem
  <2>3. GiftCallOK(c)
    BY <1>3, <2>2 DEF GiftCallOK, RemoveItem, InList
  <2>4. Begin(s, c) /\ UNCHANGED giftVars
    BY <1>3, <2>1 DEF RemoveItem
  <2> QED BY <2>2, <2>3, <2>4, GiftBegins
<1> QED BY <1>1, <1>2, <1>3 DEF GiftRequest, addItem, reservarItem, removeItem

\* The write of a handler, which ends: one gift changes.
LEMMA GiftEnds ==
  ASSUME GiftSound, DOMAIN calls = Slots, NEW s \in Slots, Finish(s), GiftTypeOK',
         NEW g \in Gifts, \A h \in Gifts : h # g => gifts'[h] = gifts[h] /\ granted'[h] = granted[h],
         InList(g)' => /\ Honest(gifts'[g].reservado, gifts'[g].status, gifts'[g].quantidade)
                       /\ gifts'[g].reservado <= granted'[g],
         GiftMoves(g),
         gifts[g] = NewGift /\ gifts'[g] # NewGift => At(s, "addGift") /\ calls[s].gift = g
  PROVE  GiftSound' /\ Works(GiftOps)
<1>0. Moves(s, NoCall)
  BY DEF Finish, Continue, Moves
<1>1. DOMAIN calls' = Slots /\ \A t \in Slots : calls'[t] = IF t = s THEN NoCall ELSE calls[t]
  BY <1>0, CallsAfter
<1>2. NoCall.op = "none" /\ "none" \notin GiftOps
  BY OperationsDiffer
<1>3. gifts \in [Gifts -> Gift \cup {NewGift, Removed}] /\ granted \in [Gifts -> Nat] /\ granted' \in [Gifts -> Nat]
  BY DEF GiftSound, GiftTypeOK
<1>4. \A h \in Gifts : GiftMoves(h)
  BY <1>3 DEF GiftMoves, InList
<1>5. ASSUME NEW t \in Slots, t # s, calls[t].op \in GiftOps
      PROVE  LET c == calls[t] IN
             /\ c.op = "addGift" => gifts'[c.gift] = NewGift
             /\ c.op # "addGift" => gifts'[c.gift] # NewGift
             /\ c.op = "reserve" /\ gifts'[c.gift] \notin {NewGift, Removed} =>
                  Honest(c.reservado, c.status, gifts'[c.gift].quantidade) /\ c.reservado <= granted'[c.gift] + 1
  <2>1. PICK c : c = calls[t]
    OBVIOUS
  <2>2. GiftCallOK(c) /\ c \in GiftCall(c.op) /\ c.op \in GiftOps
    BY <1>5, <2>1 DEF GiftSound, GiftCallOK
  <2>3. PICK h \in Gifts : h = c.gift
    BY <2>2 DEF GiftCall, GiftOps
  <2>4. ASSUME c.op = "addGift" PROVE gifts'[h] = NewGift
    <3>1. gifts[h] = NewGift
      BY <2>2, <2>3, <2>4 DEF GiftCallOK
    <3>2. CASE h = g
      <4>1. ~(At(s, "addGift") /\ calls[s].gift = g)
        BY <1>5, <2>1, <2>3, <2>4, <3>2 DEF GiftSound, At
      <4> QED BY <3>1, <3>2, <4>1
    <3> QED BY <3>1, <3>2
  <2>5. ASSUME c.op # "addGift" PROVE gifts'[h] # NewGift
    BY <1>4, <2>2, <2>3, <2>5 DEF GiftCallOK, GiftMoves
  <2>6. ASSUME c.op = "reserve", gifts'[h] \notin {NewGift, Removed}
        PROVE  Honest(c.reservado, c.status, gifts'[h].quantidade) /\ c.reservado <= granted'[h] + 1
    <3>1. gifts[h] # NewGift
      BY <2>2, <2>3, <2>6 DEF GiftCallOK
    <3>2. InList(h) /\ gifts'[h].quantidade = gifts[h].quantidade /\ granted'[h] >= granted[h]
      BY <1>4, <2>6, <3>1 DEF GiftMoves, InList
    <3>3. Honest(c.reservado, c.status, gifts[h].quantidade) /\ c.reservado <= granted[h] + 1
      BY <2>2, <2>3, <2>6, <3>2 DEF GiftCallOK
    <3>4. granted[h] \in Nat /\ granted'[h] \in Nat /\ c.reservado \in Nat
      BY <1>3, <2>2, <2>6 DEF GiftCall
    <3> QED BY <3>2, <3>3, <3>4
  <2> QED BY <2>1, <2>3, <2>4, <2>5, <2>6
<1>6. \A t \in Slots : GiftCallOK(calls[t])'
  <2> SUFFICES ASSUME NEW t \in Slots, calls'[t].op \in GiftOps PROVE GiftCallOK(calls[t])'
    BY DEF GiftCallOK
  <2>1. t # s /\ calls'[t] = calls[t]
    BY <1>1, <1>2
  <2>2. PICK d : d = calls[t]
    OBVIOUS
  <2>3. d \in GiftCall(d.op)
    BY <2>1, <2>2 DEF GiftSound, GiftCallOK
  <2>4. GiftCallOK(d)'
    BY <1>5, <2>1, <2>2, <2>3 DEF GiftCallOK, GiftCall, InList, Honest
  <2> QED BY <2>1, <2>2, <2>4
<1>7. \A t, w \in Slots : t # w /\ At(t, "addGift")' /\ At(w, "addGift")' => calls'[t].gift # calls'[w].gift
  BY <1>1, <1>2 DEF GiftSound, At
<1>8. \A h \in Gifts : InList(h)' =>
        /\ Honest(gifts'[h].reservado, gifts'[h].status, gifts'[h].quantidade)
        /\ gifts'[h].reservado <= granted'[h]
  BY DEF GiftSound, InList
<1>9. Works(GiftOps)
  BY <1>0 DEF Works
<1> QED BY <1>6, <1>7, <1>8, <1>9 DEF GiftSound, Honest

LEMMA GiftWrites ==
  ASSUME GiftSound, DOMAIN calls = Slots, NEW s \in Slots, GiftWrite(s)
  PROVE  GiftSound' /\ Works(GiftOps)
<1>0. /\ gifts \in [Gifts -> Gift \cup {NewGift, Removed}] /\ granted \in [Gifts -> Nat]
      /\ NewGift # Removed /\ NewGift \notin Gift /\ Removed \notin Gift
  BY GiftAssumption DEF GiftSound, GiftTypeOK, Gift
<1>1. PICK c : c = calls[s]
  OBVIOUS
<1>2. GiftCallOK(c) /\ Finish(s)
  BY <1>1 DEF GiftSound, GiftWrite, StoreItem, StoreReservation, DeleteItem
<1>3. CASE StoreItem(s)
  <2>1. c.op = "addGift" /\ c \in GiftCall(c.op) /\ gifts[c.gift] = NewGift
    BY <1>1, <1>2, <1>3 DEF StoreItem, At, GiftCallOK, GiftOps
  <2>2. PICK g \in Gifts, q \in 1..MaxQuantity : g = c.gift /\ q = c.quantidade
    BY <2>1 DEF GiftCall
  <2>3. PICK new : new = [quantidade |-> q, reservado |-> 0, status |-> "DISPONIVEL"]
    OBVIOUS
  <2>4. new \in Gift /\ Honest(new.reservado, new.status, new.quantidade) /\ new.reservado = 0
    BY <2>2, <2>3, GiftAssumption DEF Gift, Honest
  <2>5. gifts' = [gifts EXCEPT ![g] = new] /\ UNCHANGED granted
    BY <1>1, <1>3, <2>2, <2>3 DEF StoreItem, SaveGift
  <2>6. gifts' \in [Gifts -> Gift \cup {NewGift, Removed}] /\ gifts'[g] = new
    BY <1>0, <2>4, <2>5
  <2>7. GiftTypeOK'
    BY <1>0, <2>5, <2>6 DEF GiftTypeOK
  <2>8. GiftMoves(g)
    BY <1>0, <2>1, <2>2, <2>5 DEF GiftMoves
  <2>9. granted'[g] \in Nat
    BY <1>0, <2>5
  <2>10. \A h \in Gifts : h # g => gifts'[h] = gifts[h] /\ granted'[h] = granted[h]
    BY <1>0, <2>5
  <2>11. Honest(gifts'[g].reservado, gifts'[g].status, gifts'[g].quantidade) /\ gifts'[g].reservado <= granted'[g]
    BY <2>4, <2>6, <2>9
  <2>12. At(s, "addGift") /\ calls[s].gift = g
    BY <1>1, <2>1, <2>2 DEF At
  <2> QED BY <1>2, <2>7, <2>8, <2>10, <2>11, <2>12, GiftEnds
<1>4. CASE StoreReservation(s)
  <2>1. c.op = "reserve" /\ c \in GiftCall(c.op) /\ gifts[c.gift] # NewGift
    BY <1>1, <1>2, <1>4 DEF StoreReservation, At, GiftCallOK, GiftOps
  <2>2. PICK g \in Gifts : g = c.gift
    BY <2>1 DEF GiftCall
  <2>3. CASE InList(g)
    <3>1. gifts[g] \in Gift
      BY <1>0, <2>3 DEF InList
    <3>2. PICK new : new = [gifts[g] EXCEPT !.status = c.status, !.reservado = c.reservado]
      OBVIOUS
    <3>3. /\ new \in Gift /\ new.quantidade = gifts[g].quantidade /\ new.status = c.status
          /\ new.reservado = c.reservado /\ c.reservado \in Nat
      BY <2>1, <3>1, <3>2 DEF Gift, GiftCall
    <3>4. gifts' = [gifts EXCEPT ![g] = new]
      BY <1>1, <1>4, <2>2, <2>3, <3>2 DEF StoreReservation, UpdateStatus
    <3>5. granted' = [granted EXCEPT ![g] = granted[g] + 1]
      BY <1>0, <1>1, <1>4, <2>2, <2>3 DEF StoreReservation
    <3>6. /\ gifts' \in [Gifts -> Gift \cup {NewGift, Removed}] /\ gifts'[g] = new
          /\ granted' \in [Gifts -> Nat] /\ granted'[g] = granted[g] + 1 /\ granted[g] \in Nat
          /\ \A h \in Gifts : h # g => gifts'[h] = gifts[h] /\ granted'[h] = granted[h]
      BY <1>0, <3>3, <3>4, <3>5
    <3>7. GiftTypeOK' /\ GiftMoves(g)
      BY <1>0, <2>3, <3>3, <3>6 DEF GiftTypeOK, GiftMoves, InList
    <3>8. Honest(c.reservado, c.status, gifts[g].quantidade) /\ c.reservado <= granted[g] + 1
      BY <1>2, <2>1, <2>2, <2>3 DEF GiftCallOK, GiftOps
    <3>9. Honest(gifts'[g].reservado, gifts'[g].status, gifts'[g].quantidade) /\ gifts'[g].reservado <= granted'[g]
      BY <3>3, <3>6, <3>8
    <3> QED BY <1>2, <2>1, <2>2, <3>6, <3>7, <3>9, GiftEnds
  <2>4. CASE ~InList(g)
    <3>1. UNCHANGED gifts /\ UNCHANGED granted
      BY <1>1, <1>4, <2>2, <2>4 DEF StoreReservation, giftVars
    <3>2. GiftTypeOK' /\ GiftMoves(g) /\ ~InList(g)'
      BY <1>0, <2>4, <3>1 DEF GiftTypeOK, GiftMoves, InList
    <3> QED BY <1>2, <3>1, <3>2, GiftEnds
  <2> QED BY <2>3, <2>4
<1>5. CASE DeleteItem(s)
  <2>1. c.op = "removeGift" /\ c \in GiftCall(c.op) /\ gifts[c.gift] # NewGift
    BY <1>1, <1>2, <1>5 DEF DeleteItem, At, GiftCallOK, GiftOps
  <2>2. PICK g \in Gifts : g = c.gift
    BY <2>1 DEF GiftCall
  <2>3. gifts' = [gifts EXCEPT ![g] = Removed] /\ UNCHANGED granted
    BY <1>1, <1>5, <2>2 DEF DeleteItem, DeleteGift
  <2>4. /\ gifts' \in [Gifts -> Gift \cup {NewGift, Removed}] /\ gifts'[g] = Removed
        /\ \A h \in Gifts : h # g => gifts'[h] = gifts[h] /\ granted'[h] = granted[h]
    BY <1>0, <2>3
  <2>5. GiftTypeOK' /\ GiftMoves(g) /\ ~InList(g)'
    BY <1>0, <2>3, <2>4 DEF GiftTypeOK, GiftMoves, InList
  <2> QED BY <1>2, <2>1, <2>2, <2>4, <2>5, GiftEnds
<1> QED BY <1>3, <1>4, <1>5 DEF GiftWrite

LEMMA GiftNextKeeps ==
  ASSUME GiftSound, DOMAIN calls = Slots, GiftNext, served \in 0..MaxRequests
  PROVE  GiftSound' /\ Works(GiftOps) /\ served' \in 0..MaxRequests
<1>1. served' = served \/ (served < MaxRequests /\ served' = served + 1)
  <2>1. ASSUME NEW s \in Slots, NEW u \in Users, GiftRequest(s, u)
        PROVE  served < MaxRequests /\ served' = served + 1
    BY <2>1 DEF GiftRequest, addItem, reservarItem, removeItem, AddItem, ReservarItem, RemoveItem, Begin
  <2>2. ASSUME NEW s \in Slots, GiftWrite(s) PROVE served' = served
    BY <2>2 DEF GiftWrite, StoreItem, StoreReservation, DeleteItem, Finish, Continue
  <2> QED BY <2>1, <2>2 DEF GiftNext
<1>2. GiftSound' /\ Works(GiftOps)
  BY GiftRequests, GiftWrites DEF GiftNext
<1> QED BY <1>1, <1>2, ServedNext

LEMMA CountsAreHonest ==
  ASSUME GiftSound
  PROVE  CountIsHonest
<1> SUFFICES ASSUME NEW g \in Gifts, InList(g)
             PROVE  /\ gifts[g].reservado <= gifts[g].quantidade /\ gifts[g].reservado <= granted[g]
                    /\ (gifts[g].status = "RESERVADO") = ~(gifts[g].reservado < gifts[g].quantidade)
  BY DEF CountIsHonest, ListItems, FindGifts, CanReserve
<1>1. gifts[g] \in Gift
  BY DEF GiftSound, GiftTypeOK, InList
<1>2. gifts[g].reservado \in Nat /\ gifts[g].quantidade \in Nat
  BY <1>1, GiftAssumption DEF Gift
<1>3. Honest(gifts[g].reservado, gifts[g].status, gifts[g].quantidade) /\ gifts[g].reservado <= granted[g]
  BY DEF GiftSound
<1>4. (gifts[g].reservado >= gifts[g].quantidade) <=> ~(gifts[g].reservado < gifts[g].quantidade)
  BY <1>2
<1> QED BY <1>3, <1>4 DEF Honest

-----------------------------------------------------------------------------
(* Cofrinho.                                                               *)

CofrinhoCallOK(c) == c.op \in CofrinhoOps => c \in CofrinhoCall(c.op)
CofrinhoSound == CofrinhoTypeOK /\ \A s \in Slots : CofrinhoCallOK(calls[s])

Confirmed == {c \in Contributions : contributions[c] = "CONFIRMADO"}

\* The balance is kept, grows, or loses one contribution to a removal that saw it pending.
SaldoMoves ==
  \/ Saldo' >= Saldo
  \/ \E s \in Slots : /\ At(s, "removeContribution") /\ calls[s].seen = "PENDENTE"
                    /\ Saldo' = Saldo - Valor[calls[s].contribution]

LEMMA CofrinhoStays ==
  ASSUME CofrinhoSound, DOMAIN calls = Slots, Elsewhere(CofrinhoOps), UNCHANGED cofrinhoVars
  PROVE  CofrinhoSound'
<1>1. \A t \in Slots : calls'[t].op \in CofrinhoOps => calls'[t] = calls[t]
  BY ElsewhereKeeps
<1>2. CofrinhoTypeOK'
  BY DEF CofrinhoSound, CofrinhoTypeOK, cofrinhoVars
<1>3. \A s \in Slots : CofrinhoCallOK(calls[s])'
  <2> SUFFICES ASSUME NEW s \in Slots, calls'[s].op \in CofrinhoOps PROVE CofrinhoCallOK(calls[s])'
    BY DEF CofrinhoCallOK
  <2>1. PICK d : d = calls[s]
    OBVIOUS
  <2>2. calls'[s] = d /\ CofrinhoCallOK(d)
    BY <1>1, <2>1 DEF CofrinhoSound
  <2> QED BY <2>2 DEF CofrinhoCallOK, CofrinhoCall
<1> QED BY <1>2, <1>3 DEF CofrinhoSound

\* A handler begins or ends, or none does.
LEMMA CofrinhoMove ==
  ASSUME CofrinhoSound, DOMAIN calls = Slots, CofrinhoTypeOK',
         \/ UNCHANGED calls
         \/ \E s \in Slots : \E c : Moves(s, c) /\ (c = NoCall \/ (c.op \in CofrinhoOps /\ c \in CofrinhoCall(c.op)))
  PROVE  CofrinhoSound' /\ Works(CofrinhoOps)
<1>1. CASE UNCHANGED calls
  BY <1>1 DEF CofrinhoSound, CofrinhoCallOK, CofrinhoCall, Works
<1>2. ASSUME NEW s \in Slots, NEW c, Moves(s, c), c = NoCall \/ (c.op \in CofrinhoOps /\ c \in CofrinhoCall(c.op))
      PROVE  CofrinhoSound' /\ Works(CofrinhoOps)
  <2>1. DOMAIN calls' = Slots /\ \A t \in Slots : calls'[t] = IF t = s THEN c ELSE calls[t]
    BY <1>2, CallsAfter
  <2>2. CofrinhoCallOK(c)
    BY <1>2, OperationsDiffer DEF CofrinhoCallOK
  <2>3. ASSUME NEW t \in Slots PROVE CofrinhoCallOK(calls[t])'
    <3>1. PICK d : d = calls'[t]
      OBVIOUS
    <3>2. CofrinhoCallOK(d)
      BY <2>1, <2>2, <3>1 DEF CofrinhoSound
    <3> QED BY <3>1, <3>2 DEF CofrinhoCallOK, CofrinhoCall
  <2>4. Works(CofrinhoOps)
    BY <1>2 DEF Works
  <2> QED BY <2>3, <2>4 DEF CofrinhoSound
<1> QED BY <1>1, <1>2

LEMMA CofrinhoNextKeeps ==
  ASSUME CofrinhoSound, DOMAIN calls = Slots, CofrinhoNext, served \in 0..MaxRequests
  PROVE  CofrinhoSound' /\ Works(CofrinhoOps) /\ served' \in 0..MaxRequests
<1>0. contributions \in [Contributions -> CofrinhoStatus \cup {NewContribution, Gone}]
  BY DEF CofrinhoSound, CofrinhoTypeOK
<1>1. ASSUME NEW s \in Slots, NEW c \in Contributions, CreateContribuicao(s, c)
      PROVE  CofrinhoSound' /\ Works(CofrinhoOps) /\ served' \in 0..MaxRequests
  <2>1. contributions' = [contributions EXCEPT ![c] = "PENDENTE"]
    BY <1>1 DEF CreateContribuicao, SaveContribuicao
  <2>2. CofrinhoTypeOK'
    BY <1>0, <2>1 DEF CofrinhoTypeOK, CofrinhoStatus
  <2>3. UNCHANGED calls /\ served' \in 0..MaxRequests
    BY <1>1, ServedNext DEF CreateContribuicao
  <2> QED BY <2>2, <2>3, CofrinhoMove
<1>2. ASSUME NEW s \in Slots, NEW u \in Users, NEW c \in Contributions, ConfirmarContribuicao(s, u, c)
      PROVE  CofrinhoSound' /\ Works(CofrinhoOps) /\ served' \in 0..MaxRequests
  <2>1. PICK d : d = [op |-> "confirm", user |-> u, contribution |-> c]
    OBVIOUS
  <2>2. d.op \in CofrinhoOps /\ d \in CofrinhoCall(d.op)
    BY <2>1 DEF CofrinhoOps, CofrinhoCall
  <2>3. Moves(s, d) /\ served' \in 0..MaxRequests
    BY <1>2, <2>1, ServedNext DEF ConfirmarContribuicao, Begin, Moves
  <2>4. CofrinhoTypeOK'
    BY <1>2 DEF ConfirmarContribuicao, CofrinhoSound, CofrinhoTypeOK
  <2> QED BY <2>2, <2>3, <2>4, CofrinhoMove
<1>3. ASSUME NEW s \in Slots, NEW u \in Users, NEW c \in Contributions, RemoverContribuicao(s, u, c)
      PROVE  CofrinhoSound' /\ Works(CofrinhoOps) /\ served' \in 0..MaxRequests
  <2>1. PICK d : d = [op |-> "removeContribution", user |-> u, contribution |-> c, seen |-> contributions[c]]
    OBVIOUS
  <2>2. d.op \in CofrinhoOps /\ d \in CofrinhoCall(d.op)
    BY <1>3, <2>1 DEF CofrinhoOps, CofrinhoCall, RemoverContribuicao
  <2>3. Moves(s, d) /\ served' \in 0..MaxRequests
    BY <1>3, <2>1, ServedNext DEF RemoverContribuicao, Begin, Moves
  <2>4. CofrinhoTypeOK'
    BY <1>3 DEF RemoverContribuicao, CofrinhoSound, CofrinhoTypeOK
  <2> QED BY <2>2, <2>3, <2>4, CofrinhoMove
<1>4. ASSUME NEW s \in Slots, StoreConfirmation(s) \/ DeleteContribuicao(s)
      PROVE  CofrinhoSound' /\ Works(CofrinhoOps) /\ served' \in 0..MaxRequests
  <2>1. Moves(s, NoCall) /\ served' \in 0..MaxRequests
    BY <1>4 DEF StoreConfirmation, DeleteContribuicao, Finish, Continue, Moves
  <2>2. CofrinhoTypeOK'
    BY <1>0, <1>4 DEF StoreConfirmation, DeleteContribuicao, UpdateContribuicao, DeleteByID, CofrinhoTypeOK,
                      CofrinhoStatus
  <2> QED BY <2>1, <2>2, CofrinhoMove
<1> QED BY <1>1, <1>2, <1>3, <1>4 DEF CofrinhoNext, CofrinhoRequest, CofrinhoWrite, createContribuicao,
                                      confirmarContribuicao, removerContribuicao

\* The balance is the sum of what is confirmed.
LEMMA SaldoIsConfirmed ==
  ASSUME CofrinhoTypeOK
  PROVE  /\ Saldo = SumFunctionOnSet(Valor, Confirmed) /\ Saldo \in Nat
         /\ IsFiniteSet(Confirmed) /\ Confirmed \subseteq Contributions
<1>1. {c \in DOMAIN ListContribuicoes : ListContribuicoes[c] = "CONFIRMADO"} = Confirmed
  BY DEF ListContribuicoes, FindContribuicoes, CofrinhoStatus, Confirmed
<1>2. Saldo = SumFunctionOnSet(Valor, Confirmed)
  BY <1>1 DEF Saldo
<1>3. Confirmed \subseteq Contributions
  BY DEF Confirmed
<1>4. IsFiniteSet(Confirmed)
  BY <1>3, CofrinhoAssumption, FS_Subset
<1>5. \A c \in Confirmed : Valor[c] \in Nat
  BY <1>3, CofrinhoAssumption
<1>6. SumFunctionOnSet(Valor, Confirmed) \in Nat
  BY <1>4, <1>5, SumIsNat
<1> QED BY <1>2, <1>3, <1>4, <1>6

LEMMA SaldoOfNextState ==
  ASSUME CofrinhoTypeOK'
  PROVE  /\ Saldo' = SumFunctionOnSet(Valor, Confirmed') /\ Saldo' \in Nat
         /\ IsFiniteSet(Confirmed') /\ Confirmed' \subseteq Contributions
<1>1. {c \in DOMAIN ListContribuicoes' : ListContribuicoes'[c] = "CONFIRMADO"} = Confirmed'
  BY DEF ListContribuicoes, FindContribuicoes, CofrinhoStatus, Confirmed
<1>2. Saldo' = SumFunctionOnSet(Valor, Confirmed')
  BY <1>1 DEF Saldo
<1>3. Confirmed' \subseteq Contributions
  BY DEF Confirmed
<1>4. IsFiniteSet(Confirmed')
  BY <1>3, CofrinhoAssumption, FS_Subset
<1>5. \A c \in Confirmed' : Valor[c] \in Nat
  BY <1>3, CofrinhoAssumption
<1>6. SumFunctionOnSet(Valor, Confirmed') \in Nat
  <2> PICK S : S = Confirmed'
    OBVIOUS
  <2> QED BY <1>4, <1>5, SumIsNat
<1> QED BY <1>2, <1>3, <1>4, <1>6

LEMMA SaldoFollows ==
  ASSUME CofrinhoTypeOK, CofrinhoTypeOK', NEW c \in Contributions
  PROVE  /\ Confirmed' = Confirmed => Saldo' = Saldo
         /\ Confirmed' = Confirmed \cup {c} => Saldo' >= Saldo
         /\ c \in Confirmed /\ Confirmed' = Confirmed \ {c} => Saldo' = Saldo - Valor[c]
<1>1. PICK S, T : S = Confirmed /\ T = Confirmed'
  OBVIOUS
<1>2. /\ Saldo = SumFunctionOnSet(Valor, S) /\ Saldo \in Nat /\ IsFiniteSet(S) /\ S \subseteq Contributions
  BY <1>1, SaldoIsConfirmed
<1>3. /\ Saldo' = SumFunctionOnSet(Valor, T) /\ Saldo' \in Nat
  BY <1>1, SaldoOfNextState
<1>4. \A d \in Contributions : Valor[d] \in Nat
  BY CofrinhoAssumption
<1>5. ASSUME T = S \cup {c}, c \notin S PROVE Saldo' >= Saldo
  <2>1. SumFunctionOnSet(Valor, S \cup {c}) = Valor[c] + SumFunctionOnSet(Valor, S)
    BY <1>2, <1>4, <1>5, SumPutsIn
  <2> QED BY <1>2, <1>3, <1>4, <1>5, <2>1
<1>6. ASSUME T = S \cup {c}, c \in S PROVE Saldo' >= Saldo
  <2>1. T = S
    BY <1>6
  <2> QED BY <1>2, <1>3, <2>1
<1>7. ASSUME T = S \ {c}, c \in S PROVE Saldo' = Saldo - Valor[c]
  <2>1. SumFunctionOnSet(Valor, S) = Valor[c] + SumFunctionOnSet(Valor, S \ {c})
    BY <1>2, <1>4, <1>7, SumTakesOut
  <2> QED BY <1>2, <1>3, <1>4, <1>7, <2>1
<1> QED BY <1>1, <1>2, <1>3, <1>5, <1>6, <1>7

LEMMA CofrinhoMovesSaldo ==
  ASSUME CofrinhoSound, DOMAIN calls = Slots, CofrinhoNext, CofrinhoTypeOK'
  PROVE  SaldoMoves
<1>0. /\ contributions \in [Contributions -> CofrinhoStatus \cup {NewContribution, Gone}]
      /\ CofrinhoTypeOK /\ {NewContribution, Gone} \cap {"PENDENTE", "CONFIRMADO"} = {}
      /\ Saldo \in Nat /\ Saldo' \in Nat
  BY CofrinhoAssumption, SaldoIsConfirmed, SaldoOfNextState DEF CofrinhoSound, CofrinhoTypeOK
<1>1. ASSUME NEW c \in Contributions, Confirmed' = Confirmed \/ Confirmed' = Confirmed \cup {c} PROVE SaldoMoves
  <2>1. Saldo' >= Saldo
    BY <1>0, <1>1, SaldoFollows
  <2> QED BY <2>1 DEF SaldoMoves
<1>2. ASSUME NEW s \in Slots, NEW c \in Contributions, CreateContribuicao(s, c) PROVE SaldoMoves
  <2>1. contributions[c] = NewContribution /\ contributions' = [contributions EXCEPT ![c] = "PENDENTE"]
    BY <1>2 DEF CreateContribuicao, SaveContribuicao
  <2>2. Confirmed' = Confirmed
    BY <1>0, <2>1 DEF Confirmed
  <2> QED BY <1>1, <2>2
<1>3. ASSUME NEW s \in Slots, NEW u \in Users, NEW c \in Contributions,
             ConfirmarContribuicao(s, u, c) \/ RemoverContribuicao(s, u, c)
      PROVE  SaldoMoves
  <2>1. contributions' = contributions
    BY <1>3 DEF ConfirmarContribuicao, RemoverContribuicao
  <2>2. Confirmed' = Confirmed
    BY <2>1 DEF Confirmed
  <2> QED BY <1>1, <2>2
<1>4. ASSUME NEW s \in Slots, StoreConfirmation(s) PROVE SaldoMoves
  <2>1. PICK c \in Contributions : c = calls[s].contribution
    BY <1>4 DEF StoreConfirmation, At, CofrinhoSound, CofrinhoCallOK, CofrinhoOps, CofrinhoCall
  <2>2. contributions' = [contributions EXCEPT ![c] = IF contributions[c] = Gone THEN Gone ELSE "CONFIRMADO"]
    BY <1>0, <1>4, <2>1 DEF StoreConfirmation, UpdateContribuicao
  <2>3. Confirmed' = Confirmed \/ Confirmed' = Confirmed \cup {c}
    <3>1. CASE contributions[c] = Gone
      <4>1. Confirmed' = Confirmed
        BY <1>0, <2>2, <3>1 DEF Confirmed
      <4> QED BY <4>1
    <3>2. CASE contributions[c] # Gone
      <4>1. Confirmed' = Confirmed \cup {c}
        BY <1>0, <2>2, <3>2 DEF Confirmed
      <4> QED BY <4>1
    <3> QED BY <3>1, <3>2
  <2> QED BY <1>1, <2>3
<1>5. ASSUME NEW s \in Slots, DeleteContribuicao(s) PROVE SaldoMoves
  <2>1. PICK c \in Contributions : c = calls[s].contribution
    BY <1>5 DEF DeleteContribuicao, At, CofrinhoSound, CofrinhoCallOK, CofrinhoOps, CofrinhoCall
  <2>2. At(s, "removeContribution") /\ calls[s].seen = "PENDENTE"
    BY <1>5 DEF DeleteContribuicao, At, CofrinhoSound, CofrinhoCallOK, CofrinhoOps, CofrinhoCall
  <2>3. contributions' = [contributions EXCEPT ![c] = Gone]
    BY <1>5, <2>1 DEF DeleteContribuicao, DeleteByID
  <2>4. Confirmed' = Confirmed \ {c}
    BY <1>0, <2>3 DEF Confirmed
  <2>5. CASE c \in Confirmed
    <3>1. Saldo' = Saldo - Valor[c]
      BY <1>0, <2>4, <2>5, SaldoFollows
    <3> QED BY <2>1, <2>2, <3>1 DEF SaldoMoves
  <2>6. CASE c \notin Confirmed
    <3>1. Confirmed' = Confirmed
      BY <2>4, <2>6
    <3> QED BY <1>1, <3>1
  <2> QED BY <2>5, <2>6
<1> QED BY <1>2, <1>3, <1>4, <1>5 DEF CofrinhoNext, CofrinhoRequest, CofrinhoWrite, createContribuicao,
                                      confirmarContribuicao, removerContribuicao

-----------------------------------------------------------------------------
(* The composition.                                                        *)

CommunityOps == SocialOps \cup GiftOps \cup CofrinhoOps

CommunityInvariant ==
  /\ served \in 0..MaxRequests
  /\ DOMAIN calls = Slots
  /\ MembershipTypeOK /\ SocialSound /\ GiftSound /\ CofrinhoSound
  /\ \A s \in Slots : calls[s] = NoCall \/ calls[s].op \in CommunityOps

LEMMA CallsStayKnown ==
  ASSUME CommunityInvariant, Works(SocialOps) \/ Works(GiftOps) \/ Works(CofrinhoOps) \/ Works({})
  PROVE  DOMAIN calls' = Slots /\ \A s \in Slots : calls'[s] = NoCall \/ calls'[s].op \in CommunityOps
<1>1. CASE UNCHANGED calls
  BY <1>1 DEF CommunityInvariant
<1>2. ASSUME NEW s \in Slots, NEW c, Moves(s, c), c = NoCall \/ c.op \in CommunityOps
      PROVE  DOMAIN calls' = Slots /\ \A t \in Slots : calls'[t] = NoCall \/ calls'[t].op \in CommunityOps
  <2>1. DOMAIN calls' = Slots /\ \A t \in Slots : calls'[t] = IF t = s THEN c ELSE calls[t]
    BY <1>2, CallsAfter DEF CommunityInvariant
  <2> QED BY <1>2, <2>1 DEF CommunityInvariant
<1> QED BY <1>1, <1>2 DEF Works, CommunityOps

LEMMA CommunityStarts ==
  ASSUME Init
  PROVE  CommunityInvariant
<1>0. /\ calls = [s \in Slots |-> NoCall] /\ served = 0
      /\ MembershipInit /\ SocialInit /\ GiftInit /\ CofrinhoInit
  BY DEF Init, HandlersInit
<1>1. served \in 0..MaxRequests /\ DOMAIN calls = Slots /\ \A s \in Slots : calls[s] = NoCall
  BY <1>0, HandlersAssumption
<1>2. \A s \in Slots : calls[s].op = "none"
  BY <1>1, OperationsDiffer
<1>3. MembershipTypeOK
  BY <1>0 DEF MembershipInit, MembershipTypeOK
<1>4. SocialSound
  <2>1. social = Empty
    BY <1>0 DEF SocialInit
  <2>2. social \in Document
    BY <2>1 DEF Empty, Document, DressCodes
  <2>3. social.playlists = {} /\ \A u \in Users : social.checkins[u] <= 1
    BY <2>1 DEF Empty
  <2>4. Adders = {}
    BY <1>2 DEF Adders, At
  <2>5. /\ IsFiniteSet(social.playlists)
        /\ Cardinality(social.playlists) + Cardinality(Adders) <= MaxPlaylists - 1 + Cardinality(Slots)
    <3>1. IsFiniteSet({}) /\ Cardinality({}) = 0 /\ Cardinality(Slots) \in Nat
      BY FS_EmptySet, SlotsAreFinite
    <3>2. MaxPlaylists \in Nat /\ MaxPlaylists # 0
      BY SocialAssumption
    <3> QED BY <2>3, <2>4, <3>1, <3>2
  <2>6. \A s \in Slots : SocialCallOK(calls[s]) /\ ~At(s, "addItem")
    BY <1>2, OperationsDiffer DEF SocialCallOK, At
  <2> QED BY <2>2, <2>3, <2>5, <2>6 DEF SocialSound, SocialTypeOK
<1>5. GiftSound
  <2>1. GiftTypeOK /\ \A g \in Gifts : ~InList(g)
    BY <1>0 DEF GiftInit, GiftTypeOK, InList
  <2>2. \A s \in Slots : GiftCallOK(calls[s]) /\ ~At(s, "addGift")
    BY <1>2, OperationsDiffer DEF GiftCallOK, At
  <2> QED BY <2>1, <2>2 DEF GiftSound
<1>6. CofrinhoSound
  BY <1>0, <1>2, OperationsDiffer DEF CofrinhoInit, CofrinhoSound, CofrinhoTypeOK, CofrinhoCallOK
<1> QED BY <1>1, <1>3, <1>4, <1>5, <1>6 DEF CommunityInvariant

LEMMA CommunitySteps ==
  ASSUME CommunityInvariant, [Next]_vars
  PROVE  CommunityInvariant'
<1>0. /\ served \in 0..MaxRequests /\ DOMAIN calls = Slots
      /\ MembershipTypeOK /\ SocialSound /\ GiftSound /\ CofrinhoSound
  BY DEF CommunityInvariant
<1>1. CASE SocialNext /\ UNCHANGED <<giftVars, cofrinhoVars>>
  <2>1. SocialSound' /\ Works(SocialOps) /\ served' \in 0..MaxRequests
    BY <1>0, <1>1, SocialNextKeeps
  <2>2. GiftSound' /\ CofrinhoSound'
    BY <1>0, <1>1, <2>1, WorksElsewhere, GiftStays, CofrinhoStays
  <2>3. MembershipTypeOK'
    BY <1>0, <1>1 DEF SocialNext, memberVars, MembershipTypeOK
  <2> QED BY <2>1, <2>2, <2>3, CallsStayKnown DEF CommunityInvariant
<1>2. CASE GiftNext /\ UNCHANGED <<memberVars, socialVars, cofrinhoVars>>
  <2>1. GiftSound' /\ Works(GiftOps) /\ served' \in 0..MaxRequests
    BY <1>0, <1>2, GiftNextKeeps
  <2>2. SocialSound' /\ CofrinhoSound'
    BY <1>0, <1>2, <2>1, WorksElsewhere, SocialStays, CofrinhoStays
  <2>3. MembershipTypeOK'
    BY <1>0, <1>2 DEF memberVars, MembershipTypeOK
  <2> QED BY <2>1, <2>2, <2>3, CallsStayKnown DEF CommunityInvariant
<1>3. CASE CofrinhoNext /\ UNCHANGED <<memberVars, socialVars, giftVars>>
  <2>1. CofrinhoSound' /\ Works(CofrinhoOps) /\ served' \in 0..MaxRequests
    BY <1>0, <1>3, CofrinhoNextKeeps
  <2>2. SocialSound' /\ GiftSound'
    BY <1>0, <1>3, <2>1, WorksElsewhere, SocialStays, GiftStays
  <2>3. MembershipTypeOK'
    BY <1>0, <1>3 DEF memberVars, MembershipTypeOK
  <2> QED BY <2>1, <2>2, <2>3, CallsStayKnown DEF CommunityInvariant
<1>4. ASSUME MembershipTypeOK', served' = served, Works({}),
             UNCHANGED socialVars, UNCHANGED giftVars, UNCHANGED cofrinhoVars
      PROVE  CommunityInvariant'
  <2>1. SocialSound' /\ GiftSound' /\ CofrinhoSound'
    BY <1>0, <1>4, WorksElsewhere, SocialStays, GiftStays, CofrinhoStays
  <2>2. served' \in 0..MaxRequests
    BY <1>0, <1>4
  <2> QED BY <1>4, <2>1, <2>2, CallsStayKnown DEF CommunityInvariant
<1>5. CASE MembershipNext /\ UNCHANGED <<socialVars, giftVars, cofrinhoVars>>
  <2>1. MembershipTypeOK'
    BY <1>0, <1>5 DEF MembershipNext, Publish, Respond, MembershipTypeOK
  <2>2. UNCHANGED calls /\ UNCHANGED served
    BY <1>5 DEF MembershipNext, handlerVars
  <2> QED BY <1>4, <1>5, <2>1, <2>2 DEF Works
<1>6. ASSUME NEW s \in Slots, Abort(s), UNCHANGED <<memberVars, socialVars, giftVars, cofrinhoVars>>
      PROVE  CommunityInvariant'
  <2>1. MembershipTypeOK'
    BY <1>0, <1>6 DEF memberVars, MembershipTypeOK
  <2>2. Moves(s, NoCall) /\ served' = served
    BY <1>6 DEF Abort, Finish, Continue, Moves
  <2>3. Works({})
    BY <2>2 DEF Works
  <2> QED BY <1>4, <1>6, <2>1, <2>2, <2>3
<1>7. CASE UNCHANGED vars
  <2>1. MembershipTypeOK'
    BY <1>0, <1>7 DEF vars, memberVars, MembershipTypeOK
  <2> QED BY <1>4, <1>7, <2>1 DEF vars, handlerVars, Works
<1> QED BY <1>1, <1>2, <1>3, <1>5, <1>6, <1>7 DEF Next

LEMMA CommunityIsInvariant == Spec => []CommunityInvariant
<1>1. Init => CommunityInvariant
  BY CommunityStarts
<1>2. CommunityInvariant /\ [Next]_vars => CommunityInvariant'
  BY CommunitySteps
<1> QED BY <1>1, <1>2, PTL DEF Spec

-----------------------------------------------------------------------------
(* The theorems.                                                           *)

\* Documents and handlers of the three components keep their types, although the handlers
\* share one pool and a request for one runs between the steps of a request for another.
THEOREM CommunityIsTyped == Spec => []TypeOK
<1>1. ASSUME CommunityInvariant PROVE TypeOK
  <2>1. /\ MembershipTypeOK /\ SocialTypeOK /\ GiftTypeOK /\ CofrinhoTypeOK
        /\ served \in 0..MaxRequests /\ DOMAIN calls = Slots
    BY <1>1 DEF CommunityInvariant, SocialSound, GiftSound, CofrinhoSound
  <2>2. ASSUME NEW s \in Slots
        PROVE  calls[s] \in SocialCall(calls[s].op) \cup GiftCall(calls[s].op)
                              \cup CofrinhoCall(calls[s].op) \cup {NoCall}
    <3>1. SocialCallOK(calls[s]) /\ GiftCallOK(calls[s]) /\ CofrinhoCallOK(calls[s])
      BY <1>1 DEF CommunityInvariant, SocialSound, GiftSound, CofrinhoSound
    <3>2. calls[s] = NoCall \/ calls[s].op \in CommunityOps
      BY <1>1 DEF CommunityInvariant
    <3> QED BY <3>1, <3>2 DEF CommunityOps, SocialCallOK, GiftCallOK, CofrinhoCallOK
  <2> QED BY <2>1, <2>2 DEF TypeOK
<1> QED BY <1>1, CommunityIsInvariant, PTL

\* DoCheckin and AddPlaylist: however many check-ins of a guest overlap, nobody reads two,
\* and the limit of playlists is overrun by no more than the handlers that overlap.
THEOREM SocialLimitsStayHeld == Spec => []SocialLimitsHold
<1>1. CommunityInvariant => SocialLimitsHold
  BY LimitsHold DEF CommunityInvariant
<1> QED BY <1>1, CommunityIsInvariant, PTL

\* ReservarItem: a gift never shows more reservations than it is wanted in, nor than guests
\* were told they have, although each write is of a count computed earlier.
THEOREM CountsStayHonest == Spec => []CountIsHonest
<1>1. CommunityInvariant => CountIsHonest
  BY CountsAreHonest DEF CommunityInvariant
<1> QED BY <1>1, CommunityIsInvariant, PTL

\* ClaimBringListItem: a claim is ended by an unclaim or a removal of its item, never by
\* another claim, an edit, or the addition of an item.
THEOREM ClaimsEndOnlyOnRequest == Spec => ClaimsEndOnRequest
<1>1. ASSUME CommunityInvariant, [Next]_vars, NEW i \in Items, Listed(i), social.bringList[i].claimedBy # NoOne,
             ~(Listed(i)' /\ social'.bringList[i].claimedBy = social.bringList[i].claimedBy)
      PROVE  \E s \in Slots : calls[s].op \in {"unclaim", "removeItem"} /\ calls[s].arg = i /\ calls'[s] = NoCall
  <2>1. social' # social
    BY <1>1 DEF Listed
  <2>2. SocialNext
    BY <1>1, <2>1 DEF Next, vars, socialVars
  <2> QED BY <1>1, <2>2, ClaimsEnd DEF CommunityInvariant
<1>2. CommunityInvariant /\ [Next]_vars =>
        [\A i \in Items :
           Listed(i) /\ social.bringList[i].claimedBy # NoOne
             => \/ Listed(i)' /\ social'.bringList[i].claimedBy = social.bringList[i].claimedBy
                \/ \E s \in Slots : calls[s].op \in {"unclaim", "removeItem"} /\ calls[s].arg = i
                                     /\ calls'[s] = NoCall]_<<socialVars, handlerVars>>
  BY <1>1
<1> QED BY <1>2, CommunityIsInvariant, PTL DEF Spec, ClaimsEndOnRequest

\* RemoverContribuicao: for every set of contributions and every amount, the balance of the
\* event falls by one contribution at a time, and only by a removal that saw it pending.
THEOREM SaldoIsNotTakenBack == Spec => SaldoFallsOnlyToALateRemoval
<1>1. ASSUME CommunityInvariant, CommunityInvariant', [Next]_vars PROVE SaldoMoves
  <2>1. CofrinhoTypeOK /\ CofrinhoTypeOK'
    BY <1>1 DEF CommunityInvariant, CofrinhoSound
  <2>2. CASE CofrinhoNext
    BY <1>1, <2>1, <2>2, CofrinhoMovesSaldo DEF CommunityInvariant
  <2>3. CASE ~CofrinhoNext
    <3>1. contributions' = contributions
      BY <1>1, <2>3 DEF Next, vars, cofrinhoVars
    <3>2. Saldo' = Saldo
      BY <3>1 DEF Saldo, ListContribuicoes, FindContribuicoes
    <3>3. Saldo \in Nat
      BY <2>1, SaldoIsConfirmed
    <3> QED BY <3>2, <3>3 DEF SaldoMoves
  <2> QED BY <2>2, <2>3
<1>2. CommunityInvariant /\ CommunityInvariant' /\ [Next]_vars =>
        [\/ Saldo' >= Saldo
         \/ \E s \in Slots : /\ At(s, "removeContribution") /\ calls[s].seen = "PENDENTE"
                           /\ Saldo' = Saldo - Valor[calls[s].contribution]]_<<contributions, calls>>
  BY <1>1 DEF SaldoMoves
<1> QED BY <1>2, CommunityIsInvariant, PTL DEF Spec, SaldoFallsOnlyToALateRemoval

=============================================================================
