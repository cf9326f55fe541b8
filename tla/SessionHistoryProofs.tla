------------------------- MODULE SessionHistoryProofs -------------------------
(* Theorems about the session table for any number of phones, users, ids    *)
(* and requests in flight.                                                  *)
EXTENDS SessionHistory, TLAPS

(* The router gives no two live sessions one .id. *)
UniqueIds ==
    \A p, q \in Phones :
        Online(p) /\ Online(q) /\ live[p].id = live[q].id /\ live[p].id # NoId => p = q

(* Two entries stored under one key are of one phone. *)
Keyed(list) == \A e, f \in list : KeyOf(e) = KeyOf(f) => e.phone = f.phone

(* Whatever list a request holds is one the router could have given. *)
ListsKeyed == \A y \in Readers : reader[y] # Resting => Keyed(reader[y].list)

(* An open row under a synthetic key is of the phone in the key. *)
PhoneKeys ==
    \A u \in Users, p \in Phones : IsOpen(<<u, p>>) => rows[<<u, p>>].phone = p

HistoryInv ==
    HistoryTypeOK /\ UniqueIds /\ ListsKeyed /\ PhoneKeys /\ LiveSessionShown

-----------------------------------------------------------------------------
(* A list answered by the router is a set of entries, with a key each. *)
LEMMA ActiveListKeyed ==
    ASSUME HistoryTypeOK, UniqueIds
    PROVE  ActiveList \in SUBSET Entry /\ Keyed(ActiveList)
<1>1. \A p \in Phones : Online(p) => live[p] \in Session
  BY DEF HistoryTypeOK, Online
<1>2. ActiveList \in SUBSET Entry
  BY <1>1 DEF ActiveList, Entry, Session
<1>3. ASSUME NEW e \in ActiveList, NEW f \in ActiveList, KeyOf(e) = KeyOf(f)
      PROVE  e.phone = f.phone
  <2>1. e \in Entry /\ f \in Entry
    BY <1>2
  <2>2. /\ e.phone \in Phones /\ Online(e.phone) /\ live[e.phone].id = e.id
        /\ f.phone \in Phones /\ Online(f.phone) /\ live[f.phone].id = f.id
    BY DEF ActiveList
  <2>3. CASE e.id = NoId /\ f.id = NoId
    BY <1>3, <2>3 DEF KeyOf
  <2>4. CASE e.id # NoId /\ f.id # NoId
    BY <1>3, <2>2, <2>4 DEF KeyOf, UniqueIds
  <2>5. CASE ~(e.id = NoId <=> f.id = NoId)
    <3>1. <<e.user, e.phone>> \notin Ids /\ <<f.user, f.phone>> \notin Ids
      BY <2>1, HistoryConstants DEF Entry
    <3> QED
      BY <1>3, <2>1, <2>5, <3>1 DEF KeyOf, Entry
  <2> QED
    BY <2>3, <2>4, <2>5
<1> QED
  BY <1>2, <1>3 DEF Keyed

(* The key of an entry is a key of the table. *)
LEMMA KeyOfType ==
    ASSUME NEW e \in Entry
    PROVE  KeyOf(e) \in Keys
  BY DEF KeyOf, Keys, Entry

(* An open row is of a user and a phone. *)
LEMMA RowOfOpen ==
    ASSUME NEW e, e.user \in Users, e.phone \in Phones
    PROVE  RowOf(e) \in OpenRow /\ RowOf(e) # Closed /\ RowOf(e).phone = e.phone
<1>1. RowOf(e) \in OpenRow /\ RowOf(e).phone = e.phone /\ RowOf(e).user = e.user
  BY DEF RowOf, OpenRow
<1>2. Closed.user = NoUser
  BY DEF Closed
<1> QED
  BY <1>1, <1>2, HistoryConstants

(* A reconciled table holds an open row for every listed phone, and only    *)
(* rows of listed phones.                                                   *)
LEMMA ReconciledRows ==
    ASSUME NEW list \in SUBSET Entry, Keyed(list)
    PROVE  /\ Reconciled(list) \in [Keys -> OpenRow \cup {Closed}]
           /\ \A e \in list :
                /\ Reconciled(list)[KeyOf(e)] # Closed
                /\ Reconciled(list)[KeyOf(e)].phone = e.phone
           /\ \A k \in Keys :
                Reconciled(list)[k] # Closed =>
                    \E e \in list : KeyOf(e) = k /\ Reconciled(list)[k].phone = e.phone
<1> DEFINE Of(k) == {e \in list : KeyOf(e) = k}
           Pick(k) == CHOOSE e \in Of(k) : TRUE
<1>1. ASSUME NEW k \in Keys, Of(k) # {}
      PROVE  /\ Pick(k) \in list /\ KeyOf(Pick(k)) = k
             /\ Reconciled(list)[k] = RowOf(Pick(k))
             /\ RowOf(Pick(k)) \in OpenRow /\ RowOf(Pick(k)) # Closed
             /\ RowOf(Pick(k)).phone = Pick(k).phone
  <2>1. Pick(k) \in Of(k)
    BY <1>1
  <2>2. Pick(k) \in list /\ KeyOf(Pick(k)) = k
    BY <2>1
  <2>3. Reconciled(list)[k] = RowOf(Pick(k))
    BY <1>1 DEF Reconciled
  <2>4. Pick(k).user \in Users /\ Pick(k).phone \in Phones
    BY <2>2 DEF Entry
  <2> HIDE DEF Pick
  <2> QED
    BY <2>2, <2>3, <2>4, RowOfOpen
<1>2. ASSUME NEW k \in Keys, Of(k) = {}
      PROVE  Reconciled(list)[k] = Closed
  BY <1>2 DEF Reconciled
<1>3. Reconciled(list) = [k \in Keys |-> Reconciled(list)[k]]
  BY DEF Reconciled
<1> HIDE DEF Pick
<1>4. Reconciled(list) \in [Keys -> OpenRow \cup {Closed}]
  <2>1. \A k \in Keys : Reconciled(list)[k] \in OpenRow \cup {Closed}
    BY <1>1, <1>2
  <2> QED
    BY <1>3, <2>1
<1>5. ASSUME NEW e \in list
      PROVE  /\ Reconciled(list)[KeyOf(e)] # Closed
             /\ Reconciled(list)[KeyOf(e)].phone = e.phone
  <2>1. KeyOf(e) \in Keys /\ e \in Of(KeyOf(e))
    BY KeyOfType
  <2> QED
    BY <1>1, <2>1 DEF Keyed
<1>6. ASSUME NEW k \in Keys, Reconciled(list)[k] # Closed
      PROVE  \E e \in list : KeyOf(e) = k /\ Reconciled(list)[k].phone = e.phone
  BY <1>1, <1>2, <1>6
<1> QED
  BY <1>4, <1>5, <1>6

-----------------------------------------------------------------------------
(* Phones that drop off are owed nothing; the others keep what they had. *)
LEMMA DropKeeps ==
    ASSUME HistoryTypeOK, UniqueIds, NEW phones, Drop(phones)
    PROVE  /\ live' \in [Phones -> Session \cup {NoSession}]
           /\ owed' \subseteq Onlines' /\ owed' \subseteq owed
           /\ UniqueIds'
<1>1. \A p \in Phones : live'[p] = IF p \in phones THEN NoSession ELSE live[p]
  BY DEF Drop
<1>2. live' \in [Phones -> Session \cup {NoSession}]
  BY DEF Drop, HistoryTypeOK
<1>3. owed' \subseteq Onlines' /\ owed' \subseteq owed
  BY <1>1 DEF Drop, HistoryTypeOK, Onlines, Online
<1>4. UniqueIds'
  BY <1>1 DEF UniqueIds, Online
<1> QED
  BY <1>2, <1>3, <1>4

(* A phone that goes online takes an .id nobody has, and nothing from any   *)
(* other phone.                                                             *)
LEMMA StartsKeeps ==
    ASSUME HistoryTypeOK, UniqueIds, NEW p \in Phones, NEW user \in Users, Starts(p, user)
    PROVE  /\ live' \in [Phones -> Session \cup {NoSession}]
           /\ Onlines \subseteq Onlines'
           /\ (UNCHANGED hasIds => UniqueIds')
<1>1. PICK id \in IF hasIds THEN Ids ELSE {NoId} :
          /\ \A q \in Phones : Online(q) /\ hasIds => live[q].id # id
          /\ live' = [live EXCEPT ![p] = [id |-> id, user |-> user]]
  BY DEF Starts
<1>2. [id |-> id, user |-> user] \in Session
  BY DEF Session, HistoryTypeOK
<1>3. live' \in [Phones -> Session \cup {NoSession}]
  BY <1>1, <1>2 DEF HistoryTypeOK
<1>4. \A q \in Phones : live'[q] = IF q = p THEN [id |-> id, user |-> user] ELSE live[q]
  BY <1>1 DEF HistoryTypeOK
<1>5. [id |-> id, user |-> user] # NoSession
  <2>1. [id |-> id, user |-> user].user = user /\ NoSession.user = NoUser
    BY DEF NoSession
  <2> QED
    BY <2>1, HistoryConstants
<1>6. Onlines \subseteq Onlines'
  BY <1>4, <1>5 DEF Onlines, Online
<1>7. ~hasIds => id = NoId
  BY <1>1
<1>8. ASSUME NEW q \in Phones, NEW r \in Phones,
             Online(q)', Online(r)', live'[q].id = live'[r].id, live'[q].id # NoId
      PROVE  q = r
  BY <1>1, <1>4, <1>7, <1>8 DEF UniqueIds, Online, HistoryTypeOK
<1> QED
  BY <1>3, <1>6, <1>8 DEF UniqueIds

(* Closing rows takes from a phone only the row it is then no longer owed. *)
LEMMA CloseRowsKeeps ==
    ASSUME HistoryInv, NEW keys, CloseRows(keys)
    PROVE  /\ rows' \in [Keys -> OpenRow \cup {Closed}]
           /\ owed' \subseteq owed
           /\ PhoneKeys' /\ LiveSessionShown'
<1>1. \A k \in Keys : rows'[k] = IF k \in keys THEN Closed ELSE rows[k]
  BY DEF CloseRows
<1>2. rows' \in [Keys -> OpenRow \cup {Closed}]
  BY DEF CloseRows, HistoryInv, HistoryTypeOK
<1>3. owed' = owed \ {rows[k].phone : k \in keys}
  BY DEF CloseRows
<1>4. PhoneKeys'
  BY <1>1 DEF HistoryInv, PhoneKeys, IsOpen, Keys
<1>5. ASSUME NEW p \in owed'
      PROVE  \E k \in Keys : IsOpen(k)' /\ rows'[k].phone = p
  <2>1. PICK k \in Keys : IsOpen(k) /\ rows[k].phone = p
    BY <1>3 DEF HistoryInv, LiveSessionShown
  <2>2. k \notin keys
    BY <1>3, <2>1
  <2> QED
    BY <1>1, <2>1, <2>2 DEF IsOpen
<1> QED
  BY <1>2, <1>3, <1>4, <1>5 DEF LiveSessionShown

(* A step that leaves the table and the requests' lists alone only has to   *)
(* look after the router's state.                                           *)
LEMMA TableUntouched ==
    ASSUME HistoryInv, UNCHANGED <<rows, reader>>, owed' \subseteq owed
    PROVE  ListsKeyed' /\ PhoneKeys' /\ LiveSessionShown'
  BY DEF HistoryInv, ListsKeyed, PhoneKeys, LiveSessionShown, Keyed, KeyOf, IsOpen

-----------------------------------------------------------------------------
(* The invariant holds of an empty table. *)
LEMMA HistoryInvInit == HistoryInit => HistoryInv
<1> SUFFICES ASSUME HistoryInit
             PROVE  HistoryInv
  OBVIOUS
<1>1. HistoryTypeOK
  BY DEF HistoryInit, HistoryTypeOK
<1>2. UniqueIds
  BY DEF HistoryInit, UniqueIds, Online
<1>3. ListsKeyed
  BY DEF HistoryInit, ListsKeyed
<1>4. PhoneKeys
  BY DEF HistoryInit, PhoneKeys, IsOpen, Keys
<1>5. LiveSessionShown
  BY DEF HistoryInit, LiveSessionShown
<1> QED
  BY <1>1, <1>2, <1>3, <1>4, <1>5 DEF HistoryInv

(* Steps of the router, of its clients and of the API. *)
LEMMA RouterSteps ==
    ASSUME HistoryInv,
           \/ \E p \in Phones, user \in Users : SessionStarts(p, user)
           \/ \E p \in Phones : SessionEnds(p)
           \/ \E e \in Displayed : ApiDisconnect(e)
    PROVE  HistoryInv'
<1>1. ASSUME NEW p \in Phones, NEW user \in Users, SessionStarts(p, user)
      PROVE  HistoryInv'
  <2>1. /\ live' \in [Phones -> Session \cup {NoSession}]
        /\ Onlines \subseteq Onlines' /\ UniqueIds'
    BY <1>1, StartsKeeps DEF SessionStarts, HistoryInv
  <2>2. HistoryTypeOK'
    BY <1>1, <2>1 DEF SessionStarts, HistoryInv, HistoryTypeOK
  <2>3. ListsKeyed' /\ PhoneKeys' /\ LiveSessionShown'
    BY <1>1, TableUntouched DEF SessionStarts
  <2> QED
    BY <2>1, <2>2, <2>3 DEF HistoryInv
<1>2. ASSUME NEW phones, Drop(phones), UNCHANGED <<hasIds, rows, reader, login, click>>
      PROVE  HistoryInv'
  <2>1. /\ live' \in [Phones -> Session \cup {NoSession}]
        /\ owed' \subseteq Onlines' /\ owed' \subseteq owed /\ UniqueIds'
    BY <1>2, DropKeeps DEF HistoryInv
  <2>2. HistoryTypeOK'
    BY <1>2, <2>1 DEF HistoryInv, HistoryTypeOK
  <2>3. ListsKeyed' /\ PhoneKeys' /\ LiveSessionShown'
    BY <1>2, <2>1, TableUntouched
  <2> QED
    BY <2>1, <2>2, <2>3 DEF HistoryInv
<1>3. ASSUME NEW p \in Phones, SessionEnds(p)
      PROVE  HistoryInv'
  BY <1>2, <1>3 DEF SessionEnds
<1>4. ASSUME NEW e \in Displayed, ApiDisconnect(e)
      PROVE  HistoryInv'
  BY <1>2, <1>4 DEF ApiDisconnect
<1> QED
  BY <1>1, <1>3, <1>4

(* Steps of the portal. *)
LEMMA PortalSteps ==
    ASSUME HistoryInv, NEW r \in Logins,
           \/ \E p \in Phones, user \in Users : PortalLogin(r, p, user)
           \/ Register(r)
           \/ RegisterFails(r)
    PROVE  HistoryInv'
<1>1. ASSUME NEW p \in Phones, NEW user \in Users, PortalLogin(r, p, user)
      PROVE  HistoryInv'
  <2>1. /\ live' \in [Phones -> Session \cup {NoSession}]
        /\ Onlines \subseteq Onlines' /\ UniqueIds'
    <3>1. CASE Starts(p, user)
      BY <1>1, <3>1, StartsKeeps DEF PortalLogin, HistoryInv
    <3>2. CASE UNCHANGED live
      BY <3>2 DEF HistoryInv, HistoryTypeOK, UniqueIds, Onlines, Online
    <3> QED
      BY <1>1, <3>1, <3>2 DEF PortalLogin
  <2>2. login' \in [Logins -> Pending \cup {Resting}]
    BY <1>1 DEF PortalLogin, HistoryInv, HistoryTypeOK, Pending
  <2>3. HistoryTypeOK'
    BY <1>1, <2>1, <2>2 DEF PortalLogin, HistoryInv, HistoryTypeOK
  <2>4. ListsKeyed' /\ PhoneKeys' /\ LiveSessionShown'
    BY <1>1, TableUntouched DEF PortalLogin
  <2> QED
    BY <2>1, <2>3, <2>4 DEF HistoryInv
<1>2. ASSUME Register(r)
      PROVE  HistoryInv'
  <2> DEFINE u == login[r].user
             p == login[r].phone
  <2>1. u \in Users /\ p \in Phones
    BY <1>2 DEF Register, HistoryInv, HistoryTypeOK, Pending
  <2>2. RowOf(login[r]) \in OpenRow /\ RowOf(login[r]) # Closed /\ RowOf(login[r]).phone = p
    BY <2>1, RowOfOpen
  <2> HIDE DEF u, p
  <2>3. <<u, p>> \in Keys
    BY <2>1 DEF Keys
  <2>4. \A k \in Keys : rows'[k] = IF k = <<u, p>> THEN RowOf(login[r]) ELSE rows[k]
    BY <1>2, <2>3 DEF Register, HistoryInv, HistoryTypeOK, u, p
  <2>5. owed' = owed \cup ({p} \cap Onlines)
    BY <1>2 DEF Register, p
  <2>6. HistoryTypeOK'
    BY <1>2, <2>2, <2>5 DEF Register, HistoryInv, HistoryTypeOK, Onlines, Online
  <2>7. UniqueIds' /\ ListsKeyed'
    BY <1>2 DEF Register, HistoryInv, UniqueIds, Online, ListsKeyed, Keyed, KeyOf
  <2>8. PhoneKeys'
    <3>1. ASSUME NEW v \in Users, NEW q \in Phones, IsOpen(<<v, q>>)'
          PROVE  rows'[<<v, q>>].phone = q
      <4>1. <<v, q>> \in Keys
        BY DEF Keys
      <4> QED
        BY <2>2, <2>4, <3>1, <4>1 DEF HistoryInv, PhoneKeys, IsOpen
    <3> QED
      BY <3>1 DEF PhoneKeys
  <2>9. LiveSessionShown'
    <3>1. ASSUME NEW q \in owed'
          PROVE  \E k \in Keys : IsOpen(k)' /\ rows'[k].phone = q
      <4>1. CASE q = p
        BY <2>2, <2>3, <2>4, <4>1 DEF IsOpen
      <4>2. CASE q # p
        <5>1. PICK k \in Keys : IsOpen(k) /\ rows[k].phone = q
          BY <2>5, <4>2 DEF HistoryInv, LiveSessionShown
        <5>2. k # <<u, p>>
          BY <2>1, <4>2, <5>1 DEF HistoryInv, PhoneKeys
        <5> QED
          BY <2>4, <5>1, <5>2 DEF IsOpen
      <4> QED
        BY <4>1, <4>2
    <3> QED
      BY <3>1 DEF LiveSessionShown
  <2> QED
    BY <2>6, <2>7, <2>8, <2>9 DEF HistoryInv
<1>3. ASSUME RegisterFails(r)
      PROVE  HistoryInv'
  <2>1. HistoryTypeOK'
    BY <1>3 DEF RegisterFails, HistoryInv, HistoryTypeOK, Onlines, Online
  <2>2. UniqueIds'
    BY <1>3 DEF RegisterFails, HistoryInv, UniqueIds, Online
  <2>3. ListsKeyed' /\ PhoneKeys' /\ LiveSessionShown'
    BY <1>3, TableUntouched DEF RegisterFails
  <2> QED
    BY <2>1, <2>2, <2>3 DEF HistoryInv
<1> QED
  BY <1>1, <1>2, <1>3

(* Steps of the requests that refresh the table. *)
LEMMA RefreshSteps ==
    ASSUME HistoryInv, NEW y \in Readers, ReadList(y) \/ SyncDevice(y) \/ SyncFails(y)
    PROVE  HistoryInv'
<1>1. UniqueIds' /\ Onlines' = Onlines /\ live' = live
  BY DEF HistoryInv, ReadList, SyncDevice, SyncFails, UniqueIds, Onlines, Online
<1>2. CASE ReadList(y)
  <2>1. ActiveList \in SUBSET Entry /\ Keyed(ActiveList)
    BY ActiveListKeyed DEF HistoryInv
  <2>2. reader' = [reader EXCEPT ![y] = [at |-> "listed", list |-> ActiveList]]
    BY <1>2 DEF ReadList
  <2>3. HistoryTypeOK'
    <3>1. [at |-> "listed", list |-> ActiveList] \in Listed
      BY <2>1 DEF Listed
    <3> QED
      BY <1>1, <1>2, <2>2, <3>1 DEF ReadList, HistoryInv, HistoryTypeOK
  <2>4. ListsKeyed'
    <3>1. ASSUME NEW z \in Readers, reader'[z] # Resting
          PROVE  Keyed(reader'[z].list)
      <4>1. CASE z = y
        BY <2>1, <2>2, <4>1 DEF HistoryInv, HistoryTypeOK
      <4>2. CASE z # y
        BY <2>2, <3>1, <4>2 DEF HistoryInv, HistoryTypeOK, ListsKeyed
      <4> QED
        BY <4>1, <4>2
    <3> QED
      BY <3>1 DEF ListsKeyed, Keyed, KeyOf
  <2>5. PhoneKeys' /\ LiveSessionShown'
    BY <1>2 DEF ReadList, HistoryInv, PhoneKeys, LiveSessionShown, IsOpen
  <2> QED
    BY <1>1, <2>3, <2>4, <2>5 DEF HistoryInv
<1>3. ASSUME SyncDevice(y) \/ SyncFails(y)
      PROVE  ListsKeyed' /\ reader' \in [Readers -> Listed \cup {Resting}]
  BY <1>3 DEF SyncDevice, SyncFails, HistoryInv, HistoryTypeOK, ListsKeyed, Keyed, KeyOf
<1>4. CASE SyncDevice(y)
  <2> DEFINE list == reader[y].list
  <2>1. list \in SUBSET Entry /\ Keyed(list)
    BY <1>4 DEF SyncDevice, HistoryInv, HistoryTypeOK, ListsKeyed, Listed
  <2>2. rows' = Reconciled(list) /\ owed' = {e.phone : e \in list} \cap Onlines
    BY <1>4 DEF SyncDevice
  <2> HIDE DEF list
  <2>3. /\ rows' \in [Keys -> OpenRow \cup {Closed}]
        /\ \A e \in list : rows'[KeyOf(e)] # Closed /\ rows'[KeyOf(e)].phone = e.phone
        /\ \A k \in Keys : rows'[k] # Closed =>
                \E e \in list : KeyOf(e) = k /\ rows'[k].phone = e.phone
    BY <2>1, <2>2, ReconciledRows
  <2>4. HistoryTypeOK'
    BY <1>1, <1>3, <1>4, <2>2, <2>3 DEF SyncDevice, HistoryInv, HistoryTypeOK
  <2>5. PhoneKeys'
    <3>1. ASSUME NEW u \in Users, NEW p \in Phones, rows'[<<u, p>>] # Closed
          PROVE  rows'[<<u, p>>].phone = p
      <4>1. <<u, p>> \in Keys /\ <<u, p>> \notin Ids
        BY HistoryConstants DEF Keys
      <4>2. PICK e \in list : KeyOf(e) = <<u, p>> /\ rows'[<<u, p>>].phone = e.phone
        BY <2>3, <3>1, <4>1
      <4>3. KeyOf(e) = <<e.user, e.phone>>
        BY <2>1, <4>1, <4>2 DEF KeyOf, Entry
      <4> QED
        BY <4>2, <4>3
    <3> QED
      BY <3>1 DEF PhoneKeys, IsOpen
  <2>6. LiveSessionShown'
    <3>1. ASSUME NEW p \in owed'
          PROVE  \E k \in Keys : IsOpen(k)' /\ rows'[k].phone = p
      <4>1. PICK e \in list : e.phone = p
        BY <2>2
      <4>2. KeyOf(e) \in Keys
        BY <2>1, KeyOfType
      <4> QED
        BY <2>3, <4>1, <4>2 DEF IsOpen
    <3> QED
      BY <3>1 DEF LiveSessionShown
  <2> QED
    BY <1>1, <1>3, <1>4, <2>4, <2>5, <2>6 DEF HistoryInv
<1>5. CASE SyncFails(y)
  <2>1. HistoryTypeOK'
    BY <1>1, <1>3, <1>5 DEF SyncFails, HistoryInv, HistoryTypeOK
  <2>2. PhoneKeys' /\ LiveSessionShown'
    BY <1>5 DEF SyncFails, HistoryInv, PhoneKeys, LiveSessionShown, IsOpen
  <2> QED
    BY <1>1, <1>3, <1>5, <2>1, <2>2 DEF HistoryInv
<1> QED
  BY <1>2, <1>4, <1>5

(* A step that closes rows, or fails to. *)
LEMMA ClosingStep ==
    ASSUME HistoryInv, NEW keys, CloseRows(keys) \/ UNCHANGED <<rows, owed>>,
           UNCHANGED <<live, hasIds, reader, login>>, click' \in Clicked \cup {Resting}
    PROVE  HistoryInv'
<1>1. UniqueIds' /\ ListsKeyed' /\ Onlines' = Onlines
  BY DEF HistoryInv, UniqueIds, Online, Onlines, ListsKeyed, Keyed, KeyOf
<1>2. /\ rows' \in [Keys -> OpenRow \cup {Closed}] /\ owed' \subseteq owed
      /\ PhoneKeys' /\ LiveSessionShown'
  <2>1. CASE CloseRows(keys)
    BY <2>1, CloseRowsKeeps
  <2>2. CASE UNCHANGED <<rows, owed>>
    BY <2>2 DEF HistoryInv, HistoryTypeOK, PhoneKeys, LiveSessionShown, IsOpen
  <2> QED
    BY <2>1, <2>2
<1>3. HistoryTypeOK'
  BY <1>1, <1>2 DEF HistoryInv, HistoryTypeOK
<1> QED
  BY <1>1, <1>2, <1>3 DEF HistoryInv

(* A step that disconnects phones on the router, with the table to follow. *)
LEMMA DroppingStep ==
    ASSUME HistoryInv, NEW phones, Drop(phones),
           UNCHANGED <<hasIds, rows, reader, login>>, click' \in Clicked \cup {Resting}
    PROVE  HistoryInv'
<1>1. /\ live' \in [Phones -> Session \cup {NoSession}]
      /\ owed' \subseteq Onlines' /\ owed' \subseteq owed /\ UniqueIds'
  BY DropKeeps DEF HistoryInv
<1>2. HistoryTypeOK'
  BY <1>1 DEF HistoryInv, HistoryTypeOK
<1>3. ListsKeyed' /\ PhoneKeys' /\ LiveSessionShown'
  BY <1>1, TableUntouched
<1> QED
  BY <1>1, <1>2, <1>3 DEF HistoryInv

(* Steps of an operator's click. *)
LEMMA OperatorSteps ==
    ASSUME HistoryInv,
           \/ \E e \in Displayed : Disconnect(e)
           \/ \E p \in Phones : ClientBlock(p)
           \/ CloseByKey \/ CloseByUser \/ BlockMAC \/ CloseByMAC
    PROVE  HistoryInv'
<1> USE DEF Clicking
<1>1. ASSUME NEW e \in Displayed, Disconnect(e)
      PROVE  HistoryInv'
  <2>1. [at |-> "closing", id |-> e.id, user |-> e.user, phone |-> e.phone] \in Clicked
    BY DEF Displayed, Entry, Clicked
  <2> QED
    BY <1>1, <2>1, DroppingStep DEF Disconnect
<1>2. ASSUME NEW p \in Phones, ClientBlock(p)
      PROVE  HistoryInv'
  <2>1. [at |-> "blocking", phone |-> p] \in Clicked
    BY DEF Clicked
  <2> QED
    BY <1>2, <2>1, ClosingStep DEF ClientBlock
<1>3. CASE CloseByKey
  <2>1. click.user \in Users /\ click.phone \in Phones
    BY <1>3 DEF CloseByKey, HistoryInv, HistoryTypeOK, Clicked
  <2>2. [at |-> "closingUser", user |-> click.user, phone |-> click.phone] \in Clicked
    BY <2>1 DEF Clicked
  <2> QED
    BY <1>3, <2>2, ClosingStep DEF CloseByKey
<1>4. CASE CloseByUser
  <2>1. click.phone \in Phones
    BY <1>4 DEF CloseByUser, HistoryInv, HistoryTypeOK, Clicked
  <2>2. [at |-> "blocking", phone |-> click.phone] \in Clicked
    BY <2>1 DEF Clicked
  <2> QED
    BY <1>4, <2>2, ClosingStep DEF CloseByUser
<1>5. CASE BlockMAC
  <2>1. click \in [at : {"blocking", "closingMAC"}, phone : Phones]
    BY <1>5 DEF BlockMAC, HistoryInv, HistoryTypeOK, Clicked
  <2>2. [click EXCEPT !.at = "closingMAC"] \in Clicked
    BY <2>1 DEF Clicked
  <2>3. CASE UNCHANGED <<live, owed>> /\ click' = Resting
    BY <1>5, <2>3, ClosingStep DEF BlockMAC
  <2>4. CASE ~(UNCHANGED <<live, owed>> /\ click' = Resting)
    BY <1>5, <2>2, <2>4, DroppingStep DEF BlockMAC
  <2> QED
    BY <2>3, <2>4
<1>6. CASE CloseByMAC
  BY <1>6, ClosingStep DEF CloseByMAC
<1> QED
  BY <1>1, <1>2, <1>3, <1>4, <1>5, <1>6

(* A restart forgets the requests in flight, and nothing else. *)
LEMMA CrashStep ==
    ASSUME HistoryInv, Crash
    PROVE  HistoryInv'
<1>1. HistoryTypeOK'
  BY DEF Crash, HistoryInv, HistoryTypeOK, Onlines, Online
<1>2. UniqueIds' /\ ListsKeyed' /\ PhoneKeys' /\ LiveSessionShown'
  BY DEF Crash, HistoryInv, UniqueIds, Online, ListsKeyed, PhoneKeys, LiveSessionShown, IsOpen
<1> QED
  BY <1>1, <1>2 DEF HistoryInv

(* HistoryInv is inductive. *)
LEMMA HistoryInvStep == HistoryInv /\ [HistoryNext]_historyVars => HistoryInv'
<1> SUFFICES ASSUME HistoryInv, [HistoryNext]_historyVars
             PROVE  HistoryInv'
  OBVIOUS
<1>1. CASE UNCHANGED historyVars
  <2>1. HistoryTypeOK'
    BY <1>1 DEF historyVars, HistoryInv, HistoryTypeOK, Onlines, Online
  <2>2. UniqueIds'
    BY <1>1 DEF historyVars, HistoryInv, UniqueIds, Online
  <2>3. ListsKeyed' /\ PhoneKeys' /\ LiveSessionShown'
    BY <1>1, TableUntouched DEF historyVars
  <2> QED
    BY <2>1, <2>2, <2>3 DEF HistoryInv
<1>2. CASE HistoryNext
  BY <1>2, RouterSteps, PortalSteps, RefreshSteps, OperatorSteps, CrashStep
     DEF HistoryNext, Refresh
<1> QED
  BY <1>1, <1>2

(* The strengthened invariant of every behaviour. *)
THEOREM HistoryInvariant == HistorySpec => []HistoryInv
  BY HistoryInvInit, HistoryInvStep, PTL DEF HistorySpec

(* The table, the router and every request in flight stay well typed, for   *)
(* any number of phones, users, ids and requests.                           *)
THEOREM HistoryTypeCorrect == HistorySpec => []HistoryTypeOK
<1>1. HistoryInv => HistoryTypeOK
  BY DEF HistoryInv
<1> QED
  BY <1>1, HistoryInvariant, PTL

(* Whatever stale lists, logins and clicks overtake each other, an online   *)
(* phone that was registered or listed, and whose row neither the operator  *)
(* nor a list lacking it took away, is found in the table.                  *)
THEOREM HistoryShowsLiveSessions == HistorySpec => []LiveSessionShown
<1>1. HistoryInv => LiveSessionShown
  BY DEF HistoryInv
<1> QED
  BY <1>1, HistoryInvariant, PTL
=============================================================================
