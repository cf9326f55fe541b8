---------------------------- MODULE SessionHistory ----------------------------
(***************************************************************************)
(* The controller's copy of one router's hotspot sessions (the             *)
(* active_sessions table of database/sessions.go).  Rows are opened by the *)
(* portal right after a login and reconciled by SyncDevice whenever an     *)
(* operator opens or refreshes the router's page; an operator's disconnect *)
(* and block close them.  Each of these reads or changes the router first  *)
(* and the table later, and they run concurrently.                         *)
(*                                                                         *)
(* SyncDevice is one transaction whose first statement writes, so it is    *)
(* atomic.  A client is one phone, with one address and one hardware       *)
(* address.  Counters, times and end reasons are left out, and so is       *)
(* whether a row that is not open was ever inserted.                       *)
(***************************************************************************)
EXTENDS FiniteSets

CONSTANTS
    Phones,    \* client devices
    Users,     \* hotspot user names (voucher codes)
    Ids,       \* RouterOS .id values of active entries
    NoId,      \* a RouterOS version that reports no .id
    NoUser,    \* no session
    Readers,   \* requests that read the router's list
    Logins     \* portal requests

ASSUME HistoryConstants ==
    /\ NoId \notin Ids
    /\ NoUser \notin Users
    /\ Ids \cap (Users \X Phones) = {}

VARIABLES
    live,      \* the router: the session of each phone
    hasIds,    \* the router: whether it reports .id
    rows,      \* the table: [Keys -> OpenRow]
    reader,    \* per request: the list it has read, if any
    login,     \* per portal request: the login it is about to register
    click,     \* the operator's disconnect or block in progress
    owed       \* observer: online phones that were given a row and had none taken

historyVars == <<live, hasIds, rows, reader, login, click, owed>>

Keys == Ids \cup (Users \X Phones)

Session == [id : Ids \cup {NoId}, user : Users]
NoSession == [id |-> NoId, user |-> NoUser]
Online(p) == live[p] # NoSession

Entry == [id : Ids \cup {NoId}, user : Users, phone : Phones]

(* The session_key of an entry: its .id, or a synthetic key without one.   *)
KeyOf(e) == IF e.id = NoId THEN <<e.user, e.phone>> ELSE e.id

(* What /ip/hotspot/active/print answers. *)
ActiveList == {[id |-> live[p].id, user |-> live[p].user, phone |-> p] :
                  p \in {q \in Phones : Online(q)}}

(* An open row, or none. *)
OpenRow == [user : Users, phone : Phones]
Closed == [user |-> NoUser, phone |-> NoUser]
IsOpen(k) == rows[k] # Closed

(* Seeded fault: the upsert stores the user but not the address. *)
RowWithoutAddress(e) == [user |-> e.user, phone |-> NoUser]

(* The columns an entry is stored in. *)
RowOf(e) == [user |-> e.user, phone |-> e.phone]

Resting == [at |-> "idle"]
Listed == [at : {"listed"}, list : SUBSET Entry]
Pending == [at : {"registering"}, user : Users, phone : Phones]
Clicked == [at : {"closing"}, id : Ids \cup {NoId}, user : Users, phone : Phones]
      \cup [at : {"closingUser"}, user : Users, phone : Phones]
      \cup [at : {"blocking", "closingMAC"}, phone : Phones]

HistoryInit ==
    /\ live = [p \in Phones |-> NoSession]
    /\ hasIds \in BOOLEAN
    /\ rows = [k \in Keys |-> Closed]
    /\ reader = [y \in Readers |-> Resting]
    /\ login = [r \in Logins |-> Resting]
    /\ click = Resting
    /\ owed = {}

(* The router drops the sessions of these phones. *)
Drop(phones) ==
    /\ live' = [p \in Phones |-> IF p \in phones THEN NoSession ELSE live[p]]
    /\ owed' = owed \ phones

(* The router admits a phone, from the portal's API call or from its own   *)
(* login page.  An .id may be one an earlier session had.                  *)
Starts(p, user) ==
    /\ ~Online(p)
    /\ \E id \in IF hasIds THEN Ids ELSE {NoId} :
        /\ \A q \in Phones : Online(q) /\ hasIds => live[q].id # id
        /\ live' = [live EXCEPT ![p] = [id |-> id, user |-> user]]

SessionStarts(p, user) ==
    /\ Starts(p, user)
    /\ UNCHANGED <<hasIds, rows, reader, login, click, owed>>

(* For any reason of the router's or the client's own; also by an API      *)
(* block, which closes the rows of router 0, which has none.               *)
SessionEnds(p) ==
    /\ Online(p)
    /\ Drop({p})
    /\ UNCHANGED <<hasIds, rows, reader, login, click>>

(* The portal accepted a login: the router was told to admit the phone, or *)
(* will admit it when the browser completes the handoff (a free trial, or  *)
(* never).                                                                 *)
PortalLogin(r, p, user) ==
    /\ login[r] = Resting
    /\ Starts(p, user) \/ UNCHANGED live
    /\ login' = [login EXCEPT ![r] = [at |-> "registering", user |-> user, phone |-> p]]
    /\ UNCHANGED <<hasIds, rows, reader, click, owed>>

Onlines == {p \in Phones : Online(p)}

(* Register, under the synthetic key: inserts the row or reopens it. *)
Register(r) ==
    LET p == login[r].phone IN
    /\ login[r] # Resting
    /\ rows' = [rows EXCEPT ![<<login[r].user, p>>] = RowOf(login[r])]
    /\ owed' = owed \cup ({p} \cap Onlines)
    /\ login' = [login EXCEPT ![r] = Resting]
    /\ UNCHANGED <<live, hasIds, reader, click>>

(* Register failed: only logged. *)
RegisterFails(r) ==
    /\ login[r] # Resting
    /\ login' = [login EXCEPT ![r] = Resting]
    /\ UNCHANGED <<live, hasIds, rows, reader, click, owed>>

(* A device page is opened, or its list refreshed. *)
ReadList(y) ==
    /\ reader[y] = Resting
    /\ reader' = [reader EXCEPT ![y] = [at |-> "listed", list |-> ActiveList]]
    /\ UNCHANGED <<live, hasIds, rows, login, click, owed>>

(* Seeded fault: an entry without .id gets no key. *)
ReconciledByIdOnly(list) ==
    [k \in Keys |->
        LET of == {e \in list : e.id = k}
        IN  IF of # {} THEN RowOf(CHOOSE e \in of : TRUE) ELSE Closed]

(* Seeded fault: rows the device no longer reports are left open. *)
ReconciledWithoutClosing(list) ==
    [k \in Keys |->
        LET of == {e \in list : KeyOf(e) = k}
        IN  IF of # {} THEN RowOf(CHOOSE e \in of : TRUE) ELSE rows[k]]

(* Every listed entry has an open row, every other row is closed. *)
Reconciled(list) ==
    [k \in Keys |->
        LET of == {e \in list : KeyOf(e) = k}
        IN  IF of # {} THEN RowOf(CHOOSE e \in of : TRUE) ELSE Closed]

(* SyncDevice with the list read earlier: a phone that went online since   *)
(* loses its row.                                                          *)
SyncDevice(y) ==
    /\ reader[y] # Resting
    /\ rows' = Reconciled(reader[y].list)
    /\ owed' = {e.phone : e \in reader[y].list} \cap Onlines
    /\ reader' = [reader EXCEPT ![y] = Resting]
    /\ UNCHANGED <<live, hasIds, login, click>>

(* The transaction failed: the page only says so. *)
SyncFails(y) ==
    /\ reader[y] # Resting
    /\ reader' = [reader EXCEPT ![y] = Resting]
    /\ UNCHANGED <<live, hasIds, rows, login, click, owed>>

(* What an operator may click on: a page may be of any age, so any entry   *)
(* the router can have reported may be on one.                             *)
Displayed == {e \in Entry : (e.id # NoId) = hasIds}

(* DisconnectClient: the session with that .id, or else all sessions of    *)
(* the user, or none when the router knows neither.                        *)
Disconnected(e) ==
    LET withId == {p \in Onlines : live[p].id = e.id}
        ofUser == {p \in Onlines : live[p].user = e.user}
    IN  IF e.id # NoId /\ withId # {} THEN {withId} ELSE {ofUser, {}}

(* SessionDisconnect: the router first, ... *)
Disconnect(e) ==
    /\ click = Resting
    /\ \E gone \in Disconnected(e) : Drop(gone)
    /\ click' = [at |-> "closing", id |-> e.id, user |-> e.user, phone |-> e.phone]
    /\ UNCHANGED <<hasIds, rows, reader, login>>

(* The chosen rows are closed; their phones are owed none. *)
CloseRows(keys) ==
    /\ rows' = [k \in Keys |-> IF k \in keys THEN Closed ELSE rows[k]]
    /\ owed' = owed \ {rows[k].phone : k \in keys}

Clicking(point) == click # Resting /\ click.at = point

(* ... then Close by session key, which refuses an empty key, ... *)
CloseByKey ==
    /\ Clicking("closing")
    /\ \/ CloseRows({click.id} \cap Keys)
       \/ UNCHANGED <<rows, owed>>
    /\ click' = [at |-> "closingUser", user |-> click.user, phone |-> click.phone]
    /\ UNCHANGED <<live, hasIds, reader, login>>

(* ... CloseByUser, which closes the rows of every phone of that user, ... *)
CloseByUser ==
    /\ Clicking("closingUser")
    /\ \/ CloseRows({k \in Keys : rows[k].user = click.user})
       \/ UNCHANGED <<rows, owed>>
    /\ click' \in {Resting, [at |-> "blocking", phone |-> click.phone]}
    /\ UNCHANGED <<live, hasIds, reader, login>>

(* ... and, when the box was ticked, BlockMAC, with which the router may   *)
(* also end the session, ...                                               *)
BlockMAC ==
    /\ Clicking("blocking")
    /\ \/ /\ \E gone \in SUBSET {click.phone} : Drop(gone)
          /\ click' = [click EXCEPT !.at = "closingMAC"]
       \/ /\ UNCHANGED <<live, owed>>
          /\ click' = Resting
    /\ UNCHANGED <<hasIds, rows, reader, login>>

(* ... and CloseByMAC. *)
CloseByMAC ==
    /\ Clicking("closingMAC")
    /\ \/ CloseRows({k \in Keys : rows[k].phone = click.phone})
       \/ UNCHANGED <<rows, owed>>
    /\ click' = Resting
    /\ UNCHANGED <<live, hasIds, reader, login>>

(* ClientBlock: the last two steps by themselves. *)
ClientBlock(p) ==
    /\ click = Resting
    /\ click' = [at |-> "blocking", phone |-> p]
    /\ UNCHANGED <<live, hasIds, rows, reader, login, owed>>

(* apiClientDisconnect drops the sessions on the router and closes the     *)
(* rows of router 0, which has none.                                       *)
ApiDisconnect(e) ==
    /\ \E gone \in Disconnected(e) : gone # {} /\ Drop(gone)
    /\ UNCHANGED <<hasIds, rows, reader, login, click>>

(* The controller restarts: requests in flight are gone, the table stays.  *)
Crash ==
    /\ reader' = [y \in Readers |-> Resting]
    /\ login' = [r \in Logins |-> Resting]
    /\ click' = Resting
    /\ UNCHANGED <<live, hasIds, rows, owed>>

Refresh == \E y \in Readers : ReadList(y) \/ SyncDevice(y) \/ SyncFails(y)

HistoryNext ==
    \/ \E p \in Phones, user \in Users :
        \/ SessionStarts(p, user)
        \/ \E r \in Logins : PortalLogin(r, p, user)
    \/ \E p \in Phones : SessionEnds(p)
    \/ \E r \in Logins : Register(r) \/ RegisterFails(r)
    \/ Refresh
    \/ \E e \in Displayed : Disconnect(e) \/ ApiDisconnect(e)
    \/ \E p \in Phones : ClientBlock(p)
    \/ CloseByKey
    \/ CloseByUser
    \/ BlockMAC
    \/ CloseByMAC
    \/ Crash

HistorySpec == HistoryInit /\ [][HistoryNext]_historyVars

-----------------------------------------------------------------------------
(* The table, the router and the requests in flight have their types. *)
HistoryTypeOK ==
    /\ live \in [Phones -> Session \cup {NoSession}]
    /\ hasIds \in BOOLEAN
    /\ rows \in [Keys -> OpenRow \cup {Closed}]
    /\ reader \in [Readers -> Listed \cup {Resting}]
    /\ login \in [Logins -> Pending \cup {Resting}]
    /\ click \in Clicked \cup {Resting}
    /\ owed \subseteq Onlines

(* The portal greets a client that is already online by its open row       *)
(* (captive.go): an online phone that was registered or listed keeps an    *)
(* open row - under one key or the other - while a sync replaces the       *)
(* synthetic key by the router's, .id values are reused and requests       *)
(* overtake each other.  Only a list that lacks it, or the operator, takes *)
(* the row away.                                                           *)
LiveSessionShown ==
    \A p \in owed : \E k \in Keys : IsOpen(k) /\ rows[k].phone = p

(* The open rows are the router's sessions. *)
Exact ==
    \A k \in Keys :
        LET of == {e \in ActiveList : KeyOf(e) = k} IN
        /\ IsOpen(k) <=> of # {}
        /\ \A e \in of : rows[k] = RowOf(e)

(* "Reconciles the locally tracked sessions with the live list"            *)
(* (sessions.go): once the router, the portal and the operator are quiet   *)
(* and the list keeps being refreshed, the table becomes and stays the     *)
(* router's list, whatever stale lists, logins and half-done disconnects   *)
(* left behind.                                                            *)
TableConverges ==
    <>[][Refresh]_historyVars
    /\ []<><<\E y \in Readers : SyncDevice(y)>>_historyVars
    => <>[]Exact
=============================================================================
