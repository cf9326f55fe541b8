----------------------------- MODULE VoucherRedeem -----------------------------
(***************************************************************************)
(* redeemVoucher (handlers/vouchers.go), the one path by which the portal, *)
(* the API and the coin tab turn a key into a session, run by concurrent   *)
(* requests against one router, next to operators who click Provision and  *)
(* Delete.                                                                 *)
(*                                                                         *)
(* The router is what the code drives it to be: the set of hotspot users   *)
(* and the set of logged-in devices.  A call to it may fail before or      *)
(* after it took effect.  Each request is one device.                      *)
(***************************************************************************)
EXTENDS VoucherLedger

CONSTANTS
    NoCode,    \* the request or the click is at rest
    Clicks     \* operators' clicks that may be under way at once

ASSUME RedeemConstants == NoCode \notin Codes

VARIABLES
    req,       \* per request: where redeemVoucher is, and with which code
    operator,  \* per click: the Provision or Delete in progress
    users,     \* the router: codes with an enabled hotspot user
    online,    \* the router: <<device, code>> sessions
    paid,      \* observer: <<device, code>> pairs whose redemption committed
    slipped,   \* observer: unpaid sessions whose logout the router or a crash prevented
    unanswered, \* observer: unpaid sessions whose login reached the handler as an error
    admitted,  \* observer: requests whose login the router accepted or took over
    revoked    \* observer: codes whose user Delete removed and nobody made again

routerVars == <<users, online>>
observers == <<paid, slipped, unanswered, admitted, revoked>>
redeemVars == <<vouchers, now, redemptions, tx, req, operator, users, online,
                paid, slipped, unanswered, admitted, revoked>>

Resting == [at |-> "idle", code |-> NoCode]

RedeemInit ==
    /\ LedgerInit
    /\ req = [r \in Requests |-> Resting]
    /\ operator = [c \in Clicks |-> Resting]
    /\ users = {}
    /\ online = {}
    /\ paid = {}
    /\ slipped = {}
    /\ unanswered = {}
    /\ admitted = {}
    /\ revoked = {}

At(r, point) == req[r].at = point
Goto(r, point) == req' = [req EXCEPT ![r].at = point]
Leave(r) == req' = [req EXCEPT ![r] = Resting]
Session(r) == <<r, req[r].code>>
Click(c, point) == operator[c].at = point
Clicked(c, point) == operator' = [operator EXCEPT ![c].at = point]
Done(c) == operator' = [operator EXCEPT ![c] = Resting]
MakeUser(v) == users' = users \cup {v} /\ revoked' = revoked \ {v}

(* FindByCode: the caller loads the row and dials the router.  A row that  *)
(* is not redeemable now is refused without a trace.                       *)
LookUp(r, v) ==
    /\ At(r, "idle")
    /\ Redeemable(vouchers[v], now)
    /\ req' = [req EXCEPT ![r] = [at |-> "provisioning", code |-> v]]
    /\ UNCHANGED <<ledgerVars, operator, routerVars, observers>>

(* EnsureHotspotUser creates, or refreshes and enables, the user. *)
Provision(r) ==
    /\ At(r, "provisioning")
    /\ MakeUser(req[r].code)
    /\ Goto(r, "login")
    /\ UNCHANGED <<ledgerVars, operator, online, paid, slipped, unanswered, admitted>>

(* The device refused it, or its answer was lost. *)
ProvisionFails(r) ==
    /\ At(r, "provisioning")
    /\ MakeUser(req[r].code) \/ UNCHANGED <<users, revoked>>
    /\ Leave(r)
    /\ UNCHANGED <<ledgerVars, operator, online, paid, slipped, unanswered, admitted>>

(* HotspotLogin: the device is online, or this RouterOS leaves the login   *)
(* to its own page.                                                        *)
Login(r) ==
    /\ At(r, "login")
    /\ \/ req[r].code \in users /\ online' = online \cup {Session(r)}
       \/ UNCHANGED online
    /\ admitted' = admitted \cup {r}
    /\ Goto(r, "redeeming")
    /\ UNCHANGED <<ledgerVars, operator, users, paid, slipped, unanswered, revoked>>

(* Seeded fault: a refused login is ignored. *)
LoginFailsUnnoticed(r) ==
    /\ At(r, "login")
    /\ Goto(r, "redeeming")
    /\ UNCHANGED <<ledgerVars, operator, routerVars, observers>>

(* The login was refused, or the router executed it and its answer was     *)
(* lost: the handler returns either way and tries no logout.               *)
LoginFails(r) ==
    /\ At(r, "login")
    /\ \/ UNCHANGED <<online, unanswered>>
       \/ /\ req[r].code \in users
          /\ online' = online \cup {Session(r)}
          /\ unanswered' = unanswered \cup ({Session(r)} \ (online \cup paid))
    /\ Leave(r)
    /\ UNCHANGED <<ledgerVars, operator, users, paid, slipped, admitted, revoked>>

(* Redeem reads the row again and opens its transaction. *)
StartRedeem(r) ==
    /\ At(r, "redeeming")
    /\ BeginRedeem(r, req[r].code)
    /\ Goto(r, "committing")
    /\ UNCHANGED <<operator, routerVars, observers>>

(* Redeem finds no row, an unredeemable one, or no database. *)
RedeemRefused(r) ==
    /\ At(r, "redeeming")
    /\ Goto(r, "rollback")
    /\ UNCHANGED <<ledgerVars, operator, routerVars, observers>>

(* The transaction commits: the device has paid. *)
Pay(r) ==
    /\ At(r, "committing")
    /\ CommitRedeem(r)
    /\ paid' = paid \cup {Session(r)}
    /\ slipped' = slipped \ {Session(r)}
    /\ unanswered' = unanswered \ {Session(r)}
    /\ admitted' = admitted \ {r}
    /\ UNCHANGED <<operator, routerVars, revoked>>

Commit(r) == Pay(r) /\ Leave(r)

(* Redeem reads the row once more for its caller.  When that fails - the   *)
(* row is gone, the customer left - it reports an error after its commit,  *)
(* and the handler undoes the login of a device that has paid.             *)
CommitUnread(r) == Pay(r) /\ Goto(r, "undoing")

(* The write lost against another commit, or failed. *)
Abort(r) ==
    /\ At(r, "committing")
    /\ AbortRedeem(r)
    /\ Goto(r, "rollback")
    /\ UNCHANGED <<operator, routerVars, observers>>

(* Seeded fault: a refused redemption leaves the device logged in. *)
NoRollBack(r) ==
    /\ At(r, "rollback")
    /\ admitted' = admitted \ {r}
    /\ Leave(r)
    /\ UNCHANGED <<ledgerVars, operator, routerVars, paid, slipped, unanswered, revoked>>

(* DisconnectClient by user name: every session of the key goes. *)
RollBack(r) ==
    /\ At(r, "rollback") \/ At(r, "undoing")
    /\ online' = {s \in online : s[2] # req[r].code}
    /\ slipped' = slipped \cap online'
    /\ unanswered' = unanswered \cap online'
    /\ admitted' = admitted \ {r}
    /\ Leave(r)
    /\ UNCHANGED <<ledgerVars, operator, users, paid, revoked>>

(* The router did not take the logout: only logged. *)
RollBackFails(r) ==
    /\ At(r, "rollback") \/ At(r, "undoing")
    /\ slipped' = slipped \cup ((online \cap {Session(r)}) \ paid)
    /\ admitted' = admitted \ {r}
    /\ Leave(r)
    /\ UNCHANGED <<ledgerVars, operator, routerVars, paid, unanswered, revoked>>

(* VoucherPush and pushVouchers, which leaves the disabled keys out: the   *)
(* row is read, ...                                                        *)
PushStart(c, v) ==
    /\ operator[c] = Resting
    /\ Exists(v)
    /\ operator' = [operator EXCEPT ![c] = [at |-> "pushing", code |-> v]]
    /\ UNCHANGED <<ledgerVars, req, routerVars, observers>>

(* Seeded fault: the row is marked although the router refused the user. *)
PushUserUnchecked(c) ==
    /\ Click(c, "pushing")
    /\ MakeUser(operator[c].code) \/ UNCHANGED <<users, revoked>>
    /\ Clicked(c, "marking")
    /\ UNCHANGED <<ledgerVars, req, online, paid, slipped, unanswered, admitted>>

(* ... the user is made on the router, or not, ... *)
PushUser(c) ==
    /\ Click(c, "pushing")
    /\ \/ MakeUser(operator[c].code) /\ Clicked(c, "marking")
       \/ MakeUser(operator[c].code) /\ Done(c)
       \/ UNCHANGED <<users, revoked>> /\ Done(c)
    /\ UNCHANGED <<ledgerVars, req, online, paid, slipped, unanswered, admitted>>

(* ... and the row is marked, if it is still there. *)
PushMark(c) ==
    /\ Click(c, "marking")
    /\ \/ MarkPushed({operator[c].code}) /\ tx' = Outdated(tx)
       \/ UNCHANGED ledgerVars
    /\ Done(c)
    /\ UNCHANGED <<req, routerVars, observers>>

(* VoucherDelete: the user is revoked when asked for and when the router   *)
(* can be reached, ...                                                     *)
DeleteStart(c, v) ==
    /\ operator[c] = Resting
    /\ Exists(v)
    /\ operator' = [operator EXCEPT ![c] = [at |-> "deleting", code |-> v]]
    /\ \/ UNCHANGED <<users, revoked>>
       \/ users' = users \ {v} /\ revoked' = revoked \cup {v}
    /\ UNCHANGED <<ledgerVars, req, online, paid, slipped, unanswered, admitted>>

(* ... and the row is deleted whatever the router said. *)
DeleteRow(c) ==
    /\ Click(c, "deleting")
    /\ \/ Delete(operator[c].code) /\ tx' = Outdated(tx)
       \/ UNCHANGED ledgerVars
    /\ Done(c)
    /\ UNCHANGED <<req, routerVars, observers>>

(* The rest of the store's traffic. *)
OtherLedgerWork ==
    /\ \/ \E b \in Batches, offer \in Offers : CreateBatch(b, offer) /\ tx' = Outdated(tx)
       \/ \E v \in Codes, status \in OperatorStatuses :
            SetStatus(v, status) /\ tx' = Outdated(tx)
       \/ \E b \in Batches, onlyUnused \in BOOLEAN :
            DeleteBatch(b, onlyUnused) /\ tx' = Outdated(tx)
       \/ SyncExpired /\ tx' = Outdated(tx)
       \/ OtherTableWrite
       \/ LedgerTick
    /\ UNCHANGED <<req, operator, routerVars, observers>>

(* A paid device the router did not log in finishes on the hotspot's page. *)
PageLogin(r, v) ==
    /\ <<r, v>> \in paid
    /\ v \in users
    /\ online' = online \cup {<<r, v>>}
    /\ UNCHANGED <<ledgerVars, req, operator, users, observers>>

(* The router ends a session: logout, or the key's uptime limit. *)
SessionEnds(s) ==
    /\ s \in online
    /\ online' = online \ {s}
    /\ slipped' = slipped \ {s}
    /\ unanswered' = unanswered \ {s}
    /\ UNCHANGED <<ledgerVars, req, operator, users, paid, admitted, revoked>>

(* Seeded fault: open transactions outlive the process. *)
CrashKeepsTransactions ==
    /\ req' = [r \in Requests |-> Resting]
    /\ operator' = [c \in Clicks |-> Resting]
    /\ slipped' = slipped \cup ((online \cap {Session(r) : r \in admitted}) \ paid)
    /\ admitted' = {}
    /\ UNCHANGED <<ledgerVars, routerVars, paid, unanswered, revoked>>

(* The controller dies and comes back: open transactions roll back,        *)
(* requests and operators' clicks are gone, the router keeps what it    *)
(* has.                                                                    *)
Crash ==
    /\ tx' = [r \in Requests |-> NoTx]
    /\ req' = [r \in Requests |-> Resting]
    /\ operator' = [c \in Clicks |-> Resting]
    /\ slipped' = slipped \cup ((online \cap {Session(r) : r \in admitted}) \ paid)
    /\ admitted' = {}
    /\ UNCHANGED <<keyVars, routerVars, paid, unanswered, revoked>>

RedeemNext ==
    \/ \E r \in Requests :
        \/ \E v \in Codes : LookUp(r, v) \/ PageLogin(r, v)
        \/ Provision(r)
        \/ ProvisionFails(r)
        \/ Login(r)
        \/ LoginFails(r)
        \/ StartRedeem(r)
        \/ RedeemRefused(r)
        \/ Commit(r)
        \/ CommitUnread(r)
        \/ Abort(r)
        \/ RollBack(r)
        \/ RollBackFails(r)
    \/ \E c \in Clicks :
        \/ \E v \in Codes : PushStart(c, v) \/ DeleteStart(c, v)
        \/ PushUser(c)
        \/ PushMark(c)
        \/ DeleteRow(c)
    \/ \E s \in online : SessionEnds(s)
    \/ OtherLedgerWork
    \/ Crash

RedeemSpec == RedeemInit /\ [][RedeemNext]_redeemVars

-----------------------------------------------------------------------------
Busy == [at : {"provisioning", "login", "redeeming", "committing", "rollback", "undoing"},
         code : Codes]

Clicking == [at : {"pushing", "marking", "deleting"}, code : Codes]

(* Requests, operators and router are where the code puts them. *)
RedeemTypeOK ==
    /\ LedgerTypeOK
    /\ req \in [Requests -> Busy \cup {Resting}]
    /\ operator \in [Clicks -> Clicking \cup {Resting}]
    /\ users \subseteq Codes /\ revoked \subseteq Codes
    /\ online \subseteq Requests \X Codes
    /\ paid \subseteq Requests \X Codes
    /\ slipped \cup unanswered \subseteq online /\ paid \cap (slipped \cup unanswered) = {}
    /\ admitted = {r \in Requests : req[r].at \in {"redeeming", "committing", "rollback"}}
    /\ \A r \in Requests : tx[r] # NoTx <=> At(r, "committing")

(* "A failure to reach the device must never burn a voucher"               *)
(* (vouchers.go:843): each redemption is that of one request the router    *)
(* let in, and uses that admission up.                                     *)
DeviceFailureNeverBurns ==
    [][\A v \in Codes : redemptions'[v] # redemptions[v] =>
        \E r \in admitted \ admitted' : req[r].code = v]_redeemVars

(* "Drop the session again so the customer is not online for free"         *)
(* (vouchers.go:876): a device online through the controller has paid or   *)
(* is still being served, with two exceptions: the router or a crash       *)
(* prevented its logout, or the router logged it in without the handler    *)
(* hearing of it, which then reports a refused login and tries no logout   *)
(* (vouchers.go:869).                                                      *)
NobodyOnlineForFree ==
    \A s \in online :
        \/ s \in paid
        \/ s[1] \in admitted /\ req[s[1]].code = s[2]
        \/ s \in slipped
        \/ s \in unanswered

(* "Which keys work even while the controller is down" (database/          *)
(* vouchers.go:514): a key marked as pushed has its user on the router,    *)
(* unless a deletion of that key removed the user and left the row, or has *)
(* the row still to delete.                                                *)
PushedKeysWorkOffline ==
    \A v \in Codes : vouchers[v].pushed => v \in users \cup revoked
=============================================================================
