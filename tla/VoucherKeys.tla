------------------------------ MODULE VoucherKeys ------------------------------
(***************************************************************************)
(* What the voucher ledger (database/vouchers.go) promises: prepaid keys   *)
(* whose operations each happen at once.  VoucherLedger shows that the     *)
(* store keeps this promise although Redeem is a transaction that reads    *)
(* first and writes later.                                                 *)
(*                                                                         *)
(* Columns that are only copied and displayed (profile, limits other than  *)
(* the duration, price, note) are left out, and a code is created at most  *)
(* once: codes are drawn at random.                                        *)
(***************************************************************************)
EXTENDS Integers, FiniteSets

CONSTANTS
    Codes,      \* voucher codes
    Batches,    \* batch names
    BatchOf,    \* the batch each code is generated in
    Offers,     \* [maxUses, duration] pairs an operator may generate
    NoTime,     \* SQL NULL in a timestamp
    MaxNow      \* bound: the clock stops here

ASSUME KeyConstants ==
    /\ BatchOf \in [Codes -> Batches]
    /\ Offers \subseteq [maxUses : Nat \ {0}, duration : Nat]
    /\ NoTime \notin Nat
    /\ MaxNow \in Nat

VARIABLES
    vouchers,     \* the table: [Codes -> Key]
    now,          \* the controller's clock
    redemptions   \* observer: redemptions committed for each code

keyVars == <<vouchers, now, redemptions>>

Statuses == {"unused", "active", "used", "expired", "disabled"}

(* "absent" before the row is inserted, "deleted" after it is removed. *)
Key == [status : Statuses \cup {"absent", "deleted"}, maxUses : Nat, duration : Nat,
        uses : Nat, activated : Nat \cup {NoTime}, expires : Nat \cup {NoTime},
        lastUsed : Nat \cup {NoTime}, pushed : BOOLEAN]

NoKey == [status |-> "absent", maxUses |-> 0, duration |-> 0, uses |-> 0,
          activated |-> NoTime, expires |-> NoTime, lastUsed |-> NoTime, pushed |-> FALSE]

Exists(v) == vouchers[v].status \in Statuses

(* Seeded fault: the last instant of the window is inside it. *)
ExpiredAfter(row, t) == row.expires # NoTime /\ row.expires < t

(* Voucher.ExpiredAt. *)
ExpiredAt(row, t) == row.expires # NoTime /\ row.expires <= t

(* Voucher.Redeemable.  An expired status without a date is a run-time     *)
(* panic in the code: the request dies and nothing is written, as if it    *)
(* had been refused.                                                       *)
Redeemable(row, t) ==
    /\ row.status \in {"unused", "active"}
    /\ ~ExpiredAt(row, t)
    /\ ~(row.maxUses > 0 /\ row.uses >= row.maxUses)

(* Seeded fault: the uses left are counted down from zero. *)
RedeemRowCountsDown(row, t) ==
    [row EXCEPT !.uses = @ - 1, !.status = "active", !.activated = t, !.lastUsed = t]

(* The row Redeem writes: the first redemption starts the window. *)
RedeemRow(row, t) ==
    [row EXCEPT
        !.status = IF row.maxUses > 0 /\ row.uses + 1 >= row.maxUses THEN "used" ELSE "active",
        !.uses = @ + 1,
        !.activated = IF @ = NoTime THEN t ELSE @,
        !.expires = IF @ = NoTime /\ row.activated = NoTime /\ row.duration > 0
                    THEN t + row.duration ELSE @,
        !.lastUsed = t]

KeysInit ==
    /\ vouchers = [v \in Codes |-> NoKey]
    /\ now = 0
    /\ redemptions = [v \in Codes |-> 0]

(* CreateBatch: one transaction inserts the batch or nothing. *)
CreateBatch(b, offer) ==
    LET fresh == {v \in Codes : BatchOf[v] = b} IN
    /\ fresh # {}
    /\ \A v \in fresh : vouchers[v].status = "absent"
    /\ vouchers' = [v \in Codes |->
            IF v \in fresh
            THEN [NoKey EXCEPT !.status = "unused", !.maxUses = offer.maxUses,
                               !.duration = offer.duration]
            ELSE vouchers[v]]
    /\ UNCHANGED <<now, redemptions>>

(* One redemption at the time t the caller read off the clock. *)
RedeemAt(v, t) ==
    /\ Redeemable(vouchers[v], t)
    /\ vouchers' = [vouchers EXCEPT ![v] = RedeemRow(@, t)]
    /\ redemptions' = [redemptions EXCEPT ![v] = @ + 1]
    /\ UNCHANGED now

(* SetStatus: the operator forces one of four states; nothing else moves. *)
SetStatus(v, status) ==
    /\ Exists(v)
    /\ vouchers' = [vouchers EXCEPT ![v].status = status]
    /\ UNCHANGED <<now, redemptions>>

OperatorStatuses == {"disabled", "unused", "used", "expired"}

(* MarkPushed. *)
MarkPushed(pushed) ==
    /\ \E v \in pushed : Exists(v)
    /\ vouchers' = [v \in Codes |->
            IF v \in pushed /\ Exists(v) THEN [vouchers[v] EXCEPT !.pushed = TRUE]
                                         ELSE vouchers[v]]
    /\ UNCHANGED <<now, redemptions>>

Gone(row) == [row EXCEPT !.status = "deleted", !.pushed = FALSE]

(* Delete. *)
Delete(v) ==
    /\ Exists(v)
    /\ vouchers' = [vouchers EXCEPT ![v] = Gone(@)]
    /\ UNCHANGED <<now, redemptions>>

(* DeleteBatch, optionally keeping the redeemed keys. *)
DeleteBatch(b, onlyUnused) ==
    LET doomed == {v \in Codes : /\ Exists(v)
                                 /\ BatchOf[v] = b
                                 /\ onlyUnused => vouchers[v].status \in {"unused", "expired"}}
    IN  /\ doomed # {}
        /\ vouchers' = [v \in Codes |-> IF v \in doomed THEN Gone(vouchers[v]) ELSE vouchers[v]]
        /\ UNCHANGED <<now, redemptions>>

(* SyncExpired, from the sweeper and before every listing. *)
SyncExpired ==
    LET Lapsed(v) == vouchers[v].status \in {"unused", "active"} /\ ExpiredAt(vouchers[v], now)
    IN  /\ \E v \in Codes : Lapsed(v)
        /\ vouchers' = [v \in Codes |->
                IF Lapsed(v) THEN [vouchers[v] EXCEPT !.status = "expired"] ELSE vouchers[v]]
        /\ UNCHANGED <<now, redemptions>>

Tick ==
    /\ now < MaxNow
    /\ now' = now + 1
    /\ UNCHANGED <<vouchers, redemptions>>

(* Every write of the store other than a redemption. *)
Administer ==
    \/ \E b \in Batches : \/ \E offer \in Offers : CreateBatch(b, offer)
                          \/ \E onlyUnused \in BOOLEAN : DeleteBatch(b, onlyUnused)
    \/ \E v \in Codes : \/ \E status \in OperatorStatuses : SetStatus(v, status)
                        \/ Delete(v)
    \/ \E pushed \in SUBSET Codes : MarkPushed(pushed)
    \/ SyncExpired

KeysNext ==
    \/ \E v \in Codes, t \in 0..now : RedeemAt(v, t)
    \/ Administer
    \/ Tick

KeysSpec == KeysInit /\ [][KeysNext]_keyVars

-----------------------------------------------------------------------------
(* The table has its columns' types. *)
KeysTypeOK ==
    /\ vouchers \in [Codes -> Key]
    /\ now \in Nat
    /\ redemptions \in [Codes -> Nat]

(* "Two simultaneous portal logins cannot both consume a single-use key":  *)
(* no key is ever redeemed more often than it was sold for, whatever an    *)
(* operator does to its status in between, and the uses column is the      *)
(* number of redemptions.                                                  *)
NeverOverRedeemed ==
    \A v \in Codes :
        /\ vouchers[v].uses = redemptions[v]
        /\ redemptions[v] <= vouchers[v].maxUses

(* A timed key is only redeemed inside the window its first redemption     *)
(* opened, and that window is never moved: not by later redemptions, not   *)
(* by an operator who re-enables an expired or used key.                   *)
UsedWithinWindow ==
    \A v \in Codes :
        LET row == vouchers[v] IN
        row.uses > 0 /\ row.duration > 0 =>
            /\ row.expires = row.activated + row.duration
            /\ row.lastUsed < row.expires
=============================================================================
