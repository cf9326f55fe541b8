----------------------------- MODULE VoucherLedger -----------------------------
(***************************************************************************)
(* The voucher store with Redeem as SQLite runs it: a deferred WAL         *)
(* transaction reads a snapshot of the row, decides, and writes.  If       *)
(* anything was committed to the database file in between, SQLite refuses  *)
(* the write (SQLITE_BUSY_SNAPSHOT) and the transaction is rolled back.    *)
(* All other operations of the store are single statements or a            *)
(* transaction that starts by writing.                                     *)
(***************************************************************************)
EXTENDS VoucherKeys

CONSTANTS
    Requests,   \* callers that may have a redemption in progress
    NoTx        \* no transaction is open

ASSUME LedgerTxConstants ==
    NoTx \notin [code : Codes, row : Key, at : Nat, stale : BOOLEAN]

VARIABLE tx     \* per request: the open transaction

ledgerVars == <<vouchers, now, redemptions, tx>>

Tx == [code : Codes, row : Key, at : Nat, stale : BOOLEAN]

(* Seeded fault: an open snapshot survives the commits of others. *)
NeverOutdated(txs) == txs

(* A commit to the file makes every open snapshot stale. *)
Outdated(txs) ==
    [r \in Requests |-> IF txs[r] = NoTx THEN NoTx ELSE [txs[r] EXCEPT !.stale = TRUE]]

LedgerInit == KeysInit /\ tx = [r \in Requests |-> NoTx]

(* The read half of Redeem: the row is found and redeemable. *)
BeginRedeem(r, v) ==
    /\ tx[r] = NoTx
    /\ Redeemable(vouchers[v], now)
    /\ tx' = [tx EXCEPT ![r] = [code |-> v, row |-> vouchers[v], at |-> now, stale |-> FALSE]]
    /\ UNCHANGED keyVars

(* Seeded fault: the write is accepted over somebody else's commit. *)
CommitStale(r) ==
    /\ tx[r] # NoTx
    /\ vouchers' = [vouchers EXCEPT ![tx[r].code] = RedeemRow(tx[r].row, tx[r].at)]
    /\ redemptions' = [redemptions EXCEPT ![tx[r].code] = @ + 1]
    /\ tx' = Outdated([tx EXCEPT ![r] = NoTx])
    /\ UNCHANGED now

(* The write half: the new row is computed from the snapshot. *)
CommitRedeem(r) ==
    /\ tx[r] # NoTx
    /\ ~tx[r].stale
    /\ vouchers' = [vouchers EXCEPT ![tx[r].code] = RedeemRow(tx[r].row, tx[r].at)]
    /\ redemptions' = [redemptions EXCEPT ![tx[r].code] = @ + 1]
    /\ tx' = Outdated([tx EXCEPT ![r] = NoTx])
    /\ UNCHANGED now

(* The write is refused, fails, or its context is cancelled. *)
AbortRedeem(r) ==
    /\ tx[r] # NoTx
    /\ tx' = [tx EXCEPT ![r] = NoTx]
    /\ UNCHANGED keyVars

(* Any other statement of the store. *)
OtherStatement == Administer /\ tx' = Outdated(tx)

(* A write to another table of the same file: coins, sessions, settings. *)
OtherTableWrite ==
    /\ tx' = Outdated(tx)
    /\ UNCHANGED keyVars

LedgerTick == Tick /\ UNCHANGED tx

LedgerNext ==
    \/ \E r \in Requests : \/ \E v \in Codes : BeginRedeem(r, v)
                           \/ CommitRedeem(r)
                           \/ AbortRedeem(r)
    \/ OtherStatement
    \/ OtherTableWrite
    \/ LedgerTick

LedgerSpec == LedgerInit /\ [][LedgerNext]_ledgerVars

-----------------------------------------------------------------------------
(* The open transactions are well formed. *)
LedgerTypeOK == KeysTypeOK /\ tx \in [Requests -> Tx \cup {NoTx}]

(* What makes the store serialisable: an open snapshot that is not stale   *)
(* is the row as it stands, still redeemable at the time it carries.       *)
SnapshotsAreCurrent ==
    \A r \in Requests :
        tx[r] # NoTx /\ ~tx[r].stale =>
            /\ vouchers[tx[r].code] = tx[r].row
            /\ Redeemable(tx[r].row, tx[r].at)
            /\ tx[r].at <= now
=============================================================================
