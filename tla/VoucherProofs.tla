----------------------------- MODULE VoucherProofs -----------------------------
(***************************************************************************)
(* What the voucher store promises, for any number of codes, requests,     *)
(* batches and offers: the promise itself (VoucherKeys) is safe, the store *)
(* as SQLite runs it (VoucherLedger) keeps the promise, and so does        *)
(* redeemVoucher on top of it (VoucherRedeem), run by any number of        *)
(* devices at once next to the operator's pushes and deletions, with a     *)
(* router that fails before or after it took effect and a controller that  *)
(* may die at any point.                                                   *)
(***************************************************************************)
EXTENDS VoucherRedeem, TLAPS

-----------------------------------------------------------------------------
(* The promise, and the store that keeps it *)


(* What is true of one row and the number of its redemptions.  A window is *)
(* opened by the first redemption and by nothing else, which is what makes *)
(* the bound on lastUsed inductive.                                        *)
RowInv(row, n) ==
    /\ row.uses = n
    /\ row.uses <= row.maxUses
    /\ row.status = "absent" => row.uses = 0
    /\ row.status \in Statuses => row.maxUses > 0
    /\ row.uses = 0 => row.activated = NoTime /\ row.expires = NoTime
    /\ row.uses > 0 /\ row.duration > 0 =>
        /\ row.activated \in Nat /\ row.lastUsed \in Nat
        /\ row.expires = row.activated + row.duration
        /\ row.lastUsed < row.expires

KeyInv == \A v \in Codes : RowInv(vouchers[v], redemptions[v])

(* A redemption writes a row of the table's type.                          *)
LEMMA RedeemRowType ==
    ASSUME NEW row \in Key, NEW t \in Nat
    PROVE  RedeemRow(row, t) \in Key
<1> DEFINE status == IF row.maxUses > 0 /\ row.uses + 1 >= row.maxUses
                     THEN "used" ELSE "active"
           activated == IF row.activated = NoTime THEN t ELSE row.activated
           expires == IF row.expires = NoTime /\ row.activated = NoTime /\ row.duration > 0
                      THEN t + row.duration ELSE row.expires
<1>1. RedeemRow(row, t) = [row EXCEPT !.status = status, !.uses = row.uses + 1,
                                      !.activated = activated, !.expires = expires,
                                      !.lastUsed = t]
  BY DEF RedeemRow
<1>2. status \in Statuses
  BY DEF Statuses
<1>3. /\ row.uses + 1 \in Nat
      /\ activated \in Nat \cup {NoTime}
      /\ expires \in Nat \cup {NoTime}
  BY DEF Key
<1> HIDE DEF status, activated, expires
<1> QED
  BY <1>1, <1>2, <1>3 DEF Key

(* A redemption of a redeemable row uses it up by one and leaves its       *)
(* window where the first redemption put it.                               *)
LEMMA RedeemRowInv ==
    ASSUME NEW row \in Key, NEW t \in Nat, NEW n \in Nat,
           Redeemable(row, t), RowInv(row, n)
    PROVE  RowInv(RedeemRow(row, t), n + 1)
<1> DEFINE new == RedeemRow(row, t)
<1>1. /\ row.uses \in Nat /\ row.maxUses \in Nat /\ row.duration \in Nat
      /\ row.maxUses > 0 /\ row.uses < row.maxUses
      /\ ~ExpiredAt(row, t) /\ NoTime \notin Nat
  BY KeyConstants DEF Key, Redeemable, RowInv, Statuses
<1>2. /\ new.uses = row.uses + 1 /\ new.maxUses = row.maxUses
      /\ new.duration = row.duration /\ new.lastUsed = t
      /\ new.status \in {"used", "active"}
      /\ new.activated = IF row.activated = NoTime THEN t ELSE row.activated
      /\ new.expires = IF row.expires = NoTime /\ row.activated = NoTime /\ row.duration > 0
                       THEN t + row.duration ELSE row.expires
  BY DEF RedeemRow, Key
<1>3. new.uses = n + 1 /\ new.uses <= new.maxUses /\ new.uses > 0
  BY <1>1, <1>2 DEF RowInv
<1>4. ASSUME row.duration > 0
      PROVE  /\ new.activated \in Nat /\ new.lastUsed \in Nat
             /\ new.expires = new.activated + new.duration
             /\ new.lastUsed < new.expires
  <2>1. CASE row.uses = 0
    BY <1>1, <1>2, <1>4, <2>1 DEF RowInv
  <2>2. CASE row.uses > 0
    <3>1. /\ row.activated \in Nat /\ row.expires = row.activated + row.duration
          /\ row.expires # NoTime
      BY <1>1, <1>4, <2>2 DEF RowInv
    <3>2. row.expires > t
      BY <1>1, <3>1 DEF ExpiredAt
    <3> QED
      BY <1>1, <1>2, <3>1, <3>2
  <2> QED
    BY <1>1, <2>1, <2>2
<1> QED
  BY <1>1, <1>2, <1>3, <1>4 DEF RowInv, Statuses

(* The table starts empty. *)
LEMMA KeysStart == KeysInit => KeysTypeOK /\ KeyInv
  BY KeyConstants DEF KeysInit, KeysTypeOK, KeyInv, RowInv, Key, NoKey, Statuses

(* No write but a redemption touches a use, a window or a redeemed key's   *)
(* allowance.                                                              *)
LEMMA AdministerStep ==
    KeysTypeOK /\ KeyInv /\ Administer => KeysTypeOK' /\ KeyInv'
<1> SUFFICES ASSUME KeysTypeOK, KeyInv, Administer PROVE KeysTypeOK' /\ KeyInv'
  OBVIOUS
<1> USE DEF KeysTypeOK
<1>0. \A v \in Codes : vouchers[v] \in Key /\ redemptions[v] \in Nat
  OBVIOUS
<1>1. ASSUME NEW b \in Batches, NEW offer \in Offers, CreateBatch(b, offer)
      PROVE  KeysTypeOK' /\ KeyInv'
  <2>1. offer.maxUses \in Nat /\ offer.maxUses > 0 /\ offer.duration \in Nat
    BY KeyConstants
  <2> DEFINE new == [NoKey EXCEPT !.status = "unused", !.maxUses = offer.maxUses,
                                  !.duration = offer.duration]
  <2>2. new \in Key /\ RowInv(new, 0)
    <3>1. NoKey \in Key
      BY DEF NoKey, Key, Statuses
    <3>2. new \in Key
      BY <2>1, <3>1 DEF Key, Statuses
    <3>3. /\ new.status = "unused" /\ new.maxUses = offer.maxUses
          /\ new.uses = 0 /\ new.activated = NoTime /\ new.expires = NoTime
      BY DEF NoKey
    <3> HIDE DEF new
    <3> QED
      BY <2>1, <3>2, <3>3 DEF RowInv
  <2>3. \A v \in Codes : \/ vouchers'[v] = vouchers[v]
                         \/ vouchers'[v] = new /\ vouchers[v].status = "absent"
    BY <1>1 DEF CreateBatch
  <2>4. \A v \in Codes : vouchers[v].status = "absent" => redemptions[v] = 0
    BY DEF KeyInv, RowInv
  <2>5. KeysTypeOK'
    BY <1>1, <2>2, <2>3 DEF CreateBatch
  <2>6. redemptions' = redemptions
    BY <1>1 DEF CreateBatch
  <2> HIDE DEF new
  <2> QED
    BY <2>2, <2>3, <2>4, <2>5, <2>6 DEF KeyInv
<1>2. ASSUME NEW b \in Batches, NEW onlyUnused \in BOOLEAN, DeleteBatch(b, onlyUnused)
      PROVE  KeysTypeOK' /\ KeyInv'
  <2>1. \A v \in Codes : /\ Gone(vouchers[v]) \in Key
                         /\ RowInv(Gone(vouchers[v]), redemptions[v])
    BY <1>0 DEF Gone, Key, KeyInv, RowInv, Statuses
  <2>2. \A v \in Codes : vouchers'[v] \in {vouchers[v], Gone(vouchers[v])}
    BY <1>2 DEF DeleteBatch
  <2>3. KeysTypeOK'
    BY <1>2, <2>1, <2>2 DEF DeleteBatch
  <2> QED
    BY <1>2, <2>1, <2>2, <2>3 DEF DeleteBatch, KeyInv
<1>3. ASSUME NEW v \in Codes, NEW status \in OperatorStatuses, SetStatus(v, status)
      PROVE  KeysTypeOK' /\ KeyInv'
  <2>1. Exists(v) /\ status \in Statuses
    BY <1>3 DEF SetStatus, OperatorStatuses, Statuses
  <2>2. /\ [vouchers[v] EXCEPT !.status = status] \in Key
        /\ RowInv([vouchers[v] EXCEPT !.status = status], redemptions[v])
    BY <1>0, <2>1 DEF Key, KeyInv, RowInv, Exists, Statuses
  <2> QED
    BY <1>3, <2>2 DEF SetStatus, KeyInv
<1>4. ASSUME NEW v \in Codes, Delete(v) PROVE KeysTypeOK' /\ KeyInv'
  <2>1. Gone(vouchers[v]) \in Key /\ RowInv(Gone(vouchers[v]), redemptions[v])
    BY <1>0 DEF Gone, Key, KeyInv, RowInv, Statuses
  <2> QED
    BY <1>4, <2>1 DEF Delete, KeyInv
<1>5. ASSUME NEW pushed \in SUBSET Codes, MarkPushed(pushed)
      PROVE  KeysTypeOK' /\ KeyInv'
  <2>1. \A v \in Codes : /\ [vouchers[v] EXCEPT !.pushed = TRUE] \in Key
                         /\ RowInv([vouchers[v] EXCEPT !.pushed = TRUE], redemptions[v])
    BY <1>0 DEF Key, KeyInv, RowInv, Statuses
  <2> QED
    BY <1>5, <2>1 DEF MarkPushed, KeyInv
<1>6. ASSUME SyncExpired PROVE KeysTypeOK' /\ KeyInv'
  <2>1. \A v \in Codes : vouchers[v].status \in {"unused", "active"} =>
            /\ [vouchers[v] EXCEPT !.status = "expired"] \in Key
            /\ RowInv([vouchers[v] EXCEPT !.status = "expired"], redemptions[v])
    BY <1>0 DEF Key, KeyInv, RowInv, Statuses
  <2> QED
    BY <1>6, <2>1 DEF SyncExpired, KeyInv
<1> QED
  BY <1>1, <1>2, <1>3, <1>4, <1>5, <1>6 DEF Administer

(* Every step of the promise keeps the table's types and the row facts.    *)
LEMMA KeysStep ==
    KeysTypeOK /\ KeyInv /\ [KeysNext]_keyVars => KeysTypeOK' /\ KeyInv'
<1> SUFFICES ASSUME KeysTypeOK, KeyInv, [KeysNext]_keyVars
             PROVE  KeysTypeOK' /\ KeyInv'
  OBVIOUS
<1>1. ASSUME NEW v \in Codes, NEW t \in 0..now, RedeemAt(v, t)
      PROVE  KeysTypeOK' /\ KeyInv'
  <2>1. vouchers[v] \in Key /\ redemptions[v] \in Nat /\ t \in Nat
    BY DEF KeysTypeOK
  <2>2. /\ RedeemRow(vouchers[v], t) \in Key
        /\ RowInv(RedeemRow(vouchers[v], t), redemptions[v] + 1)
    BY <1>1, <2>1, RedeemRowType, RedeemRowInv DEF RedeemAt, KeyInv
  <2> QED
    BY <1>1, <2>1, <2>2 DEF RedeemAt, KeysTypeOK, KeyInv
<1>2. CASE Administer
  BY <1>2, AdministerStep
<1>3. CASE Tick
  BY <1>3 DEF Tick, KeysTypeOK, KeyInv
<1>4. CASE UNCHANGED keyVars
  BY <1>4 DEF keyVars, KeysTypeOK, KeyInv
<1> QED
  BY <1>1, <1>2, <1>3, <1>4 DEF KeysNext

(* The inductive invariant of the promise. *)
THEOREM KeysInvariant == KeysSpec => [](KeysTypeOK /\ KeyInv)
  BY KeysStart, KeysStep, PTL DEF KeysSpec

(* No key is redeemed more often than it was sold for, whatever an         *)
(* operator does to its status in between.                                 *)
THEOREM KeysNeverOverRedeemed == KeysSpec => []NeverOverRedeemed
<1>1. KeysTypeOK /\ KeyInv => NeverOverRedeemed
  BY DEF KeysTypeOK, KeyInv, RowInv, NeverOverRedeemed
<1> QED
  BY <1>1, KeysInvariant, PTL

(* A timed key is only redeemed inside the window its first redemption     *)
(* opened, and nothing moves that window.                                  *)
THEOREM KeysUsedWithinWindow == KeysSpec => []UsedWithinWindow
<1>1. KeysTypeOK /\ KeyInv => UsedWithinWindow
  BY DEF KeysTypeOK, KeyInv, RowInv, UsedWithinWindow
<1> QED
  BY <1>1, KeysInvariant, PTL

-----------------------------------------------------------------------------
LedgerInv == LedgerTypeOK /\ SnapshotsAreCurrent

(* An open transaction is a record, closed ones are NoTx.                  *)
LEMMA OutdatedTx ==
    ASSUME NEW txs \in [Requests -> Tx \cup {NoTx}]
    PROVE  /\ Outdated(txs) \in [Requests -> Tx \cup {NoTx}]
           /\ \A r \in Requests : Outdated(txs)[r] # NoTx => Outdated(txs)[r].stale
<1>1. ASSUME NEW r \in Requests, txs[r] # NoTx
      PROVE  /\ [txs[r] EXCEPT !.stale = TRUE] \in Tx
             /\ [txs[r] EXCEPT !.stale = TRUE].stale
  BY <1>1 DEF Tx
<1> QED
  BY <1>1 DEF Outdated

(* The write half of Redeem is a redemption of the row as it stands: the   *)
(* heart of the refinement.                                                *)
LEMMA CommitIsRedeemAt ==
    ASSUME LedgerInv, NEW r \in Requests, CommitRedeem(r)
    PROVE  \E v \in Codes, t \in 0..now : RedeemAt(v, t)
<1> DEFINE v == tx[r].code
           t == tx[r].at
<1>1. tx[r] \in Tx /\ ~tx[r].stale
  BY DEF CommitRedeem, LedgerInv, LedgerTypeOK
<1>2. v \in Codes /\ t \in 0..now
  BY <1>1 DEF Tx, LedgerInv, LedgerTypeOK, KeysTypeOK, SnapshotsAreCurrent, CommitRedeem
<1>3. vouchers[v] = tx[r].row /\ Redeemable(vouchers[v], t)
  BY <1>1 DEF LedgerInv, SnapshotsAreCurrent, CommitRedeem
<1>4. RedeemAt(v, t)
  BY <1>3 DEF CommitRedeem, RedeemAt
<1> QED
  BY <1>2, <1>4

(* Every step of the store is a step of the promise or leaves it alone.    *)
LEMMA LedgerStepRefines ==
    LedgerInv /\ [LedgerNext]_ledgerVars => [KeysNext]_keyVars
<1> SUFFICES ASSUME LedgerInv, [LedgerNext]_ledgerVars PROVE [KeysNext]_keyVars
  OBVIOUS
<1>1. ASSUME NEW r \in Requests, CommitRedeem(r) PROVE KeysNext
  BY <1>1, CommitIsRedeemAt DEF KeysNext
<1>2. ASSUME NEW r \in Requests,
             AbortRedeem(r) \/ \E v \in Codes : BeginRedeem(r, v)
      PROVE  UNCHANGED keyVars
  BY <1>2 DEF AbortRedeem, BeginRedeem
<1>3. CASE OtherStatement
  BY <1>3 DEF OtherStatement, KeysNext
<1>4. CASE OtherTableWrite
  BY <1>4 DEF OtherTableWrite
<1>5. CASE LedgerTick
  BY <1>5 DEF LedgerTick, KeysNext
<1>6. CASE UNCHANGED ledgerVars
  BY <1>6 DEF ledgerVars, keyVars
<1> QED
  BY <1>1, <1>2, <1>3, <1>4, <1>5, <1>6 DEF LedgerNext

(* A snapshot that no commit has outdated is the row as it stands.         *)
LEMMA LedgerInvStep ==
    LedgerInv /\ KeyInv /\ [LedgerNext]_ledgerVars => LedgerInv'
<1> SUFFICES ASSUME LedgerInv, KeyInv, [LedgerNext]_ledgerVars PROVE LedgerInv'
  OBVIOUS
<1>0. /\ tx \in [Requests -> Tx \cup {NoTx}]
      /\ \A r \in Requests : tx[r] = NoTx \/ tx[r] \in Tx
      /\ NoTx \notin Tx
  BY LedgerTxConstants DEF LedgerInv, LedgerTypeOK, Tx
<1>1. KeysTypeOK /\ KeysTypeOK'
  BY LedgerStepRefines, KeysStep DEF LedgerInv, LedgerTypeOK
<1>2. ASSUME tx' = Outdated(tx) PROVE LedgerInv'
  <2>1. /\ tx' \in [Requests -> Tx \cup {NoTx}]
        /\ \A r \in Requests : tx'[r] # NoTx => tx'[r].stale
    BY <1>0, <1>2, OutdatedTx
  <2> QED
    BY <1>1, <2>1 DEF LedgerInv, LedgerTypeOK, SnapshotsAreCurrent
<1>3. ASSUME NEW r \in Requests, NEW v \in Codes, BeginRedeem(r, v) PROVE LedgerInv'
  <2> DEFINE new == [code |-> v, row |-> vouchers[v], at |-> now, stale |-> FALSE]
  <2>1. new \in Tx
    BY <1>1 DEF Tx, KeysTypeOK
  <2>2. tx' = [tx EXCEPT ![r] = new] /\ UNCHANGED keyVars /\ Redeemable(vouchers[v], now)
    BY <1>3 DEF BeginRedeem
  <2>3. tx' \in [Requests -> Tx \cup {NoTx}]
    BY <1>0, <2>1, <2>2
  <2>4. SnapshotsAreCurrent'
    <3>1. SUFFICES ASSUME NEW q \in Requests, tx'[q] # NoTx, ~tx'[q].stale
                   PROVE  /\ vouchers'[tx'[q].code] = tx'[q].row
                          /\ Redeemable(tx'[q].row, tx'[q].at)
                          /\ tx'[q].at <= now'
      BY DEF SnapshotsAreCurrent
    <3>2. CASE q = r
      <4>1. tx'[q] = new
        BY <1>0, <2>2, <3>2
      <4>2. new.code = v /\ new.row = vouchers[v] /\ new.at = now
        OBVIOUS
      <4> HIDE DEF new
      <4> QED
        BY <1>1, <2>2, <4>1, <4>2 DEF keyVars, KeysTypeOK
    <3>3. CASE q # r
      BY <1>0, <2>2, <3>1, <3>3 DEF LedgerInv, SnapshotsAreCurrent, keyVars
    <3> QED
      BY <3>2, <3>3
  <2> QED
    BY <1>1, <2>3, <2>4 DEF LedgerInv, LedgerTypeOK
<1>4. ASSUME NEW r \in Requests, CommitRedeem(r) PROVE LedgerInv'
  <2>1. [tx EXCEPT ![r] = NoTx] \in [Requests -> Tx \cup {NoTx}]
    BY <1>0
  <2>2. tx' = Outdated([tx EXCEPT ![r] = NoTx])
    BY <1>4 DEF CommitRedeem
  <2>3. /\ tx' \in [Requests -> Tx \cup {NoTx}]
        /\ \A q \in Requests : tx'[q] # NoTx => tx'[q].stale
    BY <2>1, <2>2, OutdatedTx
  <2> QED
    BY <1>1, <2>3 DEF LedgerInv, LedgerTypeOK, SnapshotsAreCurrent
<1>5. ASSUME NEW r \in Requests, AbortRedeem(r) PROVE LedgerInv'
  BY <1>0, <1>1, <1>5 DEF AbortRedeem, keyVars, LedgerInv, LedgerTypeOK, SnapshotsAreCurrent
<1>6. CASE LedgerTick
  <2>1. vouchers' = vouchers /\ tx' = tx /\ now <= now' /\ now \in Nat /\ now' \in Nat
    BY <1>1, <1>6 DEF LedgerTick, Tick, KeysTypeOK
  <2>2. \A r \in Requests : tx[r] # NoTx => tx[r].at \in Nat
    BY <1>0 DEF Tx
  <2> QED
    BY <1>0, <1>1, <2>1, <2>2 DEF LedgerInv, LedgerTypeOK, SnapshotsAreCurrent
<1>7. CASE UNCHANGED ledgerVars
  BY <1>1, <1>7 DEF ledgerVars, LedgerInv, LedgerTypeOK, SnapshotsAreCurrent
<1>8. CASE OtherStatement \/ OtherTableWrite
  BY <1>2, <1>8 DEF OtherStatement, OtherTableWrite
<1> QED
  BY <1>3, <1>4, <1>5, <1>6, <1>7, <1>8 DEF LedgerNext

(* Snapshots stay current or become stale, whoever commits: what makes     *)
(* read-then-write safe in Redeem.                                         *)
THEOREM LedgerSnapshots == LedgerSpec => [](LedgerTypeOK /\ SnapshotsAreCurrent)
<1>1. LedgerInit => LedgerInv /\ KeyInv
  BY KeysStart DEF LedgerInit, LedgerInv, LedgerTypeOK, SnapshotsAreCurrent
<1>2. LedgerInv /\ KeyInv /\ [LedgerNext]_ledgerVars => LedgerInv' /\ KeyInv'
  BY LedgerInvStep, LedgerStepRefines, KeysStep DEF LedgerInv, LedgerTypeOK
<1>3. LedgerInv => LedgerTypeOK /\ SnapshotsAreCurrent
  BY DEF LedgerInv
<1> QED
  BY <1>1, <1>2, <1>3, PTL DEF LedgerSpec

(* The table and the open transactions have their types, whatever is        *)
(* committed in between.                                                    *)
THEOREM LedgerTypeCorrect == LedgerSpec => []LedgerTypeOK
  BY LedgerSnapshots, PTL

(* The store, with its transactions open at once, implements keys whose    *)
(* redemptions each happen at one instant.                                 *)
THEOREM LedgerImplementsKeys == LedgerSpec => KeysSpec
<1>1. LedgerInit => KeysInit
  BY DEF LedgerInit
<1>2. LedgerSpec => []LedgerInv
  BY LedgerSnapshots, PTL DEF LedgerInv
<1> QED
  BY <1>1, <1>2, LedgerStepRefines, PTL DEF LedgerSpec, KeysSpec

(* "Two simultaneous portal logins cannot both consume a single-use key".  *)
THEOREM LedgerNeverOverRedeemed == LedgerSpec => []NeverOverRedeemed
  BY LedgerImplementsKeys, KeysNeverOverRedeemed

(* No redemption outside the window, also with transactions that carry the *)
(* time at which they began.                                               *)
THEOREM LedgerUsedWithinWindow == LedgerSpec => []UsedWithinWindow
  BY LedgerImplementsKeys, KeysUsedWithinWindow

-----------------------------------------------------------------------------
(* Redemptions, pushes and deletions on top of the store *)


Admitted == {"redeeming", "committing", "rollback"}

(* The transaction of a request is open exactly while it commits, and for  *)
(* the code the request logged in.                                         *)
OpenInv ==
    \A r \in Requests :
        /\ tx[r] # NoTx <=> At(r, "committing")
        /\ At(r, "committing") => tx[r].code = req[r].code

(* Operators mark keys whose user was made.                                *)
MarkInv == \A c \in Clicks : Click(c, "marking") => operator[c].code \in users \cup revoked

(* The store's invariants come along: a commit is a redemption of the row  *)
(* as it stands only because its snapshot is current.                      *)
RedeemInv == RedeemTypeOK /\ SnapshotsAreCurrent /\ KeyInv /\ OpenInv /\ MarkInv

-----------------------------------------------------------------------------
(* The store under the requests *)

LEMMA RedeemInvIsLedgerInv == RedeemInv => LedgerInv /\ KeyInv /\ KeysTypeOK
  BY DEF RedeemInv, RedeemTypeOK, LedgerInv, LedgerTypeOK

LEMMA OperatorCode ==
    ASSUME RedeemTypeOK, NEW c \in Clicks, operator[c].at # "idle"
    PROVE  operator[c] \in Clicking /\ operator[c].code \in Codes
  BY DEF RedeemTypeOK, Resting, Clicking

LEMMA BusyCode ==
    ASSUME RedeemTypeOK, NEW r \in Requests, req[r].at # "idle"
    PROVE  req[r] \in Busy /\ req[r].code \in Codes
  BY DEF RedeemTypeOK, Resting, Busy

(* Every step but a crash moves the store by one of its own steps.         *)
LEMMA RedeemStepIsLedgerStep ==
    ASSUME RedeemTypeOK, [RedeemNext]_redeemVars, ~Crash
    PROVE  [LedgerNext]_ledgerVars
<1>1. ASSUME NEW r \in Requests, NEW v \in Codes, LookUp(r, v) \/ PageLogin(r, v)
      PROVE  UNCHANGED ledgerVars
  BY <1>1 DEF LookUp, PageLogin
<1>2. ASSUME NEW r \in Requests,
             \/ Provision(r) \/ ProvisionFails(r) \/ Login(r) \/ LoginFails(r)
             \/ RedeemRefused(r) \/ RollBack(r) \/ RollBackFails(r)
      PROVE  UNCHANGED ledgerVars
  BY <1>2 DEF Provision, ProvisionFails, Login, LoginFails, RedeemRefused, RollBack,
     RollBackFails
<1>3. ASSUME NEW r \in Requests, StartRedeem(r) PROVE LedgerNext
  <2>1. req[r].code \in Codes
    BY <1>3, BusyCode DEF StartRedeem, At
  <2> QED
    BY <1>3, <2>1 DEF StartRedeem, LedgerNext
<1>4. ASSUME NEW r \in Requests, Pay(r) \/ Abort(r) PROVE LedgerNext
  BY <1>4 DEF Pay, Abort, LedgerNext
<1>5. ASSUME NEW c \in Clicks, NEW v \in Codes, PushStart(c, v) \/ DeleteStart(c, v)
      PROVE  UNCHANGED ledgerVars
  BY <1>5 DEF PushStart, DeleteStart
<1>6. ASSUME NEW s \in online, SessionEnds(s) PROVE UNCHANGED ledgerVars
  BY <1>6 DEF SessionEnds
<1>7. ASSUME NEW c \in Clicks, PushUser(c) PROVE UNCHANGED ledgerVars
  BY <1>7 DEF PushUser
<1>8. ASSUME NEW c \in Clicks, PushMark(c) PROVE [LedgerNext]_ledgerVars
  <2>1. {operator[c].code} \in SUBSET Codes
    BY <1>8, OperatorCode DEF PushMark, Click
  <2> QED
    BY <1>8, <2>1 DEF PushMark, LedgerNext, OtherStatement, Administer
<1>9. ASSUME NEW c \in Clicks, DeleteRow(c) PROVE [LedgerNext]_ledgerVars
  <2>1. operator[c].code \in Codes
    BY <1>9, OperatorCode DEF DeleteRow, Click
  <2> QED
    BY <1>9, <2>1 DEF DeleteRow, LedgerNext, OtherStatement, Administer
<1>10. CASE OtherLedgerWork
  BY <1>10 DEF OtherLedgerWork, LedgerNext, OtherStatement, Administer
<1>11. CASE UNCHANGED redeemVars
  BY <1>11 DEF redeemVars, ledgerVars
<1> QED
  BY <1>1, <1>2, <1>3, <1>4, <1>5, <1>6, <1>7, <1>8, <1>9, <1>10, <1>11
     DEF RedeemNext, Commit, CommitUnread

(* The store and its promise survive every step; a crash rolls back what   *)
(* is open and touches no row.                                             *)
LEMMA RedeemKeepsLedger ==
    ASSUME RedeemInv, [RedeemNext]_redeemVars
    PROVE  /\ [KeysNext]_keyVars
           /\ LedgerTypeOK' /\ SnapshotsAreCurrent' /\ KeyInv'
<1>1. LedgerInv /\ KeyInv /\ KeysTypeOK
  BY RedeemInvIsLedgerInv
<1>2. CASE ~Crash
  <2>1. [LedgerNext]_ledgerVars
    BY <1>2, RedeemStepIsLedgerStep DEF RedeemInv
  <2>2. [KeysNext]_keyVars /\ LedgerInv'
    BY <1>1, <2>1, LedgerStepRefines, LedgerInvStep
  <2> QED
    BY <1>1, <2>2, KeysStep DEF LedgerInv
<1>3. CASE Crash
  <2>1. UNCHANGED keyVars /\ tx' = [r \in Requests |-> NoTx]
    BY <1>3 DEF Crash
  <2>2. KeysTypeOK' /\ KeyInv'
    BY <1>1, <2>1, KeysStep
  <2>3. LedgerTypeOK' /\ SnapshotsAreCurrent'
    BY <2>1, <2>2 DEF LedgerTypeOK, SnapshotsAreCurrent
  <2> QED
    BY <2>1, <2>2, <2>3
<1> QED
  BY <1>2, <1>3

-----------------------------------------------------------------------------
(* Where a request is *)

BusyPoints == {"provisioning", "login", "redeeming", "committing", "rollback", "undoing"}

LEMMA GotoMoves ==
    ASSUME RedeemTypeOK, NEW r \in Requests, NEW point \in BusyPoints, req[r].at # "idle",
           Goto(r, point)
    PROVE  /\ req' \in [Requests -> Busy \cup {Resting}]
           /\ req'[r].at = point /\ req'[r].code = req[r].code
           /\ \A q \in Requests \ {r} : req'[q] = req[q]
<1>1. req \in [Requests -> Busy \cup {Resting}] /\ req[r] \in Busy
  BY BusyCode DEF RedeemTypeOK
<1>2. req' = [req EXCEPT ![r].at = point]
  BY DEF Goto
<1>3. [req[r] EXCEPT !.at = point] \in Busy
  BY <1>1 DEF Busy, BusyPoints
<1> QED
  BY <1>1, <1>2, <1>3 DEF Busy

LEMMA LeaveMoves ==
    ASSUME RedeemTypeOK, NEW r \in Requests, Leave(r)
    PROVE  /\ req' \in [Requests -> Busy \cup {Resting}]
           /\ req'[r] = Resting /\ req'[r].at = "idle"
           /\ \A q \in Requests \ {r} : req'[q] = req[q]
  BY DEF RedeemTypeOK, Leave, Resting

(* The session of a busy request is one the router can have.               *)
LEMMA SessionType ==
    ASSUME RedeemTypeOK, NEW r \in Requests, req[r].at # "idle"
    PROVE  Session(r) \in Requests \X Codes
  BY BusyCode DEF Session

(* Who is admitted follows the points of the requests.                     *)
LEMMA AdmittedKept ==
    ASSUME RedeemTypeOK, NEW r \in Requests,
           \A q \in Requests \ {r} : req'[q] = req[q],
           \/ admitted' = admitted \cup {r} /\ req'[r].at \in Admitted
           \/ admitted' = admitted \ {r} /\ req'[r].at \notin Admitted
           \/ admitted' = admitted /\ (req'[r].at \in Admitted <=> req[r].at \in Admitted)
    PROVE  admitted' = {q \in Requests : req'[q].at \in Admitted}
  BY DEF RedeemTypeOK, Admitted

(* A commit by anybody closes no transaction and moves none to another key. *)
LEMMA OutdatedKeepsOpen ==
    ASSUME NEW txs \in [Requests -> Tx \cup {NoTx}], NEW r \in Requests
    PROVE  /\ Outdated(txs)[r] # NoTx <=> txs[r] # NoTx
           /\ txs[r] # NoTx => Outdated(txs)[r].code = txs[r].code
<1>1. NoTx \notin Tx
  BY LedgerTxConstants DEF Tx
<1>2. CASE txs[r] = NoTx
  BY <1>2 DEF Outdated
<1>3. CASE txs[r] # NoTx
  <2>1. Outdated(txs)[r] = [txs[r] EXCEPT !.stale = TRUE] /\ txs[r] \in Tx
    BY <1>3 DEF Outdated
  <2>2. [txs[r] EXCEPT !.stale = TRUE] \in Tx /\ [txs[r] EXCEPT !.stale = TRUE].code = txs[r].code
    BY <2>1 DEF Tx
  <2> QED
    BY <1>1, <1>3, <2>1, <2>2
<1> QED
  BY <1>2, <1>3

LEMMA OpenInvStep ==
    ASSUME RedeemTypeOK, OpenInv, [RedeemNext]_redeemVars
    PROVE  OpenInv'
<1>0. tx \in [Requests -> Tx \cup {NoTx}]
  BY DEF RedeemTypeOK, LedgerTypeOK
(* Nobody enters or leaves his transaction. *)
<1>k. ASSUME \A q \in Requests : /\ At(q, "committing")' <=> At(q, "committing")
                                 /\ At(q, "committing") => req'[q].code = req[q].code,
             tx' = tx \/ tx' = Outdated(tx)
      PROVE  OpenInv'
  BY <1>0, <1>k, OutdatedKeepsOpen DEF OpenInv
<1>1. ASSUME NEW r \in Requests, NEW v \in Codes, LookUp(r, v) PROVE OpenInv'
  BY <1>1, <1>k DEF LookUp, At, ledgerVars, RedeemTypeOK
<1>2. ASSUME NEW r \in Requests, req[r].at \in BusyPoints \ {"committing"},
             (\E p \in BusyPoints \ {"committing"} : Goto(r, p)) \/ Leave(r), tx' = tx
      PROVE  OpenInv'
  BY <1>2, <1>k, GotoMoves, LeaveMoves DEF At, BusyPoints
<1>3. ASSUME NEW r \in Requests,
             \/ Provision(r) \/ ProvisionFails(r) \/ Login(r) \/ LoginFails(r)
             \/ RedeemRefused(r) \/ RollBack(r) \/ RollBackFails(r)
      PROVE  OpenInv'
  BY <1>2, <1>3 DEF Provision, ProvisionFails, Login, LoginFails, RedeemRefused, RollBack,
     RollBackFails, BusyPoints, At, ledgerVars
<1>4. ASSUME NEW r \in Requests, StartRedeem(r) PROVE OpenInv'
  <2>1. /\ req'[r].at = "committing" /\ req'[r].code = req[r].code
        /\ \A q \in Requests \ {r} : req'[q] = req[q]
    BY <1>4, GotoMoves DEF StartRedeem, At, BusyPoints
  <2> DEFINE new == [code |-> req[r].code, row |-> vouchers[req[r].code], at |-> now,
                     stale |-> FALSE]
  <2>2. tx' = [tx EXCEPT ![r] = new]
    BY <1>4 DEF StartRedeem, BeginRedeem
  <2>3. new # NoTx /\ new.code = req[r].code
    <3>1. req[r].code \in Codes
      BY <1>4, BusyCode DEF StartRedeem, At
    <3>2. new \in Tx
      BY <3>1 DEF Tx, RedeemTypeOK, LedgerTypeOK, KeysTypeOK
    <3> QED
      BY <3>2, LedgerTxConstants DEF Tx
  <2> HIDE DEF new
  <2>4. tx'[r] = new /\ \A q \in Requests \ {r} : tx'[q] = tx[q]
    BY <1>0, <2>2
  <2> QED
    BY <2>1, <2>3, <2>4 DEF OpenInv, At
<1>5. ASSUME NEW r \in Requests, Commit(r) \/ CommitUnread(r) PROVE OpenInv'
  <2>1. req'[r].at # "committing" /\ \A q \in Requests \ {r} : req'[q] = req[q]
    BY <1>5, LeaveMoves, GotoMoves DEF Commit, CommitUnread, Pay, At, BusyPoints
  <2> DEFINE txs == [tx EXCEPT ![r] = NoTx]
  <2>2. txs \in [Requests -> Tx \cup {NoTx}] /\ txs[r] = NoTx
        /\ \A q \in Requests \ {r} : txs[q] = tx[q]
    BY <1>0
  <2>3. tx' = Outdated(txs)
    BY <1>5 DEF Commit, CommitUnread, Pay, CommitRedeem
  <2> HIDE DEF txs
  <2> QED
    BY <2>1, <2>2, <2>3, OutdatedKeepsOpen DEF OpenInv, At
<1>6. ASSUME NEW r \in Requests, Abort(r) PROVE OpenInv'
  <2>1. req'[r].at = "rollback" /\ \A q \in Requests \ {r} : req'[q] = req[q]
    BY <1>6, GotoMoves DEF Abort, At, BusyPoints
  <2>2. tx'[r] = NoTx /\ \A q \in Requests \ {r} : tx'[q] = tx[q]
    BY <1>0, <1>6 DEF Abort, AbortRedeem
  <2> QED
    BY <2>1, <2>2 DEF OpenInv, At
<1>7. CASE Crash
  BY <1>7 DEF Crash, OpenInv, At, Resting
<1>8. ASSUME req' = req, tx' = tx \/ tx' = Outdated(tx) PROVE OpenInv'
  BY <1>8, <1>k DEF At
<1>9. ASSUME NEW r \in Requests, NEW v \in Codes, PageLogin(r, v) PROVE OpenInv'
  BY <1>8, <1>9 DEF PageLogin, ledgerVars
<1>10. ASSUME NEW c \in Clicks, NEW v \in Codes, PushStart(c, v) \/ DeleteStart(c, v)
       PROVE  OpenInv'
  BY <1>8, <1>10 DEF PushStart, DeleteStart, ledgerVars
<1>11. ASSUME NEW c \in Clicks, PushUser(c) \/ PushMark(c) \/ DeleteRow(c) PROVE OpenInv'
  BY <1>8, <1>11 DEF PushUser, PushMark, DeleteRow, ledgerVars
<1>12. ASSUME NEW s \in online, SessionEnds(s) PROVE OpenInv'
  BY <1>8, <1>12 DEF SessionEnds, ledgerVars
<1>13. CASE OtherLedgerWork
  BY <1>8, <1>13 DEF OtherLedgerWork, OtherTableWrite, LedgerTick
<1>14. CASE UNCHANGED redeemVars
  BY <1>8, <1>14 DEF redeemVars
<1> QED
  BY <1>1, <1>3, <1>4, <1>5, <1>6, <1>7, <1>9, <1>10, <1>11, <1>12, <1>13, <1>14
     DEF RedeemNext

-----------------------------------------------------------------------------
(* Types *)

(* Everything but the store and its transactions. *)
HandlersTyped ==
    /\ req \in [Requests -> Busy \cup {Resting}]
    /\ operator \in [Clicks -> Clicking \cup {Resting}]
    /\ users \subseteq Codes /\ revoked \subseteq Codes
    /\ online \subseteq Requests \X Codes
    /\ paid \subseteq Requests \X Codes
    /\ slipped \cup unanswered \subseteq online /\ paid \cap (slipped \cup unanswered) = {}
    /\ admitted = {r \in Requests : req[r].at \in Admitted}

LEMMA HandlersStep ==
    ASSUME RedeemTypeOK, [RedeemNext]_redeemVars
    PROVE  HandlersTyped'
<1>0. HandlersTyped
  BY DEF RedeemTypeOK, HandlersTyped, Admitted
<1> USE DEF HandlersTyped
<1>1. ASSUME NEW r \in Requests, NEW v \in Codes, LookUp(r, v) PROVE HandlersTyped'
  <2>1. req' \in [Requests -> Busy \cup {Resting}]
    BY <1>0, <1>1 DEF LookUp, Busy
  <2>2. admitted' = {q \in Requests : req'[q].at \in Admitted}
    BY <1>0, <1>1 DEF LookUp, At, Admitted, observers
  <2> QED
    BY <1>0, <1>1, <2>1, <2>2 DEF LookUp, routerVars, observers
<1>2. ASSUME NEW r \in Requests, Provision(r) PROVE HandlersTyped'
  <2>1. req' \in [Requests -> Busy \cup {Resting}] /\ req[r].code \in Codes
    BY <1>2, GotoMoves, BusyCode DEF Provision, At, BusyPoints
  <2>2. admitted' = {q \in Requests : req'[q].at \in Admitted}
    BY <1>2, GotoMoves, AdmittedKept DEF Provision, At, BusyPoints, Admitted
  <2> QED
    BY <1>0, <1>2, <2>1, <2>2 DEF Provision, MakeUser
<1>3. ASSUME NEW r \in Requests, ProvisionFails(r) PROVE HandlersTyped'
  <2>1. req' \in [Requests -> Busy \cup {Resting}] /\ req[r].code \in Codes
    BY <1>3, LeaveMoves, BusyCode DEF ProvisionFails, At
  <2>2. admitted' = {q \in Requests : req'[q].at \in Admitted}
    BY <1>3, LeaveMoves, AdmittedKept DEF ProvisionFails, At, Admitted
  <2> QED
    BY <1>0, <1>3, <2>1, <2>2 DEF ProvisionFails, MakeUser
<1>4. ASSUME NEW r \in Requests, Login(r) PROVE HandlersTyped'
  <2>1. req' \in [Requests -> Busy \cup {Resting}] /\ Session(r) \in Requests \X Codes
    BY <1>4, GotoMoves, SessionType DEF Login, At, BusyPoints
  <2>2. admitted' = {q \in Requests : req'[q].at \in Admitted}
    BY <1>4, GotoMoves, AdmittedKept DEF Login, At, BusyPoints, Admitted
  <2> QED
    BY <1>0, <1>4, <2>1, <2>2 DEF Login
<1>5. ASSUME NEW r \in Requests, LoginFails(r) PROVE HandlersTyped'
  <2>1. req' \in [Requests -> Busy \cup {Resting}] /\ Session(r) \in Requests \X Codes
    BY <1>5, LeaveMoves, SessionType DEF LoginFails, At
  <2>2. admitted' = {q \in Requests : req'[q].at \in Admitted}
    BY <1>5, LeaveMoves, AdmittedKept DEF LoginFails, At, Admitted
  <2> QED
    BY <1>0, <1>5, <2>1, <2>2 DEF LoginFails
<1>6. ASSUME NEW r \in Requests, StartRedeem(r) \/ RedeemRefused(r) \/ Abort(r)
      PROVE  HandlersTyped'
  <2>1. \E p \in Admitted : Goto(r, p) /\ req[r].at \in Admitted
    BY <1>6 DEF StartRedeem, RedeemRefused, Abort, At, Admitted
  <2>2. req' \in [Requests -> Busy \cup {Resting}]
    BY <2>1, GotoMoves DEF BusyPoints, Admitted
  <2>3. UNCHANGED <<operator, routerVars, observers>>
    BY <1>6 DEF StartRedeem, RedeemRefused, Abort
  <2>4. admitted' = {q \in Requests : req'[q].at \in Admitted}
    BY <2>1, <2>3, GotoMoves, AdmittedKept DEF BusyPoints, Admitted, observers
  <2> QED
    BY <1>0, <2>2, <2>3, <2>4 DEF routerVars, observers
<1>7. ASSUME NEW r \in Requests,
             Commit(r) \/ CommitUnread(r) \/ RollBack(r) \/ RollBackFails(r)
      PROVE  HandlersTyped'
  <2>1. /\ Session(r) \in Requests \X Codes /\ admitted' = admitted \ {r}
        /\ Leave(r) \/ Goto(r, "undoing")
        /\ req[r].at # "idle"
    BY <1>7, SessionType DEF Commit, CommitUnread, Pay, RollBack, RollBackFails, At
  <2>2. /\ req' \in [Requests -> Busy \cup {Resting}]
        /\ admitted' = {q \in Requests : req'[q].at \in Admitted}
    BY <2>1, LeaveMoves, GotoMoves, AdmittedKept DEF Admitted, BusyPoints
  <2>3. CASE Commit(r) \/ CommitUnread(r)
    BY <1>0, <2>1, <2>2, <2>3 DEF Commit, CommitUnread, Pay, routerVars
  <2>4. CASE RollBack(r)
    BY <1>0, <2>1, <2>2, <2>4 DEF RollBack
  <2>5. CASE RollBackFails(r)
    BY <1>0, <2>1, <2>2, <2>5 DEF RollBackFails, routerVars
  <2> QED
    BY <1>7, <2>3, <2>4, <2>5
<1>8. ASSUME NEW c \in Clicks, NEW v \in Codes, PushStart(c, v) \/ DeleteStart(c, v)
      PROVE  HandlersTyped'
  <2>1. operator' \in [Clicks -> Clicking \cup {Resting}]
    BY <1>0, <1>8 DEF PushStart, DeleteStart, Clicking
  <2>2. CASE PushStart(c, v)
    BY <1>0, <2>1, <2>2 DEF PushStart, routerVars, observers
  <2>3. CASE DeleteStart(c, v)
    BY <1>0, <2>1, <2>3 DEF DeleteStart
  <2> QED
    BY <1>8, <2>2, <2>3
<1>9. ASSUME NEW c \in Clicks, PushUser(c) PROVE HandlersTyped'
  <2>1. operator[c].code \in Codes /\ operator[c] \in Clicking
    BY <1>9, OperatorCode DEF PushUser, Click
  <2>2. operator' \in [Clicks -> Clicking \cup {Resting}]
    <3>1. [operator[c] EXCEPT !.at = "marking"] \in Clicking
      BY <2>1 DEF Clicking
    <3> QED
      BY <1>0, <1>9, <3>1 DEF PushUser, Clicked, Done
  <2> QED
    BY <1>0, <1>9, <2>1, <2>2 DEF PushUser, MakeUser
<1>10. ASSUME NEW c \in Clicks, PushMark(c) \/ DeleteRow(c) PROVE HandlersTyped'
  BY <1>0, <1>10 DEF PushMark, DeleteRow, Done, routerVars, observers
<1>11. ASSUME NEW s \in online, SessionEnds(s) PROVE HandlersTyped'
  BY <1>0, <1>11 DEF SessionEnds
<1>12. ASSUME NEW r \in Requests, NEW v \in Codes, PageLogin(r, v) PROVE HandlersTyped'
  BY <1>0, <1>12 DEF PageLogin, observers
<1>13. CASE OtherLedgerWork
  BY <1>0, <1>13 DEF OtherLedgerWork, routerVars, observers
<1>14. CASE Crash
  <2>1. admitted' = {q \in Requests : req'[q].at \in Admitted}
    BY <1>14 DEF Crash, Resting, Admitted
  <2>2. req' \in [Requests -> Busy \cup {Resting}]
    BY <1>14 DEF Crash
  <2> QED
    BY <1>0, <1>14, <2>1, <2>2 DEF Crash, routerVars
<1>15. CASE UNCHANGED redeemVars
  BY <1>0, <1>15 DEF redeemVars
<1> QED
  BY <1>1, <1>2, <1>3, <1>4, <1>5, <1>6, <1>7, <1>8, <1>9, <1>10, <1>11, <1>12, <1>13,
     <1>14, <1>15 DEF RedeemNext

-----------------------------------------------------------------------------
(* Devices on the router *)

(* A device online through the controller has paid, is being served, or is *)
(* one whose logout was prevented or whose login went unanswered.          *)
LEMMA OnlineStep ==
    ASSUME RedeemTypeOK, HandlersTyped', NobodyOnlineForFree, [RedeemNext]_redeemVars
    PROVE  NobodyOnlineForFree'
<1>0. /\ HandlersTyped
      /\ \A s \in online : s = <<s[1], s[2]>> /\ s[1] \in Requests
      /\ \A s \in online' : s = <<s[1], s[2]>> /\ s[1] \in Requests
  BY DEF RedeemTypeOK, HandlersTyped, Admitted
<1> USE DEF NobodyOnlineForFree
(* Whoever keeps his place keeps his reason. *)
<1>k. ASSUME \A s \in online' : s \in online \/ s \in paid' \/ s \in slipped' \cup unanswered',
             paid \subseteq paid',
             (slipped \cup unanswered) \cap online' \subseteq slipped' \cup unanswered' \cup paid',
             \A r \in admitted : r \in admitted' /\ req'[r].code = req[r].code
      PROVE  NobodyOnlineForFree'
  BY <1>k
<1>1. ASSUME NEW r \in Requests, NEW v \in Codes, LookUp(r, v) PROVE NobodyOnlineForFree'
  <2>1. r \notin admitted /\ \A q \in Requests \ {r} : req'[q] = req[q]
    BY <1>0, <1>1 DEF LookUp, At, HandlersTyped, Admitted
  <2> QED
    BY <1>0, <1>1, <1>k, <2>1 DEF LookUp, HandlersTyped, routerVars, observers
<1>2. ASSUME NEW r \in Requests, Provision(r) PROVE NobodyOnlineForFree'
  BY <1>0, <1>2, <1>k, GotoMoves DEF Provision, At, BusyPoints, HandlersTyped
<1>3. ASSUME NEW r \in Requests, ProvisionFails(r) PROVE NobodyOnlineForFree'
  <2>1. r \notin admitted
    BY <1>0, <1>3 DEF ProvisionFails, At, HandlersTyped, Admitted
  <2> QED
    BY <1>0, <1>3, <1>k, <2>1, LeaveMoves DEF ProvisionFails, HandlersTyped
<1>4. ASSUME NEW r \in Requests, Login(r) PROVE NobodyOnlineForFree'
  <2>1. /\ req'[r].code = req[r].code /\ \A q \in Requests \ {r} : req'[q] = req[q]
        /\ admitted' = admitted \cup {r}
    BY <1>4, GotoMoves DEF Login, At, BusyPoints
  <2>2. \A s \in online' : s \in online \/ s = <<r, req[r].code>>
    BY <1>4 DEF Login, Session
  <2> QED
    BY <1>0, <1>4, <2>1, <2>2 DEF Login, HandlersTyped
<1>5. ASSUME NEW r \in Requests, LoginFails(r) PROVE NobodyOnlineForFree'
  <2>1. r \notin admitted
    BY <1>0, <1>5 DEF LoginFails, At, HandlersTyped, Admitted
  <2> QED
    BY <1>0, <1>5, <1>k, <2>1, LeaveMoves DEF LoginFails, HandlersTyped
<1>6. ASSUME NEW r \in Requests, StartRedeem(r) \/ RedeemRefused(r) \/ Abort(r)
      PROVE  NobodyOnlineForFree'
  <2>1. \E p \in Admitted : Goto(r, p) /\ req[r].at \in Admitted
    BY <1>6 DEF StartRedeem, RedeemRefused, Abort, At, Admitted
  <2>2. UNCHANGED <<routerVars, observers>>
    BY <1>6 DEF StartRedeem, RedeemRefused, Abort
  <2>3. \A q \in Requests : req'[q].code = req[q].code
    BY <2>1, GotoMoves DEF BusyPoints, Admitted
  <2> QED
    BY <1>0, <1>k, <2>2, <2>3 DEF HandlersTyped, routerVars, observers
<1>7. ASSUME NEW r \in Requests, Commit(r) \/ CommitUnread(r) PROVE NobodyOnlineForFree'
  <2>1. \A q \in Requests \ {r} : req'[q] = req[q]
    BY <1>7, LeaveMoves, GotoMoves DEF Commit, CommitUnread, Pay, At, BusyPoints
  <2>2. \A s \in online : s[1] = r /\ req[r].code = s[2] => s = Session(r)
    BY <1>0 DEF Session
  <2> QED
    BY <1>0, <1>7, <2>1, <2>2 DEF Commit, CommitUnread, Pay, HandlersTyped, routerVars
<1>8. ASSUME NEW r \in Requests, RollBack(r) PROVE NobodyOnlineForFree'
  <2>1. \A q \in Requests \ {r} : req'[q] = req[q]
    BY <1>8, LeaveMoves DEF RollBack
  <2> QED
    BY <1>0, <1>8, <2>1 DEF RollBack, HandlersTyped
<1>9. ASSUME NEW r \in Requests, RollBackFails(r) PROVE NobodyOnlineForFree'
  <2>1. \A q \in Requests \ {r} : req'[q] = req[q]
    BY <1>9, LeaveMoves DEF RollBackFails
  <2>2. \A s \in online : s[1] = r /\ req[r].code = s[2] => s \in online \cap {Session(r)}
    BY <1>0 DEF Session
  <2> QED
    BY <1>0, <1>9, <2>1, <2>2 DEF RollBackFails, HandlersTyped, routerVars
<1>10. ASSUME req' = req, admitted' = admitted,
              \A s \in online' : s \in online \/ s \in paid' \/ s \in slipped' \cup unanswered',
              paid' = paid,
              (slipped \cup unanswered) \cap online' \subseteq slipped' \cup unanswered'
       PROVE  NobodyOnlineForFree'
  BY <1>0, <1>10, <1>k DEF HandlersTyped
<1>11. ASSUME NEW c \in Clicks,
              \/ \E v \in Codes : PushStart(c, v) \/ DeleteStart(c, v)
              \/ PushUser(c) \/ PushMark(c) \/ DeleteRow(c)
       PROVE  NobodyOnlineForFree'
  <2>1. UNCHANGED <<req, admitted, online, paid, slipped, unanswered>>
    BY <1>11 DEF PushStart, DeleteStart, PushUser, PushMark, DeleteRow, routerVars, observers
  <2> QED
    BY <1>10, <2>1
<1>12. CASE OtherLedgerWork
  BY <1>10, <1>12 DEF OtherLedgerWork, routerVars, observers
<1>13. ASSUME NEW s \in online, SessionEnds(s) PROVE NobodyOnlineForFree'
  BY <1>10, <1>13 DEF SessionEnds
<1>14. ASSUME NEW r \in Requests, NEW v \in Codes, PageLogin(r, v)
       PROVE  NobodyOnlineForFree'
  BY <1>10, <1>14 DEF PageLogin, observers
<1>15. CASE Crash
  <2>1. \A s \in online : s[1] \in admitted /\ req[s[1]].code = s[2]
            => s \in online \cap {Session(r) : r \in admitted}
    BY <1>0 DEF Session
  <2> QED
    BY <1>0, <1>15, <2>1 DEF Crash, routerVars
<1>16. CASE UNCHANGED redeemVars
  BY <1>10, <1>16 DEF redeemVars
<1> QED
  BY <1>1, <1>2, <1>3, <1>4, <1>5, <1>6, <1>7, <1>8, <1>9, <1>11, <1>12, <1>13,
     <1>14, <1>15, <1>16 DEF RedeemNext

-----------------------------------------------------------------------------
(* What the operator marked *)

(* Only MarkPushed sets the mark, and only a commit counts a redemption.   *)
LEMMA WritesThatMarkNothing ==
    ASSUME KeysTypeOK,
           \/ \E b \in Batches, offer \in Offers : CreateBatch(b, offer)
           \/ \E b \in Batches, onlyUnused \in BOOLEAN : DeleteBatch(b, onlyUnused)
           \/ \E v \in Codes, status \in OperatorStatuses : SetStatus(v, status)
           \/ \E v \in Codes : Delete(v)
           \/ SyncExpired \/ Tick \/ UNCHANGED keyVars
    PROVE  /\ \A v \in Codes : vouchers'[v].pushed => vouchers[v].pushed
           /\ redemptions' = redemptions
<1>0. \A v \in Codes : vouchers[v] \in Key
  BY DEF KeysTypeOK
<1>1. ASSUME NEW b \in Batches, NEW offer \in Offers, CreateBatch(b, offer)
      PROVE  /\ \A v \in Codes : vouchers'[v].pushed => vouchers[v].pushed
             /\ redemptions' = redemptions
  <2> DEFINE new == [NoKey EXCEPT !.status = "unused", !.maxUses = offer.maxUses,
                                  !.duration = offer.duration]
  <2>1. new.pushed = FALSE
    BY DEF NoKey
  <2>2. \A v \in Codes : vouchers'[v] \in {vouchers[v], new}
    BY <1>1 DEF CreateBatch
  <2>3. redemptions' = redemptions
    BY <1>1 DEF CreateBatch
  <2> HIDE DEF new
  <2> QED
    BY <2>1, <2>2, <2>3
<1>2. ASSUME NEW v \in Codes PROVE Gone(vouchers[v]).pushed = FALSE
  BY <1>0 DEF Gone, Key
<1>3. ASSUME NEW b \in Batches, NEW onlyUnused \in BOOLEAN, DeleteBatch(b, onlyUnused)
      PROVE  /\ \A v \in Codes : vouchers'[v].pushed => vouchers[v].pushed
             /\ redemptions' = redemptions
  <2>1. \A v \in Codes : vouchers'[v] \in {vouchers[v], Gone(vouchers[v])}
    BY <1>3 DEF DeleteBatch
  <2> QED
    BY <1>2, <1>3, <2>1 DEF DeleteBatch
<1>4. ASSUME NEW v \in Codes, NEW status \in OperatorStatuses, SetStatus(v, status)
      PROVE  /\ \A w \in Codes : vouchers'[w].pushed => vouchers[w].pushed
             /\ redemptions' = redemptions
  BY <1>0, <1>4 DEF SetStatus, KeysTypeOK, Key
<1>5. ASSUME NEW v \in Codes, Delete(v)
      PROVE  /\ \A w \in Codes : vouchers'[w].pushed => vouchers[w].pushed
             /\ redemptions' = redemptions
  BY <1>2, <1>5 DEF Delete, KeysTypeOK
<1>6. ASSUME SyncExpired
      PROVE  /\ \A w \in Codes : vouchers'[w].pushed => vouchers[w].pushed
             /\ redemptions' = redemptions
  <2>1. \A w \in Codes : vouchers'[w] \in {vouchers[w], [vouchers[w] EXCEPT !.status = "expired"]}
    BY <1>6 DEF SyncExpired
  <2>2. \A w \in Codes : [vouchers[w] EXCEPT !.status = "expired"].pushed = vouchers[w].pushed
    BY <1>0 DEF Key
  <2> QED
    BY <1>6, <2>1, <2>2 DEF SyncExpired
<1>7. CASE Tick \/ UNCHANGED keyVars
  BY <1>7 DEF Tick, keyVars
<1> QED
  BY <1>1, <1>3, <1>4, <1>5, <1>6, <1>7

(* A commit writes the mark it read, which is still the row's.             *)
LEMMA CommitMarksNothing ==
    ASSUME LedgerInv, NEW r \in Requests, CommitRedeem(r)
    PROVE  /\ \A v \in Codes : vouchers'[v].pushed => vouchers[v].pushed
           /\ \A v \in Codes : redemptions'[v] # redemptions[v] => v = tx[r].code
<1>1. /\ tx[r] \in Tx /\ tx[r].code \in Codes /\ tx[r].row \in Key
      /\ vouchers[tx[r].code] = tx[r].row
      /\ vouchers \in [Codes -> Key] /\ redemptions \in [Codes -> Nat]
  BY DEF CommitRedeem, LedgerInv, LedgerTypeOK, KeysTypeOK, SnapshotsAreCurrent, Tx
<1>2. RedeemRow(tx[r].row, tx[r].at).pushed = tx[r].row.pushed
  BY <1>1 DEF RedeemRow, Key
<1> DEFINE new == RedeemRow(tx[r].row, tx[r].at)
<1>3. vouchers' = [vouchers EXCEPT ![tx[r].code] = new]
      /\ redemptions' = [redemptions EXCEPT ![tx[r].code] = @ + 1]
  BY DEF CommitRedeem
<1> HIDE DEF new
<1> QED
  BY <1>1, <1>2, <1>3 DEF new

LEMMA PushedStep ==
    ASSUME RedeemInv, PushedKeysWorkOffline, [RedeemNext]_redeemVars
    PROVE  PushedKeysWorkOffline' /\ MarkInv'
<1>0. LedgerInv /\ KeysTypeOK /\ MarkInv /\ RedeemTypeOK
  BY RedeemInvIsLedgerInv DEF RedeemInv
<1>a. ASSUME \A v \in Codes : vouchers'[v].pushed => vouchers[v].pushed,
             users \cup revoked \subseteq users' \cup revoked'
      PROVE  PushedKeysWorkOffline'
  BY <1>a DEF PushedKeysWorkOffline
<1>b. ASSUME \A c \in Clicks : operator'[c] = operator[c] \/ operator'[c].at # "marking",
             users \cup revoked \subseteq users' \cup revoked'
      PROVE  MarkInv'
  BY <1>0, <1>b DEF MarkInv, Click
<1>1. ASSUME NEW r \in Requests, NEW v \in Codes, LookUp(r, v) \/ PageLogin(r, v)
      PROVE  PushedKeysWorkOffline' /\ MarkInv'
  BY <1>1, <1>a, <1>b DEF LookUp, PageLogin, ledgerVars, routerVars, observers
<1>2. ASSUME NEW r \in Requests, Provision(r) \/ ProvisionFails(r)
      PROVE  PushedKeysWorkOffline' /\ MarkInv'
  BY <1>2, <1>a, <1>b DEF Provision, ProvisionFails, MakeUser, ledgerVars
<1>3. ASSUME NEW r \in Requests,
             Login(r) \/ LoginFails(r) \/ RedeemRefused(r) \/ RollBack(r) \/ RollBackFails(r)
      PROVE  PushedKeysWorkOffline' /\ MarkInv'
  BY <1>3, <1>a, <1>b DEF Login, LoginFails, RedeemRefused, RollBack, RollBackFails,
     ledgerVars, routerVars, observers
<1>4. ASSUME NEW r \in Requests, StartRedeem(r) \/ Abort(r)
      PROVE  PushedKeysWorkOffline' /\ MarkInv'
  BY <1>4, <1>a, <1>b DEF StartRedeem, BeginRedeem, Abort, AbortRedeem, keyVars, routerVars,
     observers
<1>5. ASSUME NEW r \in Requests, Pay(r) PROVE PushedKeysWorkOffline' /\ MarkInv'
  BY <1>0, <1>5, <1>a, <1>b, CommitMarksNothing DEF Pay, routerVars
<1>6. ASSUME NEW c \in Clicks, NEW v \in Codes, PushStart(c, v) \/ DeleteStart(c, v)
      PROVE  PushedKeysWorkOffline' /\ MarkInv'
  <2>1. \A d \in Clicks : operator'[d] = operator[d] \/ operator'[d].at # "marking"
    BY <1>0, <1>6 DEF PushStart, DeleteStart, RedeemTypeOK
  <2> QED
    BY <1>6, <1>a, <1>b, <2>1 DEF PushStart, DeleteStart, ledgerVars, routerVars, observers
<1>7. ASSUME NEW c \in Clicks, Done(c)
      PROVE  \A d \in Clicks : operator'[d] = operator[d] \/ operator'[d].at # "marking"
  BY <1>0, <1>7 DEF Done, RedeemTypeOK, Resting
<1>8. ASSUME NEW c \in Clicks, PushUser(c) PROVE PushedKeysWorkOffline' /\ MarkInv'
  <2>1. vouchers' = vouchers /\ users \cup revoked \subseteq users' \cup revoked'
    BY <1>8 DEF PushUser, MakeUser, ledgerVars
  <2>2. CASE Done(c)
    BY <1>7, <1>a, <1>b, <2>1, <2>2
  <2>3. CASE MakeUser(operator[c].code) /\ Clicked(c, "marking")
    <3>1. /\ operator[c].code \in users' /\ operator'[c].code = operator[c].code
          /\ \A d \in Clicks \ {c} : operator'[d] = operator[d]
      BY <1>0, <1>8, <2>3, OperatorCode DEF MakeUser, Clicked, PushUser, Click, RedeemTypeOK,
         Clicking
    <3> QED
      BY <1>0, <1>a, <2>1, <3>1 DEF MarkInv, Click
  <2> QED
    BY <1>8, <2>2, <2>3 DEF PushUser
<1>9. ASSUME NEW c \in Clicks, PushMark(c) PROVE PushedKeysWorkOffline' /\ MarkInv'
  <2>1. /\ users' = users /\ revoked' = revoked /\ Done(c)
        /\ operator[c].code \in users \cup revoked
    BY <1>0, <1>9 DEF PushMark, MarkInv, routerVars, observers
  <2>2. MarkInv'
    BY <1>7, <1>b, <2>1
  <2>3. CASE MarkPushed({operator[c].code})
    BY <2>1, <2>2, <2>3 DEF MarkPushed, PushedKeysWorkOffline
  <2>4. CASE UNCHANGED ledgerVars
    BY <1>a, <2>1, <2>2, <2>4 DEF ledgerVars
  <2> QED
    BY <1>9, <2>3, <2>4 DEF PushMark
<1>10. ASSUME NEW c \in Clicks, DeleteRow(c) PROVE PushedKeysWorkOffline' /\ MarkInv'
  <2>1. operator[c].code \in Codes
    BY <1>0, <1>10, OperatorCode DEF DeleteRow, Click
  <2>2. \A v \in Codes : vouchers'[v].pushed => vouchers[v].pushed
    BY <1>0, <1>10, <2>1, WritesThatMarkNothing DEF DeleteRow, ledgerVars
  <2> QED
    BY <1>10, <1>7, <1>a, <1>b, <2>2 DEF DeleteRow, routerVars, observers
<1>11. ASSUME NEW s \in online, SessionEnds(s) PROVE PushedKeysWorkOffline' /\ MarkInv'
  BY <1>11, <1>a, <1>b DEF SessionEnds, ledgerVars
<1>12. CASE OtherLedgerWork
  <2>1. \A v \in Codes : vouchers'[v].pushed => vouchers[v].pushed
    BY <1>0, <1>12, WritesThatMarkNothing DEF OtherLedgerWork, OtherTableWrite, LedgerTick
  <2> QED
    BY <1>12, <1>a, <1>b, <2>1 DEF OtherLedgerWork, routerVars, observers
<1>13. CASE Crash
  BY <1>13, <1>a, <1>b DEF Crash, Resting, keyVars, routerVars
<1>14. CASE UNCHANGED redeemVars
  BY <1>14, <1>a, <1>b DEF redeemVars
<1> QED
  BY <1>1, <1>2, <1>3, <1>4, <1>5, <1>6, <1>8, <1>9, <1>10, <1>11, <1>12, <1>13, <1>14
     DEF RedeemNext, Commit, CommitUnread

-----------------------------------------------------------------------------
(* The theorems *)

LEMMA RedeemStart == RedeemInit => RedeemInv /\ NobodyOnlineForFree /\ PushedKeysWorkOffline
<1> SUFFICES ASSUME RedeemInit
             PROVE  RedeemInv /\ NobodyOnlineForFree /\ PushedKeysWorkOffline
  OBVIOUS
<1>1. KeysTypeOK /\ KeyInv /\ tx = [r \in Requests |-> NoTx]
  BY KeysStart DEF RedeemInit, LedgerInit
<1>2. RedeemTypeOK
  BY <1>1 DEF RedeemInit, RedeemTypeOK, LedgerTypeOK, At, Resting
<1>3. SnapshotsAreCurrent /\ OpenInv /\ MarkInv
  BY <1>1 DEF RedeemInit, SnapshotsAreCurrent, OpenInv, MarkInv, At, Click, Resting
<1>4. NobodyOnlineForFree
  BY DEF RedeemInit, NobodyOnlineForFree
<1>5. PushedKeysWorkOffline
  BY DEF RedeemInit, LedgerInit, KeysInit, NoKey, PushedKeysWorkOffline
<1> QED
  BY <1>1, <1>2, <1>3, <1>4, <1>5 DEF RedeemInv

LEMMA RedeemStep ==
    RedeemInv /\ NobodyOnlineForFree /\ PushedKeysWorkOffline /\ [RedeemNext]_redeemVars
        => RedeemInv' /\ NobodyOnlineForFree' /\ PushedKeysWorkOffline'
<1> SUFFICES ASSUME RedeemInv, NobodyOnlineForFree, PushedKeysWorkOffline,
                    [RedeemNext]_redeemVars
             PROVE  RedeemInv' /\ NobodyOnlineForFree' /\ PushedKeysWorkOffline'
  OBVIOUS
<1>1. RedeemTypeOK /\ OpenInv
  BY DEF RedeemInv
<1>2. LedgerTypeOK' /\ SnapshotsAreCurrent' /\ KeyInv'
  BY RedeemKeepsLedger
<1>3. OpenInv' /\ HandlersTyped'
  BY <1>1, OpenInvStep, HandlersStep
<1>4. RedeemTypeOK'
  BY <1>2, <1>3 DEF RedeemTypeOK, OpenInv, HandlersTyped, Admitted
<1> QED
  BY <1>1, <1>2, <1>3, <1>4, OnlineStep, PushedStep DEF RedeemInv

(* The inductive invariant and the two properties that rest on it.         *)
THEOREM RedeemInvariant ==
    RedeemSpec => [](RedeemInv /\ NobodyOnlineForFree /\ PushedKeysWorkOffline)
  BY RedeemStart, RedeemStep, PTL DEF RedeemSpec

(* Requests, operator, router and open transactions are where the code     *)
(* puts them, and a transaction is open exactly while its request commits. *)
THEOREM RedeemTypeCorrect == RedeemSpec => []RedeemTypeOK
  BY RedeemInvariant, PTL DEF RedeemInv

(* "Drop the session again so the customer is not online for free": a      *)
(* device online through the controller has paid or is still being served, *)
(* or the router or a crash prevented its logout, or the router logged it  *)
(* in while the handler heard of a refused login and tried no logout.      *)
THEOREM RedeemNobodyOnlineForFree == RedeemSpec => []NobodyOnlineForFree
  BY RedeemInvariant, PTL

(* A key marked as pushed has its user on the router, unless a deletion of *)
(* the key removed the user and left the row, or has it still to delete.   *)
THEOREM RedeemPushedKeysWorkOffline == RedeemSpec => []PushedKeysWorkOffline
  BY RedeemInvariant, PTL

(* "A failure to reach the device must never burn a voucher": a redemption *)
(* is that of one request the router let in, and uses that admission up.   *)
THEOREM RedeemDeviceFailureNeverBurns == RedeemSpec => DeviceFailureNeverBurns
<1> DEFINE Burns == \A v \in Codes : redemptions'[v] # redemptions[v] =>
                        \E r \in admitted \ admitted' : req[r].code = v
<1>1. RedeemInv /\ [RedeemNext]_redeemVars => [Burns]_redeemVars
  <2> SUFFICES ASSUME RedeemInv, RedeemNext PROVE Burns
    BY DEF redeemVars
  <2>1. LedgerInv /\ KeysTypeOK /\ RedeemTypeOK /\ OpenInv
    BY RedeemInvIsLedgerInv DEF RedeemInv
  <2>2. ASSUME NEW r \in Requests, Pay(r) PROVE Burns
    <3>1. /\ \A v \in Codes : redemptions'[v] # redemptions[v] => v = tx[r].code
          /\ tx[r].code = req[r].code
      BY <2>1, <2>2, CommitMarksNothing DEF Pay, OpenInv
    <3>2. r \in admitted \ admitted'
      BY <2>1, <2>2 DEF Pay, RedeemTypeOK, At
    <3> QED
      BY <3>1, <3>2
  <2>3. ASSUME redemptions' = redemptions PROVE Burns
    BY <2>3
  <2>4. ASSUME NEW r \in Requests,
               \/ Provision(r) \/ ProvisionFails(r) \/ Login(r) \/ LoginFails(r)
               \/ RedeemRefused(r) \/ RollBack(r) \/ RollBackFails(r)
               \/ StartRedeem(r) \/ Abort(r)
        PROVE  redemptions' = redemptions
    BY <2>4 DEF Provision, ProvisionFails, Login, LoginFails, RedeemRefused, RollBack,
       RollBackFails, StartRedeem, BeginRedeem, Abort, AbortRedeem, ledgerVars, keyVars
  <2>5. ASSUME NEW c \in Clicks, NEW v \in Codes, PushStart(c, v) \/ DeleteStart(c, v)
        PROVE  redemptions' = redemptions
    BY <2>5 DEF PushStart, DeleteStart, ledgerVars
  <2>6. ASSUME NEW r \in Requests, NEW v \in Codes, LookUp(r, v) \/ PageLogin(r, v)
        PROVE  redemptions' = redemptions
    BY <2>6 DEF LookUp, PageLogin, ledgerVars
  <2>7. ASSUME NEW s \in online, SessionEnds(s) PROVE redemptions' = redemptions
    BY <2>7 DEF SessionEnds, ledgerVars
  <2>8. ASSUME NEW c \in Clicks, PushUser(c) \/ PushMark(c) PROVE redemptions' = redemptions
    BY <2>8 DEF PushUser, PushMark, MarkPushed, ledgerVars, keyVars
  <2>9. ASSUME NEW c \in Clicks, DeleteRow(c) PROVE redemptions' = redemptions
    BY <2>9 DEF DeleteRow, Delete, ledgerVars
  <2>10. ASSUME OtherLedgerWork PROVE redemptions' = redemptions
    BY <2>1, <2>10, WritesThatMarkNothing DEF OtherLedgerWork, OtherTableWrite, LedgerTick
  <2>11. ASSUME Crash PROVE redemptions' = redemptions
    BY <2>11 DEF Crash, keyVars
  <2> QED
    BY <2>2, <2>3, <2>4, <2>5, <2>6, <2>7, <2>8, <2>9, <2>10, <2>11
       DEF RedeemNext, Commit, CommitUnread
<1> QED
  BY <1>1, RedeemInvariant, PTL DEF RedeemSpec, DeviceFailureNeverBurns

(* The whole redemption path, crashes included, still only does to the     *)
(* table what the promise of the store allows.                             *)
THEOREM RedeemImplementsKeys == RedeemSpec => KeysSpec
<1>1. RedeemInit => KeysInit
  BY DEF RedeemInit, LedgerInit
<1>2. RedeemInv /\ [RedeemNext]_redeemVars => [KeysNext]_keyVars
  BY RedeemKeepsLedger
<1> QED
  BY <1>1, <1>2, RedeemInvariant, PTL DEF RedeemSpec, KeysSpec

(* No key is redeemed more often than it was sold for, nor outside its     *)
(* window, by any interleaving of devices, operator, failures and crashes. *)
THEOREM RedeemNeverOverRedeemed ==
    RedeemSpec => [](NeverOverRedeemed /\ UsedWithinWindow)
  BY RedeemImplementsKeys, KeysNeverOverRedeemed, KeysUsedWithinWindow, PTL
=============================================================================
