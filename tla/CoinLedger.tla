------------------------------- MODULE CoinLedger -------------------------------
(***************************************************************************)
(* The coin-slot tally: the coin_credits table of database/coins.go, one   *)
(* row per paying client, fed by the POST /api/coin-pulse handler of       *)
(* handlers/coin.go, spent by CoinStore.Consume and released by the        *)
(* sweeper of sweeper.go.                                                  *)
(*                                                                         *)
(* Every SQL statement of the store is one atomic action, because SQLite   *)
(* executes it as one.  Columns that are only ever copied and displayed    *)
(* (amount_cents, node_id, router_id, connected_at, created_at) are left   *)
(* out.                                                                    *)
(***************************************************************************)
EXTENDS Integers, FiniteSets

CONSTANTS
    Subjects,          \* storage keys ("mac:..." or "ip:...")
    MACs,              \* hardware addresses a report may carry
    NoMac,             \* the empty mac_address column
    Events,            \* de-duplication tokens
    NoEvent,           \* the empty event_id
    NoTime,            \* SQL NULL in expires_at
    Reports,           \* [pulses, secs] pairs a node may post
    MaxReportSeconds,  \* MaxCoinGrantedSecondsPerReport
    Spends,            \* second counts a caller may deduct
    IdleTTLs,          \* values COIN_IDLE may be configured to; 0 turns it off
    MaxTime,           \* bound: the clock stops here
    MaxBought,         \* bound: seconds bought per subject
    MaxPulses          \* bound: pulses counted per subject

ASSUME LedgerConstants ==
    /\ NoEvent \notin Events
    /\ NoMac \notin MACs
    /\ NoTime \notin Nat
    /\ Reports \subseteq [pulses : Nat, secs : Nat]
    /\ MaxReportSeconds \in Nat
    /\ Spends \subseteq Nat
    /\ IdleTTLs \subseteq Nat /\ IdleTTLs # {}
    /\ MaxTime \in Nat /\ MaxBought \in Nat /\ MaxPulses \in Nat

VARIABLES
    credits,   \* the table: [Subjects -> Row]
    now,       \* the controller's clock
    idle,      \* cfg.CoinIdleTTL of the running process
    bought,    \* observer: seconds accepted reports have paid for
    spent,     \* observer: seconds deducted by Consume
    lapsed     \* observer: seconds left on a released balance when it restarts

ledgerVars == <<credits, now, idle, bought, spent, lapsed>>

Statuses == {"absent", "active", "connected", "expired"}

(* "absent" stands for a subject that has no row yet. *)
Row == [status : Statuses, mac : MACs \cup {NoMac}, pulses : Nat,
        granted : Nat, used : Nat, lastEvent : Events \cup {NoEvent},
        lastPulseAt : Nat, expiresAt : Nat \cup {NoTime}, updatedAt : Nat]

NoRow == [status |-> "absent", mac |-> NoMac, pulses |-> 0,
          granted |-> 0, used |-> 0, lastEvent |-> NoEvent,
          lastPulseAt |-> 0, expiresAt |-> NoTime, updatedAt |-> 0]

Least(a, b) == IF a <= b THEN a ELSE b
Greatest(a, b) == IF a >= b THEN a ELSE b

(* CoinCredit.RemainingSeconds: the status is not consulted. *)
Remaining(row) == Greatest(row.granted - row.used, 0)

(* CoinCredit.HasBalance. *)
HasBalance(row) == Remaining(row) > 0

(* The deadline a report writes: NULL while the idle release is off. *)
Deadline == IF idle > 0 THEN now + idle ELSE NoTime

(* The negated WHERE clause of the upsert. *)
IsDuplicate(row, e) ==
    /\ row.status # "absent"
    /\ e # NoEvent
    /\ row.lastEvent = e

(* Seeded fault: a spent balance that starts over keeps its used seconds. *)
CreditRowKeepsUsed(row, m, p, secs, e, t, deadline) ==
    [status |-> "active", mac |-> IF m # NoMac THEN m ELSE row.mac,
     pulses |-> row.pulses + p,
     granted |-> IF row.status = "active" THEN row.granted + secs ELSE secs,
     used |-> row.used, lastEvent |-> e, lastPulseAt |-> t,
     expiresAt |-> deadline, updatedAt |-> t]

(* Seeded fault: a top-up leaves the deadline of the first coin. *)
CreditRowKeepsDeadline(row, m, p, secs, e, t, deadline) ==
    LET open == row.status = "active" IN
    [status |-> "active", mac |-> IF m # NoMac THEN m ELSE row.mac,
     pulses |-> row.pulses + p,
     granted |-> IF open THEN row.granted + secs ELSE secs,
     used |-> IF open THEN row.used ELSE 0, lastEvent |-> e, lastPulseAt |-> t,
     expiresAt |-> IF open /\ row.expiresAt # NoTime THEN row.expiresAt ELSE deadline,
     updatedAt |-> t]

(* The row the upsert leaves: an active balance is topped up, any other   *)
(* one starts over, while the pulse count runs on.                         *)
CreditRow(row, m, p, secs, e, t, deadline) ==
    LET open == row.status = "active" IN
    [status      |-> "active",
     mac         |-> IF m # NoMac THEN m ELSE row.mac,
     pulses      |-> row.pulses + p,
     granted     |-> IF open THEN row.granted + secs ELSE secs,
     used        |-> IF open THEN row.used ELSE 0,
     lastEvent   |-> e,
     lastPulseAt |-> t,
     expiresAt   |-> deadline,
     updatedAt   |-> t]

(* Seeded fault: the deduction lowers what was granted, without a floor. *)
ConsumeRowLowersGrant(row, n, t) ==
    [row EXCEPT !.granted = @ - n,
                !.status = IF row.used + n >= row.granted THEN "connected" ELSE @,
                !.updatedAt = t]

(* Seeded fault: the last second leaves the row active. *)
ConsumeRowStaysActive(row, n, t) ==
    [row EXCEPT !.used = Least(row.used + n, Greatest(row.granted, row.used)),
                !.status = IF row.used + n > row.granted THEN "connected" ELSE @,
                !.updatedAt = t]

(* The row Consume leaves. *)
ConsumeRow(row, n, t) ==
    [row EXCEPT
        !.used = Least(row.used + n, Greatest(row.granted, row.used)),
        !.status = IF row.used + n >= row.granted THEN "connected" ELSE @,
        !.updatedAt = t]

(* Seeded fault: the window is subtracted from a deadline that has it. *)
IsIdleTwiceTheWindow(row) ==
    /\ row.status = "active"
    /\ IF row.expiresAt # NoTime THEN row.expiresAt < now - idle
                                 ELSE row.updatedAt < now - idle

(* The WHERE clause of ExpireIdle. *)
IsIdle(row) ==
    /\ row.status = "active"
    /\ IF row.expiresAt # NoTime THEN row.expiresAt < now
                                 ELSE row.updatedAt < now - idle

(* The row ExpireIdle leaves: the unspent time stays on it. *)
ReleaseRow(row) ==
    [row EXCEPT !.status = "expired",
                !.expiresAt = IF @ = NoTime THEN now ELSE @,
                !.updatedAt = now]

LedgerInit ==
    /\ credits = [s \in Subjects |-> NoRow]
    /\ now = 0
    /\ idle \in IdleTTLs
    /\ bought = [s \in Subjects |-> 0]
    /\ spent = [s \in Subjects |-> 0]
    /\ lapsed = [s \in Subjects |-> 0]

(* CoinPulse then Credit: the report is capped, and the upsert applies it  *)
(* unless its event is already the last one on the row.  A duplicate is    *)
(* answered 200 and changes nothing.                                       *)
CoinPulse(s, m, report, e) ==
    LET row  == credits[s]
        secs == Least(report.secs, MaxReportSeconds)
    IN  /\ ~IsDuplicate(row, e)
        /\ bought[s] + secs <= MaxBought
        /\ row.pulses + report.pulses <= MaxPulses
        /\ credits' = [credits EXCEPT ![s] =
                CreditRow(row, m, report.pulses, secs, e, now, Deadline)]
        /\ bought' = [bought EXCEPT ![s] = @ + secs]
        /\ lapsed' = [lapsed EXCEPT ![s] =
                IF row.status = "expired" THEN @ + Remaining(row) ELSE @]
        /\ UNCHANGED <<now, idle, spent>>

(* Consume: deduct up to n seconds of an existing row. *)
Consume(s, n) ==
    LET row == credits[s]
    IN  /\ row.status # "absent"
        /\ n > 0
        /\ credits' = [credits EXCEPT ![s] = ConsumeRow(row, n, now)]
        /\ spent' = [spent EXCEPT ![s] = @ + Least(n, Remaining(row))]
        /\ UNCHANGED <<now, idle, bought, lapsed>>

(* Claim: of the modelled columns only updated_at moves. *)
Claim(s) ==
    /\ credits[s].status # "absent"
    /\ credits' = [credits EXCEPT ![s].updatedAt = now]
    /\ UNCHANGED <<now, idle, bought, spent, lapsed>>

(* The sweeper's coin pass: skipped while the idle release is off. *)
ExpireIdle ==
    /\ idle > 0
    /\ \E s \in Subjects : IsIdle(credits[s])
    /\ credits' = [s \in Subjects |->
            IF IsIdle(credits[s]) THEN ReleaseRow(credits[s]) ELSE credits[s]]
    /\ UNCHANGED <<now, idle, bought, spent, lapsed>>

(* The controller is restarted, possibly with another COIN_IDLE.  The      *)
(* table is durable.                                                       *)
Restart(ttl) ==
    /\ idle' = ttl
    /\ UNCHANGED <<credits, now, bought, spent, lapsed>>

Tick ==
    /\ now < MaxTime
    /\ now' = now + 1
    /\ UNCHANGED <<credits, idle, bought, spent, lapsed>>

LedgerNext ==
    \/ \E s \in Subjects, m \in MACs \cup {NoMac}, report \in Reports,
          e \in Events \cup {NoEvent} : CoinPulse(s, m, report, e)
    \/ \E s \in Subjects, n \in Spends : Consume(s, n)
    \/ \E s \in Subjects : Claim(s)
    \/ ExpireIdle
    \/ \E ttl \in IdleTTLs : Restart(ttl)
    \/ Tick

LedgerSpec == LedgerInit /\ [][LedgerNext]_ledgerVars

(* The sweeper goroutine ticks for as long as the process lives, and time  *)
(* passes; nobody is obliged to insert a coin or to press Connect.         *)
LedgerFairness == WF_ledgerVars(Tick) /\ WF_ledgerVars(ExpireIdle)

-----------------------------------------------------------------------------
(* Every row has the columns' types and every observer counts upwards.    *)
TypeOK ==
    /\ credits \in [Subjects -> Row]
    /\ now \in Nat
    /\ idle \in IdleTTLs
    /\ bought \in [Subjects -> Nat]
    /\ spent \in [Subjects -> Nat]
    /\ lapsed \in [Subjects -> Nat]

(* No second of access is minted or lost by the ledger's arithmetic: what  *)
(* Credit ever added is still on the balance, was deducted by Consume, or  *)
(* lapsed because a released balance was started over.  In particular the  *)
(* restart of a spent balance throws nothing away, and Consume's cap never *)
(* eats the time of a later coin.                                          *)
Conservation ==
    \A s \in Subjects :
        bought[s] = spent[s] + lapsed[s] + Remaining(credits[s])

(* The status the portal shows agrees with the balance behind it: a        *)
(* connected row is spent to the last second and an active one that ever   *)
(* bought time still has some, over any order of pulses, deductions,       *)
(* sweeps and restarts.                                                    *)
BalanceMatches(row) ==
    /\ row.used <= row.granted
    /\ row.status = "connected" => row.used = row.granted
    /\ row.status = "active" => row.used < row.granted \/ row.granted = 0
    /\ row.status = "absent" => row.granted = 0

StatusMatchesBalance == \A s \in Subjects : BalanceMatches(credits[s])

(* The sweep never takes a balance whose latest coin is younger than the   *)
(* window: each accepted pulse restarts the window, also for rows written  *)
(* while the idle release was off.                                         *)
NeverReleasedEarly ==
    [][\A s \in Subjects :
          credits[s].status = "active" /\ credits'[s].status = "expired"
          => \E ttl \in IdleTTLs \ {0} : credits[s].lastPulseAt + ttl < now]_ledgerVars

(* An abandoned balance is released: once the idle release stays           *)
(* configured, an active row whose deadline lies before the horizon is     *)
(* released, spent or topped up.                                           *)
AbandonedBalanceReleased ==
    <>[](idle > 0) =>
        \A s \in Subjects, t \in 0..(MaxTime - 1) :
            (credits[s].status = "active" /\ credits[s].expiresAt = t)
            ~> ~(credits[s].status = "active" /\ credits[s].expiresAt = t)
=============================================================================
