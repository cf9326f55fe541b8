------------------------------ MODULE CoinConnect ------------------------------
(***************************************************************************)
(* POST /portal/coin/connect: the "Done / Connect now" button.  The HTTP   *)
(* server runs one goroutine per request, so several taps are in flight at *)
(* once over the same coin tally; node reports, the idle sweep and         *)
(* controller restarts run between any two of their steps.                 *)
(*                                                                         *)
(* A tap reads the balance, mints a COIN voucher for it, has the router    *)
(* admit the client, marks the voucher used, and only then deducts the     *)
(* seconds it read.  Nothing holds the row between the read and the        *)
(* deduction.  The router and the voucher row are reduced to the outcomes  *)
(* the handler branches on; VoucherRedeem has them in full.                *)
(***************************************************************************)
EXTENDS CoinLedger

CONSTANTS
    Taps,               \* slots for requests in flight
    Clients,            \* [ip, mac] pairs the portal form may carry
    Minute,             \* seconds a session is rounded down to
    MaxSessionSeconds,  \* CoinMaxSessionMinutes * 60; 0 means no cap
    NoSubject,
    FailingQueries,     \* bound: the look-ups of a balance that may fail
    MaxMinted           \* bound: seconds of coin vouchers minted per subject

ASSUME ConnectConstants ==
    /\ Clients \subseteq [ip : Subjects, mac : MACs \cup {NoMac}]
    /\ MACs \subseteq Subjects
    /\ Minute \in Nat \ {0}
    /\ MaxSessionSeconds \in Nat
    /\ NoSubject \notin Subjects
    /\ FailingQueries \subseteq {"ip", "mac", "carries"}
    /\ MaxMinted \in Nat

VARIABLES
    looking,     \* look-ups of coinCreditFor not run yet: slot, client, key
    tap,         \* per slot: where the handler is, whose balance, how much
    minted,      \* seconds on COIN vouchers inserted into the ledger
    sold,        \* seconds on COIN vouchers redeemed, in all
    redeemed,    \* observer: the same, by the slot that redeemed them
    deducted,    \* observer: seconds each slot's Consume calls took
    overlapped,  \* observer: subjects two taps were in flight for at once
    cut          \* observer: subjects whose settlement was cut off

tapVars == <<looking, tap, minted, sold, redeemed, deducted, overlapped, cut>>
connectVars == <<credits, now, idle, bought, spent, lapsed,
                 looking, tap, minted, sold, redeemed, deducted, overlapped, cut>>

(* Where a request is, whose balance it was served from, and the seconds   *)
(* it read there.                                                          *)
Busy == [at : {"minting", "authorising", "redeeming", "settling", "claiming"},
         subject : Subjects, secs : Nat]

(* Only a client whose hardware address is known is looked up by it. *)
Queries == Taps \X {c \in Clients : c.mac # NoMac} \X {"mac", "carries"}

Idle == [at |-> "idle", subject |-> NoSubject, secs |-> 0]

(* Seeded fault: a started minute is sold whole. *)
SessionSecondsRoundedUp(row) ==
    IF MaxSessionSeconds > 0 /\ Remaining(row) > MaxSessionSeconds
    THEN MaxSessionSeconds
    ELSE ((Remaining(row) + Minute - 1) \div Minute) * Minute

(* coinSessionSeconds: the balance, capped, else in whole minutes. *)
SessionSeconds(row) ==
    IF MaxSessionSeconds > 0 /\ Remaining(row) > MaxSessionSeconds
    THEN MaxSessionSeconds
    ELSE (Remaining(row) \div Minute) * Minute

(* FindByMAC: the most recently touched rows carrying this address (ties  *)
(* within a second are broken arbitrarily).                                *)
FindByMAC(m) ==
    LET rows == {s \in Subjects : credits[s].status # "absent" /\ credits[s].mac = m}
    IN  {s \in rows : \A r \in rows : credits[r].updatedAt <= credits[s].updatedAt}

InFlight(s) == {h \in Taps : tap[h].subject = s}

(* Seeded fault: the slot keeps the balance it served. *)
LeaveUnreset(h) == tap' = [tap EXCEPT ![h].at = "idle"]

(* A handler leaves: its slot is free again. *)
Leave(h) == tap' = [tap EXCEPT ![h] = Idle]

Goto(h, point) == tap' = [tap EXCEPT ![h].at = point]

ConnectInit ==
    /\ LedgerInit
    /\ looking = {}
    /\ tap = [h \in Taps |-> Idle]
    /\ minted = [s \in Subjects |-> 0]
    /\ sold = [s \in Subjects |-> 0]
    /\ redeemed = [h \in Taps |-> [s \in Subjects |-> 0]]
    /\ deducted = [h \in Taps |-> [s \in Subjects |-> 0]]
    /\ overlapped = {}
    /\ cut = {}

(* A row with a balance serves the request, whatever its status column     *)
(* says.  Less than a minute is refused without a trace, as is a request   *)
(* no router can be resolved for.                                          *)
Serve(h, s) ==
    LET secs == SessionSeconds(credits[s]) IN
    /\ HasBalance(credits[s])
    /\ IF secs = 0 THEN UNCHANGED <<tap, overlapped>>
       ELSE /\ tap' = [tap EXCEPT ![h] = [at |-> "minting", subject |-> s, secs |-> secs]]
            /\ overlapped' = IF InFlight(s) # {} THEN overlapped \cup {s} ELSE overlapped

(* A query that fails passes for one that found no balance. *)
Unserved(query, rows) ==
    /\ \/ query \in FailingQueries \/ rows = {}
       \/ \E s \in rows : ~HasBalance(credits[s])
    /\ UNCHANGED <<tap, overlapped>>

(* coinCreditFor, one query at a time: under the address of the client,    *)
(* under its hardware address, and for a row that carries it.              *)
LookUpLease(h, c) ==
    /\ \A query \in looking : query[1] # h
    /\ \/ Serve(h, c.ip) /\ UNCHANGED looking
       \/ /\ c.mac # NoMac
          /\ Unserved("ip", {c.ip})
          /\ looking' = looking \cup {<<h, c, "mac">>}

LookUpHardware(h, c) ==
    /\ <<h, c, "mac">> \in looking
    /\ \/ Serve(h, c.mac) /\ looking' = looking \ {<<h, c, "mac">>}
       \/ /\ Unserved("mac", {c.mac})
          /\ looking' = (looking \ {<<h, c, "mac">>}) \cup {<<h, c, "carries">>}

LookUpCarrier(h, c) ==
    /\ <<h, c, "carries">> \in looking
    /\ looking' = looking \ {<<h, c, "carries">>}
    /\ (\E s \in FindByMAC(c.mac) : Serve(h, s)) \/ Unserved("carries", FindByMAC(c.mac))

ReadBalance(h, c) ==
    /\ tap[h].at = "idle"
    /\ LookUpLease(h, c) \/ LookUpHardware(h, c) \/ LookUpCarrier(h, c)
    /\ UNCHANGED <<ledgerVars, minted, sold, redeemed, deducted, cut>>

(* coinVoucher inserted the row, on its first, second or third code. *)
MintVoucher(h) ==
    LET s == tap[h].subject IN
    /\ tap[h].at = "minting"
    /\ minted[s] + tap[h].secs <= MaxMinted
    /\ minted' = [minted EXCEPT ![s] = @ + tap[h].secs]
    /\ Goto(h, "authorising")
    /\ UNCHANGED <<looking, ledgerVars, sold, redeemed, deducted, overlapped, cut>>

(* The insert, the dial, the provisioning or the login failed, or the      *)
(* router's answer was lost: the customer is told to try again.  A voucher *)
(* already minted stays in the ledger unused.                              *)
GiveUp(h) ==
    /\ tap[h].at \in {"minting", "authorising"}
    /\ Leave(h)
    /\ UNCHANGED <<looking, ledgerVars, minted, sold, redeemed, deducted, overlapped, cut>>

(* Seeded fault: the balance is settled before the voucher is redeemed. *)
AdmitThenSettle(h) ==
    /\ tap[h].at = "authorising"
    /\ Goto(h, "settling")
    /\ UNCHANGED <<looking, ledgerVars, minted, sold, redeemed, deducted, overlapped, cut>>

(* The router admitted the client, or keeps the provisioned user for it to *)
(* finish the login with.                                                  *)
Admit(h) ==
    /\ tap[h].at = "authorising"
    /\ Goto(h, "redeeming")
    /\ UNCHANGED <<looking, ledgerVars, minted, sold, redeemed, deducted, overlapped, cut>>

(* VoucherStore.Redeem: the voucher is used up. *)
RedeemVoucher(h) ==
    LET s == tap[h].subject
        n == tap[h].secs
    IN  /\ tap[h].at = "redeeming"
        /\ sold' = [sold EXCEPT ![s] = @ + n]
        /\ redeemed' = [redeemed EXCEPT ![h][s] = @ + n]
        /\ Goto(h, "settling")
        /\ UNCHANGED <<looking, ledgerVars, minted, deducted, overlapped, cut>>

(* Redeem failed: the login is rolled back and the error reported. *)
RedeemFails(h) ==
    /\ tap[h].at = "redeeming"
    /\ Leave(h)
    /\ UNCHANGED <<looking, ledgerVars, minted, sold, redeemed, deducted, overlapped, cut>>

(* Consume with the seconds read at the start, whatever the row says now. *)
Settle(h) ==
    LET s == tap[h].subject
        n == tap[h].secs
    IN  /\ tap[h].at = "settling"
        /\ Consume(s, n)
        /\ deducted' = [deducted EXCEPT ![h][s] = @ + (spent'[s] - spent[s])]
        /\ Goto(h, "claiming")
        /\ UNCHANGED <<looking, minted, sold, redeemed, overlapped, cut>>

(* Consume failed - the database, or the request context cancelled because *)
(* the customer's browser is gone.  It is logged, the session stays.       *)
SettleFails(h) ==
    /\ tap[h].at = "settling"
    /\ cut' = cut \cup {tap[h].subject}
    /\ Leave(h)
    /\ UNCHANGED <<looking, ledgerVars, minted, sold, redeemed, deducted, overlapped>>

(* Claim and registerPortalSession end the request; a Claim that fails is  *)
(* only logged.                                                            *)
ClaimCredit(h) ==
    /\ tap[h].at = "claiming"
    /\ Claim(tap[h].subject) \/ UNCHANGED ledgerVars
    /\ Leave(h)
    /\ UNCHANGED <<looking, minted, sold, redeemed, deducted, overlapped, cut>>

(* The controller dies and comes back: every request in flight is gone. *)
Crash(ttl) ==
    /\ Restart(ttl)
    /\ looking' = {}
    /\ tap' = [h \in Taps |-> Idle]
    /\ cut' = cut \cup {s \in Subjects :
                          \E h \in InFlight(s) : tap[h].at = "settling"}
    /\ UNCHANGED <<minted, sold, redeemed, deducted, overlapped>>

(* The node keeps crediting either key of the client, the sweep and the    *)
(* clock run on.                                                           *)
Background ==
    /\ \/ \E c \in Clients, report \in Reports, e \in Events \cup {NoEvent} :
            \/ CoinPulse(c.ip, NoMac, report, e)
            \/ c.mac # NoMac /\ CoinPulse(c.mac, c.mac, report, e)
       \/ ExpireIdle
       \/ Tick
    /\ UNCHANGED tapVars

ConnectNext ==
    \/ \E h \in Taps :
        \/ \E c \in Clients : ReadBalance(h, c)
        \/ MintVoucher(h)
        \/ GiveUp(h)
        \/ Admit(h)
        \/ RedeemVoucher(h)
        \/ RedeemFails(h)
        \/ Settle(h)
        \/ SettleFails(h)
        \/ ClaimCredit(h)
    \/ \E ttl \in IdleTTLs : Crash(ttl)
    \/ Background

ConnectSpec == ConnectInit /\ [][ConnectNext]_connectVars

-----------------------------------------------------------------------------
(* Handlers are at known points with the subject they read, and the        *)
(* counters are naturals.                                                  *)
ConnectTypeOK ==
    /\ TypeOK
    /\ looking \subseteq Queries
    /\ tap \in [Taps -> Busy \cup {Idle}]
    /\ minted \in [Subjects -> Nat]
    /\ sold \in [Subjects -> Nat]
    /\ redeemed \in [Taps -> [Subjects -> Nat]]
    /\ deducted \in [Taps -> [Subjects -> Nat]]
    /\ overlapped \subseteq Subjects
    /\ cut \subseteq Subjects

(* The session a tap is about to pay for. *)
Settling(h, s) == tap[h].at = "settling" /\ tap[h].subject = s

(* "The money is only deducted after the router has actually authorised    *)
(* the client" (coin.go): whatever fails, whoever taps at the same time    *)
(* and however the row changed since it was read, no request takes more    *)
(* from a balance than the vouchers it has redeemed for it.                *)
DeductedOnlyWhatWasGranted ==
    \A h \in Taps, s \in Subjects : deducted[h][s] <= redeemed[h][s]

(* Taken one at a time and not cut off between the redemption and the      *)
(* deduction, taps never hand out more access than was paid for, even with *)
(* coins, sweeps and restarts in between: what vouchers granted, plus what *)
(* can still be granted, stays within what was bought.                     *)
SerialTapsNeverOverspend ==
    \A s \in Subjects :
        s \notin overlapped /\ s \notin cut =>
            /\ (\A h \in Taps : ~Settling(h, s)) =>
                    sold[s] + Remaining(credits[s]) <= bought[s]
            /\ \A h \in Taps : Settling(h, s) =>
                    sold[s] - tap[h].secs + Remaining(credits[s]) <= bought[s]

(* "A coin is never lost and never counted twice" (coin.go): no more       *)
(* access is handed out than was bought.                                   *)
NeverCountedTwice ==
    \A s \in Subjects : sold[s] <= bought[s]

(* A balance the sweep "released, so the next customer does not inherit    *)
(* it" (coins.go) is not picked up by a later Connect.                     *)
ReleasedBalanceNotInherited ==
    [][\A h \in Taps, s \in Subjects :
          (tap[h].subject # s /\ tap'[h].subject = s)
          => credits[s].status # "expired"]_connectVars
=============================================================================
