--------------------------- MODULE CoinConnectProofs ---------------------------
(* Theorems about the coin tab's Connect button for any number of requests  *)
(* in flight, any clients and any bounds.                                   *)
EXTENDS CoinConnect, CoinLedgerProofs

(* Rounding a balance down to whole minutes never exceeds it. *)
LEMMA RoundedDown ==
    ASSUME NEW x \in Nat, NEW m \in Nat \ {0}
    PROVE  (x \div m) * m \in Nat /\ (x \div m) * m <= x
  OBVIOUS

(* A session is never longer than the balance it is read from. *)
LEMMA SessionWithinBalance ==
    ASSUME NEW row \in Row
    PROVE  SessionSeconds(row) \in Nat /\ SessionSeconds(row) <= Remaining(row)
  BY RemainingType, RoundedDown, ConnectConstants DEF SessionSeconds

(* The request in slot h is served from row s. *)
Served(h, s) ==
    /\ tap[h] = Idle
    /\ tap' = [tap EXCEPT ![h] = [at |-> "minting", subject |-> s,
                                  secs |-> SessionSeconds(credits[s])]]
    /\ overlapped' = IF InFlight(s) # {} THEN overlapped \cup {s} ELSE overlapped

(* A look-up serves the request from a row of the table, or changes only   *)
(* what is left to look up.                                                *)
LEMMA LookUpServes ==
    ASSUME ConnectTypeOK, NEW h \in Taps, NEW c \in Clients, ReadBalance(h, c)
    PROVE  /\ looking' \subseteq Queries
           /\ UNCHANGED <<ledgerVars, minted, sold, redeemed, deducted, cut>>
           /\ \/ \E s \in Subjects : Served(h, s)
              \/ UNCHANGED <<tap, overlapped>>
<1>1. looking' \subseteq Queries
  <2>1. CASE LookUpLease(h, c)
    BY <2>1 DEF LookUpLease, ConnectTypeOK, Queries
  <2>2. CASE LookUpHardware(h, c)
    <3>1. <<h, c, "mac">> \in Queries => <<h, c, "carries">> \in Queries
      BY DEF Queries
    <3> QED
      BY <2>2, <3>1 DEF LookUpHardware, ConnectTypeOK
  <2>3. CASE LookUpCarrier(h, c)
    BY <2>3 DEF LookUpCarrier, ConnectTypeOK
  <2> QED
    BY <2>1, <2>2, <2>3 DEF ReadBalance
<1>2. c.ip \in Subjects /\ c.mac \in MACs \cup {NoMac} /\ FindByMAC(c.mac) \subseteq Subjects
  BY ConnectConstants DEF FindByMAC
<1>3. tap[h] = Idle /\ UNCHANGED <<ledgerVars, minted, sold, redeemed, deducted, cut>>
  BY DEF ReadBalance, ConnectTypeOK, Busy
<1>4. ASSUME NEW s \in Subjects, Serve(h, s)
      PROVE  Served(h, s) \/ UNCHANGED <<tap, overlapped>>
  BY <1>3, <1>4 DEF Serve, Served
<1>u. ASSUME NEW query, NEW rows, Unserved(query, rows)
      PROVE  UNCHANGED <<tap, overlapped>>
  BY <1>u DEF Unserved
<1>5. CASE LookUpLease(h, c)
  <2>1. Serve(h, c.ip) \/ Unserved("ip", {c.ip})
    BY <1>5 DEF LookUpLease
  <2> QED
    BY <1>1, <1>3, <1>2, <1>4, <1>u, <2>1
<1>6. CASE LookUpHardware(h, c)
  <2>1. <<h, c, "mac">> \in Queries
    BY <1>6 DEF LookUpHardware, ConnectTypeOK
  <2>2. c.mac \in Subjects
    BY <1>2, <2>1, ConnectConstants DEF Queries
  <2>3. Serve(h, c.mac) \/ Unserved("mac", {c.mac})
    BY <1>6 DEF LookUpHardware
  <2> QED
    BY <1>1, <1>3, <1>4, <1>u, <2>2, <2>3
<1>7. CASE LookUpCarrier(h, c)
  <2>1. (\E s \in FindByMAC(c.mac) : Serve(h, s)) \/ Unserved("carries", FindByMAC(c.mac))
    BY <1>7 DEF LookUpCarrier
  <2> QED
    BY <1>1, <1>3, <1>2, <1>4, <1>u, <2>1
<1> QED
  BY <1>5, <1>6, <1>7 DEF ReadBalance

(* A tap works on the tally by the tally's own steps. *)
LEMMA ConnectStepIsLedgerStep ==
    ConnectTypeOK /\ [ConnectNext]_connectVars => [LedgerStep]_ledgerVars
<1> SUFFICES ASSUME ConnectTypeOK, ConnectNext
             PROVE  [LedgerStep]_ledgerVars
  BY DEF connectVars, ledgerVars
<1>1. ASSUME NEW h \in Taps, Settle(h)
      PROVE  LedgerStep
  <2>1. tap[h].secs \in Nat /\ tap[h].subject \in Subjects
    BY <1>1 DEF Settle, ConnectTypeOK, Busy, Idle
  <2> QED
    BY <1>1, <2>1 DEF Settle, LedgerStep
<1>2. ASSUME NEW h \in Taps, ClaimCredit(h)
      PROVE  LedgerStep \/ UNCHANGED ledgerVars
  <2>1. tap[h].subject \in Subjects
    BY <1>2 DEF ClaimCredit, ConnectTypeOK, Busy, Idle
  <2> QED
    BY <1>2, <2>1 DEF ClaimCredit, LedgerStep
<1>3. ASSUME NEW ttl \in IdleTTLs, Crash(ttl)
      PROVE  LedgerStep
  BY <1>3 DEF Crash, LedgerStep
<1>4. CASE Background
  <2>1. ASSUME NEW c \in Clients, NEW report \in Reports, NEW e \in Events \cup {NoEvent},
               \/ CoinPulse(c.ip, NoMac, report, e)
               \/ c.mac # NoMac /\ CoinPulse(c.mac, c.mac, report, e)
        PROVE  LedgerStep
    <3>1. report \in Report /\ c.ip \in Subjects /\ c.mac \in MACs \cup {NoMac}
      BY LedgerConstants, ConnectConstants DEF Report
    <3>2. c.mac # NoMac => c.mac \in MACs /\ c.mac \in Subjects
      BY <3>1, ConnectConstants
    <3>3. CASE CoinPulse(c.ip, NoMac, report, e)
      BY <3>1, <3>3 DEF LedgerStep
    <3>4. CASE c.mac # NoMac /\ CoinPulse(c.mac, c.mac, report, e)
      BY <3>1, <3>2, <3>4 DEF LedgerStep
    <3> QED
      BY <2>1, <3>3, <3>4
  <2> QED
    BY <1>4, <2>1 DEF Background, LedgerStep
<1>5. ASSUME NEW h \in Taps,
             \/ \E c \in Clients : ReadBalance(h, c)
             \/ MintVoucher(h) \/ GiveUp(h) \/ Admit(h) \/ RedeemVoucher(h)
             \/ RedeemFails(h) \/ SettleFails(h)
      PROVE  UNCHANGED ledgerVars
  BY <1>5 DEF ReadBalance, MintVoucher, GiveUp, Admit, RedeemVoucher, RedeemFails, SettleFails
<1> QED
  BY <1>1, <1>2, <1>3, <1>4, <1>5 DEF ConnectNext

(* Every step keeps the types of the requests' own state. *)
LEMMA ConnectTypeStep ==
    ConnectTypeOK /\ [ConnectNext]_connectVars => ConnectTypeOK'
<1> SUFFICES ASSUME ConnectTypeOK, [ConnectNext]_connectVars
             PROVE  ConnectTypeOK'
  OBVIOUS
<1>1. TypeOK /\ TypeOK'
  BY ConnectStepIsLedgerStep, TypeOKStep DEF ConnectTypeOK
<1>2. ASSUME NEW h \in Taps, NEW c \in Clients, ReadBalance(h, c)
      PROVE  ConnectTypeOK'
  <2>1. ASSUME NEW s \in Subjects, Served(h, s)
        PROVE  tap' \in [Taps -> Busy \cup {Idle}] /\ overlapped' \subseteq Subjects
    <3>1. SessionSeconds(credits[s]) \in Nat
      BY <1>1, SessionWithinBalance DEF TypeOK
    <3> QED
      BY <2>1, <3>1 DEF Served, ConnectTypeOK, Busy
  <2>2. tap' \in [Taps -> Busy \cup {Idle}] /\ overlapped' \subseteq Subjects
    BY <1>2, <2>1, LookUpServes DEF ConnectTypeOK
  <2> QED
    BY <1>1, <1>2, <2>2, LookUpServes DEF ConnectTypeOK
<1>3. ASSUME NEW h \in Taps, MintVoucher(h)
      PROVE  ConnectTypeOK'
  <2>1. tap[h] \in Busy
    BY <1>3 DEF MintVoucher, ConnectTypeOK, Idle
  <2> QED
    BY <1>1, <1>3, <2>1 DEF MintVoucher, Goto, ConnectTypeOK, Busy
<1>4. ASSUME NEW h \in Taps, GiveUp(h) \/ RedeemFails(h)
      PROVE  ConnectTypeOK'
  BY <1>1, <1>4 DEF GiveUp, RedeemFails, Leave, ConnectTypeOK
<1>5. ASSUME NEW h \in Taps, Admit(h)
      PROVE  ConnectTypeOK'
  <2>1. tap[h] \in Busy
    BY <1>5 DEF Admit, ConnectTypeOK, Idle
  <2> QED
    BY <1>1, <1>5, <2>1 DEF Admit, Goto, ConnectTypeOK, Busy
<1>6. ASSUME NEW h \in Taps, RedeemVoucher(h)
      PROVE  ConnectTypeOK'
  <2>1. tap[h] \in Busy
    BY <1>6 DEF RedeemVoucher, ConnectTypeOK, Idle
  <2>2. tap' \in [Taps -> Busy \cup {Idle}]
    BY <1>6, <2>1 DEF RedeemVoucher, Goto, ConnectTypeOK, Busy
  <2>3. sold' \in [Subjects -> Nat] /\ redeemed' \in [Taps -> [Subjects -> Nat]]
    BY <1>6, <2>1 DEF RedeemVoucher, ConnectTypeOK, Busy
  <2> QED
    BY <1>1, <1>6, <2>2, <2>3 DEF RedeemVoucher, ConnectTypeOK
<1>7. ASSUME NEW h \in Taps, Settle(h)
      PROVE  ConnectTypeOK'
  <2>1. tap[h] \in Busy
    BY <1>7 DEF Settle, ConnectTypeOK, Idle
  <2> DEFINE s == tap[h].subject
  <2>2. spent'[s] - spent[s] = Least(tap[h].secs, Remaining(credits[s]))
    BY <1>1, <1>7, <2>1, RemainingType DEF Settle, Consume, TypeOK, Busy, Least
  <2>3. spent'[s] - spent[s] \in Nat
    BY <1>1, <2>1, <2>2, RemainingType DEF Least, TypeOK, Busy
  <2>4. tap' \in [Taps -> Busy \cup {Idle}]
    BY <1>7, <2>1 DEF Settle, Goto, ConnectTypeOK, Busy
  <2>5. deducted' \in [Taps -> [Subjects -> Nat]]
    BY <1>7, <2>1, <2>3 DEF Settle, ConnectTypeOK, Busy
  <2> QED
    BY <1>1, <1>7, <2>4, <2>5 DEF Settle, ConnectTypeOK
<1>8. ASSUME NEW h \in Taps, SettleFails(h)
      PROVE  ConnectTypeOK'
  <2>1. tap[h].subject \in Subjects
    BY <1>8 DEF SettleFails, ConnectTypeOK, Idle, Busy
  <2> QED
    BY <1>1, <1>8, <2>1 DEF SettleFails, Leave, ConnectTypeOK
<1>9. ASSUME NEW h \in Taps, ClaimCredit(h)
      PROVE  ConnectTypeOK'
  BY <1>1, <1>9 DEF ClaimCredit, Leave, ConnectTypeOK
<1>10. ASSUME NEW ttl \in IdleTTLs, Crash(ttl)
       PROVE  ConnectTypeOK'
  BY <1>1, <1>10 DEF Crash, ConnectTypeOK
<1>11. CASE Background
  BY <1>1, <1>11 DEF Background, tapVars, ConnectTypeOK
<1>12. CASE UNCHANGED connectVars
  BY <1>1, <1>12 DEF connectVars, ConnectTypeOK
<1> QED
  BY <1>2, <1>3, <1>4, <1>5, <1>6, <1>7, <1>8, <1>9, <1>10, <1>11, <1>12
     DEF ConnectNext

(* Request state and observers are well typed in every reachable state,    *)
(* and the tally keeps its own invariant under concurrent requests.        *)
THEOREM ConnectTypeCorrect == ConnectSpec => [](ConnectTypeOK /\ LedgerInv)
<1>1. ConnectInit => ConnectTypeOK /\ LedgerInv
  BY LedgerConstants
     DEF ConnectInit, ConnectTypeOK, LedgerInit, LedgerInv, TypeOK,
         StatusMatchesBalance, Conservation, BalanceMatches, Remaining, Greatest,
         NoRow, Row, Statuses, Idle
<1>2. ConnectTypeOK /\ LedgerInv /\ [ConnectNext]_connectVars => ConnectTypeOK' /\ LedgerInv'
  BY ConnectTypeStep, ConnectStepIsLedgerStep, LedgerInvInductive, TypeOKStep DEF LedgerInv
<1> QED
  BY <1>1, <1>2, PTL DEF ConnectSpec

(* What a request in its settlement still owes is covered by what it has   *)
(* redeemed: DeductedOnlyWhatWasGranted made inductive.                    *)
GrantInv ==
    \A h \in Taps, s \in Subjects :
        deducted[h][s] + (IF Settling(h, s) THEN tap[h].secs ELSE 0) <= redeemed[h][s]

(* What a slot has deducted, and is about to deduct, stays within what it  *)
(* redeemed.                                                               *)
LEMMA GrantInvStep ==
    ConnectTypeOK /\ GrantInv /\ [ConnectNext]_connectVars => GrantInv'
<1> SUFFICES ASSUME ConnectTypeOK, GrantInv, [ConnectNext]_connectVars
             PROVE  GrantInv'
  OBVIOUS
<1>0. ConnectTypeOK'
  BY ConnectTypeStep
<1>1. ASSUME NEW h \in Taps, tap' = [tap EXCEPT ![h] = tap'[h]],
             tap'[h].at # "settling", UNCHANGED <<redeemed, deducted>>
      PROVE  GrantInv'
  <2> SUFFICES ASSUME NEW g \in Taps, NEW s \in Subjects
               PROVE  deducted[g][s] + (IF Settling(g, s)' THEN tap'[g].secs ELSE 0)
                        <= redeemed[g][s]
    BY <1>1 DEF GrantInv
  <2>1. tap[g].at = "settling" => tap[g].secs \in Nat
    BY DEF ConnectTypeOK, Busy, Idle
  <2>2. deducted[g][s] \in Nat /\ redeemed[g][s] \in Nat
    BY DEF ConnectTypeOK
  <2>3. g # h => tap'[g] = tap[g]
    BY <1>1 DEF ConnectTypeOK
  <2>4. deducted[g][s] + (IF Settling(g, s) THEN tap[g].secs ELSE 0) <= redeemed[g][s]
    BY DEF GrantInv
  <2> QED
    BY <1>1, <2>1, <2>2, <2>3, <2>4 DEF Settling
<1>2. ASSUME NEW h \in Taps,
             \/ \E c \in Clients : ReadBalance(h, c)
             \/ MintVoucher(h) \/ GiveUp(h) \/ Admit(h)
             \/ RedeemFails(h) \/ SettleFails(h) \/ ClaimCredit(h)
      PROVE  GrantInv'
  <2>0. ASSUME NEW c \in Clients, ReadBalance(h, c)
        PROVE  /\ tap' = [tap EXCEPT ![h] = tap'[h]] /\ tap'[h].at # "settling"
               /\ UNCHANGED <<redeemed, deducted>>
    BY <2>0, LookUpServes DEF Served, ReadBalance, ConnectTypeOK, Idle
  <2>1. tap' = [tap EXCEPT ![h] = tap'[h]] /\ tap'[h].at # "settling"
    BY <1>2, <2>0 DEF MintVoucher, GiveUp, Admit, RedeemFails, SettleFails,
                ClaimCredit, Leave, Goto, Idle, ConnectTypeOK, Busy
  <2> QED
    BY <1>1, <1>2, <2>0, <2>1 DEF MintVoucher, GiveUp, Admit, RedeemFails,
                                  SettleFails, ClaimCredit
<1>3. ASSUME NEW h \in Taps, RedeemVoucher(h)
      PROVE  GrantInv'
  <2>1. tap[h] \in Busy
    BY <1>3 DEF RedeemVoucher, ConnectTypeOK, Idle
  <2> DEFINE s == tap[h].subject
             n == tap[h].secs
  <2>2. /\ tap' = [tap EXCEPT ![h].at = "settling"]
        /\ redeemed' = [redeemed EXCEPT ![h][s] = @ + n]
        /\ deducted' = deducted
        /\ tap[h].at # "settling"
    BY <1>3 DEF RedeemVoucher, Goto
  <2>3. n \in Nat /\ s \in Subjects
    BY <2>1 DEF Busy
  <2>4. ASSUME NEW g \in Taps, NEW r \in Subjects
        PROVE  deducted'[g][r] + (IF Settling(g, r)' THEN tap'[g].secs ELSE 0)
                 <= redeemed'[g][r]
    <3>1. /\ deducted[g][r] \in Nat /\ redeemed[g][r] \in Nat
          /\ deducted[g][r] + (IF Settling(g, r) THEN tap[g].secs ELSE 0) <= redeemed[g][r]
      BY DEF ConnectTypeOK, GrantInv
    <3>2. CASE g # h
      BY <2>2, <3>1, <3>2 DEF Settling, ConnectTypeOK
    <3>3. CASE g = h /\ r = s
      <4>1. redeemed'[g][r] = redeemed[g][r] + n /\ tap'[g].secs = n
        BY <2>1, <2>2, <3>3 DEF ConnectTypeOK, Busy
      <4> QED
        BY <2>2, <2>3, <3>1, <3>3, <4>1 DEF Settling
    <3>4. CASE g = h /\ r # s
      <4>1. redeemed'[g][r] = redeemed[g][r] /\ tap'[g].subject = s
        BY <2>1, <2>2, <3>4 DEF ConnectTypeOK, Busy
      <4> QED
        BY <2>2, <2>3, <3>1, <3>4, <4>1 DEF Settling
    <3> QED
      BY <3>2, <3>3, <3>4
  <2> QED
    BY <2>4 DEF GrantInv
<1>4. ASSUME NEW h \in Taps, Settle(h)
      PROVE  GrantInv'
  <2>1. tap[h] \in Busy
    BY <1>4 DEF Settle, ConnectTypeOK, Idle
  <2> DEFINE s == tap[h].subject
             n == tap[h].secs
             taken == spent'[s] - spent[s]
  <2>2. n \in Nat /\ s \in Subjects
    BY <2>1 DEF Busy
  <2>3. taken = Least(n, Remaining(credits[s])) /\ Remaining(credits[s]) \in Nat
    BY <1>4, <2>2, RemainingType DEF Settle, Consume, TypeOK, ConnectTypeOK, Least
  <2>4. taken \in Nat /\ taken <= n
    BY <2>2, <2>3 DEF Least
  <2>5. /\ tap' = [tap EXCEPT ![h].at = "claiming"]
        /\ deducted' = [deducted EXCEPT ![h][s] = @ + taken]
        /\ redeemed' = redeemed
        /\ Settling(h, s)
    BY <1>4 DEF Settle, Goto, Settling
  <2> HIDE DEF taken
  <2>6. ASSUME NEW g \in Taps, NEW r \in Subjects
        PROVE  deducted'[g][r] + (IF Settling(g, r)' THEN tap'[g].secs ELSE 0)
                 <= redeemed'[g][r]
    <3>1. /\ deducted[g][r] \in Nat /\ redeemed[g][r] \in Nat
          /\ deducted[g][r] + (IF Settling(g, r) THEN tap[g].secs ELSE 0) <= redeemed[g][r]
      BY DEF ConnectTypeOK, GrantInv
    <3>2. CASE g # h
      BY <2>5, <3>1, <3>2 DEF Settling, ConnectTypeOK
    <3>3. CASE g = h
      <4>1. ~Settling(g, r)'
        BY <2>1, <2>5, <3>3 DEF Settling, ConnectTypeOK
      <4>2. deducted'[g][r] = IF r = s THEN deducted[g][r] + taken ELSE deducted[g][r]
        BY <2>5, <3>3 DEF ConnectTypeOK
      <4>3. r = s => deducted[g][r] + n <= redeemed[g][r]
        BY <2>5, <3>1, <3>3
      <4>4. deducted[g][r] <= redeemed[g][r]
        BY <2>2, <2>5, <3>1, <3>3, <4>3 DEF Settling
      <4> QED
        BY <2>2, <2>4, <2>5, <3>1, <4>1, <4>2, <4>3, <4>4
    <3> QED
      BY <3>2, <3>3
  <2> QED
    BY <2>6 DEF GrantInv
<1>5. ASSUME NEW ttl \in IdleTTLs, Crash(ttl)
      PROVE  GrantInv'
  <2>1. \A g \in Taps, r \in Subjects : ~Settling(g, r)'
    BY <1>5 DEF Crash, Settling, Idle
  <2>2. \A g \in Taps : Settling(g, tap[g].subject) => tap[g].secs \in Nat
    BY DEF Settling, ConnectTypeOK, Busy, Idle
  <2>3. \A g \in Taps, r \in Subjects :
          deducted[g][r] \in Nat /\ redeemed[g][r] \in Nat
    BY DEF ConnectTypeOK
  <2>4. \A g \in Taps, r \in Subjects : deducted[g][r] <= redeemed[g][r]
    BY <2>2, <2>3 DEF GrantInv, Settling
  <2> QED
    BY <1>5, <2>1, <2>3, <2>4 DEF Crash, GrantInv
<1>6. CASE Background
  BY <1>6 DEF Background, tapVars, GrantInv, Settling
<1>7. CASE UNCHANGED connectVars
  BY <1>7 DEF connectVars, GrantInv, Settling
<1> QED
  BY <1>2, <1>3, <1>4, <1>5, <1>6, <1>7 DEF ConnectNext

(* No request takes more from a balance than it has redeemed for it, for   *)
(* any number of concurrent requests, coins, sweeps and crashes.           *)
THEOREM ConnectDeductsOnlyGranted == ConnectSpec => []DeductedOnlyWhatWasGranted
<1>1. ConnectInit => GrantInv
  BY DEF ConnectInit, GrantInv, Settling, Idle
<1>2. ConnectTypeOK /\ GrantInv => DeductedOnlyWhatWasGranted
  <2> SUFFICES ASSUME ConnectTypeOK, GrantInv, NEW h \in Taps, NEW s \in Subjects
               PROVE  deducted[h][s] <= redeemed[h][s]
    BY DEF DeductedOnlyWhatWasGranted
  <2>1. Settling(h, s) => tap[h].secs \in Nat
    BY DEF Settling, ConnectTypeOK, Busy, Idle
  <2>2. deducted[h][s] \in Nat /\ redeemed[h][s] \in Nat
    BY DEF ConnectTypeOK
  <2> QED
    BY <2>1, <2>2 DEF GrantInv
<1> QED
  BY <1>1, <1>2, GrantInvStep, ConnectTypeCorrect, PTL DEF ConnectSpec

(* A coin, a sweep, a claim, a tick or a restart deducts nothing, and the  *)
(* n seconds a request has read stay covered: by the balance itself or, if *)
(* it lapsed and was started over, by what lapsed.                         *)
LEMMA OthersKeepCover ==
    ASSUME LedgerInv, [LedgerStep]_ledgerVars, spent' = spent
    PROVE  /\ \A s \in Subjects, n \in Nat :
                 lapsed[s] + Least(n, Remaining(credits[s]))
                   <= lapsed'[s] + Least(n, Remaining(credits'[s]))
           /\ \A s \in Subjects : lapsed[s] <= lapsed'[s]
<1>0. \A s \in Subjects :
        /\ credits[s] \in Row /\ BalanceMatches(credits[s])
        /\ Remaining(credits[s]) \in Nat /\ lapsed[s] \in Nat
  BY RemainingType DEF LedgerInv, TypeOK, StatusMatchesBalance
<1>1. ASSUME NEW r \in Subjects, NEW m \in MACs \cup {NoMac}, NEW report \in Report,
             NEW e \in Events \cup {NoEvent}, CoinPulse(r, m, report, e)
      PROVE  /\ \A s \in Subjects :
                  \/ lapsed'[s] = lapsed[s] /\ Remaining(credits[s]) <= Remaining(credits'[s])
                  \/ lapsed'[s] = lapsed[s] + Remaining(credits[s])
             /\ \A s \in Subjects : Remaining(credits'[s]) \in Nat
  <2> DEFINE secs == Least(report.secs, MaxReportSeconds)
             new == CreditRow(credits[r], m, report.pulses, secs, e, now, Deadline)
  <2>1. secs \in Nat
    BY LedgerConstants DEF Least, Report
  <2>2. Remaining(new) =
          secs + IF credits[r].status = "active" THEN Remaining(credits[r]) ELSE 0
    BY <1>0, <2>1, CreditRowBalance
  <2>3. credits[r].status \in {"absent", "connected"} => Remaining(credits[r]) = 0
    BY <1>0 DEF BalanceMatches, Remaining, Greatest, Row
  <2>4. /\ credits' = [credits EXCEPT ![r] = new]
        /\ lapsed' = [lapsed EXCEPT ![r] = IF credits[r].status = "expired"
                                          THEN @ + Remaining(credits[r]) ELSE @]
    BY <1>1 DEF CoinPulse
  <2>5. credits[r].status \in Statuses
    BY <1>0 DEF Row
  <2> HIDE DEF new, secs
  <2> QED
    BY <1>0, <2>1, <2>2, <2>3, <2>4, <2>5 DEF LedgerInv, TypeOK, Statuses
<1>2. ASSUME \/ \E s \in Subjects : Claim(s)
             \/ ExpireIdle
             \/ \E ttl \in IdleTTLs : Restart(ttl)
             \/ Tick
             \/ UNCHANGED ledgerVars
             \/ \E s \in Subjects, n \in Nat : Consume(s, n)
      PROVE  /\ lapsed' = lapsed
             /\ \A s \in Subjects : Remaining(credits'[s]) = Remaining(credits[s])
  <2>1. CASE \E s \in Subjects : Claim(s)
    BY <1>0, <2>1 DEF Claim, Remaining, Row, LedgerInv, TypeOK
  <2>2. CASE ExpireIdle
    BY <1>0, <2>2, ReleaseRowBalance DEF ExpireIdle
  <2>3. CASE \E ttl \in IdleTTLs : Restart(ttl)
    BY <2>3 DEF Restart
  <2>4. CASE Tick \/ UNCHANGED ledgerVars
    BY <2>4 DEF Tick, ledgerVars
  <2>5. ASSUME NEW s \in Subjects, NEW n \in Nat, Consume(s, n)
        PROVE  lapsed' = lapsed /\ Remaining(credits'[s]) = Remaining(credits[s])
    <3> DEFINE taken == Least(n, Remaining(credits[s]))
    <3>0. taken \in Nat /\ spent[s] \in Nat
      BY <1>0 DEF Least, LedgerInv, TypeOK
    <3>a. spent'[s] = spent[s] + taken
      BY <2>5 DEF Consume, LedgerInv, TypeOK
    <3> HIDE DEF taken
    <3>b. taken = 0
      BY <3>0, <3>a
    <3>1. Least(n, Remaining(credits[s])) = 0
      BY <3>b DEF taken
    <3>2. Remaining(ConsumeRow(credits[s], n, now)) = Remaining(credits[s])
      BY <1>0, <2>5, <3>1, ConsumeRowBalance DEF Consume
    <3> QED
      BY <2>5, <3>2 DEF Consume, LedgerInv, TypeOK
  <2>6. CASE \E s \in Subjects, n \in Nat : Consume(s, n)
    BY <2>5, <2>6 DEF Consume, LedgerInv, TypeOK
  <2> QED
    BY <1>2, <2>1, <2>2, <2>3, <2>4, <2>6
<1>3. CASE \E r \in Subjects, m \in MACs \cup {NoMac}, report \in Report,
              e \in Events \cup {NoEvent} : CoinPulse(r, m, report, e)
  <2>1. /\ \A s \in Subjects :
             \/ lapsed'[s] = lapsed[s] /\ Remaining(credits[s]) <= Remaining(credits'[s])
             \/ lapsed'[s] = lapsed[s] + Remaining(credits[s])
        /\ \A s \in Subjects : Remaining(credits'[s]) \in Nat
    BY <1>1, <1>3
  <2> SUFFICES ASSUME NEW s \in Subjects, NEW n \in Nat
               PROVE  /\ lapsed[s] + Least(n, Remaining(credits[s]))
                           <= lapsed'[s] + Least(n, Remaining(credits'[s]))
                      /\ lapsed[s] <= lapsed'[s]
    OBVIOUS
  <2> QED
    BY <1>0, <2>1 DEF Least
<1>4. CASE ~\E r \in Subjects, m \in MACs \cup {NoMac}, report \in Report,
              e \in Events \cup {NoEvent} : CoinPulse(r, m, report, e)
  <2>1. /\ lapsed' = lapsed
        /\ \A s \in Subjects : Remaining(credits'[s]) = Remaining(credits[s])
    BY <1>2, <1>4 DEF LedgerStep
  <2> QED
    BY <1>0, <2>1 DEF Least
<1> QED
  BY <1>3, <1>4

(* A subject never served to two requests at once has at most one in       *)
(* flight.                                                                 *)
AloneInv ==
    \A s \in Subjects \ overlapped, g, h \in Taps :
        tap[g].subject = s /\ tap[h].subject = s => g = h

(* Outside the overlapped subjects, no two slots serve the same balance.   *)
LEMMA AloneInvStep ==
    ConnectTypeOK /\ AloneInv /\ [ConnectNext]_connectVars => AloneInv'
<1> SUFFICES ASSUME ConnectTypeOK, AloneInv, [ConnectNext]_connectVars
             PROVE  AloneInv'
  OBVIOUS
<1>1. ASSUME NEW h \in Taps, NEW c \in Clients, ReadBalance(h, c)
      PROVE  AloneInv'
  <2>1. CASE UNCHANGED <<tap, overlapped>>
    BY <2>1 DEF AloneInv
  <2>2. ASSUME NEW s \in Subjects, Served(h, s)
        PROVE  AloneInv'
    <3>1. /\ tap'[h].subject = s
          /\ \A g \in Taps \ {h} : tap'[g] = tap[g]
      BY <2>2 DEF Served, ConnectTypeOK
    <3>2. s \notin overlapped' => \A g \in Taps : tap[g].subject # s
      BY <2>2 DEF Served, InFlight
    <3>3. overlapped \subseteq overlapped'
      BY <2>2 DEF Served
    <3> QED
      BY <3>1, <3>2, <3>3 DEF AloneInv
  <2> QED
    BY <1>1, <2>1, <2>2, LookUpServes
<1>2. ASSUME NEW h \in Taps,
             \/ MintVoucher(h) \/ GiveUp(h) \/ Admit(h) \/ RedeemVoucher(h)
             \/ RedeemFails(h) \/ Settle(h) \/ SettleFails(h) \/ ClaimCredit(h)
      PROVE  AloneInv'
  <2>1. /\ overlapped' = overlapped
        /\ \A g \in Taps \ {h} : tap'[g] = tap[g]
        /\ tap'[h].subject \in {tap[h].subject, NoSubject}
    BY <1>2 DEF MintVoucher, GiveUp, Admit, RedeemVoucher, RedeemFails, Settle,
                SettleFails, ClaimCredit, Leave, Goto, Idle, ConnectTypeOK, Busy
  <2> QED
    BY <2>1, ConnectConstants DEF AloneInv
<1>3. ASSUME NEW ttl \in IdleTTLs, Crash(ttl)
      PROVE  AloneInv'
  BY <1>3, ConnectConstants DEF Crash, AloneInv, Idle
<1>4. CASE Background \/ UNCHANGED connectVars
  BY <1>4 DEF Background, tapVars, connectVars, AloneInv
<1> QED
  BY <1>1, <1>2, <1>3, <1>4 DEF ConnectNext

(* SerialTapsNeverOverspend made inductive: before its voucher is redeemed *)
(* a request's seconds fit into what is spent, lapsed or still there to    *)
(* deduct, so that when it settles, what was sold is spent or lapsed.      *)
Cover(h, s) ==
    spent[s] + lapsed[s] + Least(tap[h].secs, Remaining(credits[s]))

SlackInv ==
    \A s \in Subjects \ (overlapped \cup cut) :
        /\ (\A h \in Taps : ~Settling(h, s)) => sold[s] <= spent[s] + lapsed[s]
        /\ \A h \in Taps :
              tap[h].subject = s /\ tap[h].at \in {"minting", "authorising", "redeeming"}
              => sold[s] + tap[h].secs <= Cover(h, s)
        /\ \A h \in Taps : Settling(h, s) => sold[s] <= Cover(h, s)

ConnectInv == ConnectTypeOK /\ LedgerInv /\ AloneInv /\ SlackInv

(* Every step keeps the accounts of a subject served one tap at a time:    *)
(* what was granted and what can still be granted stay within what was     *)
(* bought.                                                                 *)
LEMMA SlackInvStep == ConnectInv /\ [ConnectNext]_connectVars => SlackInv'
<1> SUFFICES ASSUME ConnectInv, [ConnectNext]_connectVars
             PROVE  SlackInv'
  OBVIOUS
<1>0. /\ ConnectTypeOK /\ LedgerInv /\ AloneInv /\ SlackInv
      /\ ConnectTypeOK' /\ LedgerInv' /\ AloneInv'
  BY ConnectTypeStep, ConnectStepIsLedgerStep, LedgerInvInductive, TypeOKStep, AloneInvStep
     DEF ConnectInv, LedgerInv
<1>t. /\ \A s \in Subjects : /\ Remaining(credits[s]) \in Nat
                              /\ spent[s] \in Nat /\ lapsed[s] \in Nat /\ sold[s] \in Nat
      /\ \A s \in Subjects : /\ Remaining(credits'[s]) \in Nat
                              /\ spent'[s] \in Nat /\ lapsed'[s] \in Nat /\ sold'[s] \in Nat
      /\ \A h \in Taps : tap[h].at # "idle" => tap[h].secs \in Nat
      /\ \A h \in Taps : tap[h].subject \in Subjects => tap[h] \in Busy
  BY <1>0, RemainingType, ConnectConstants DEF ConnectTypeOK, TypeOK, Busy, Idle
<1>1. ASSUME NEW h \in Taps, NEW r \in Subjects, Served(h, r),
             UNCHANGED <<credits, spent, lapsed, sold, cut>>
      PROVE  SlackInv'
  <2>1. /\ tap' = [tap EXCEPT ![h] = [at |-> "minting", subject |-> r,
                                      secs |-> SessionSeconds(credits[r])]]
        /\ overlapped' = IF InFlight(r) # {} THEN overlapped \cup {r} ELSE overlapped
    BY <1>1 DEF Served
  <2>2. r \in Subjects /\ credits[r] \in Row
    BY <1>0 DEF ConnectTypeOK, TypeOK
  <2>3. /\ SessionSeconds(credits[r]) \in Nat
        /\ SessionSeconds(credits[r]) <= Remaining(credits[r])
    BY <2>2, SessionWithinBalance
  <2>4. UNCHANGED <<credits, spent, lapsed, sold, cut>> /\ tap[h] = Idle
    BY <1>1 DEF Served
  <2>5. tap'[h].subject = r /\ tap'[h].at = "minting"
        /\ tap'[h].secs = SessionSeconds(credits[r])
    BY <1>0, <2>1 DEF ConnectTypeOK
  <2>6. \A g \in Taps \ {h} : tap'[g] = tap[g]
    BY <1>0, <2>1 DEF ConnectTypeOK
  <2>7. r \notin overlapped' => \A g \in Taps : tap[g].subject # r
    BY <2>1 DEF InFlight
  <2> SUFFICES ASSUME NEW s \in Subjects \ (overlapped' \cup cut')
               PROVE  /\ (\A g \in Taps : ~Settling(g, s)') => sold'[s] <= spent'[s] + lapsed'[s]
                      /\ \A g \in Taps :
                            tap'[g].subject = s
                            /\ tap'[g].at \in {"minting", "authorising", "redeeming"}
                            => sold'[s] + tap'[g].secs <= Cover(g, s)'
                      /\ \A g \in Taps : Settling(g, s)' => sold'[s] <= Cover(g, s)'
    BY DEF SlackInv
  <2>8. s \in Subjects \ (overlapped \cup cut)
    BY <2>1, <2>4
  <2>9. /\ ~Settling(h, s) /\ ~Settling(h, s)'
        /\ \A g \in Taps \ {h} : Settling(g, s)' = Settling(g, s)
    BY <2>4, <2>5, <2>6 DEF Settling, Idle
  <2>10. CASE s # r
    BY <1>0, <2>4, <2>5, <2>6, <2>8, <2>9, <2>10 DEF SlackInv, Cover
  <2>11. CASE s = r
    <3>1. \A g \in Taps : ~Settling(g, s)
      BY <2>7, <2>11 DEF Settling
    <3>2. sold[s] <= spent[s] + lapsed[s]
      BY <1>0, <2>8, <3>1 DEF SlackInv
    <3>3. Cover(h, s)' = spent[s] + lapsed[s] + tap'[h].secs
      BY <1>t, <2>2, <2>3, <2>4, <2>5, <2>11 DEF Cover, Least
    <3>4. \A g \in Taps \ {h} : tap'[g].subject # s
      BY <2>6, <2>7, <2>11
    <3>5. sold[s] + tap'[h].secs <= Cover(h, s)'
      BY <1>t, <2>2, <2>3, <2>5, <2>11, <3>2, <3>3
    <3> QED
      BY <2>4, <2>9, <2>11, <3>1, <3>2, <3>4, <3>5 DEF Settling
  <2> QED
    BY <2>10, <2>11
<1>11. ASSUME NEW h \in Taps, NEW c \in Clients, ReadBalance(h, c)
       PROVE  SlackInv'
  <2>1. /\ UNCHANGED <<credits, spent, lapsed, sold, cut>>
        /\ \/ \E s \in Subjects : Served(h, s)
           \/ UNCHANGED <<tap, overlapped>>
    BY <1>0, <1>11, LookUpServes DEF ledgerVars
  <2>2. CASE UNCHANGED <<tap, overlapped>>
    BY <1>0, <2>1, <2>2 DEF SlackInv, Settling, Cover
  <2> QED
    BY <1>1, <2>1, <2>2
<1>2. ASSUME NEW h \in Taps, MintVoucher(h) \/ Admit(h)
      PROVE  SlackInv'
  <2>1. /\ UNCHANGED <<credits, spent, lapsed, sold, overlapped, cut>>
        /\ \A g \in Taps \ {h} : tap'[g] = tap[g]
        /\ tap'[h].subject = tap[h].subject /\ tap'[h].secs = tap[h].secs
        /\ tap[h].at \in {"minting", "authorising", "redeeming"}
        /\ tap'[h].at \in {"minting", "authorising", "redeeming"}
    BY <1>0, <1>2 DEF MintVoucher, Admit, Goto, ledgerVars, ConnectTypeOK, Busy, Idle
  <2> QED
    BY <1>0, <2>1 DEF SlackInv, Settling, Cover
<1>3. ASSUME NEW h \in Taps, GiveUp(h) \/ RedeemFails(h)
      PROVE  SlackInv'
  <2>1. /\ UNCHANGED <<credits, spent, lapsed, sold, overlapped, cut>>
        /\ \A g \in Taps \ {h} : tap'[g] = tap[g]
        /\ tap'[h] = Idle /\ tap[h].at # "settling"
    BY <1>0, <1>3 DEF GiveUp, RedeemFails, Leave, ledgerVars, ConnectTypeOK
  <2> QED
    BY <1>0, <2>1, ConnectConstants DEF SlackInv, Settling, Cover, Idle
<1>4. ASSUME NEW h \in Taps, RedeemVoucher(h)
      PROVE  SlackInv'
  <2> DEFINE r == tap[h].subject
             n == tap[h].secs
  <2>1. tap[h] \in Busy /\ tap[h].at = "redeeming"
    BY <1>0, <1>4 DEF RedeemVoucher, ConnectTypeOK, Idle
  <2>2. /\ UNCHANGED <<credits, spent, lapsed, overlapped, cut>>
        /\ sold' = [sold EXCEPT ![r] = @ + n]
        /\ tap' = [tap EXCEPT ![h].at = "settling"]
    BY <1>4 DEF RedeemVoucher, Goto, ledgerVars
  <2>3. r \in Subjects /\ n \in Nat
    BY <2>1 DEF Busy
  <2>4. /\ tap'[h].subject = r /\ tap'[h].secs = n /\ tap'[h].at = "settling"
        /\ \A g \in Taps \ {h} : tap'[g] = tap[g]
    BY <1>0, <2>1, <2>2 DEF ConnectTypeOK, Busy
  <2>5. /\ sold'[r] = sold[r] + n
        /\ \A s \in Subjects \ {r} : sold'[s] = sold[s]
    BY <1>0, <2>2, <2>3 DEF ConnectTypeOK
  <2> SUFFICES ASSUME NEW s \in Subjects \ (overlapped' \cup cut')
               PROVE  /\ (\A g \in Taps : ~Settling(g, s)') => sold'[s] <= spent'[s] + lapsed'[s]
                      /\ \A g \in Taps :
                            tap'[g].subject = s
                            /\ tap'[g].at \in {"minting", "authorising", "redeeming"}
                            => sold'[s] + tap'[g].secs <= Cover(g, s)'
                      /\ \A g \in Taps : Settling(g, s)' => sold'[s] <= Cover(g, s)'
    BY DEF SlackInv
  <2>6. CASE s # r
    BY <1>0, <2>2, <2>1, <2>4, <2>5, <2>6 DEF SlackInv, Settling, Cover
  <2>7. CASE s = r
    <3>1. \A g \in Taps \ {h} : tap'[g].subject # s
      BY <1>0, <2>2, <2>4, <2>7 DEF AloneInv
    <3>2. sold[s] + n <= Cover(h, s)
      BY <1>0, <2>1, <2>2, <2>7 DEF SlackInv
    <3>3. Cover(h, s)' = Cover(h, s)
      BY <2>2, <2>4 DEF Cover
    <3>4. Settling(h, s)'
      BY <2>4, <2>7 DEF Settling
    <3>5. sold'[s] <= Cover(h, s)'
      BY <2>5, <2>7, <3>2, <3>3
    <3> QED
      BY <2>4, <3>1, <3>4, <3>5 DEF Settling
  <2> QED
    BY <2>6, <2>7
<1>5. ASSUME NEW h \in Taps, Settle(h)
      PROVE  SlackInv'
  <2> DEFINE r == tap[h].subject
             n == tap[h].secs
             taken == Least(n, Remaining(credits[r]))
  <2>1. tap[h] \in Busy /\ Settling(h, r)
    BY <1>0, <1>5 DEF Settle, Settling, ConnectTypeOK, Idle
  <2>2. r \in Subjects /\ n \in Nat
    BY <2>1 DEF Busy
  <2>3. /\ credits' = [credits EXCEPT ![r] = ConsumeRow(credits[r], n, now)]
        /\ spent' = [spent EXCEPT ![r] = @ + taken]
        /\ UNCHANGED <<lapsed, sold, overlapped, cut>>
        /\ tap' = [tap EXCEPT ![h].at = "claiming"]
    BY <1>5 DEF Settle, Consume, Goto
  <2>4. /\ tap'[h].subject = r /\ tap'[h].at = "claiming"
        /\ \A g \in Taps \ {h} : tap'[g] = tap[g]
    BY <1>0, <2>1, <2>3 DEF ConnectTypeOK, Busy
  <2>5. /\ spent'[r] = spent[r] + taken
        /\ \A s \in Subjects \ {r} : spent'[s] = spent[s] /\ credits'[s] = credits[s]
    BY <1>0, <2>2, <2>3 DEF ConnectTypeOK, TypeOK
  <2> HIDE DEF taken
  <2> SUFFICES ASSUME NEW s \in Subjects \ (overlapped' \cup cut')
               PROVE  /\ (\A g \in Taps : ~Settling(g, s)') => sold'[s] <= spent'[s] + lapsed'[s]
                      /\ \A g \in Taps :
                            tap'[g].subject = s
                            /\ tap'[g].at \in {"minting", "authorising", "redeeming"}
                            => sold'[s] + tap'[g].secs <= Cover(g, s)'
                      /\ \A g \in Taps : Settling(g, s)' => sold'[s] <= Cover(g, s)'
    BY DEF SlackInv
  <2>6. CASE s # r
    BY <1>0, <2>1, <2>3, <2>4, <2>5, <2>6 DEF SlackInv, Settling, Cover
  <2>7. CASE s = r
    <3>1. \A g \in Taps \ {h} : tap'[g].subject # s
      BY <1>0, <2>3, <2>4, <2>7 DEF AloneInv
    <3>2. sold[s] <= Cover(h, s)
      BY <1>0, <2>1, <2>3, <2>7 DEF SlackInv
    <3>3. Cover(h, s) = spent[s] + lapsed[s] + taken
      BY <2>7 DEF Cover, taken
    <3>4. taken \in Nat
      BY <1>t, <2>2 DEF taken, Least
    <3>5. sold'[s] <= spent'[s] + lapsed'[s]
      BY <1>t, <2>3, <2>5, <2>7, <3>2, <3>3, <3>4
    <3> QED
      BY <2>4, <3>1, <3>5 DEF Settling
  <2> QED
    BY <2>6, <2>7
<1>6. ASSUME NEW h \in Taps, SettleFails(h)
      PROVE  SlackInv'
  <2>1. /\ UNCHANGED <<credits, spent, lapsed, sold, overlapped>>
        /\ cut' = cut \cup {tap[h].subject}
        /\ \A g \in Taps \ {h} : tap'[g] = tap[g]
        /\ tap'[h] = Idle /\ tap[h].at = "settling"
    BY <1>0, <1>6 DEF SettleFails, Leave, ledgerVars, ConnectTypeOK
  <2> QED
    BY <1>0, <2>1, ConnectConstants DEF SlackInv, Settling, Cover, Idle
<1>7. ASSUME NEW h \in Taps, ClaimCredit(h)
      PROVE  SlackInv'
  <2>1. Claim(tap[h].subject) \/ UNCHANGED ledgerVars
    BY <1>0, <1>7 DEF ClaimCredit, ConnectTypeOK, Busy, Idle
  <2>2. /\ UNCHANGED <<spent, lapsed, sold, overlapped, cut>>
        /\ \A s \in Subjects : Remaining(credits'[s]) = Remaining(credits[s])
    BY <1>0, <1>7, <2>1 DEF ClaimCredit, Claim, ledgerVars, Remaining, LedgerInv, TypeOK, Row
  <2>3. /\ \A g \in Taps \ {h} : tap'[g] = tap[g]
        /\ tap'[h] = Idle /\ tap[h].at = "claiming"
    BY <1>0, <1>7 DEF ClaimCredit, Leave, ConnectTypeOK
  <2> QED
    BY <1>0, <2>2, <2>3, ConnectConstants DEF SlackInv, Settling, Cover, Idle
<1>8. ASSUME NEW ttl \in IdleTTLs, Crash(ttl)
      PROVE  SlackInv'
  <2>1. /\ UNCHANGED <<credits, spent, lapsed, sold, overlapped>>
        /\ cut \subseteq cut'
        /\ \A g \in Taps : tap'[g] = Idle
        /\ \A g \in Taps, s \in Subjects : Settling(g, s) => s \in cut'
    BY <1>8 DEF Crash, Restart, InFlight, Settling
  <2> QED
    BY <1>0, <2>1, ConnectConstants DEF SlackInv, Settling, Cover, Idle
<1>9. CASE Background
  <2>1. /\ UNCHANGED tapVars
        /\ [LedgerStep]_ledgerVars
    BY <1>0, <1>9, ConnectStepIsLedgerStep DEF Background
  <2>2. spent' = spent
    BY <1>9 DEF Background, CoinPulse, ExpireIdle, Tick
  <2>3. \A s \in Subjects, n \in Nat :
          /\ lapsed[s] + Least(n, Remaining(credits[s]))
                <= lapsed'[s] + Least(n, Remaining(credits'[s]))
          /\ lapsed[s] <= lapsed'[s]
    BY <1>0, <2>1, <2>2, OthersKeepCover
  <2>4. ASSUME NEW s \in Subjects, NEW h \in Taps, tap[h].secs \in Nat
        PROVE  /\ Cover(h, s) <= Cover(h, s)'
               /\ Cover(h, s) \in Nat /\ Cover(h, s)' \in Nat
    BY <1>t, <2>1, <2>2, <2>3, <2>4 DEF Cover, tapVars, Least
  <2>5. ASSUME NEW s \in Subjects \ (overlapped \cup cut)
        PROVE  /\ (\A h \in Taps : ~Settling(h, s)) => sold[s] <= spent[s] + lapsed'[s]
               /\ \A h \in Taps :
                     tap[h].subject = s
                     /\ tap[h].at \in {"minting", "authorising", "redeeming"}
                     => sold[s] + tap[h].secs <= Cover(h, s)'
               /\ \A h \in Taps : Settling(h, s) => sold[s] <= Cover(h, s)'
    <3>1. (\A h \in Taps : ~Settling(h, s)) => sold[s] <= spent[s] + lapsed'[s]
      BY <1>0, <1>t, <2>3 DEF SlackInv
    <3>2. ASSUME NEW h \in Taps, tap[h].subject = s,
                 tap[h].at \in {"minting", "authorising", "redeeming"}
          PROVE  sold[s] + tap[h].secs <= Cover(h, s)'
      <4>1. sold[s] + tap[h].secs <= Cover(h, s)
        BY <1>0, <3>2 DEF SlackInv
      <4>2. tap[h].secs \in Nat
        BY <1>t, <3>2
      <4> QED
        BY <1>t, <2>4, <4>1, <4>2
    <3>3. ASSUME NEW h \in Taps, Settling(h, s)
          PROVE  sold[s] <= Cover(h, s)'
      <4>1. sold[s] <= Cover(h, s)
        BY <1>0, <3>3 DEF SlackInv
      <4>2. tap[h].secs \in Nat
        BY <1>t, <3>3 DEF Settling
      <4> QED
        BY <1>t, <2>4, <4>1, <4>2
    <3> QED
      BY <3>1, <3>2, <3>3
  <2> QED
    BY <2>1, <2>2, <2>5 DEF SlackInv, Settling, tapVars
<1>10. CASE UNCHANGED connectVars
  BY <1>0, <1>10 DEF connectVars, SlackInv, Settling, Cover
<1> QED
  BY <1>2, <1>3, <1>4, <1>5, <1>6, <1>7, <1>8, <1>9, <1>10, <1>11 DEF ConnectNext

(* The strengthening the serial accounts need holds in every reachable state. *)
LEMMA ConnectInvInductive == ConnectSpec => []ConnectInv
<1>1. ConnectInit => AloneInv /\ SlackInv
  BY LedgerConstants, ConnectConstants
     DEF ConnectInit, LedgerInit, AloneInv, SlackInv, Settling, Idle
<1>2. ConnectInv /\ [ConnectNext]_connectVars => AloneInv' /\ SlackInv'
  BY AloneInvStep, SlackInvStep DEF ConnectInv
<1> QED
  BY <1>1, <1>2, ConnectTypeCorrect, PTL DEF ConnectSpec, ConnectInv

(* One tap at a time, not cut off between redeeming and deducting, never   *)
(* hands out more access than was paid for: for any prices, any rounding,  *)
(* any cap and any interleaving of coins, sweeps and restarts.             *)
THEOREM ConnectNeverOverspendsSerially == ConnectSpec => []SerialTapsNeverOverspend
<1>1. ConnectInv => SerialTapsNeverOverspend
  <2> SUFFICES ASSUME ConnectInv, NEW s \in Subjects, s \notin overlapped, s \notin cut
               PROVE  /\ (\A h \in Taps : ~Settling(h, s)) =>
                            sold[s] + Remaining(credits[s]) <= bought[s]
                      /\ \A h \in Taps : Settling(h, s) =>
                            sold[s] - tap[h].secs + Remaining(credits[s]) <= bought[s]
    BY DEF SerialTapsNeverOverspend
  <2>1. /\ bought[s] = spent[s] + lapsed[s] + Remaining(credits[s])
        /\ spent[s] \in Nat /\ lapsed[s] \in Nat /\ sold[s] \in Nat
        /\ Remaining(credits[s]) \in Nat
    BY RemainingType
       DEF ConnectInv, ConnectTypeOK, LedgerInv, Conservation, TypeOK
  <2>2. ASSUME \A h \in Taps : ~Settling(h, s)
        PROVE  sold[s] + Remaining(credits[s]) <= bought[s]
    <3>1. sold[s] <= spent[s] + lapsed[s]
      BY <2>2 DEF ConnectInv, SlackInv
    <3> QED
      BY <2>1, <3>1
  <2>3. ASSUME NEW h \in Taps, Settling(h, s)
        PROVE  sold[s] - tap[h].secs + Remaining(credits[s]) <= bought[s]
    <3>1. sold[s] <= Cover(h, s)
      BY <2>3 DEF ConnectInv, SlackInv
    <3>2. tap[h].secs \in Nat
      BY <2>3 DEF ConnectInv, ConnectTypeOK, Settling, Busy, Idle
    <3>3. Least(tap[h].secs, Remaining(credits[s])) \in Nat
          /\ Least(tap[h].secs, Remaining(credits[s])) <= tap[h].secs
      BY <2>1, <3>2 DEF Least
    <3> QED
      BY <2>1, <3>1, <3>2, <3>3 DEF Cover
  <2> QED
    BY <2>2, <2>3
<1> QED
  BY <1>1, ConnectInvInductive, PTL
=============================================================================
