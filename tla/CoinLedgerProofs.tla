--------------------------- MODULE CoinLedgerProofs ---------------------------
(* Theorems about CoinLedger for every set of subjects, every report, every *)
(* configured window and every bound.                                       *)
EXTENDS CoinLedger, TLAPS

(* What the upsert makes of a well-typed row is a well-typed row. *)
LEMMA CreditRowType ==
    ASSUME NEW row \in Row, NEW m \in MACs \cup {NoMac}, NEW p \in Nat, NEW secs \in Nat,
           NEW e \in Events \cup {NoEvent}, NEW t \in Nat, NEW d \in Nat \cup {NoTime}
    PROVE  CreditRow(row, m, p, secs, e, t, d) \in Row
  BY DEF CreditRow, Row, Statuses

(* What a deduction makes of a well-typed row is a well-typed row. *)
LEMMA ConsumeRowType ==
    ASSUME NEW row \in Row, NEW n \in Nat, NEW t \in Nat
    PROVE  ConsumeRow(row, n, t) \in Row
<1> DEFINE used == Least(row.used + n, Greatest(row.granted, row.used))
           status == IF row.used + n >= row.granted THEN "connected" ELSE row.status
<1>1. used \in Nat
  BY DEF Row, Least, Greatest
<1>2. status \in Statuses
  BY DEF Row, Statuses
<1>3. ConsumeRow(row, n, t) = [row EXCEPT !.used = used, !.status = status, !.updatedAt = t]
  BY DEF ConsumeRow
<1> HIDE DEF used, status
<1> QED
  BY <1>1, <1>2, <1>3 DEF Row

(* What the sweep makes of a well-typed row is a well-typed row. *)
LEMMA ReleaseRowType ==
    ASSUME NEW row \in Row, now \in Nat
    PROVE  ReleaseRow(row) \in Row
  BY DEF ReleaseRow, Row, Statuses

(* A balance is never negative. *)
LEMMA RemainingType ==
    ASSUME NEW row \in Row
    PROVE  Remaining(row) \in Nat
  BY DEF Remaining, Row, Greatest

(* Every component that works on the tally does so by these steps: any     *)
(* report, any deduction, not only the ones an instance enumerates.        *)
Report == [pulses : Nat, secs : Nat]

LedgerStep ==
    \/ \E s \in Subjects, m \in MACs \cup {NoMac}, report \in Report,
          e \in Events \cup {NoEvent} : CoinPulse(s, m, report, e)
    \/ \E s \in Subjects, n \in Nat : Consume(s, n)
    \/ \E s \in Subjects : Claim(s)
    \/ ExpireIdle
    \/ \E ttl \in IdleTTLs : Restart(ttl)
    \/ Tick

(* The tally's own next-state relation takes only the steps reasoned about. *)
LEMMA LedgerNextIsStep == [LedgerNext]_ledgerVars => [LedgerStep]_ledgerVars
  BY LedgerConstants DEF LedgerNext, LedgerStep, Report

(* Every step keeps the types. *)
LEMMA TypeOKStep == TypeOK /\ [LedgerStep]_ledgerVars => TypeOK'
<1> SUFFICES ASSUME TypeOK, [LedgerStep]_ledgerVars
             PROVE  TypeOK'
  OBVIOUS
<1> USE LedgerConstants
<1>1. ASSUME NEW s \in Subjects, NEW m \in MACs \cup {NoMac}, NEW report \in Report,
             NEW e \in Events \cup {NoEvent}, CoinPulse(s, m, report, e)
      PROVE  TypeOK'
  <2> DEFINE secs == Least(report.secs, MaxReportSeconds)
             new == CreditRow(credits[s], m, report.pulses, secs, e, now, Deadline)
  <2>1. credits[s] \in Row /\ report.pulses \in Nat /\ secs \in Nat /\ now \in Nat
    BY DEF TypeOK, Least, Report
  <2>2. Deadline \in Nat \cup {NoTime}
    BY DEF Deadline, TypeOK
  <2>3. new \in Row
    BY <2>1, <2>2, CreditRowType
  <2>4. Remaining(credits[s]) \in Nat
    BY <2>1, RemainingType
  <2>5. credits' = [credits EXCEPT ![s] = new]
    BY <1>1 DEF CoinPulse
  <2>6. bought' = [bought EXCEPT ![s] = @ + secs]
    BY <1>1 DEF CoinPulse
  <2> HIDE DEF new, secs
  <2> QED
    BY <1>1, <2>1, <2>3, <2>4, <2>5, <2>6 DEF CoinPulse, TypeOK
<1>2. ASSUME NEW s \in Subjects, NEW n \in Nat, Consume(s, n)
      PROVE  TypeOK'
  <2>1. credits[s] \in Row /\ n \in Nat /\ now \in Nat
    BY DEF TypeOK
  <2>2. ConsumeRow(credits[s], n, now) \in Row /\ Remaining(credits[s]) \in Nat
    BY <2>1, ConsumeRowType, RemainingType
  <2>3. Least(n, Remaining(credits[s])) \in Nat
    BY <2>1, <2>2 DEF Least
  <2> QED
    BY <1>2, <2>2, <2>3 DEF Consume, TypeOK
<1>3. ASSUME NEW s \in Subjects, Claim(s)
      PROVE  TypeOK'
  BY <1>3 DEF Claim, TypeOK, Row
<1>4. CASE ExpireIdle
  <2>1. \A s \in Subjects : ReleaseRow(credits[s]) \in Row
    BY ReleaseRowType DEF TypeOK
  <2> QED
    BY <1>4, <2>1 DEF ExpireIdle, TypeOK
<1>5. ASSUME NEW ttl \in IdleTTLs, Restart(ttl)
      PROVE  TypeOK'
  BY <1>5 DEF Restart, TypeOK
<1>6. CASE Tick
  BY <1>6 DEF Tick, TypeOK
<1>7. CASE UNCHANGED ledgerVars
  BY <1>7 DEF ledgerVars, TypeOK
<1> QED
  BY <1>1, <1>2, <1>3, <1>4, <1>5, <1>6, <1>7 DEF LedgerStep

(* The tally is type correct in every reachable state. *)
THEOREM LedgerTypeCorrect == LedgerSpec => []TypeOK
<1>1. LedgerInit => TypeOK
  BY LedgerConstants DEF LedgerInit, TypeOK, NoRow, Row, Statuses
<1> QED
  BY <1>1, LedgerNextIsStep, TypeOKStep, PTL DEF LedgerSpec

(* What each operation does to a balance whose status matches it: the     *)
(* arithmetic behind Conservation.                                         *)
LEMMA CreditRowBalance ==
    ASSUME NEW row \in Row, NEW m, NEW p, NEW secs \in Nat, NEW e, NEW t, NEW d,
           BalanceMatches(row)
    PROVE  LET new == CreditRow(row, m, p, secs, e, t, d) IN
           /\ BalanceMatches(new)
           /\ Remaining(new) =
                 secs + IF row.status = "active" THEN Remaining(row) ELSE 0
  BY DEF CreditRow, BalanceMatches, Row, Remaining, Greatest

(* A deduction takes what it can of n seconds, never more than is left,    *)
(* and turns the row connected when nothing is.                            *)
LEMMA ConsumeRowBalance ==
    ASSUME NEW row \in Row, NEW n \in Nat, NEW t, n > 0, row.status # "absent",
           BalanceMatches(row)
    PROVE  LET new == ConsumeRow(row, n, t) IN
           /\ BalanceMatches(new)
           /\ Remaining(new) = Remaining(row) - Least(n, Remaining(row))
<1> DEFINE used == Least(row.used + n, Greatest(row.granted, row.used))
           status == IF row.used + n >= row.granted THEN "connected" ELSE row.status
           new == ConsumeRow(row, n, t)
<1>1. /\ new.used = used
      /\ new.status = status
      /\ new.granted = row.granted
  BY DEF ConsumeRow, Row
<1>2. row.used \in Nat /\ row.granted \in Nat /\ row.used <= row.granted
  BY DEF Row, BalanceMatches
<1>3. used = IF row.used + n <= row.granted THEN row.used + n ELSE row.granted
  BY <1>2 DEF Least, Greatest
<1> HIDE DEF new
<1>4. BalanceMatches(new)
  <2> HIDE DEF used
  <2> QED
    BY <1>1, <1>2, <1>3 DEF BalanceMatches
<1>5. Remaining(new) = Remaining(row) - Least(n, Remaining(row))
  <2> HIDE DEF used
  <2> QED
    BY <1>1, <1>2, <1>3 DEF Remaining, Least, Greatest
<1> QED
  BY <1>4, <1>5 DEF new

(* The sweep moves no second of the balance it releases. *)
LEMMA ReleaseRowBalance ==
    ASSUME NEW row \in Row, BalanceMatches(row), IsIdle(row)
    PROVE  /\ BalanceMatches(ReleaseRow(row))
           /\ Remaining(ReleaseRow(row)) = Remaining(row)
  BY DEF ReleaseRow, BalanceMatches, Row, Remaining, Greatest, IsIdle

(* Neither conjunct is inductive alone: Conservation across a re-credit    *)
(* needs a spent balance to be empty, which is what the status says.       *)
LedgerInv == TypeOK /\ StatusMatchesBalance /\ Conservation

(* The types, the statuses and the conservation law survive every step. *)
LEMMA LedgerInvInductive ==
    LedgerInv /\ [LedgerStep]_ledgerVars => StatusMatchesBalance' /\ Conservation'
<1> SUFFICES ASSUME LedgerInv, [LedgerStep]_ledgerVars
             PROVE  StatusMatchesBalance' /\ Conservation'
  OBVIOUS
<1> USE LedgerConstants
<1>0. /\ \A s \in Subjects : credits[s] \in Row /\ BalanceMatches(credits[s])
      /\ \A s \in Subjects : Remaining(credits[s]) \in Nat
  BY RemainingType DEF LedgerInv, TypeOK, StatusMatchesBalance
<1>1. ASSUME NEW s \in Subjects, NEW m \in MACs \cup {NoMac}, NEW report \in Report,
             NEW e \in Events \cup {NoEvent}, CoinPulse(s, m, report, e)
      PROVE  StatusMatchesBalance' /\ Conservation'
  <2> DEFINE secs == Least(report.secs, MaxReportSeconds)
             new == CreditRow(credits[s], m, report.pulses, secs, e, now, Deadline)
  <2>1. secs \in Nat
    BY DEF Least, Report
  <2>2. /\ BalanceMatches(new)
        /\ Remaining(new) =
              secs + IF credits[s].status = "active" THEN Remaining(credits[s]) ELSE 0
    BY <1>0, <2>1, CreditRowBalance
  <2>3. credits[s].status \in {"absent", "connected"} => Remaining(credits[s]) = 0
    BY <1>0 DEF BalanceMatches, Remaining, Greatest, Row
  <2>4. /\ credits' = [credits EXCEPT ![s] = new]
        /\ bought' = [bought EXCEPT ![s] = @ + secs]
        /\ lapsed' = [lapsed EXCEPT ![s] = IF credits[s].status = "expired"
                                          THEN @ + Remaining(credits[s]) ELSE @]
        /\ spent' = spent
    BY <1>1 DEF CoinPulse
  <2>5. credits[s].status \in Statuses
    BY <1>0 DEF Row
  <2> HIDE DEF new, secs
  <2>6. StatusMatchesBalance'
    BY <1>0, <2>2, <2>4 DEF StatusMatchesBalance, LedgerInv, TypeOK
  <2>7. Conservation'
    BY <1>0, <2>1, <2>2, <2>3, <2>4, <2>5
       DEF Conservation, LedgerInv, TypeOK, Statuses
  <2> QED
    BY <2>6, <2>7
<1>2. ASSUME NEW s \in Subjects, NEW n \in Nat, Consume(s, n)
      PROVE  StatusMatchesBalance' /\ Conservation'
  <2> DEFINE new == ConsumeRow(credits[s], n, now)
             taken == Least(n, Remaining(credits[s]))
  <2>1. BalanceMatches(new) /\ Remaining(new) = Remaining(credits[s]) - taken
    BY <1>0, <1>2, ConsumeRowBalance DEF Consume
  <2>2. taken \in Nat
    BY <1>0 DEF Least
  <2>3. /\ credits' = [credits EXCEPT ![s] = new]
        /\ spent' = [spent EXCEPT ![s] = @ + taken]
        /\ bought' = bought /\ lapsed' = lapsed
    BY <1>2 DEF Consume
  <2> HIDE DEF new, taken
  <2> QED
    BY <1>0, <2>1, <2>2, <2>3
       DEF StatusMatchesBalance, Conservation, LedgerInv, TypeOK
<1>3. ASSUME NEW s \in Subjects, Claim(s)
      PROVE  StatusMatchesBalance' /\ Conservation'
  BY <1>0, <1>3
     DEF Claim, StatusMatchesBalance, Conservation, LedgerInv, TypeOK,
         BalanceMatches, Remaining, Row
<1>4. CASE ExpireIdle
  <2>1. \A s \in Subjects : /\ BalanceMatches(credits'[s])
                            /\ Remaining(credits'[s]) = Remaining(credits[s])
    BY <1>0, <1>4, ReleaseRowBalance DEF ExpireIdle
  <2> QED
    BY <1>4, <2>1 DEF ExpireIdle, StatusMatchesBalance, Conservation, LedgerInv
<1>5. ASSUME NEW ttl \in IdleTTLs, Restart(ttl)
      PROVE  StatusMatchesBalance' /\ Conservation'
  BY <1>5 DEF Restart, StatusMatchesBalance, Conservation, LedgerInv
<1>6. CASE Tick
  BY <1>6 DEF Tick, StatusMatchesBalance, Conservation, LedgerInv
<1>7. CASE UNCHANGED ledgerVars
  BY <1>7 DEF ledgerVars, StatusMatchesBalance, Conservation, LedgerInv
<1> QED
  BY <1>1, <1>2, <1>3, <1>4, <1>5, <1>6, <1>7 DEF LedgerStep

LEMMA LedgerInvStart == LedgerInit => LedgerInv
  BY LedgerConstants
     DEF LedgerInit, LedgerInv, TypeOK, StatusMatchesBalance, Conservation,
         BalanceMatches, Remaining, Greatest, NoRow, Row, Statuses

(* In every reachable state no second has been minted or lost and every    *)
(* status agrees with its balance.                                         *)
THEOREM LedgerInvariant == LedgerSpec => []LedgerInv
<1>1. LedgerInit => LedgerInv
  BY LedgerInvStart
<1>2. LedgerInv /\ [LedgerStep]_ledgerVars => LedgerInv'
  BY LedgerInvInductive, TypeOKStep DEF LedgerInv
<1>3. [LedgerNext]_ledgerVars => [LedgerStep]_ledgerVars
  BY LedgerNextIsStep
<1> QED
  BY <1>1, <1>2, <1>3, PTL DEF LedgerSpec

(* Conservation for every instance, not only the checked one: no second of *)
(* access is minted or lost by Credit, Consume and ExpireIdle.             *)
THEOREM LedgerConservation == LedgerSpec => []Conservation
  BY LedgerInvariant, PTL DEF LedgerInv

(* The status column agrees with the balance for every instance. *)
THEOREM LedgerStatusMatchesBalance == LedgerSpec => []StatusMatchesBalance
  BY LedgerInvariant, PTL DEF LedgerInv

(* An active row's deadline is a full window after its latest pulse, and   *)
(* nothing is stamped in the future.                                       *)
DeadlineInv ==
    \A s \in Subjects :
        LET row == credits[s] IN
        /\ row.lastPulseAt <= row.updatedAt
        /\ row.updatedAt <= now
        /\ row.status = "active" /\ row.expiresAt # NoTime
             => \E ttl \in IdleTTLs \ {0} : row.expiresAt = row.lastPulseAt + ttl

(* The deadline of an open balance is its latest coin plus a configured    *)
(* window, through every step.                                             *)
LEMMA DeadlineInvStep ==
    TypeOK /\ DeadlineInv /\ [LedgerNext]_ledgerVars => DeadlineInv'
<1> SUFFICES ASSUME TypeOK, DeadlineInv, [LedgerNext]_ledgerVars
             PROVE  DeadlineInv'
  OBVIOUS
<1> USE LedgerConstants
<1>0. \A s \in Subjects : credits[s] \in Row
  BY DEF TypeOK
<1>1. ASSUME NEW s \in Subjects, NEW m \in MACs \cup {NoMac}, NEW report \in Reports,
             NEW e \in Events \cup {NoEvent}, CoinPulse(s, m, report, e)
      PROVE  DeadlineInv'
  <2> DEFINE secs == Least(report.secs, MaxReportSeconds)
             new == CreditRow(credits[s], m, report.pulses, secs, e, now, Deadline)
  <2>1. /\ new.lastPulseAt = now /\ new.updatedAt = now
        /\ new.expiresAt = Deadline
    BY DEF CreditRow
  <2>2. ASSUME Deadline # NoTime
        PROVE  \E ttl \in IdleTTLs \ {0} : Deadline = now + ttl
    <3>1. idle > 0 /\ Deadline = now + idle
      BY <2>2 DEF Deadline
    <3>2. idle \in IdleTTLs \ {0}
      BY <3>1 DEF TypeOK
    <3> QED
      BY <3>1, <3>2
  <2>3. credits' = [credits EXCEPT ![s] = new] /\ now' = now
    BY <1>1 DEF CoinPulse
  <2>4. now \in Nat
    BY DEF TypeOK
  <2> HIDE DEF new
  <2>5. \A r \in Subjects \ {s} : credits'[r] = credits[r]
    BY <2>3 DEF TypeOK
  <2>6. credits'[s] = new
    BY <2>3 DEF TypeOK
  <2> QED
    BY <2>1, <2>2, <2>3, <2>4, <2>5, <2>6 DEF DeadlineInv
<1>2. ASSUME NEW s \in Subjects, NEW n \in Spends, Consume(s, n)
      PROVE  DeadlineInv'
  <2> DEFINE new == ConsumeRow(credits[s], n, now)
  <2>1. /\ new.lastPulseAt = credits[s].lastPulseAt
        /\ new.updatedAt = now
        /\ new.expiresAt = credits[s].expiresAt
        /\ new.status = "active" => credits[s].status = "active"
    BY <1>0 DEF ConsumeRow, Row
  <2>2. credits' = [credits EXCEPT ![s] = new] /\ now' = now
    BY <1>2 DEF Consume
  <2>3. credits[s].lastPulseAt <= now /\ now <= now
    BY <1>0 DEF DeadlineInv, TypeOK, Row
  <2> HIDE DEF new
  <2> QED
    BY <2>1, <2>2, <2>3 DEF DeadlineInv, TypeOK
<1>3. ASSUME NEW s \in Subjects, Claim(s)
      PROVE  DeadlineInv'
  BY <1>0, <1>3 DEF Claim, DeadlineInv, TypeOK, Row
<1>4. CASE ExpireIdle
  <2>1. \A s \in Subjects :
          /\ credits'[s].lastPulseAt = credits[s].lastPulseAt
          /\ credits'[s].updatedAt \in {now, credits[s].updatedAt}
          /\ credits'[s].status = "active" => credits'[s] = credits[s]
    BY <1>0, <1>4 DEF ExpireIdle, ReleaseRow, Row
  <2>2. \A s \in Subjects : credits[s].lastPulseAt <= now /\ now <= now
    BY <1>0 DEF DeadlineInv, TypeOK, Row
  <2>3. now' = now
    BY <1>4 DEF ExpireIdle
  <2> QED
    BY <2>1, <2>2, <2>3 DEF DeadlineInv
<1>5. ASSUME NEW ttl \in IdleTTLs, Restart(ttl)
      PROVE  DeadlineInv'
  BY <1>5 DEF Restart, DeadlineInv
<1>6. CASE Tick
  BY <1>0, <1>6 DEF Tick, DeadlineInv, TypeOK, Row
<1>7. CASE UNCHANGED ledgerVars
  BY <1>7 DEF ledgerVars, DeadlineInv
<1> QED
  BY <1>1, <1>2, <1>3, <1>4, <1>5, <1>6, <1>7 DEF LedgerNext

(* No sweep takes a balance younger than the window that was promised when *)
(* its latest coin dropped.                                                *)
THEOREM LedgerNeverReleasedEarly == LedgerSpec => NeverReleasedEarly
<1> USE LedgerConstants
<1>1. LedgerInit => DeadlineInv
  BY DEF LedgerInit, DeadlineInv, NoRow
<1>2. TypeOK /\ DeadlineInv /\ [LedgerNext]_ledgerVars
      => [\A s \in Subjects :
            credits[s].status = "active" /\ credits'[s].status = "expired"
            => \E ttl \in IdleTTLs \ {0} : credits[s].lastPulseAt + ttl < now]_ledgerVars
  <2> SUFFICES ASSUME TypeOK, DeadlineInv, LedgerNext, NEW s \in Subjects,
                      credits[s].status = "active", credits'[s].status = "expired"
               PROVE  \E ttl \in IdleTTLs \ {0} : credits[s].lastPulseAt + ttl < now
    BY DEF ledgerVars
  <2>0. credits[s] \in Row /\ now \in Nat /\ idle \in IdleTTLs
    BY DEF TypeOK
  <2>1. ASSUME NEW r \in Subjects, NEW m \in MACs \cup {NoMac}, NEW report \in Reports,
               NEW e \in Events \cup {NoEvent}, CoinPulse(r, m, report, e)
        PROVE  FALSE
    BY <2>1 DEF CoinPulse, CreditRow, TypeOK
  <2>2. ASSUME NEW r \in Subjects, NEW n \in Spends, Consume(r, n)
        PROVE  FALSE
    <3>1. ConsumeRow(credits[r], n, now).status \in {"connected", credits[r].status}
      BY DEF ConsumeRow, TypeOK, Row
    <3> QED
      BY <2>2, <3>1 DEF Consume, TypeOK
  <2>3. ASSUME NEW r \in Subjects, Claim(r)
        PROVE  FALSE
    BY <2>3, <2>0 DEF Claim, TypeOK, Row
  <2>4. CASE ExpireIdle
    <3>1. IsIdle(credits[s]) /\ idle > 0
      BY <2>4 DEF ExpireIdle
    <3>2. CASE credits[s].expiresAt # NoTime
      BY <2>0, <3>1, <3>2 DEF IsIdle, DeadlineInv, Row
    <3>3. CASE credits[s].expiresAt = NoTime
      BY <2>0, <3>1, <3>3 DEF IsIdle, DeadlineInv, Row
    <3> QED
      BY <3>2, <3>3
  <2>5. ASSUME NEW ttl \in IdleTTLs, Restart(ttl)
        PROVE  FALSE
    BY <2>5 DEF Restart
  <2>6. CASE Tick
    BY <2>6 DEF Tick
  <2> QED
    BY <2>1, <2>2, <2>3, <2>4, <2>5, <2>6 DEF LedgerNext
<1> QED
  BY <1>1, <1>2, DeadlineInvStep, LedgerTypeCorrect, PTL DEF LedgerSpec, NeverReleasedEarly
=============================================================================
