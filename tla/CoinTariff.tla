------------------------------- MODULE CoinTariff -------------------------------
(***************************************************************************)
(* What a coin buys.  Operators keep a table of pricing tiers: so many     *)
(* pulses of the acceptor for so much money and time.  A report of pulses  *)
(* is priced, in seconds for the guest and in cents for the books, by      *)
(* walking the active tiers from the largest down, each taken at most      *)
(* once; what is left is priced at the smallest.  With no active tier the  *)
(* rate of the environment is used.  The portal and the coin nodes show    *)
(* "each coin buys X", which is worked out on its own.                     *)
(***************************************************************************)
EXTENDS Integers, FiniteSets, SequencesExt, FiniteSetsExt

CONSTANTS
    TierIds,
    CoinPulseSeconds,  \* the environment's rate ...
    CoinPulseCents,    \* ... and its face value
    FormPulses,        \* bound: pulses typed into the form
    FormTerms,         \* bound: cents typed, and days, hours and minutes picked
    PulseReports       \* bound: pulses a node reports at once

ASSUME TariffConstants ==
    /\ TierIds \subseteq Nat /\ IsFiniteSet(TierIds)
    /\ CoinPulseSeconds \in Nat \ {0} /\ CoinPulseCents \in Nat
    /\ FormPulses \subseteq Int /\ PulseReports \subseteq Nat \ {0}

VARIABLE tiers  \* table: rows by id; NoTier where there is none

NoTier == [pulses |-> 0, cents |-> 0, seconds |-> 0, active |-> FALSE]

-----------------------------------------------------------------------------
(* Saving a tier *)

MaxRatePulses == 1000
MaxRateAmountCents == 100000

(* NormalizeRateTime: each field has its own range; nothing carries. *)
TimeAccepted(days, hours, minutes) ==
    days \in 0..30 /\ hours \in 0..23 /\ minutes \in 0..59

GrantedSeconds(days, hours, minutes) == days * 86400 + hours * 3600 + minutes * 60

(* The fields the form shows for a stored tier are derived from it again.  *)
Days(total) == total \div 86400
Hours(total) == (total % 86400) \div 3600
Minutes(total) == (total % 3600) \div 60

(* validate: a tier without time would swallow a coin. *)
AwardsTime(days, hours, minutes) ==
    TimeAccepted(days, hours, minutes) /\ GrantedSeconds(days, hours, minutes) > 0

(* The form, once it is filled in well enough to be saved. *)
Accepted ==
    LET saved == {f \in [pulses : FormPulses, terms : FormTerms, active : BOOLEAN] :
                     /\ f.pulses \in 1..MaxRatePulses
                     /\ f.terms[1] \in 0..MaxRateAmountCents
                     /\ AwardsTime(f.terms[2], f.terms[3], f.terms[4])}
    IN  {[pulses |-> f.pulses,
          cents |-> f.terms[1],
          seconds |-> GrantedSeconds(f.terms[2], f.terms[3], f.terms[4]),
          active |-> f.active] : f \in saved}

Kept == {i \in TierIds : tiers[i] # NoTier}

TariffInit == tiers = [i \in TierIds |-> NoTier]

CreateTier(i, r) == i \notin Kept /\ tiers' = [tiers EXCEPT ![i] = r]

(* An edit of a tier deleted meanwhile is refused, and creates nothing. *)
UpdateTier(i, r) == i \in Kept /\ tiers' = [tiers EXCEPT ![i] = r]

SetActive(i, on) == i \in Kept /\ tiers' = [tiers EXCEPT ![i].active = on]

DeleteTier(i) == i \in Kept /\ tiers' = [tiers EXCEPT ![i] = NoTier]

RateSave == \E i \in TierIds, r \in Accepted : CreateTier(i, r) \/ UpdateTier(i, r)

RateToggle == \E i \in TierIds, on \in BOOLEAN : SetActive(i, on)

RateDelete == \E i \in TierIds : DeleteTier(i)

TariffNext == RateSave \/ RateToggle \/ RateDelete

TariffSpec == TariffInit /\ [][TariffNext]_tiers

-----------------------------------------------------------------------------
(* Pricing *)

Active == {i \in TierIds : tiers[i].active}

(* List: ascending by pulses, then by id. *)
Before(i, j) ==
    \/ tiers[i].pulses < tiers[j].pulses
    \/ tiers[i].pulses = tiers[j].pulses /\ i <= j

Ladder == CHOOSE s \in SetToSeqs(Active) : \A i, j \in DOMAIN s : i < j => Before(s[i], s[j])

(* Both are rounded down. *)
SecondsPerPulse(i) == tiers[i].seconds \div tiers[i].pulses
CentsPerPulse(i) == tiers[i].cents \div tiers[i].pulses

(* Seeded fault: a tier must be smaller than what is left. *)
TakesSmaller(i, left) == tiers[i].pulses < left

Takes(i, left) == tiers[i].pulses <= left

(* One tier of the walk. *)
TakeTier(i, walk) ==
    IF Takes(i, walk.left)
    THEN [left |-> walk.left - tiers[i].pulses,
          seconds |-> walk.seconds + tiers[i].pulses * SecondsPerPulse(i),
          cents |-> walk.cents + tiers[i].pulses * CentsPerPulse(i)]
    ELSE walk

Walk(pulses) ==
    FoldRight(TakeTier, Ladder, [left |-> pulses, seconds |-> 0, cents |-> 0])

NeverFree(seconds) == IF seconds < 1 THEN 1 ELSE seconds

(* Leftovers are priced at the smallest tier; a credit is never free. *)
WithLeftover(walk) ==
    [seconds |-> NeverFree(walk.seconds + walk.left * SecondsPerPulse(Ladder[1])),
     cents |-> walk.cents + walk.left * CentsPerPulse(Ladder[1])]

(* pricePulses: the environment's rate stands in for a missing tariff. *)
Price(pulses) ==
    IF Active = {}
    THEN [seconds |-> pulses * CoinPulseSeconds, cents |-> pulses * CoinPulseCents]
    ELSE WithLeftover(Walk(pulses))

(* Seeded fault: the largest tier is the one shown. *)
AdvertisesLargest ==
    IF Active = {} THEN CoinPulseSeconds ELSE SecondsPerPulse(Last(Ladder))

(* FallbackSecondsPerPulse: what the page and the node show. *)
Advertised ==
    IF Active = {} \/ SecondsPerPulse(Ladder[1]) = 0 THEN CoinPulseSeconds
    ELSE SecondsPerPulse(Ladder[1])

-----------------------------------------------------------------------------
(* Properties *)

Covered(taken) == SumFunctionOnSet([j \in Active |-> tiers[j].pulses], taken)

Awarded(taken) ==
    SumFunctionOnSet([j \in Active |-> tiers[j].pulses * SecondsPerPulse(j)], taken)

FaceValue(taken) ==
    SumFunctionOnSet([j \in Active |-> tiers[j].pulses * CentsPerPulse(j)], taken)

(* The tiers a report is sold at, without a walk: a tier is taken exactly  *)
(* when it fits into what the larger ones taken leave.                     *)
SoldAt(pulses, taken) ==
    \A i \in Active :
        LET larger == {j \in taken \ {i} : Before(i, j)}
        IN  i \in taken <=> tiers[i].pulses <= pulses - Covered(larger)

(* "Every pulse is accounted for" (rates.go:369): in seconds and in cents, *)
(* a report is sold at the tiers that fit, each of them once, and every    *)
(* other pulse at the smallest tier, those of a second coin of a tier      *)
(* included.  One coin that is a tier of its own is sold at that tier,     *)
(* also where smaller tiers would add up to it.                            *)
EveryPulsePricedOnce ==
    Active # {} =>
        \A p \in PulseReports : \E taken \in SUBSET Active :
            LET others == p - Covered(taken)
            IN  /\ SoldAt(p, taken)
                /\ Price(p).seconds =
                       NeverFree(Awarded(taken) + others * SecondsPerPulse(Ladder[1]))
                /\ Price(p).cents = FaceValue(taken) + others * CentsPerPulse(Ladder[1])
                /\ (\E i \in Active : tiers[i].pulses = p) =>
                       \E i \in taken : taken = {i} /\ tiers[i].pulses = p

(* "A bulk coin is never silently valued at the single-coin price"         *)
(* (rates.go:366): pulses that a bulk tier of another face value fits are  *)
(* not left to the smallest tier.                                          *)
BulkNeverAtSinglePrice ==
    \A i \in Active, p \in PulseReports :
        tiers[i].pulses > tiers[Ladder[1]].pulses /\ CentsPerPulse(i) # CentsPerPulse(Ladder[1])
            => Walk(p).left < tiers[i].pulses

(* Nobody gets less than the rate shown on the page, whatever number of    *)
(* pulses one report carries, if no bulk tier is worse than the smallest   *)
(* and the smallest awards a second for each pulse.                        *)
AdvertisedIsGranted ==
    LET bulkIsNoWorse ==
            \A i \in Active : SecondsPerPulse(i) >= SecondsPerPulse(Ladder[1])
        shown == Active = {} \/ SecondsPerPulse(Ladder[1]) > 0
    IN  bulkIsNoWorse /\ shown => \A p \in PulseReports : Price(p).seconds >= p * Advertised
=============================================================================
