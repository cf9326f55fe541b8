------------------------------ MODULE PanelProofs ------------------------------
(***************************************************************************)
(* Theorems about what operators do at the panel, component by component,  *)
(* for any number of operators, routers, browsers, objects and devices.    *)
(***************************************************************************)
EXTENDS RouterPages, HotspotInstall, RouterInventory, OperatorAccounts, DeviceInventory,
        FiniteInduction, TLAPS

-----------------------------------------------------------------------------
(***************************************************************************)
(* A setup run again adds no duplicate, for any steps, forms, attempts and *)
(* requests.  Names are refused a second time by the router; of a rule     *)
(* without one, a setup that runs alone saw none before it sent its add,   *)
(* and nobody else adds one before the first copy is executed.             *)
(***************************************************************************)

AloneInv ==
    ~overlapped => \A r, q \in Requests : UnderWay(r) /\ UnderWay(q) => r = q

(* An add of which no copy was executed yet still finds what it looked for, *)
(* unless a late one came in between.                                       *)
UnseenInv ==
    ~overlapped => \A r \in Requests :
        setup[r] = "adding" /\ copies[r] = 0 /\ Kind(r) \in (Kinds \cap Unnamed) \ stray
            => placed[Kind(r)] = 0

RerunInv ==
    /\ placed \in [Kinds -> Nat]
    /\ copies \in [Requests -> Nat]
    /\ DOMAIN stage = Requests /\ DOMAIN setup = Requests /\ DOMAIN step = Requests
    /\ AloneInv
    /\ UnseenInv
    /\ RerunsAddNoDuplicates

LEMMA RerunInitially == InstallInit => RerunInv
  BY DEF InstallInit, DeliveryInit, RerunInv, AloneInv, UnseenInv, UnderWay,
         RerunsAddNoDuplicates

(* Where a setup goes after a step: it looks again, or it is over. *)
LEMMA MovesOn ==
    ASSUME RerunInv, NEW r \in Requests, MoveOn(r) \/ Stop(r)
    PROVE  /\ DOMAIN setup' = Requests /\ DOMAIN step' = Requests
           /\ setup'[r] # "adding"
           /\ UnderWay(r)' => setup'[r] = "looking"
           /\ \A q \in Requests \ {r} : setup'[q] = setup[q] /\ step'[q] = step[q]
<1> DEFINE left == {i \in Walked : i > step[r] /\ Asked(r, SetupOrder[i])}
<1>1. \/ setup' = [setup EXCEPT ![r] = "complete"] /\ step' = step
      \/ setup' = [setup EXCEPT ![r] = "broken"] /\ step' = step
      \/ /\ setup' = [setup EXCEPT ![r] = "looking"]
         /\ step' = [step EXCEPT ![r] = CHOOSE i \in left : \A j \in left : i <= j]
  BY DEF MoveOn, Stop
<1> HIDE DEF left
<1> QED BY <1>1 DEF RerunInv, UnderWay

(* A request that leaves its step disturbs nobody. *)
LEMMA LeavingKeeps ==
    ASSUME RerunInv, NEW r \in Requests, UnderWay(r), MoveOn(r) \/ Stop(r),
           UNCHANGED <<copies, placed, stray, overlapped>>, DOMAIN stage' = Requests
    PROVE  RerunInv'
<1>1. /\ DOMAIN setup' = Requests /\ DOMAIN step' = Requests
      /\ setup'[r] # "adding"
      /\ \A q \in Requests \ {r} : setup'[q] = setup[q] /\ step'[q] = step[q]
  BY MovesOn
<1>2. \A q \in Requests : UnderWay(q)' => UnderWay(q)
  BY <1>1 DEF UnderWay
<1>3. AloneInv'
  BY <1>2 DEF RerunInv, AloneInv
<1>4. \A q \in Requests : setup'[q] = "adding" => q # r /\ Kind(q)' = Kind(q)
  BY <1>1 DEF Kind
<1>5. UnseenInv'
  BY <1>1, <1>4 DEF RerunInv, UnseenInv
<1> QED BY <1>1, <1>3, <1>5 DEF RerunInv, RerunsAddNoDuplicates

LEMMA RerunPreserved == RerunInv /\ [InstallNext]_installVars => RerunInv'
<1> SUFFICES ASSUME RerunInv, [InstallNext]_installVars PROVE RerunInv'
  OBVIOUS
<1>1. ASSUME NEW r \in Requests, HotspotInstall(r) PROVE RerunInv'
  <2>1. /\ ~UnderWay(r)
        /\ setup' = [setup EXCEPT ![r] = "looking"]
        /\ step' = [step EXCEPT ![r] = 1]
        /\ overlapped' = (overlapped \/ \E q \in Requests \ {r} : UnderWay(q))
        /\ UNCHANGED <<stage, copies, placed, stray>>
    BY <1>1 DEF HotspotInstall, deliveryVars
  <2>2. ~overlapped' => ~overlapped /\ \A q \in Requests \ {r} : ~UnderWay(q)
    BY <2>1, Zenon
  <2>3. \A q \in Requests \ {r} : UnderWay(q)' <=> UnderWay(q)
    BY <2>1 DEF RerunInv, UnderWay
  <2>4. AloneInv'
    BY <2>2, <2>3 DEF AloneInv
  <2>5. \A q \in Requests : setup'[q] = "adding" => q # r /\ UnderWay(q)
    BY <2>1 DEF RerunInv, UnderWay
  <2>6. UnseenInv'
    BY <2>2, <2>5 DEF UnseenInv
  <2>7. RerunsAddNoDuplicates'
    <3>1. overlapped => overlapped'
      BY <2>1, Zenon
    <3> QED BY <2>1, <3>1 DEF RerunInv, RerunsAddNoDuplicates
  <2> QED BY <2>1, <2>4, <2>6, <2>7 DEF RerunInv
<1>2. ASSUME NEW r \in Requests, Finds(r) \/ LookFails(r) PROVE RerunInv'
  BY <1>2, LeavingKeeps DEF Finds, LookFails, UnderWay, deliveryVars, RerunInv
<1>3. ASSUME NEW r \in Requests, Misses(r) PROVE RerunInv'
  <2>1. /\ setup[r] = "looking" /\ ~Reusable(r)
        /\ setup' = [setup EXCEPT ![r] = "adding"]
        /\ stage' = [stage EXCEPT ![r] = "running"]
        /\ copies' = [copies EXCEPT ![r] = 0]
        /\ UNCHANGED <<placed, step, stray, overlapped>>
    BY <1>3 DEF Misses, Issue
  <2>2. \A q \in Requests : /\ UnderWay(q)' <=> UnderWay(q)
                            /\ Kind(q)' = Kind(q)
    BY <2>1 DEF RerunInv, UnderWay, Kind
  <2>3. AloneInv'
    BY <2>1, <2>2 DEF RerunInv, AloneInv
  <2>4. Kind(r) \in Kinds \cap Unnamed => placed[Kind(r)] = 0
    BY <2>1 DEF Reusable, Unnamed, RerunInv
  <2>5. \A q \in Requests \ {r} : setup'[q] = setup[q] /\ copies'[q] = copies[q]
    BY <2>1 DEF RerunInv
  <2>6. UnseenInv'
    BY <2>1, <2>2, <2>4, <2>5 DEF RerunInv, UnseenInv
  <2> QED BY <2>1, <2>3, <2>6 DEF RerunInv, RerunsAddNoDuplicates
<1>4. ASSUME NEW r \in Requests, AddExecuted(r) PROVE RerunInv'
  <2> DEFINE k == Kind(r)
  <2>1. /\ setup[r] = "adding" /\ Accepts(k)
        /\ copies' = [copies EXCEPT ![r] = copies[r] + 1]
        /\ placed' = [placed EXCEPT ![k] = IF k = "dns" THEN 1 ELSE placed[k] + 1]
        /\ stray' = IF copies[r] > 0 THEN stray \cup ({k} \cap Unnamed) ELSE stray
        /\ UNCHANGED <<stage, setup, step, overlapped>>
    BY <1>4 DEF AddExecuted, Execute
  <2>2. \A q \in Requests : (UnderWay(q)' <=> UnderWay(q)) /\ Kind(q)' = Kind(q)
    BY <2>1 DEF UnderWay, Kind
  <2>3. copies' \in [Requests -> Nat] /\ copies'[r] # 0
    BY <2>1 DEF RerunInv
  <2>4. placed' \in [Kinds -> Nat] /\ \A l \in Kinds \ {k} : placed'[l] = placed[l]
    <3>1. CASE k \in Kinds
      BY <2>1, <3>1 DEF RerunInv
    <3>2. CASE k \notin Kinds
      BY <2>1, <3>2 DEF RerunInv
    <3> QED BY <3>1, <3>2
  <2>5. AloneInv'
    BY <2>1, <2>2 DEF RerunInv, AloneInv
  <2>6. ~overlapped => \A q \in Requests \ {r} : setup[q] # "adding"
    BY <2>1 DEF RerunInv, AloneInv, UnderWay
  <2>7. UnseenInv'
    BY <2>1, <2>3, <2>6 DEF UnseenInv
  <2>8. RerunsAddNoDuplicates'
    <3> SUFFICES ASSUME NEW l \in Kinds, placed'[l] > 1
                 PROVE  l \in Unnamed /\ (l \in stray' \/ overlapped')
      BY DEF RerunsAddNoDuplicates
    <3>1. stray \subseteq stray' /\ overlapped' = overlapped
      BY <2>1
    <3>2. CASE l # k
      BY <2>4, <3>1, <3>2 DEF RerunInv, RerunsAddNoDuplicates
    <3>3. CASE l = k
      <4>1. l # "dns" /\ placed[l] > 0 /\ l \in Unnamed
        BY <2>1, <3>3 DEF RerunInv, Accepts
      <4>2. CASE copies[r] > 0
        BY <2>1, <3>3, <4>1, <4>2
      <4>3. CASE ~(copies[r] > 0)
        <5>1. copies[r] = 0
          BY <4>3 DEF RerunInv
        <5>2. k \in stray \/ overlapped
          BY <2>1, <3>3, <4>1, <5>1 DEF RerunInv, UnseenInv
        <5> QED BY <3>1, <3>3, <4>1, <5>2
      <4> QED BY <4>2, <4>3
    <3> QED BY <3>2, <3>3
  <2> QED BY <2>1, <2>3, <2>4, <2>5, <2>7, <2>8 DEF RerunInv
<1>5. ASSUME NEW r \in Requests, AddReported(r) \/ AddFails(r) PROVE RerunInv'
  BY <1>5, LeavingKeeps DEF AddReported, AddFails, Succeed, Fail, UnderWay, RerunInv
<1>6. ASSUME NEW k \in Kinds, Deleted(k) PROVE RerunInv'
  <2>1. /\ placed' = [placed EXCEPT ![k] = 0]
        /\ UNCHANGED <<stage, copies, setup, step, stray, overlapped>>
    BY <1>6 DEF Deleted, deliveryVars
  <2>2. \A q \in Requests : (UnderWay(q)' <=> UnderWay(q)) /\ Kind(q)' = Kind(q)
    BY <2>1 DEF UnderWay, Kind
  <2>3. placed' \in [Kinds -> Nat] /\ \A l \in Kinds : placed'[l] \in {placed[l], 0}
    BY <2>1 DEF RerunInv
  <2>4. AloneInv'
    BY <2>1, <2>2 DEF RerunInv, AloneInv
  <2>5. UnseenInv'
    BY <2>1, <2>2, <2>3 DEF RerunInv, UnseenInv
  <2> QED BY <2>1, <2>3, <2>4, <2>5 DEF RerunInv, RerunsAddNoDuplicates
<1>8. ASSUME NEW k \in Kinds, LateAddExecuted(k) PROVE RerunInv'
  <2>1. /\ Accepts(k)
        /\ placed' = [placed EXCEPT ![k] = IF k = "dns" THEN 1 ELSE placed[k] + 1]
        /\ stray' = stray \cup ({k} \cap Unnamed)
        /\ UNCHANGED <<stage, copies, setup, step, overlapped>>
    BY <1>8 DEF LateAddExecuted, deliveryVars
  <2>2. \A q \in Requests : (UnderWay(q)' <=> UnderWay(q)) /\ Kind(q)' = Kind(q)
    BY <2>1 DEF UnderWay, Kind
  <2>3. /\ placed' \in [Kinds -> Nat]
        /\ \A l \in Kinds \ {k} : placed'[l] = placed[l]
        /\ k \in Unnamed => k \in stray'
    BY <2>1 DEF RerunInv
  <2>4. AloneInv'
    BY <2>1, <2>2 DEF RerunInv, AloneInv
  <2>5. UnseenInv'
    BY <2>1, <2>2, <2>3 DEF RerunInv, UnseenInv
  <2>6. k \notin Unnamed => placed'[k] = 1
    BY <2>1 DEF RerunInv, Accepts
  <2>7. RerunsAddNoDuplicates'
    BY <2>1, <2>3, <2>6 DEF RerunInv, RerunsAddNoDuplicates
  <2> QED BY <2>1, <2>3, <2>4, <2>5, <2>7 DEF RerunInv
<1>7. CASE UNCHANGED installVars
  BY <1>7 DEF installVars, setupVars, deliveryVars, RerunInv, AloneInv, UnseenInv,
              UnderWay, Kind, RerunsAddNoDuplicates
<1> QED
  BY <1>1, <1>2, <1>3, <1>4, <1>5, <1>6, <1>7, <1>8 DEF InstallNext

(* Whatever broke off earlier setups: two objects of one kind mean a rule  *)
(* an add of which was executed twice or late, or two setups at once.                    *)
THEOREM InstallRerunsSafely == InstallSpec => []RerunsAddNoDuplicates
<1>1. RerunInv => RerunsAddNoDuplicates
  BY DEF RerunInv
<1> QED BY RerunInitially, RerunPreserved, <1>1, PTL DEF InstallSpec

-----------------------------------------------------------------------------
(***************************************************************************)
(* A setup reported complete has configured the router, for any steps and  *)
(* forms.  Behind the step a setup is at, everything its form asked for is *)
(* in place, because only a deletion takes an object away; going on to the *)
(* next step the form asks for skips none.                                 *)
(***************************************************************************)

LEMMA StepsExist ==
    /\ Walked \subseteq Nat /\ 1 \in Walked
    /\ \A i \in Walked : i >= 1 /\ SetupOrder[i] \in Kinds
    /\ \A k \in Kinds : \E i \in Walked : SetupOrder[i] = k
<1>1. Len(SetupOrder) = 9
  BY DEF SetupOrder
<1> QED
  BY <1>1, InstallConstants DEF Walked

(* Where MoveOn goes: to the next step asked for, or to the end when there *)
(* is none.                                                                *)
LEMMA NextStep ==
    ASSUME InstallTypeOK, NEW r \in Requests, MoveOn(r)
    PROVE  /\ setup' \in [Requests -> {"idle", "looking", "adding", "complete", "broken"}]
           /\ step' \in [Requests -> Walked]
           /\ \A q \in Requests \ {r} : setup'[q] = setup[q] /\ step'[q] = step[q]
           /\ setup'[r] \in {"looking", "complete"}
           /\ \A i \in Walked :
                  i > step[r] /\ (i < step'[r] \/ setup'[r] = "complete")
                      => ~Asked(r, SetupOrder[i])
<1> DEFINE left == {i \in Walked : i > step[r] /\ Asked(r, SetupOrder[i])}
           next == CHOOSE i \in left : \A j \in left : i <= j
<1>1. /\ step \in [Requests -> Walked] /\ step[r] \in Nat
      /\ setup \in [Requests -> {"idle", "looking", "adding", "complete", "broken"}]
  BY StepsExist DEF InstallTypeOK
<1>2. left \in SUBSET Nat /\ left \subseteq Walked
  BY <1>1, StepsExist
<1>3. \A i \in Walked : i > step[r] /\ Asked(r, SetupOrder[i]) => i \in left
  BY <1>1
<1>4. \/ left = {} /\ setup' = [setup EXCEPT ![r] = "complete"] /\ step' = step
      \/ /\ left # {}
         /\ step' = [step EXCEPT ![r] = next]
         /\ setup' = [setup EXCEPT ![r] = "looking"]
  BY DEF MoveOn
<1> HIDE DEF left
<1>5. CASE left = {}
  BY <1>1, <1>3, <1>4, <1>5
<1>6. CASE left # {}
  <2>1. next \in left /\ \A j \in left : next <= j
    BY <1>2, <1>6, LeastNatural
  <2> HIDE DEF next
  <2>2. /\ step'[r] = next /\ next \in Walked /\ setup'[r] = "looking"
    BY <1>1, <1>2, <1>4, <1>6, <2>1
  <2>3. \A i \in left : i \in Nat /\ ~(i < next)
    BY <1>2, <2>1
  <2> QED
    BY <1>1, <1>3, <1>4, <1>6, <2>2, <2>3
<1> QED
  BY <1>5, <1>6

LEMMA InstallTypeStep ==
    ASSUME InstallTypeOK, [InstallNext]_installVars PROVE InstallTypeOK'
<1> USE DEF InstallTypeOK
<1>0. RunAttempts \in Nat /\ 1 \in Walked
  BY DeliveryConstants, StepsExist
<1>l. ASSUME NEW r \in Requests, MayLeaveCopy(r) PROVE lateAdds' \subseteq Kinds
  <2>1. Kind(r) \in Kinds
    BY StepsExist DEF Kind
  <2> QED
    BY <1>l, <2>1 DEF MayLeaveCopy
<1>1. ASSUME NEW r \in Requests, HotspotInstall(r) PROVE InstallTypeOK'
  <2>1. wanted' \in [Requests -> SUBSET Optional]
    BY <1>1, InstallConstants DEF HotspotInstall
  <2>2. overlapped' \in BOOLEAN
    BY <1>1, Zenon DEF HotspotInstall
  <2>3. /\ setup' \in [Requests -> {"idle", "looking", "adding", "complete", "broken"}]
        /\ step' \in [Requests -> Walked]
    BY <1>0, <1>1 DEF HotspotInstall
  <2> QED
    BY <1>1, <2>1, <2>2, <2>3 DEF HotspotInstall, deliveryVars
<1>2. ASSUME NEW r \in Requests, Finds(r) PROVE InstallTypeOK'
  BY <1>2, NextStep DEF Finds, deliveryVars
<1>3. ASSUME NEW r \in Requests, Misses(r) PROVE InstallTypeOK'
  BY <1>0, <1>3 DEF Misses, Issue
<1>4. ASSUME NEW r \in Requests, LookFails(r) PROVE InstallTypeOK'
  BY <1>4 DEF LookFails, Stop, deliveryVars
<1>5. ASSUME NEW r \in Requests, AddExecuted(r) PROVE InstallTypeOK'
  <2>1. Kind(r) \in Kinds /\ placed[Kind(r)] \in Nat
    BY StepsExist DEF Kind
  <2>2. placed' \in [Kinds -> Nat] /\ stray' \subseteq Kinds
    BY <1>5, <2>1 DEF AddExecuted
  <2>3. copies' \in [Requests -> 0..RunAttempts]
    BY <1>0, <1>5 DEF AddExecuted, Execute
  <2> QED
    BY <1>5, <2>2, <2>3 DEF AddExecuted, Execute
<1>6. ASSUME NEW r \in Requests, AddReported(r) PROVE InstallTypeOK'
  BY <1>6, <1>l, NextStep DEF AddReported, Succeed
<1>7. ASSUME NEW r \in Requests, AddFails(r) PROVE InstallTypeOK'
  BY <1>7, <1>l DEF AddFails, Fail, Stop
<1>10. ASSUME NEW k \in Kinds, LateAddExecuted(k) PROVE InstallTypeOK'
  BY <1>10 DEF LateAddExecuted, deliveryVars
<1>8. ASSUME NEW k \in Kinds, Deleted(k) PROVE InstallTypeOK'
  BY <1>8, InstallConstants DEF Deleted, deliveryVars
<1>9. CASE UNCHANGED installVars
  BY <1>9 DEF installVars, setupVars, deliveryVars
<1> QED
  BY <1>1, <1>2, <1>3, <1>4, <1>5, <1>6, <1>7, <1>8, <1>9, <1>10 DEF InstallNext

(* The steps behind a setup nobody disturbed are in place, and so is the   *)
(* object of an add of which a copy was executed.                          *)
ProgressInv(r) ==
    (UnderWay(r) \/ setup[r] = "complete") /\ r \notin touched =>
        /\ \A i \in Walked :
               (i < step[r] \/ setup[r] = "complete") /\ Asked(r, SetupOrder[i])
                   => placed[SetupOrder[i]] > 0
        /\ setup[r] = "adding" /\ copies[r] > 0 => placed[Kind(r)] > 0

(* What another request, or the request itself outside its lookups and     *)
(* adds, leaves as it was while the router loses nothing.                  *)
LEMMA ProgressKept ==
    ASSUME InstallTypeOK, InstallTypeOK', NEW q \in Requests, ProgressInv(q),
           setup'[q] = setup[q], step'[q] = step[q], wanted'[q] = wanted[q],
           q \notin touched' => q \notin touched,
           copies'[q] = copies[q],
           q \notin touched' => \A k \in Kinds : placed[k] > 0 => placed'[k] > 0
    PROVE  ProgressInv(q)'
<1>1. \A i \in Walked : SetupOrder[i] \in Kinds
  BY StepsExist
<1>2. step[q] \in Walked
  BY DEF InstallTypeOK
<1> QED
  BY <1>1, <1>2 DEF ProgressInv, UnderWay, Asked, Kind

(* A step that is in place is one more behind the setup.                   *)
LEMMA ProgressMoves ==
    ASSUME InstallTypeOK, NEW r \in Requests, ProgressInv(r), UnderWay(r), MoveOn(r),
           placed[Kind(r)] > 0, UNCHANGED <<placed, wanted, touched>>
    PROVE  ProgressInv(r)'
<1>1. /\ setup'[r] \in {"looking", "complete"}
      /\ \A i \in Walked :
             i > step[r] /\ (i < step'[r] \/ setup'[r] = "complete")
                 => ~Asked(r, SetupOrder[i])
  BY NextStep
<1>2. step[r] \in Nat /\ \A i \in Walked : i \in Nat
  BY StepsExist DEF InstallTypeOK
<1>3. SUFFICES ASSUME r \notin touched, NEW i \in Walked,
                      i < step'[r] \/ setup'[r] = "complete", Asked(r, SetupOrder[i])
               PROVE  placed[SetupOrder[i]] > 0
  BY <1>1 DEF ProgressInv, Asked
<1>4. ~(i > step[r])
  BY <1>1, <1>3
<1>5. CASE i = step[r]
  BY <1>5 DEF Kind
<1>6. CASE i < step[r]
  BY <1>3, <1>6 DEF ProgressInv
<1> QED
  BY <1>2, <1>4, <1>5, <1>6

LEMMA ProgressStep ==
    ASSUME InstallTypeOK, \A r \in Requests : ProgressInv(r), [InstallNext]_installVars
    PROVE  \A r \in Requests : ProgressInv(r)'
<1>0. InstallTypeOK'
  BY InstallTypeStep
<1>1. ASSUME NEW r \in Requests, HotspotInstall(r), NEW q \in Requests PROVE ProgressInv(q)'
  <2>1. CASE q = r
    <3>1. setup'[r] = "looking" /\ step'[r] = 1
      BY <1>1 DEF HotspotInstall, InstallTypeOK
    <3>2. \A i \in Walked : ~(i < 1)
      BY StepsExist
    <3> QED
      BY <2>1, <3>1, <3>2 DEF ProgressInv
  <2>2. CASE q # r
    BY <1>0, <1>1, <2>2, ProgressKept DEF HotspotInstall, InstallTypeOK, deliveryVars
  <2> QED
    BY <2>1, <2>2
<1>2. ASSUME NEW r \in Requests, Finds(r), NEW q \in Requests PROVE ProgressInv(q)'
  <2>1. CASE q = r
    BY <1>2, <2>1, ProgressMoves DEF Finds, Reusable, UnderWay
  <2>2. CASE q # r
    BY <1>0, <1>2, <2>2, NextStep, ProgressKept DEF Finds, deliveryVars
  <2> QED
    BY <2>1, <2>2
<1>3. ASSUME NEW r \in Requests, Misses(r), NEW q \in Requests PROVE ProgressInv(q)'
  <2>1. CASE q = r
    <3>1. /\ setup'[r] = "adding" /\ copies'[r] = 0 /\ setup[r] = "looking"
          /\ UNCHANGED <<step, wanted, placed, touched>>
      BY <1>3 DEF Misses, Issue, InstallTypeOK
    <3> QED
      BY <2>1, <3>1 DEF ProgressInv, UnderWay, Asked
  <2>2. CASE q # r
    BY <1>0, <1>3, <2>2, ProgressKept DEF Misses, Issue, InstallTypeOK
  <2> QED
    BY <2>1, <2>2
<1>4. ASSUME NEW r \in Requests, LookFails(r) \/ AddFails(r), NEW q \in Requests
      PROVE  ProgressInv(q)'
  <2>1. setup' = [setup EXCEPT ![r] = "broken"] /\ UNCHANGED <<step, copies, wanted, placed, touched>>
    BY <1>4 DEF LookFails, AddFails, Fail, Stop, deliveryVars
  <2>2. CASE q = r
    BY <2>1, <2>2 DEF ProgressInv, UnderWay, InstallTypeOK
  <2>3. CASE q # r
    BY <1>0, <2>1, <2>3, ProgressKept DEF InstallTypeOK
  <2> QED
    BY <2>2, <2>3
<1>5. ASSUME NEW r \in Requests, AddExecuted(r), NEW q \in Requests PROVE ProgressInv(q)'
  <2>1. /\ copies' = [copies EXCEPT ![r] = @ + 1]
        /\ placed' = [placed EXCEPT ![Kind(r)] =
                        IF Kind(r) = "dns" THEN 1 ELSE placed[Kind(r)] + 1]
        /\ UNCHANGED <<wanted, setup, step, touched>>
    BY <1>5 DEF AddExecuted, Execute
  <2>2. Kind(r) \in Kinds /\ placed \in [Kinds -> Nat]
    BY StepsExist DEF Kind, InstallTypeOK
  <2>3. placed'[Kind(r)] > 0 /\ \A k \in Kinds : placed[k] > 0 => placed'[k] > 0
    BY <2>1, <2>2
  <2>4. CASE q = r
    <3>1. \A i \in Walked : SetupOrder[i] \in Kinds
      BY StepsExist
    <3>2. Kind(r)' = Kind(r)
      BY <2>1 DEF Kind
    <3> QED
      BY <2>1, <2>3, <2>4, <3>1, <3>2 DEF ProgressInv, UnderWay, Asked
  <2>5. CASE q # r
    BY <1>0, <2>1, <2>3, <2>5, ProgressKept DEF InstallTypeOK
  <2> QED
    BY <2>4, <2>5
<1>6. ASSUME NEW r \in Requests, AddReported(r), NEW q \in Requests PROVE ProgressInv(q)'
  <2>1. CASE q = r
    <3>1. r \notin touched => placed[Kind(r)] > 0
      BY <1>6 DEF AddReported, Succeed, ProgressInv, UnderWay
    <3>2. CASE r \in touched
      BY <1>6, <2>1, <3>2 DEF AddReported, ProgressInv
    <3>3. CASE r \notin touched
      BY <1>6, <2>1, <3>1, <3>3, ProgressMoves DEF AddReported, UnderWay
    <3> QED
      BY <3>2, <3>3
  <2>2. CASE q # r
    BY <1>0, <1>6, <2>2, NextStep, ProgressKept DEF AddReported, Succeed
  <2> QED
    BY <2>1, <2>2
<1>7. ASSUME NEW k \in Kinds, Deleted(k), NEW q \in Requests PROVE ProgressInv(q)'
  <2>1. /\ touched' = touched \cup {r \in Requests : UnderWay(r) \/ setup[r] = "complete"}
        /\ setup' = setup
    BY <1>7 DEF Deleted
  <2> QED
    BY <2>1 DEF ProgressInv, UnderWay
<1>8. ASSUME UNCHANGED installVars, NEW q \in Requests PROVE ProgressInv(q)'
  BY <1>0, <1>8, ProgressKept DEF installVars, setupVars, deliveryVars
<1>9. ASSUME NEW k \in Kinds, LateAddExecuted(k), NEW q \in Requests PROVE ProgressInv(q)'
  <2>1. \A l \in Kinds : placed[l] > 0 => placed'[l] > 0
    BY <1>9 DEF LateAddExecuted, InstallTypeOK
  <2> QED
    BY <1>0, <1>9, <2>1, ProgressKept DEF LateAddExecuted, deliveryVars
<1> QED
  BY <1>1, <1>2, <1>3, <1>4, <1>5, <1>6, <1>7, <1>8, <1>9 DEF InstallNext

InstallInv == InstallTypeOK /\ \A r \in Requests : ProgressInv(r)

(* A setup reported complete has left every object its form asked for on   *)
(* the router, the ones it reused included, unless somebody deleted one    *)
(* while it ran.                                                           *)
THEOREM InstallCompleteMeansConfigured == InstallSpec => []CompleteMeansConfigured
<1>1. InstallInit => InstallInv
  <2> SUFFICES ASSUME InstallInit PROVE InstallInv
    OBVIOUS
  <2>1. /\ stage = [r \in Requests |-> "idle"] /\ copies = [r \in Requests |-> 0]
        /\ placed = [k \in Kinds |-> 0] /\ wanted = [r \in Requests |-> {}]
        /\ setup = [r \in Requests |-> "idle"] /\ step = [r \in Requests |-> 1]
        /\ lateAdds = {} /\ stray = {} /\ removed = 0 /\ touched = {}
    BY DEF InstallInit, DeliveryInit
  <2>2. 0 \in 0..RunAttempts /\ 0 \in 0..MaxRemovals /\ 1 \in Walked
    BY DeliveryConstants, InstallConstants, StepsExist
  <2>3. /\ stage \in [Requests -> {"idle", "running", "done", "failed"}]
        /\ wanted \in [Requests -> SUBSET Optional]
        /\ setup \in [Requests -> {"idle", "looking", "adding", "complete", "broken"}]
        /\ stray \subseteq Kinds /\ touched \subseteq Requests
    BY <2>1
  <2>4. placed \in [Kinds -> Nat] /\ removed \in 0..MaxRemovals
    BY <2>1, <2>2
  <2>5. copies \in [Requests -> 0..RunAttempts] /\ step \in [Requests -> Walked]
    BY <2>1, <2>2
  <2>6. overlapped \in BOOLEAN
    BY DEF InstallInit
  <2>7. InstallTypeOK
    BY <2>1, <2>3, <2>4, <2>5, <2>6 DEF InstallTypeOK
  <2>8. \A r \in Requests : ProgressInv(r)
    BY <2>1 DEF ProgressInv, UnderWay
  <2> QED
    BY <2>7, <2>8 DEF InstallInv
<1>2. InstallInv /\ [InstallNext]_installVars => InstallInv'
  BY InstallTypeStep, ProgressStep DEF InstallInv
<1>3. InstallInv => CompleteMeansConfigured
  <2> SUFFICES ASSUME \A r \in Requests : ProgressInv(r), NEW r \in Requests,
                      setup[r] = "complete", r \notin touched, NEW k \in Kinds, Asked(r, k)
               PROVE  placed[k] > 0
    BY DEF CompleteMeansConfigured, InstallInv
  <2>1. PICK i \in Walked : SetupOrder[i] = k
    BY StepsExist
  <2> QED
    BY <2>1 DEF ProgressInv
<1> QED
  BY <1>1, <1>2, <1>3, PTL DEF InstallSpec

-----------------------------------------------------------------------------
(***************************************************************************)
(* Proofs about the default portal router, for any number of routers,      *)
(* pages and guests.  Of two routers marked at once, one at least is a     *)
(* router some page still clears the others for: whichever clear comes     *)
(* first leaves one mark at most, and later saves bring their own clear.   *)
(***************************************************************************)

MarksInv ==
    ~unclean => \A i, j \in Defaults : i = j \/ \E o \in Operators : clearing[o] \in {i, j}

Asking == {"nothing", "tag", "login", "loginOnly", "default", "only", "served", "refused"}

(* Guests on whose request the mark only moved find it when they ask. *)
SteadyInv ==
    /\ steady \subseteq Guests
    /\ asking \in [Guests -> Asking]
    /\ steady # {} => Defaults # {}
    /\ \A g \in steady : asking[g] \notin {"only", "refused"}

Saves ==
    \/ \E o \in Operators : RouterCreate(o) \/ RouterUpdate(o)
    \/ ApiRouterCreate \/ ApiRouterUpdate

GuestStep ==
    \E g \in Guests :
        \/ PortalIndex(g) \/ PortalLogin(g) \/ PortalStatus(g)
        \/ FindByPortalTag(g) \/ \E link \in {"login", "loginOnly"} : FindByHost(g, link)
        \/ Default(g) \/ OnlyRouter(g) \/ QueryFails(g) \/ Leaves(g)

(* What guests do leaves the inventory alone. *)
LEMMA GuestsOnlyRead == GuestStep => UNCHANGED <<routers, clearing, unclean>>
  BY DEF GuestStep, PortalIndex, PortalLogin, PortalStatus, Arrives, FindByPortalTag,
         FindByHost, Default, OnlyRouter, Asks, QueryFails, Leaves

(* Every save is a page's or the JSON API's, of a row a form can write. *)
LEMMA SavesAreWrites ==
    ASSUME Saves
    PROVE  \E i \in RouterIds, r \in Rows :
               (\E o \in Operators : Writes(o, i, r)) \/ ApiWrites(i, r)
  BY DEF Saves, RouterCreate, RouterUpdate, ApiRouterCreate, ApiRouterUpdate,
         Unused, Registered

-----------------------------------------------------------------------------
(* Types *)

LEMMA RowFields ==
    /\ \A r \in Rows \cup {Absent} : Unmarked(r) \in Rows \cup {Absent}
    /\ \A r \in Rows \cup {Absent} : r.default \in BOOLEAN
    /\ \A r \in Rows \cup {Absent} : Unmarked(r).default = FALSE
    /\ Absent.default = FALSE
<1>1. Unmarked(Absent) = Absent /\ Absent.default = FALSE
  BY DEF Absent, Unmarked
<1>2. \A r \in Rows : Unmarked(r) \in Rows /\ r.default \in BOOLEAN
  BY DEF Rows, Unmarked
<1>3. \A r \in Rows \cup {Absent} : Unmarked(r).default = FALSE
  BY DEF Unmarked
<1> QED BY <1>1, <1>2, <1>3

LEMMA TypesInitially == InventoryInit => InventoryTypeOK
  BY DEF InventoryInit, InventoryTypeOK

LEMMA TypesPreserved ==
    InventoryTypeOK /\ [InventoryNext]_inventoryVars => InventoryTypeOK'
<1> SUFFICES ASSUME InventoryTypeOK, [InventoryNext]_inventoryVars PROVE InventoryTypeOK'
  OBVIOUS
<1> USE DEF InventoryTypeOK
<1>1. CASE Saves
  <2>1. PICK i \in RouterIds, r \in Rows :
            (\E o \in Operators : Writes(o, i, r)) \/ ApiWrites(i, r)
    BY <1>1, SavesAreWrites
  <2>2. r.default \in BOOLEAN
    BY DEF Rows
  <2>3. CASE \E o \in Operators : Writes(o, i, r)
    BY <2>2, <2>3 DEF Writes
  <2>4. CASE ApiWrites(i, r)
    <3>1. unclean' \in BOOLEAN
      BY <2>2, <2>4, Zenon DEF ApiWrites
    <3> QED BY <2>4, <3>1 DEF ApiWrites
  <2> QED BY <2>1, <2>3, <2>4
<1>2. ASSUME NEW o \in Operators, RouterDelete(o) PROVE InventoryTypeOK'
  BY <1>2 DEF RouterDelete
<1>3. ASSUME NEW o \in Operators, ClearDefaultPortal(o) PROVE InventoryTypeOK'
  BY <1>3, RowFields DEF ClearDefaultPortal
<1>4. ASSUME NEW o \in Operators, ClearFails(o) PROVE InventoryTypeOK'
  BY <1>4 DEF ClearFails
<1>5. CASE GuestStep
  BY <1>5, GuestsOnlyRead
<1>6. CASE UNCHANGED inventoryVars
  BY <1>6 DEF inventoryVars
<1> QED
  BY <1>1, <1>2, <1>3, <1>4, <1>5, <1>6 DEF InventoryNext, Saves, GuestStep

(* The rows on file stay rows the forms can write, whoever writes them. *)
THEOREM InventoryTypeCorrect == InventorySpec => []InventoryTypeOK
  BY TypesInitially, TypesPreserved, PTL DEF InventorySpec

-----------------------------------------------------------------------------
(* What a save and a clear do to the marks *)

LEMMA SaveMarks ==
    ASSUME InventoryTypeOK, NEW i \in RouterIds, NEW r \in Rows,
           routers' = [routers EXCEPT ![i] = r]
    PROVE  Defaults' = IF r.default THEN Defaults \cup {i} ELSE Defaults \ {i}
  BY DEF InventoryTypeOK, Defaults

LEMMA ClearLeavesOne ==
    ASSUME InventoryTypeOK, NEW o \in Operators, ClearDefaultPortal(o)
    PROVE  Defaults' = Defaults \cap {clearing[o]}
<1>1. \A i \in RouterIds : routers[i] \in Rows \cup {Absent}
  BY DEF InventoryTypeOK
<1>2. \A i \in RouterIds : routers'[i] = IF i = clearing[o] THEN routers[i]
                                         ELSE Unmarked(routers[i])
  BY DEF ClearDefaultPortal
<1> QED BY <1>1, <1>2, RowFields DEF Defaults

LEMMA DeleteMarks ==
    ASSUME InventoryTypeOK, NEW i \in RouterIds,
           routers' = [routers EXCEPT ![i] = Absent]
    PROVE  Defaults' = Defaults \ {i}
  BY RowFields DEF InventoryTypeOK, Defaults

-----------------------------------------------------------------------------
(* One default at rest *)

LEMMA MarksPreserved ==
    InventoryTypeOK /\ MarksInv /\ [InventoryNext]_inventoryVars => MarksInv'
<1> SUFFICES ASSUME InventoryTypeOK, MarksInv, [InventoryNext]_inventoryVars
             PROVE  MarksInv'
  OBVIOUS
<1>0. NoRouter \notin RouterIds
  BY InventoryConstants DEF NoRouter
<1>1. ASSUME NEW o \in Operators, NEW i \in RouterIds, NEW r \in Rows, Writes(o, i, r)
      PROVE  MarksInv'
  <2>1. Defaults' = IF r.default THEN Defaults \cup {i} ELSE Defaults \ {i}
    BY <1>1, SaveMarks DEF Writes
  <2>2. clearing'[o] = IF r.default THEN i ELSE NoRouter
    BY <1>1 DEF Writes, InventoryTypeOK
  <2>3. \A p \in Operators : clearing[p] \in RouterIds => clearing'[p] = clearing[p]
    BY <1>0, <1>1 DEF Writes, InventoryTypeOK
  <2>4. unclean' = unclean
    BY <1>1 DEF Writes
  <2>5. SUFFICES ASSUME ~unclean', NEW j \in Defaults', NEW k \in Defaults', j # k
                 PROVE  \E p \in Operators : clearing'[p] \in {j, k}
    BY DEF MarksInv
  <2>6. CASE j \in Defaults /\ k \in Defaults
    <3>1. PICK p \in Operators : clearing[p] \in {j, k}
      BY <2>4, <2>5, <2>6 DEF MarksInv
    <3>2. clearing[p] \in RouterIds
      BY <2>6, <3>1 DEF Defaults
    <3> QED BY <2>3, <3>1, <3>2
  <2>7. CASE ~(j \in Defaults /\ k \in Defaults)
    BY <2>1, <2>2, <2>5, <2>7
  <2> QED BY <2>6, <2>7
<1>2. ASSUME NEW i \in RouterIds, NEW r \in Rows, ApiWrites(i, r) PROVE MarksInv'
  <2>1. Defaults' = IF r.default THEN Defaults \cup {i} ELSE Defaults \ {i}
    BY <1>2, SaveMarks DEF ApiWrites
  <2>2. clearing' = clearing
    BY <1>2 DEF ApiWrites
  <2>3. ~unclean' => ~unclean /\ ~(r.default /\ Defaults \ {i} # {})
    BY <1>2, Zenon DEF ApiWrites
  <2>4. CASE r.default
    BY <2>1, <2>2, <2>3, <2>4 DEF MarksInv
  <2>5. CASE ~r.default
    BY <2>1, <2>2, <2>3, <2>5 DEF MarksInv
  <2> QED BY <2>4, <2>5
<1>3. ASSUME NEW o \in Operators, RouterDelete(o) PROVE MarksInv'
  <2>1. PICK i \in Registered : routers' = [routers EXCEPT ![i] = Absent]
    BY <1>3 DEF RouterDelete
  <2>2. Defaults' = Defaults \ {i}
    BY <2>1, DeleteMarks DEF Registered
  <2>3. UNCHANGED <<clearing, unclean>>
    BY <1>3 DEF RouterDelete
  <2> QED BY <2>2, <2>3 DEF MarksInv
<1>4. ASSUME NEW o \in Operators, ClearDefaultPortal(o) PROVE MarksInv'
  BY <1>4, ClearLeavesOne DEF MarksInv
<1>5. ASSUME NEW o \in Operators, ClearFails(o) PROVE MarksInv'
  BY <1>5 DEF ClearFails, MarksInv
<1>6. CASE UNCHANGED <<routers, clearing, unclean>>
  BY <1>6 DEF MarksInv, Defaults
<1>7. CASE Saves
  BY <1>1, <1>2, <1>7, SavesAreWrites
<1> QED
  BY <1>3, <1>4, <1>5, <1>6, <1>7, GuestsOnlyRead
  DEF InventoryNext, Saves, GuestStep, inventoryVars

(* However many pages save and clear, when none has a clear to do, none    *)
(* failed and the JSON API added no mark, one router is the default.       *)
THEOREM InventoryOneDefault == InventorySpec => []OneDefaultAtRest
<1>1. InventoryInit => MarksInv
  BY DEF InventoryInit, MarksInv
<1>2. InventoryTypeOK /\ MarksInv => OneDefaultAtRest
  BY InventoryConstants DEF MarksInv, OneDefaultAtRest, Quiet, Defaults, NoRouter
<1> QED
  BY <1>1, <1>2, TypesInitially, TypesPreserved, MarksPreserved, PTL DEF InventorySpec

-----------------------------------------------------------------------------
(* A moving mark *)

LEMMA SteadyPreserved ==
    InventoryTypeOK /\ SteadyInv /\ [InventoryNext]_inventoryVars => SteadyInv'
<1> SUFFICES ASSUME InventoryTypeOK, SteadyInv, [InventoryNext]_inventoryVars
             PROVE  SteadyInv'
  OBVIOUS
<1>a. ASSUME UNCHANGED asking, steady' \in {steady, {}}, Defaults' = {} => steady' = {} \/ Defaults = {}
      PROVE  SteadyInv'
  BY <1>a DEF SteadyInv
<1>1. ASSUME NEW i \in RouterIds, NEW r \in Rows, UNCHANGED asking,
             routers' = [routers EXCEPT ![i] = r],
             steady' = IF Quiet /\ (routers[i].default => r.default) THEN steady ELSE {}
      PROVE  SteadyInv'
  <2>1. Defaults' = IF r.default THEN Defaults \cup {i} ELSE Defaults \ {i}
    BY <1>1, SaveMarks
  <2>2. CASE Quiet /\ (routers[i].default => r.default)
    <3>1. Defaults \subseteq Defaults'
      BY <2>1, <2>2 DEF Defaults
    <3> QED BY <1>1, <1>a, <2>2, <3>1
  <2>3. CASE ~(Quiet /\ (routers[i].default => r.default))
    BY <1>1, <1>a, <2>3
  <2> QED BY <2>2, <2>3
<1>2. CASE Saves
  BY <1>1, <1>2, SavesAreWrites DEF Writes, ApiWrites
<1>3. ASSUME NEW o \in Operators, RouterDelete(o) PROVE SteadyInv'
  <2>1. PICK i \in Registered :
            /\ routers' = [routers EXCEPT ![i] = Absent]
            /\ steady' = IF routers[i].default THEN {} ELSE steady
    BY <1>3 DEF RouterDelete
  <2>2. Defaults' = Defaults \ {i}
    BY <2>1, DeleteMarks DEF Registered
  <2>3. CASE routers[i].default
    BY <1>3, <1>a, <2>1, <2>3 DEF RouterDelete
  <2>4. CASE ~routers[i].default
    <3>1. Defaults' = Defaults
      BY <2>2, <2>4 DEF Defaults
    <3> QED BY <1>3, <1>a, <2>1, <2>4, <3>1 DEF RouterDelete
  <2> QED BY <2>3, <2>4
<1>4. ASSUME NEW o \in Operators, ClearDefaultPortal(o) PROVE SteadyInv'
  <2>1. Defaults' = Defaults \cap {clearing[o]}
    BY <1>4, ClearLeavesOne
  <2>2. /\ UNCHANGED asking
        /\ clearing[o] \in RouterIds
        /\ steady' = IF routers[clearing[o]].default THEN steady ELSE {}
    BY <1>4 DEF ClearDefaultPortal, InventoryTypeOK
  <2>3. CASE routers[clearing[o]].default
    <3>1. clearing[o] \in Defaults'
      BY <2>1, <2>2, <2>3 DEF Defaults
    <3> QED BY <1>a, <2>2, <2>3, <3>1
  <2>4. CASE ~routers[clearing[o]].default
    BY <1>a, <2>2, <2>4
  <2> QED BY <2>3, <2>4
<1>5. ASSUME NEW o \in Operators, ClearFails(o) PROVE SteadyInv'
  BY <1>5 DEF ClearFails, SteadyInv, Defaults
<1>6. ASSUME NEW g \in Guests, NEW requests, Arrives(g, requests) PROVE SteadyInv'
  BY <1>6 DEF Arrives, SteadyInv, Defaults, Asking
<1>b. /\ DOMAIN NextQuery = {"tag", "login", "loginOnly", "default", "only"}
      /\ \A q \in DOMAIN NextQuery : /\ NextQuery[q] \in Asking
                                     /\ NextQuery[q] = "only" <=> q = "default"
                                     /\ NextQuery[q] = "refused" <=> q = "only"
  BY DEF NextQuery, Asking
<1>7. ASSUME NEW g \in Guests, NEW query \in DOMAIN NextQuery, NEW found,
             Asks(g, query, found), query = "default" => found = Defaults
      PROVE  SteadyInv'
  <2>1. Defaults' = Defaults
    BY <1>7 DEF Asks, Defaults
  <2>2. asking'[g] = IF found # {} THEN "served" ELSE NextQuery[query]
    BY <1>7 DEF Asks, SteadyInv
  <2>3. asking[g] = query /\ steady' = steady
    BY <1>7 DEF Asks
  <2>4. asking' \in [Guests -> Asking]
    BY <1>7, <1>b DEF Asks, SteadyInv, Asking
  <2>5. g \in steady => asking'[g] \notin {"only", "refused"}
    BY <1>7, <1>b, <2>2, <2>3 DEF SteadyInv
  <2>6. \A h \in Guests \ {g} : asking'[h] = asking[h]
    BY <1>7 DEF Asks, SteadyInv
  <2> QED BY <2>1, <2>3, <2>4, <2>5, <2>6 DEF SteadyInv
<1>8. ASSUME NEW g \in Guests, Leaves(g) PROVE SteadyInv'
  BY <1>8 DEF Leaves, SteadyInv, Defaults, Asking
<1>f. ASSUME NEW g \in Guests, QueryFails(g) PROVE SteadyInv'
  <2>1. /\ asking[g] \in DOMAIN NextQuery
        /\ asking' = [asking EXCEPT ![g] = NextQuery[asking[g]]]
        /\ steady' = IF asking[g] = "default" THEN steady \ {g} ELSE steady
        /\ Defaults' = Defaults
    BY <1>f DEF QueryFails, Defaults
  <2>2. asking' \in [Guests -> Asking] /\ asking'[g] = NextQuery[asking[g]]
    BY <1>b, <2>1 DEF SteadyInv
  <2>3. g \in steady' => asking'[g] \notin {"only", "refused"}
    BY <1>b, <2>1, <2>2 DEF SteadyInv
  <2>4. \A h \in Guests \ {g} : asking'[h] = asking[h]
    BY <2>1 DEF SteadyInv
  <2> QED BY <2>1, <2>2, <2>3, <2>4 DEF SteadyInv
<1>9. CASE GuestStep
  <2> SUFFICES ASSUME NEW g \in Guests,
                      \/ PortalIndex(g) \/ PortalLogin(g) \/ PortalStatus(g)
                      \/ FindByPortalTag(g)
                      \/ \E link \in {"login", "loginOnly"} : FindByHost(g, link)
                      \/ Default(g) \/ OnlyRouter(g) \/ QueryFails(g) \/ Leaves(g)
               PROVE  SteadyInv'
    BY <1>9 DEF GuestStep
  <2>1. CASE PortalIndex(g) \/ PortalLogin(g) \/ PortalStatus(g)
    BY <1>6, <2>1 DEF PortalIndex, PortalLogin, PortalStatus
  <2>2. CASE FindByPortalTag(g)
    BY <1>7, <1>b, <2>2 DEF FindByPortalTag
  <2>3. ASSUME NEW link \in {"login", "loginOnly"}, FindByHost(g, link) PROVE SteadyInv'
    BY <1>7, <1>b, <2>3 DEF FindByHost
  <2>4. CASE Default(g)
    BY <1>7, <1>b, <2>4 DEF Default
  <2>5. CASE OnlyRouter(g)
    BY <1>7, <1>b, <2>5 DEF OnlyRouter
  <2> QED BY <1>8, <1>f, <2>1, <2>2, <2>3, <2>4, <2>5
<1>10. CASE UNCHANGED inventoryVars
  BY <1>10 DEF inventoryVars, SteadyInv, Defaults
<1> QED
  BY <1>2, <1>3, <1>4, <1>5, <1>9, <1>10 DEF InventoryNext, Saves, GuestStep

(* Moving the mark from router to router turns no guest away, for every    *)
(* number of guests asking at once and whichever of their other queries    *)
(* fail.                                                                   *)
THEOREM InventoryServesSteadyGuests == InventorySpec => []MovingTheMarkTurnsNobodyAway
<1>1. InventoryInit => SteadyInv
  BY DEF InventoryInit, SteadyInv, Asking
<1>2. SteadyInv => MovingTheMarkTurnsNobodyAway
  BY DEF SteadyInv, MovingTheMarkTurnsNobodyAway
<1> QED
  BY <1>1, <1>2, TypesInitially, TypesPreserved, SteadyPreserved, PTL DEF InventorySpec

-----------------------------------------------------------------------------
(***************************************************************************)
(* Proofs about the operator's account, for any number of browsers and     *)
(* consoles.  A session's row says after how many reported changes it was  *)
(* stored: rows are numbered, so storing one never rewrites another.  The  *)
(* guard: the attempts admitted before a lock and the failures counted     *)
(* since it never add up to all the browsers, because the one that caused  *)
(* the lock is in neither.                                                 *)
(***************************************************************************)

Admitted == {b \in Browsers : doing[b] = "admitted"}

RowsInv ==
    /\ opened \in 0..MaxSessions
    /\ rows \subseteq 1..opened
    /\ DOMAIN openedAfter = 1..MaxSessions
    /\ CookiesDieWithThePassword

GuardInv ==
    /\ late \in Nat
    /\ DOMAIN doing = Actors
    /\ lockout = 0 => late = 0
    /\ lockout = 0 \/ late + Cardinality(Admitted) < Cardinality(Browsers)

-----------------------------------------------------------------------------
(* The sessions *)

LEMMA RowsInitially == AccountsInit => RowsInv
  BY AccountConstants DEF AccountsInit, RowsInv, CookiesDieWithThePassword

(* Only three kinds of step change what is on file: one stores a session,  *)
(* one reports a change, the others delete rows or touch none.             *)
LEMMA RowsPreserved == RowsInv /\ [AccountsNext]_accountVars => RowsInv'
<1> SUFFICES ASSUME RowsInv, [AccountsNext]_accountVars PROVE RowsInv'
  OBVIOUS
<1> USE AccountConstants DEF RowsInv, CookiesDieWithThePassword
<1>a. ASSUME rows' \subseteq rows, UNCHANGED <<opened, openedAfter, changes>>
      PROVE  RowsInv'
  BY <1>a
<1>1. ASSUME NEW b \in Browsers, CreateSession(b) PROVE RowsInv'
  <2>1. CASE UNCHANGED <<fileVars, cookie>>
    BY <1>1, <2>1, <1>a DEF CreateSession, fileVars
  <2>2. CASE /\ opened < MaxSessions
             /\ opened' = opened + 1
             /\ rows' = rows \cup {opened'}
             /\ openedAfter' = [openedAfter EXCEPT ![opened'] = changes]
    <3>1. changes' = changes
      BY <1>1 DEF CreateSession
    <3>2. opened' \in 1..MaxSessions /\ opened' \notin rows
      BY <2>2
    <3>3. \A n \in rows' : openedAfter'[n] = changes'
      BY <2>2, <3>1, <3>2
    <3> QED BY <2>2, <3>2, <3>3
  <2> QED BY <1>1, <2>1, <2>2 DEF CreateSession
<1>2. ASSUME NEW a \in Actors, DeleteUserSessions(a) PROVE RowsInv'
  BY <1>2 DEF DeleteUserSessions
<1>3. ASSUME NEW b \in Browsers, AdminLogout(b) \/ VisitsExpired(b) PROVE RowsInv'
  BY <1>3, <1>a DEF AdminLogout, VisitsExpired
<1>4. ASSUME NEW a \in Actors, WritesPassword(a) \/ RequestFails(a) PROVE RowsInv'
  BY <1>4, <1>a DEF WritesPassword, RequestFails, fileVars
<1>5. ASSUME NEW b \in Browsers,
             \/ AdminLoginSubmit(b) \/ VerifyPassword(b)
             \/ SettingsCredentials(b) \/ VerifiesCurrent(b)
      PROVE  RowsInv'
  BY <1>5, <1>a
  DEF AdminLoginSubmit, VerifyPassword, SettingsCredentials, VerifiesCurrent, fileVars
<1>6. ASSUME NEW k \in Consoles, Passwd(k) PROVE RowsInv'
  BY <1>6, <1>a DEF Passwd, fileVars
<1>7. CASE LockRunsOut \/ GuardForgets \/ SessionExpires \/ AccountsRestart
  BY <1>7, <1>a DEF LockRunsOut, GuardForgets, SessionExpires, AccountsRestart, fileVars
<1>8. CASE UNCHANGED accountVars
  BY <1>8, <1>a DEF accountVars, fileVars
<1> QED
  BY <1>1, <1>2, <1>3, <1>4, <1>5, <1>6, <1>7, <1>8 DEF AccountsNext

(* However sign-ins, sign-outs, expiries and several changes of password   *)
(* interleave, a change that was reported ended every session on file.     *)
THEOREM AccountsRevokeSessions == AccountsSpec => []CookiesDieWithThePassword
<1>1. RowsInv => CookiesDieWithThePassword
  BY DEF RowsInv
<1> QED BY RowsInitially, RowsPreserved, <1>1, PTL DEF AccountsSpec

-----------------------------------------------------------------------------
(* The guard *)

LEMMA GuardInitially == AccountsInit => GuardInv
  BY AccountConstants DEF AccountsInit, GuardInv

(* A step that counts nothing and admits nobody keeps the balance. *)
LEMMA GuardKept ==
    ASSUME GuardInv, late' = late, lockout' = lockout, DOMAIN doing' = Actors,
           Admitted' \subseteq Admitted
    PROVE  GuardInv'
<1>1. IsFiniteSet(Admitted) /\ IsFiniteSet(Browsers)
  BY AccountConstants, FS_Subset DEF Admitted
<1>2. /\ Cardinality(Admitted') <= Cardinality(Admitted)
      /\ Cardinality(Admitted') \in Nat /\ Cardinality(Admitted) \in Nat
      /\ Cardinality(Browsers) \in Nat
  BY <1>1, FS_Subset, FS_CardinalityType
<1> QED BY <1>2 DEF GuardInv

(* A step that forgets the failures leaves nothing to bound. *)
LEMMA GuardForgotten ==
    ASSUME GuardInv, Forgets, DOMAIN doing' = Actors
    PROVE  GuardInv'
  BY DEF GuardInv, Forgets

(* A failure: the browser leaves the admitted ones.  It starts the lock,   *)
(* or is one more failure of a locked account.                             *)
LEMMA GuardCounts ==
    ASSUME GuardInv, NEW b \in Browsers, doing[b] = "admitted",
           Turns(b, "nothing"), CountFailure
    PROVE  GuardInv'
<1>1. Admitted' = Admitted \ {b} /\ b \in Admitted /\ DOMAIN doing' = Actors
  BY DEF GuardInv, Admitted, Turns, Actors
<1>2. IsFiniteSet(Admitted) /\ IsFiniteSet(Browsers)
  BY AccountConstants, FS_Subset DEF Admitted
<1>3. Cardinality(Admitted') = Cardinality(Admitted) - 1
  BY <1>1, <1>2, FS_RemoveElement
<1>4. Cardinality(Admitted) <= Cardinality(Browsers)
  BY <1>2, FS_Subset DEF Admitted
<1>5. Cardinality(Admitted) \in Nat /\ Cardinality(Browsers) \in Nat
  BY <1>2, FS_CardinalityType
<1>6. PICK count : lockout' = IF Delay(count) > 0 THEN Delay(count) ELSE lockout
  BY DEF CountFailure
<1>7. late' = IF lockout > 0 THEN late + 1 ELSE 0
  BY DEF CountFailure
<1>8. CASE lockout > 0
  <2>1. lockout # 0 /\ lockout' # 0
    BY <1>6, <1>8
  <2> QED BY <1>1, <1>3, <1>5, <1>7, <1>8, <2>1 DEF GuardInv
<1>9. CASE ~(lockout > 0)
  BY <1>1, <1>3, <1>4, <1>5, <1>7, <1>9 DEF GuardInv
<1> QED BY <1>8, <1>9

LEMMA GuardPreserved == GuardInv /\ [AccountsNext]_accountVars => GuardInv'
<1> SUFFICES ASSUME GuardInv, [AccountsNext]_accountVars PROVE GuardInv'
  OBVIOUS
<1>a. DOMAIN doing = Actors
  BY DEF GuardInv
<1>b. ASSUME NEW a \in Actors, NEW to, Turns(a, to), to # "admitted", UNCHANGED guardVars
      PROVE  GuardInv'
  <2>1. DOMAIN doing' = Actors /\ Admitted' \subseteq Admitted
    BY <1>a, <1>b DEF Turns, Admitted, Actors
  <2> QED BY <1>b, <2>1, GuardKept DEF guardVars
<1>c. ASSUME UNCHANGED <<doing, guardVars>> PROVE GuardInv'
  BY <1>a, <1>c, GuardKept DEF guardVars, Admitted
<1>1. ASSUME NEW b \in Browsers, AdminLoginSubmit(b) PROVE GuardInv'
  BY <1>1, <1>a DEF AdminLoginSubmit, Check, Turns, GuardInv, guardVars
<1>2. ASSUME NEW b \in Browsers, VerifyPassword(b) PROVE GuardInv'
  <2>1. CASE Turns(b, "verified") /\ UNCHANGED guardVars
    BY <1>b, <2>1 DEF Actors
  <2>2. CASE Turns(b, "nothing") /\ CountFailure
    BY <1>2, <2>2, GuardCounts DEF VerifyPassword
  <2> QED BY <1>2, <2>1, <2>2 DEF VerifyPassword
<1>3. ASSUME NEW b \in Browsers, CreateSession(b) PROVE GuardInv'
  BY <1>3, <1>a, GuardForgotten DEF CreateSession, Turns
<1>4. ASSUME NEW b \in Browsers, AdminLogout(b) \/ VisitsExpired(b) PROVE GuardInv'
  BY <1>4, <1>c DEF AdminLogout, VisitsExpired
<1>5. ASSUME NEW b \in Browsers, SettingsCredentials(b) \/ VerifiesCurrent(b)
      PROVE  GuardInv'
  BY <1>5, <1>b DEF SettingsCredentials, VerifiesCurrent, Actors
<1>6. ASSUME NEW k \in Consoles, Passwd(k) PROVE GuardInv'
  BY <1>6, <1>b DEF Passwd, Actors
<1>7. ASSUME NEW a \in Actors, WritesPassword(a) PROVE GuardInv'
  BY <1>7, <1>b DEF WritesPassword
<1>8. ASSUME NEW a \in Actors, DeleteUserSessions(a) PROVE GuardInv'
  BY <1>8, <1>b DEF DeleteUserSessions
<1>9. ASSUME NEW a \in Actors, RequestFails(a) PROVE GuardInv'
  BY <1>9, <1>b DEF RequestFails
<1>10. CASE LockRunsOut
  BY <1>10, <1>a DEF LockRunsOut, GuardInv, Admitted
<1>11. CASE GuardForgets \/ AccountsRestart
  BY <1>11, <1>a, GuardForgotten DEF GuardForgets, AccountsRestart
<1>12. CASE SessionExpires
  BY <1>12, <1>c DEF SessionExpires
<1>13. CASE UNCHANGED accountVars
  BY <1>13, <1>c DEF accountVars
<1> QED
  BY <1>1, <1>2, <1>3, <1>4, <1>5, <1>6, <1>7, <1>8, <1>9, <1>10, <1>11, <1>12, <1>13
  DEF AccountsNext

(* Of a locked account fewer failures are counted than there are browsers, *)
(* whatever the limits and however slow the checks of passwords are.       *)
THEOREM AccountsBoundLateFailures == AccountsSpec => []LateFailuresBounded
<1>1. GuardInv => LateFailuresBounded
  <2> SUFFICES ASSUME GuardInv PROVE LateFailuresBounded
    OBVIOUS
  <2>1. IsFiniteSet(Browsers) /\ IsFiniteSet(Admitted)
    BY AccountConstants, FS_Subset DEF Admitted
  <2>2. /\ Cardinality(Browsers) \in Nat \ {0}
        /\ Cardinality(Admitted) \in Nat
    BY <2>1, AccountConstants, FS_CardinalityType, FS_EmptySet
  <2> QED BY <2>2 DEF GuardInv, LateFailuresBounded
<1> QED BY GuardInitially, GuardPreserved, <1>1, PTL DEF AccountsSpec
-----------------------------------------------------------------------------
(***************************************************************************)
(* Proofs about the DEVICES page, for any records, clients, spellings and  *)
(* addresses.  A row that names a client is filed under that client's      *)
(* address, so two rows of one client would be one; the row of a record    *)
(* that stayed on file is only ever joined by its own client; and a client *)
(* the router listed has a row, marked by the entries of its key alone.    *)
(***************************************************************************)

NormalMACs == (Clients \cup {NoOne}) \X (Malformed \cup {NoOne})
Marks == {"leased", "connected"}
DeviceRows == [id : Nat, client : NormalMACs, leased : BOOLEAN, connected : BOOLEAN]
MacKey(client) == <<"mac", client[1], client[2]>>

OfRecord(d) == [UnknownClient EXCEPT !.id = d, !.client = saved[d]]
Joined(row, mark, c) == [row EXCEPT ![mark] = TRUE, !.client = c]

(* The row of record d is there, under its client's key. *)
Shows(d) ==
    /\ saved[d] # NoMAC
    /\ MacKey(saved[d]) \in DOMAIN listing
    /\ listing[MacKey(saved[d])].id = d
    /\ listing[MacKey(saved[d])].client = saved[d]

(* Rows name the client of their key, and say of it what the router said. *)
ListingInv ==
    \A k \in DOMAIN listing :
        /\ listing[k] \in DeviceRows
        /\ listing[k].client # NoMAC => k = MacKey(listing[k].client)
        /\ \A c \in NormalMACs : k = MacKey(c) => listing[k].client = c
        /\ listing[k].client # NoMAC => \A m \in Marks :
               listing[k][m] <=> listing[k].client \in reported[m]

ReportsInv ==
    /\ reported \in [Marks -> SUBSET (NormalMACs \ {NoMAC})]
    /\ \A m \in Marks : \A c \in reported[m] : MacKey(c) \in DOMAIN listing

DevicesInv ==
    /\ saved \in [DeviceIds -> NormalMACs]
    /\ known \subseteq DeviceIds
    /\ \A d, e \in DeviceIds : saved[d] = saved[e] /\ saved[d] # NoMAC => d = e
    /\ ListingInv
    /\ ReportsInv
    /\ paging # "closed" => \A d \in known : Shows(d)

LEMMA NothingReported ==
    NoneReported \in [Marks -> SUBSET (NormalMACs \ {NoMAC})] /\ \A m \in Marks : NoneReported[m] = {}
<1>1. \A m \in Marks : NoneReported[m] = {}
  BY DEF NoneReported, Marks
<1>2. NoneReported = [m \in Marks |-> {}]
  BY DEF NoneReported, Marks
<1> QED
  BY <1>1, <1>2

LEMMA DevicesInitially == DevicesInit => DevicesInv
<1> SUFFICES ASSUME DevicesInit PROVE DevicesInv
  OBVIOUS
<1>1. NoMAC \in NormalMACs
  BY DEF NoMAC, NormalMACs
<1>2. DOMAIN listing = {}
  BY DEF DevicesInit
<1>3. ListingInv /\ ReportsInv
  BY <1>2, NothingReported DEF DevicesInit, ListingInv, ReportsInv
<1> QED
  BY <1>1, <1>3 DEF DevicesInit, DevicesInv

LEMMA SpelledClients ==
    /\ \A mac \in SpelledMACs : Normalize(mac) \in NormalMACs
    /\ \A mac \in NormalMACs : Normalize(mac) = mac
  BY DEF SpelledMACs, NormalMACs, NoMAC, Normalize

LEMMA KeysNameClients == \A b, c \in NormalMACs : MacKey(b) = MacKey(c) => b = c
  BY DEF NormalMACs, MacKey

LEMMA KeyOfClient ==
    ASSUME NEW mac, NEW address, NEW id, Normalize(mac) \in NormalMACs
    PROVE  /\ Normalize(mac) # NoMAC => RowKey(mac, address, id) = MacKey(Normalize(mac))
           /\ \A c \in NormalMACs : RowKey(mac, address, id) = MacKey(c) => Normalize(mac) = c
<1>1. CASE Normalize(mac) # NoMAC
  BY <1>1, KeysNameClients DEF RowKey, MacKey
<1>2. CASE Normalize(mac) = NoMAC
  <2>1. RowKey(mac, address, id)[1] \in {"ip", "id"}
    BY <1>2 DEF RowKey
  <2>2. \A c : MacKey(c)[1] = "mac"
    BY DEF MacKey
  <2> QED
    BY <1>2, <2>1, <2>2
<1> QED
  BY <1>1, <1>2

LEMMA WritesKeep ==
    ASSUME DevicesInv, NEW d \in DeviceIds, NEW mac, WriteDevice(d, mac),
           Normalize(mac) \in NormalMACs
    PROVE  DevicesInv'
<1>1. /\ saved' \in [DeviceIds -> NormalMACs]
      /\ \A e \in DeviceIds \ {d} : saved'[e] = saved[e]
      /\ saved'[d] = Normalize(mac)
  BY DEF WriteDevice, DevicesInv
<1>2. \A c, e \in DeviceIds : saved'[c] = saved'[e] /\ saved'[c] # NoMAC => c = e
  BY <1>1 DEF WriteDevice, DevicesInv
<1>3. /\ known' \subseteq known
      /\ \A e \in known' : saved'[e] = saved[e]
  BY <1>1 DEF WriteDevice, DevicesInv
<1>4. paging # "closed" => \A e \in known' : Shows(e)'
  BY <1>3 DEF WriteDevice, DevicesInv, Shows
<1>5. ListingInv' /\ ReportsInv'
  BY DEF WriteDevice, DevicesInv, ListingInv, ReportsInv
<1> QED
  BY <1>1, <1>2, <1>3, <1>4, <1>5 DEF WriteDevice, DevicesInv

(* The page starts with one row for each record on file. *)
LEMMA BuildKeeps == ASSUME DevicesInv, BuildDevicesPage PROVE DevicesInv'
<1> DEFINE OfKey(k) == CHOOSE e \in known' : RowKey(saved[e], NoOne, NoOne) = k
<1>1. /\ known' = {d \in DeviceIds : saved[d] # NoMAC} /\ saved' = saved
      /\ paging' = "leases" /\ reported' = NoneReported
      /\ listing' = [k \in {RowKey(saved[d], NoOne, NoOne) : d \in known'} |->
                        OfRecord(OfKey(k))]
  BY DEF BuildDevicesPage, OfRecord
<1>2. \A d \in known' : saved[d] \in NormalMACs /\ saved[d] # NoMAC
  BY <1>1 DEF DevicesInv
<1>3. \A d \in known' : RowKey(saved[d], NoOne, NoOne) = MacKey(saved[d])
  BY <1>2, SpelledClients DEF RowKey, MacKey
<1>4. \A d \in known' : OfKey(MacKey(saved[d])) = d
  <2> SUFFICES ASSUME NEW d \in known' PROVE OfKey(MacKey(saved[d])) = d
    OBVIOUS
  <2>1. \E e \in known' : RowKey(saved[e], NoOne, NoOne) = MacKey(saved[d])
    BY <1>3
  <2>2. /\ OfKey(MacKey(saved[d])) \in known'
        /\ RowKey(saved[OfKey(MacKey(saved[d]))], NoOne, NoOne) = MacKey(saved[d])
    BY <2>1
  <2> HIDE DEF OfKey
  <2>3. saved[OfKey(MacKey(saved[d]))] = saved[d]
    BY <1>2, <1>3, <2>2, KeysNameClients
  <2> QED
    BY <1>1, <2>2, <2>3 DEF DevicesInv
<1> HIDE DEF OfKey
<1>5. \A d \in known' :
          /\ MacKey(saved[d]) \in DOMAIN listing'
          /\ listing'[MacKey(saved[d])] = OfRecord(d)
  BY <1>1, <1>3, <1>4
<1>6. \A k \in DOMAIN listing' : \E d \in known' : k = MacKey(saved[d])
  BY <1>1, <1>3
<1>7. \A d \in known' :
          /\ OfRecord(d) \in DeviceRows
          /\ OfRecord(d).id = d /\ OfRecord(d).client = saved[d]
          /\ \A m \in Marks : OfRecord(d)[m] = FALSE
  <2> SUFFICES ASSUME NEW d \in known'
               PROVE  /\ OfRecord(d) \in DeviceRows
                      /\ OfRecord(d).id = d /\ OfRecord(d).client = saved[d]
                      /\ \A m \in Marks : OfRecord(d)[m] = FALSE
    OBVIOUS
  <2>1. d \in Nat /\ saved[d] \in NormalMACs
    BY <1>1, <1>2, DeviceConstants
  <2>2. UnknownClient \in DeviceRows /\ ~UnknownClient.leased /\ ~UnknownClient.connected
    BY DEF UnknownClient, DeviceRows, NormalMACs, NoMAC
  <2>3. /\ OfRecord(d) \in DeviceRows
        /\ OfRecord(d).id = d /\ OfRecord(d).client = saved[d]
        /\ ~OfRecord(d).leased /\ ~OfRecord(d).connected
    BY <2>1, <2>2 DEF OfRecord, DeviceRows
  <2> QED
    BY <2>3 DEF DeviceRows, Marks
<1>8. \A d \in known' : Shows(d)'
  BY <1>1, <1>2, <1>5, <1>7 DEF Shows
<1>9. ListingInv'
  <2> SUFFICES ASSUME NEW k \in DOMAIN listing'
               PROVE  /\ listing'[k] \in DeviceRows
                      /\ k = MacKey(listing'[k].client)
                      /\ \A c \in NormalMACs : k = MacKey(c) => listing'[k].client = c
                      /\ \A m \in Marks : ~listing'[k][m] /\ reported'[m] = {}
    BY DEF ListingInv
  <2>1. PICK d \in known' : k = MacKey(saved[d])
    BY <1>6
  <2>2. listing'[k] = OfRecord(d)
    BY <1>5, <2>1
  <2>3. \A m \in Marks : ~listing'[k][m] /\ reported'[m] = {}
    BY <1>1, <1>7, <2>2, NothingReported
  <2> QED
    BY <1>2, <1>7, <2>1, <2>2, <2>3, KeysNameClients
<1>10. ReportsInv'
  BY <1>1, NothingReported DEF ReportsInv
<1> QED
  BY <1>1, <1>8, <1>9, <1>10 DEF DevicesInv

(* An entry the router lists joins the row of its own client, or opens it. *)
LEMMA JoinKeeps ==
    ASSUME DevicesInv, NEW entries, \A e \in entries : Normalize(e.mac) \in NormalMACs,
           NEW mark \in Marks,
           Joins(entries, mark), UNCHANGED <<saved, known>>, paging # "closed"
    PROVE  DevicesInv'
<1> DEFINE KeyOf(e) == RowKey(e.mac, e.address, e.id)
           Of(k) == CHOOSE f \in entries : KeyOf(f) = k
           Meets(k) == \E e \in entries : KeyOf(e) = k
<1>1. /\ listing' = [k \in DOMAIN listing \cup {KeyOf(e) : e \in entries} |->
                        IF Meets(k)
                        THEN Joined(Row(k), mark, Normalize(Of(k).mac))
                        ELSE listing[k]]
      /\ reported' = [reported EXCEPT
             ![mark] = (@ \cup {Normalize(e.mac) : e \in entries}) \ {NoMAC}]
  BY DEF Joins, Joined
<1>2. \A k : Meets(k) => Of(k) \in entries /\ KeyOf(Of(k)) = k
  OBVIOUS
<1>3. \A k : Row(k) \in DeviceRows /\ (k \notin DOMAIN listing => \A m \in Marks : ~Row(k)[m])
  BY DEF Row, UnknownClient, DeviceRows, DevicesInv, ListingInv, NormalMACs, NoMAC, Marks
<1>4. \A e \in entries :
          /\ Normalize(e.mac) \in NormalMACs
          /\ Normalize(e.mac) # NoMAC => KeyOf(e) = MacKey(Normalize(e.mac))
          /\ \A c \in NormalMACs : KeyOf(e) = MacKey(c) => Normalize(e.mac) = c
  BY KeyOfClient
<1>5. \A k \in DOMAIN listing' : ~Meets(k) => k \in DOMAIN listing /\ listing'[k] = listing[k]
  BY <1>1
<1>6. \A e \in entries : Meets(KeyOf(e)) /\ KeyOf(e) \in DOMAIN listing'
  BY <1>1
<1>7. DOMAIN listing \subseteq DOMAIN listing'
  BY <1>1
<1>8. /\ reported' \in [Marks -> SUBSET (NormalMACs \ {NoMAC})]
      /\ \A m \in Marks \ {mark} : reported'[m] = reported[m]
      /\ \A c \in NormalMACs \ {NoMAC} :
             c \in reported'[mark] <=> c \in reported[mark] \/ \E e \in entries : Normalize(e.mac) = c
  <2> DEFINE Now == (reported[mark] \cup {Normalize(e.mac) : e \in entries}) \ {NoMAC}
  <2>1. reported \in [Marks -> SUBSET (NormalMACs \ {NoMAC})]
    BY DEF DevicesInv, ReportsInv
  <2>2. reported' = [reported EXCEPT ![mark] = Now]
    BY <1>1
  <2>3. Now \in SUBSET (NormalMACs \ {NoMAC})
    BY <1>4, <2>1
  <2>4. \A c \in NormalMACs \ {NoMAC} :
            c \in Now <=> c \in reported[mark] \/ \E e \in entries : Normalize(e.mac) = c
    OBVIOUS
  <2> HIDE DEF Now
  <2> QED
    BY <2>1, <2>2, <2>3, <2>4
<1> HIDE DEF Of, Meets, KeyOf
<1>9. \A row \in DeviceRows, c \in NormalMACs :
          /\ Joined(row, mark, c) \in DeviceRows
          /\ Joined(row, mark, c).id = row.id /\ Joined(row, mark, c).client = c
          /\ Joined(row, mark, c)[mark] = TRUE
          /\ \A m \in Marks \ {mark} : Joined(row, mark, c)[m] = row[m]
  <2>1. CASE mark = "leased"
    BY <2>1 DEF Joined, DeviceRows, Marks
  <2>2. CASE mark = "connected"
    BY <2>2 DEF Joined, DeviceRows, Marks
  <2> QED
    BY <2>1, <2>2 DEF Marks
<1>10. \A k \in DOMAIN listing' : Meets(k) =>
           /\ listing'[k] \in DeviceRows
           /\ listing'[k].id = Row(k).id
           /\ listing'[k].client = Normalize(Of(k).mac)
           /\ listing'[k][mark] = TRUE
           /\ \A m \in Marks \ {mark} : listing'[k][m] = Row(k)[m]
  <2> SUFFICES ASSUME NEW k \in DOMAIN listing', Meets(k)
               PROVE  /\ listing'[k] \in DeviceRows
                      /\ listing'[k].id = Row(k).id
                      /\ listing'[k].client = Normalize(Of(k).mac)
                      /\ listing'[k][mark] = TRUE
                      /\ \A m \in Marks \ {mark} : listing'[k][m] = Row(k)[m]
    OBVIOUS
  <2>1. listing'[k] = Joined(Row(k), mark, Normalize(Of(k).mac))
    BY <1>1
  <2>2. Normalize(Of(k).mac) \in NormalMACs
    BY <1>2, <1>4
  <2> QED
    BY <1>3, <1>9, <2>1, <2>2
<1>11. ReportsInv'
  <2> SUFFICES ASSUME NEW m \in Marks, NEW c \in reported'[m]
               PROVE  MacKey(c) \in DOMAIN listing'
    BY <1>8 DEF ReportsInv
  <2>1. c \in NormalMACs \ {NoMAC}
    BY <1>8
  <2>2. CASE c \in reported[m]
    BY <1>7, <2>2 DEF DevicesInv, ReportsInv
  <2>3. CASE c \notin reported[m]
    BY <1>4, <1>6, <1>8, <2>1, <2>3
  <2> QED
    BY <2>2, <2>3
<1>12. ListingInv'
  <2> SUFFICES ASSUME NEW k \in DOMAIN listing'
               PROVE  /\ listing'[k] \in DeviceRows
                      /\ listing'[k].client # NoMAC => k = MacKey(listing'[k].client)
                      /\ \A c \in NormalMACs : k = MacKey(c) => listing'[k].client = c
                      /\ listing'[k].client # NoMAC => \A m \in Marks :
                             listing'[k][m] <=> listing'[k].client \in reported'[m]
    BY DEF ListingInv
  <2>1. CASE ~Meets(k)
    <3>1. k \in DOMAIN listing /\ listing'[k] = listing[k]
      BY <1>5, <2>1
    <3>2. ASSUME listing[k].client # NoMAC, NEW m \in Marks
          PROVE  listing'[k][m] <=> listing'[k].client \in reported'[m]
      <4>1. listing[k].client \in NormalMACs \ {NoMAC} /\ k = MacKey(listing[k].client)
        BY <3>1, <3>2 DEF DevicesInv, ListingInv, DeviceRows
      <4>2. ~\E e \in entries : Normalize(e.mac) = listing[k].client
        BY <1>4, <1>6, <2>1, <4>1
      <4>3. listing[k][m] <=> listing[k].client \in reported[m]
        BY <3>1, <3>2 DEF DevicesInv, ListingInv
      <4> QED
        BY <1>8, <3>1, <4>1, <4>2, <4>3
    <3> QED
      BY <3>1, <3>2 DEF DevicesInv, ListingInv
  <2>2. CASE Meets(k)
    <3> DEFINE c == Normalize(Of(k).mac)
    <3>1. Of(k) \in entries /\ KeyOf(Of(k)) = k /\ listing'[k].client = c
      BY <1>2, <1>10, <2>2
    <3>2. ASSUME c # NoMAC, NEW m \in Marks
          PROVE  listing'[k][m] <=> listing'[k].client \in reported'[m]
      <4>1. c \in NormalMACs \ {NoMAC} /\ k = MacKey(c)
        BY <1>4, <3>1, <3>2
      <4>2. CASE m = mark
        BY <1>8, <1>10, <2>2, <3>1, <4>1, <4>2
      <4>3. CASE m # mark
        <5>1. listing'[k][m] = Row(k)[m] /\ reported'[m] = reported[m]
          BY <1>8, <1>10, <2>2, <4>3
        <5>2. CASE k \in DOMAIN listing
          <6>1. Row(k) = listing[k] /\ listing[k].client = c
            BY <4>1, <5>2 DEF Row, DevicesInv, ListingInv
          <6> QED
            BY <3>1, <3>2, <5>1, <5>2, <6>1 DEF DevicesInv, ListingInv
        <5>3. CASE k \notin DOMAIN listing
          <6>1. c \notin reported[m]
            BY <4>1, <5>3 DEF DevicesInv, ReportsInv
          <6>2. ~Row(k)[m]
            BY <1>3, <5>3
          <6> QED
            BY <3>1, <5>1, <6>1, <6>2
        <5> QED
          BY <5>2, <5>3
      <4> QED
        BY <4>2, <4>3
    <3>3. listing'[k] \in DeviceRows
      BY <1>10, <2>2
    <3> QED
      BY <1>4, <3>1, <3>2, <3>3
  <2> QED
    BY <2>1, <2>2
<1>13. ASSUME NEW d \in known PROVE Shows(d)'
  <2>1. Shows(d) /\ saved[d] \in NormalMACs
    BY DEF DevicesInv
  <2>2. CASE Meets(MacKey(saved[d]))
    BY <1>2, <1>4, <1>7, <1>10, <2>1, <2>2 DEF Shows, Row
  <2>3. CASE ~Meets(MacKey(saved[d]))
    BY <1>5, <1>7, <2>1, <2>3 DEF Shows
  <2> QED
    BY <2>2, <2>3
<1> QED
  BY <1>11, <1>12, <1>13 DEF DevicesInv

LEMMA DevicesPreserved == DevicesInv /\ [DevicesNext]_deviceVars => DevicesInv'
<1> SUFFICES ASSUME DevicesInv, [DevicesNext]_deviceVars PROVE DevicesInv'
  OBVIOUS
<1>1. CASE DeviceCreate
  BY <1>1, WritesKeep, SpelledClients DEF DeviceCreate
<1>2. CASE DeviceUpdate
  <2>1. PICK d \in DeviceIds, mac \in SpelledMACs :
            WriteDevice(d, IF Normalize(mac) = NoMAC THEN saved[d] ELSE mac)
    BY <1>2 DEF DeviceUpdate
  <2>2. Normalize(saved[d]) \in NormalMACs
    BY SpelledClients DEF DevicesInv
  <2> QED
    BY <2>1, <2>2, WritesKeep, SpelledClients
<1>3. CASE DeviceDelete
  <2>1. PICK d \in DeviceIds :
            /\ saved' = [saved EXCEPT ![d] = NoMAC] /\ known' = known \ {d}
            /\ UNCHANGED <<paging, listing, reported>>
    BY <1>3 DEF DeviceDelete
  <2>2. /\ saved' \in [DeviceIds -> NormalMACs]
        /\ \A c, e \in DeviceIds : saved'[c] = saved'[e] /\ saved'[c] # NoMAC => c = e
        /\ \A e \in known' : saved'[e] = saved[e]
    BY <2>1 DEF DevicesInv, NormalMACs, NoMAC
  <2>3. paging' # "closed" => \A e \in known' : Shows(e)'
    BY <2>1, <2>2 DEF DevicesInv, Shows
  <2>4. ListingInv' /\ ReportsInv'
    BY <2>1 DEF DevicesInv, ListingInv, ReportsInv
  <2> QED
    BY <2>1, <2>2, <2>3, <2>4 DEF DevicesInv
<1>4. CASE BuildDevicesPage
  BY <1>4, BuildKeeps
<1>5. CASE ReadsLeases
  <2>1. PICK made \in [mac : SpelledMACs, address : Addresses \cup {NoOne}],
             bound \in [mac : SpelledMACs, address : Addresses \cup {NoOne}] :
            LET lease == [mac |-> EffectiveMAC(made.mac, bound.mac),
                          address |-> IF bound.address # NoOne THEN bound.address
                                      ELSE made.address,
                          id |-> NoOne]
            IN  Joins({lease} \cap Addressed, "leased")
    BY <1>5 DEF ReadsLeases
  <2>2. PICK lease : Joins({lease} \cap Addressed, "leased")
    BY <2>1
  <2>3. \A e \in {lease} \cap Addressed : Normalize(e.mac) \in NormalMACs
    BY SpelledClients DEF Addressed
  <2>4. paging # "closed" /\ paging' # "closed" /\ UNCHANGED <<saved, known>>
    BY <1>5 DEF ReadsLeases
  <2> QED
    BY <2>2, <2>3, <2>4, JoinKeeps DEF Marks
<1>6. CASE ReadsActives
  <2>1. \A e \in Entries : Normalize(e.mac) \in NormalMACs
    BY SpelledClients DEF Entries, Addressed, SpelledMACs
  <2>2. PICK entries \in SUBSET Entries : Joins(entries, "connected")
    BY <1>6 DEF ReadsActives
  <2>3. paging # "closed" /\ UNCHANGED <<saved, known>>
    BY <1>6 DEF ReadsActives
  <2> QED
    BY <2>1, <2>2, <2>3, JoinKeeps DEF Marks
<1>7. CASE CannotDial
  BY <1>7 DEF CannotDial, DevicesInv, ListingInv, ReportsInv, Shows
<1>8. CASE ClosesPage
  <2>1. DOMAIN listing' = {}
    BY <1>8 DEF ClosesPage
  <2>2. ListingInv' /\ ReportsInv'
    BY <1>8, <2>1, NothingReported DEF ClosesPage, ListingInv, ReportsInv
  <2> QED
    BY <1>8, <2>2 DEF ClosesPage, DevicesInv
<1>9. CASE UNCHANGED deviceVars
  BY <1>9 DEF deviceVars, DevicesInv, ListingInv, ReportsInv, Shows
<1> QED
  BY <1>1, <1>2, <1>3, <1>4, <1>5, <1>6, <1>7, <1>8, <1>9 DEF DevicesNext

(* Whatever is saved, removed or reported while the page is put together,  *)
(* no client has two rows; a client that stayed on file has one, under its *)
(* record's id; and a client's row says that it has a lease, or a session, *)
(* just when the router listed one for it, in whichever spelling.          *)
THEOREM DevicesListClientsOnce == DevicesSpec => []ClientsListedOnce
<1>1. DevicesInv => ClientsListedOnce
  <2> SUFFICES ASSUME DevicesInv PROVE ClientsListedOnce
    OBVIOUS
  <2>1. \A m \in Marks : \A c \in reported[m] :
            \E k \in DOMAIN listing : listing[k].client = c
    BY DEF DevicesInv, ListingInv, ReportsInv
  <2> QED
    BY <2>1 DEF DevicesInv, ListingInv, ClientsListedOnce, Shows, Marks
<1> QED
  BY <1>1, DevicesInitially, DevicesPreserved, PTL DEF DevicesSpec
-----------------------------------------------------------------------------
(***************************************************************************)
(* Proofs about the Network section's pages, for any number of operators,  *)
(* objects, names and attempts, whichever properties the device does not   *)
(* know.  What was dropped from a command is unknown to the device, and    *)
(* once a copy is executed nothing is dropped any more; an object that was *)
(* born is deleted once, and never comes back.                             *)
(***************************************************************************)

Writing(r) == request[r].op \in {"create", "update", "toggle"}
InHand(r) == dialog[r] \in {"dialling", "commanding"}

PageRequests ==
    [op : {"none", "create", "update", "toggle", "delete"}, id : Ids \cup {NoId},
     name : Names \cup {"none"}, sent : SUBSET Properties]

(* The command under way carries all that was sent but what was dropped. *)
CommandInv(r) ==
    /\ args[r] \subseteq request[r].sent
    /\ request[r].sent \ args[r] \subseteq unknown
    /\ Writing(r) => args[r] # {}
    /\ copies[r] = 0 => wrote[r] = {}
    /\ copies[r] > 0 => wrote[r] = args[r] /\ args[r] \cap unknown = {}
    /\ copies[r] > 0 /\ request[r].op = "delete" => objects[request[r].id] = "deleted"

(* What a refusal says of the object. *)
AnswerInv(r) ==
    /\ answer[r] = "unknown parameter" => args[r] \cap unknown # {}
    /\ answer[r] = "not found" /\ request[r].op = "delete" =>
           objects[request[r].id] = "deleted"
    /\ answer[r] \notin {"none", "not found"} /\ request[r].op = "delete" => r \in there

PageInv(r) ==
    /\ flash[r] = "ok" => dialog[r] = "away"
    /\ flash[r] = "ok" /\ Writing(r) => copies[r] > 0
    /\ dialog[r] # "commanding" => answer[r] = "none"
    /\ InHand(r) => request[r].op # "none"
    /\ Writing(r) /\ InHand(r) => request[r].sent # {}
    /\ request[r].op = "delete" => request[r].id # NoId /\ request[r].sent = {}
    /\ request[r].op \in {"create", "update"} => request[r].name \in Names
    /\ request[r].id # NoId => objects[request[r].id] # "unborn"
    /\ CommandOut(r) => CommandInv(r)
    /\ AnswerInv(r)

PagesTyped ==
    /\ objects \in [Ids -> Names \cup {"unborn", "deleted"}]
    /\ copies \in [Requests -> Nat]
    /\ request \in [Requests -> PageRequests]
    /\ DOMAIN dialog = Requests /\ DOMAIN args = Requests /\ DOMAIN answer = Requests
    /\ DOMAIN wrote = Requests /\ DOMAIN flash = Requests

PagesInv == PagesTyped /\ \A r \in Requests : PageInv(r)

LEMMA PagesInitially == PagesInit => PagesInv
<1> SUFFICES ASSUME PagesInit PROVE PagesInv
  OBVIOUS
<1>1. NoRequest \in PageRequests /\ NoRequest.op = "none" /\ NoRequest.id = NoId
  BY DEF NoRequest, PageRequests
<1>2. /\ objects = [i \in Ids |-> "unborn"] /\ copies = [r \in Requests |-> 0]
      /\ request = [r \in Requests |-> NoRequest] /\ dialog = [r \in Requests |-> "away"]
      /\ args = [r \in Requests |-> {}] /\ wrote = [r \in Requests |-> {}]
      /\ flash = [r \in Requests |-> "none"] /\ answer = [r \in Requests |-> "none"]
  BY DEF PagesInit, DeliveryInit
<1>3. PagesTyped
  BY <1>1, <1>2 DEF PagesTyped
<1>4. \A r \in Requests : PageInv(r)
  BY <1>1, <1>2 DEF PageInv, AnswerInv, CommandOut, Writing, InHand
<1> QED
  BY <1>3, <1>4 DEF PagesInv

(* No object is unborn again, and none that is deleted comes back. *)
Grow ==
    \A i \in Ids : /\ objects[i] # "unborn" => objects'[i] # "unborn"
                   /\ objects[i] = "deleted" => objects'[i] = "deleted"

(* What the router does for one operator, another's request does not see. *)
LEMMA OthersKept ==
    ASSUME PagesInv, NEW q \in Requests, UNCHANGED unknown, Grow,
           dialog'[q] = dialog[q], request'[q] = request[q], args'[q] = args[q],
           wrote'[q] = wrote[q], flash'[q] = flash[q], copies'[q] = copies[q],
           answer'[q] = answer[q], q \in there => q \in there'
    PROVE  PageInv(q)'
<1>1. PageInv(q) /\ request[q] \in PageRequests
  BY DEF PagesInv, PagesTyped
<1>2. request[q].id \in Ids \cup {NoId}
  BY <1>1 DEF PageRequests
<1> QED
  BY <1>1, <1>2 DEF PageInv, CommandInv, AnswerInv, CommandOut, Writing, InHand, Grow

(* Every form an operator can save sends something. *)
LEMMA FormsSend ==
    ASSUME NEW op \in {"create", "update"}, menu \in DOMAIN FormOf,
           menu \in {"pool", "vlan"} => op = "create",
           NEW filled \in SUBSET FormOf[menu].optional, Needed(op) \subseteq filled
    PROVE  Sent(filled) # {} /\ Sent(filled) \subseteq Properties
<1> DEFINE form == FormOf[menu]
<1>1. /\ form.optional \subseteq Properties /\ form.always \subseteq Properties
      /\ form.required # {}
      /\ menu \notin {"pool", "vlan"} => form.always # {}
  <2>1. DOMAIN FormOf = {"server", "serverprofile", "userprofile", "garden", "gardenip",
                         "pool", "vlan"}
    BY DEF FormOf
  <2> USE DEF FormOf, Editor, Properties
  <2>2. CASE menu = "server"
    BY <2>2 DEF HotspotServerForm, HotspotServerArgs
  <2>3. CASE menu = "serverprofile"
    BY <2>3 DEF ServerProfileForm, HotspotServerProfileArgs
  <2>4. CASE menu = "userprofile"
    BY <2>4 DEF UserProfileForm, HotspotUserProfileArgs
  <2>5. CASE menu = "garden"
    BY <2>5 DEF WalledGardenForm, WalledGardenArgs
  <2>6. CASE menu = "gardenip"
    BY <2>6 DEF WalledGardenIPForm, WalledGardenIPArgs
  <2>7. CASE menu = "pool"
    BY <2>7 DEF IPPoolForm, AddIPPoolArgs
  <2>8. CASE menu = "vlan"
    BY <2>8 DEF VLANForm, AddInterfaceVLANArgs
  <2> QED
    BY <2>1, <2>2, <2>3, <2>4, <2>5, <2>6, <2>7, <2>8
<1> HIDE DEF form
<1>2. Needed(op) = IF op = "create" \/ menu \in Gardens THEN form.required ELSE {}
  BY DEF Needed, form
<1>3. Sent(filled) = filled \cup form.always /\ filled \subseteq form.optional
  BY DEF Sent, form
<1> QED
  BY <1>1, <1>2, <1>3

(* A submitted form names an object that was there when it was opened. *)
LEMMA SubmitKeeps ==
    ASSUME PagesInv, NEW r \in Requests, NEW op \in {"create", "update", "toggle", "delete"},
           NEW n \in Names \cup {"none"}, NEW sent \in SUBSET Properties,
           Submit(r, op, n, sent),
           op = "delete" => request[r].id # NoId /\ sent = {},
           op \in {"create", "update"} => n \in Names,
           op # "delete" => sent # {}
    PROVE  PagesInv'
<1>1. request[r] \in PageRequests /\ PageInv(r)
  BY DEF PagesInv, PagesTyped
<1> DEFINE new == [request[r] EXCEPT !.op = op, !.name = n, !.sent = sent]
<1>2. /\ new \in PageRequests
      /\ new.op = op /\ new.sent = sent /\ new.id = request[r].id /\ new.name = n
  BY <1>1 DEF PageRequests
<1>3. request' = [request EXCEPT ![r] = new]
  BY DEF Submit, PagesInv, PagesTyped
<1> HIDE DEF new
<1>4. PagesTyped'
  <2>1. /\ objects' = objects /\ copies' = copies /\ args' = args /\ wrote' = wrote
        /\ answer' = answer
        /\ DOMAIN dialog' = DOMAIN dialog /\ DOMAIN flash' = DOMAIN flash
    BY DEF Submit, deliveryVars
  <2>2. request' \in [Requests -> PageRequests]
    BY <1>2, <1>3 DEF PagesInv, PagesTyped
  <2> QED
    BY <2>1, <2>2 DEF PagesInv, PagesTyped
<1>5. /\ request'[r] = new /\ dialog'[r] = "dialling" /\ flash'[r] = "none" /\ objects' = objects
      /\ answer'[r] = "none"
  BY <1>1, <1>3 DEF Submit, PagesInv, PagesTyped, PageInv
<1>6. PageInv(r)'
  BY <1>1, <1>2, <1>5 DEF PageInv, AnswerInv, CommandOut, Writing
<1>7. ASSUME NEW q \in Requests \ {r} PROVE PageInv(q)'
  BY <1>3, OthersKept DEF Submit, PagesInv, PagesTyped, deliveryVars, Grow
<1> QED
  BY <1>4, <1>6, <1>7 DEF PagesInv

LEMMA SaveKeeps ==
    ASSUME PagesInv, NEW r \in Requests, NEW op \in {"create", "update"},
           menu \in DOMAIN FormOf, menu \in {"pool", "vlan"} => op = "create", Save(r, op)
    PROVE  PagesInv'
<1>1. PICK filled \in SUBSET FormOf[menu].optional, n \in Names :
          Needed(op) \subseteq filled /\ Submit(r, op, n, Sent(filled))
  BY DEF Save, Valid
<1>2. Sent(filled) # {} /\ Sent(filled) \subseteq Properties
  BY <1>1, FormsSend
<1> QED
  BY <1>1, <1>2, SubmitKeeps

(* What the pages of the Network section do with an open dialog. *)
PageSubmits(r) ==
    \/ HotspotServerPage(r) \/ ServerProfilePage(r) \/ UserProfilePage(r)
    \/ WalledGardenPage(r) \/ WalledGardenIPPage(r) \/ IPPoolCreate(r) \/ VLANCreate(r)

LEMMA SubmitsKeep == ASSUME PagesInv, NEW r \in Requests, PageSubmits(r) PROVE PagesInv'
<1>1. menu \in DOMAIN FormOf
  BY DEF PageSubmits, HotspotServerPage, ServerProfilePage, UserProfilePage,
         WalledGardenPage, WalledGardenIPPage, IPPoolCreate, VLANCreate, FormOf
<1>2. Create(r) \/ (menu \notin {"pool", "vlan"} /\ (Update(r) \/ Toggle(r) \/ Delete(r)))
  BY DEF PageSubmits, HotspotServerPage, ServerProfilePage, UserProfilePage,
         WalledGardenPage, WalledGardenIPPage, IPPoolCreate, VLANCreate
<1>3. CASE Create(r)
  BY <1>1, <1>3, SaveKeeps DEF Create
<1>4. CASE menu \notin {"pool", "vlan"} /\ Update(r)
  BY <1>1, <1>4, SaveKeeps DEF Update
<1>5. CASE Toggle(r)
  BY <1>5, SubmitKeeps DEF Toggle, Properties
<1>6. CASE Delete(r)
  BY <1>6, SubmitKeeps DEF Delete
<1> QED
  BY <1>2, <1>3, <1>4, <1>5, <1>6

(* How a step that ends or opens a dialog leaves the requests: one of them *)
(* is put back, or asks for nothing but the row that was opened.           *)
LEMMA RequestKept ==
    ASSUME PagesInv, NEW r \in Requests, NEW i \in Live \cup {NoId},
           request' = [request EXCEPT ![r] = [NoRequest EXCEPT !.id = i]]
    PROVE  /\ request' \in [Requests -> PageRequests]
           /\ request'[r].op = "none" /\ request'[r].id = i
           /\ i # NoId => objects[i] # "unborn"
<1>1. LET new == [NoRequest EXCEPT !.id = i]
      IN  new \in PageRequests /\ new.op = "none" /\ new.id = i
  BY DEF NoRequest, PageRequests, Live
<1> QED
  BY <1>1, PagesConstants DEF PagesInv, PagesTyped, Live

LEMMA ReportKeeps ==
    ASSUME PagesInv, NEW r \in Requests, NEW outcome, Report(r, outcome),
           dialog[r] = "commanding", UNCHANGED copies,
           outcome = "ok" /\ Writing(r) => copies[r] > 0
    PROVE  PagesInv'
<1>1. CommandInv(r) => CommandInv(r)'
  BY DEF Report, CommandInv, Writing
<1>2. PageInv(r)
  BY DEF PagesInv
<1>3. PagesTyped'
  BY DEF Report, PagesInv, PagesTyped
<1>4. dialog'[r] = "away" /\ flash'[r] = outcome /\ answer'[r] = "none"
      /\ request' = request /\ objects' = objects
  BY DEF Report, PagesInv, PagesTyped
<1>5. CommandOut(r)' => CommandOut(r)
  BY <1>4 DEF CommandOut
<1>6. PageInv(r)'
  BY <1>1, <1>2, <1>4, <1>5 DEF PageInv, AnswerInv, Writing, InHand
<1>7. ASSUME NEW q \in Requests \ {r} PROVE PageInv(q)'
  BY OthersKept DEF Report, PagesInv, PagesTyped, Grow
<1> QED
  BY <1>3, <1>6, <1>7 DEF PagesInv

(* A copy the router executes writes all the command carries; one object   *)
(* is born, is renamed, is deleted, or none is touched.                    *)
LEMMA AppliesKeep == ASSUME PagesInv, NEW r \in Requests, RouterApplies(r) PROVE PagesInv'
<1>1. /\ request[r] \in PageRequests /\ PageInv(r) /\ CommandOut(r)
      /\ copies[r] \in Nat /\ CommandInv(r)
  BY DEF RouterApplies, PagesInv, PagesTyped, PageInv
<1>2. /\ args[r] \cap unknown = {}
      /\ request[r].op # "create" => request[r].id \in Live
  BY DEF RouterApplies, Reasons
<1>3. /\ objects' \in [Ids -> Names \cup {"unborn", "deleted"}] /\ Grow
      /\ request[r].op = "delete" => objects'[request[r].id] = "deleted"
  <2>1. CASE request[r].op = "create"
    <3>1. PICK i \in Ids : /\ objects[i] = "unborn"
                           /\ objects' = [objects EXCEPT ![i] = request[r].name]
      BY <2>1 DEF RouterApplies
    <3>2. request[r].name \in Names
      BY <1>1, <2>1 DEF PageInv
    <3> QED
      BY <2>1, <3>1, <3>2, PagesConstants DEF Grow, PagesInv, PagesTyped
  <2>2. CASE request[r].op = "delete"
    <3>1. objects' = [objects EXCEPT ![request[r].id] = "deleted"] /\ request[r].id \in Ids
      BY <1>2, <2>2 DEF RouterApplies, Live
    <3> QED
      BY <3>1 DEF Grow, PagesInv, PagesTyped
  <2>3. CASE request[r].op = "update" /\ "name" \in args[r]
    <3>1. /\ objects' = [objects EXCEPT ![request[r].id] = request[r].name]
          /\ request[r].id \in Ids /\ objects[request[r].id] \in Names
      BY <1>2, <2>3 DEF RouterApplies, Live
    <3>2. request[r].name \in Names
      BY <1>1, <2>3 DEF PageInv
    <3> QED
      BY <2>3, <3>1, <3>2, PagesConstants DEF Grow, PagesInv, PagesTyped
  <2>4. CASE request[r].op # "create" /\ request[r].op # "delete"
             /\ ~(request[r].op = "update" /\ "name" \in args[r])
    <3>1. objects' = objects
      BY <2>4 DEF RouterApplies
    <3> QED
      BY <2>4, <3>1 DEF Grow, PagesInv, PagesTyped
  <2> QED
    BY <2>1, <2>2, <2>3, <2>4
<1>4. /\ copies' \in [Requests -> Nat] /\ copies'[r] > 0
      /\ wrote'[r] = args[r] /\ DOMAIN wrote' = Requests
      /\ \A q \in Requests \ {r} : copies'[q] = copies[q] /\ wrote'[q] = wrote[q]
  <2>1. copies' = [copies EXCEPT ![r] = copies[r] + 1]
    BY DEF RouterApplies, Execute
  <2>2. wrote' = [wrote EXCEPT ![r] = wrote[r] \cup args[r]]
    BY DEF RouterApplies
  <2>3. wrote[r] \cup args[r] = args[r]
    BY <1>1 DEF CommandInv
  <2> QED
    BY <1>1, <2>1, <2>2, <2>3 DEF PagesInv, PagesTyped
<1>5. UNCHANGED <<unknown, dialog, request, args, answer, there, flash>>
  BY DEF RouterApplies
<1>6. PagesTyped'
  BY <1>3, <1>4, <1>5 DEF PagesInv, PagesTyped
<1>7. PageInv(r)'
  <2>1. CommandInv(r)'
    BY <1>1, <1>2, <1>3, <1>4, <1>5 DEF CommandInv, Writing
  <2>2. request[r].id # NoId => objects'[request[r].id] # "unborn"
    BY <1>1, <1>3 DEF PageInv, Grow, PageRequests
  <2>3. AnswerInv(r)'
    BY <1>1, <1>3, <1>5 DEF PageInv, AnswerInv, Grow, PageRequests
  <2> QED
    BY <1>1, <1>4, <1>5, <2>1, <2>2, <2>3 DEF PageInv, Writing, InHand
<1>8. ASSUME NEW q \in Requests \ {r} PROVE PageInv(q)'
  BY <1>3, <1>4, <1>5, OthersKept
<1> QED
  BY <1>6, <1>7, <1>8 DEF PagesInv

(* A step that writes only the dialog, the command and the flash of one    *)
(* operator, or nothing at all.                                            *)
LEMMA OwnStepKeeps ==
    ASSUME PagesInv, NEW r \in Requests, PageInv(r)', UNCHANGED <<unknown, objects>>,
           copies' \in [Requests -> Nat], request' \in [Requests -> PageRequests],
           DOMAIN dialog' = Requests, DOMAIN args' = Requests, DOMAIN answer' = Requests,
           DOMAIN wrote' = Requests, DOMAIN flash' = Requests,
           \A q \in Requests \ {r} :
               /\ q \in there => q \in there'
               /\ answer'[q] = answer[q]
               /\ dialog'[q] = dialog[q] /\ request'[q] = request[q] /\ args'[q] = args[q]
               /\ wrote'[q] = wrote[q] /\ flash'[q] = flash[q] /\ copies'[q] = copies[q]
    PROVE  PagesInv'
<1>1. PagesTyped'
  BY DEF PagesInv, PagesTyped
<1>2. ASSUME NEW q \in Requests \ {r} PROVE PageInv(q)'
  BY OthersKept DEF Grow
<1> QED
  BY <1>1, <1>2 DEF PagesInv

(* A refusal finds the object there, or gone for good. *)
LEMMA RefusalKeeps == ASSUME PagesInv, NEW r \in Requests, RouterRefuses(r) PROVE PagesInv'
<1>1. /\ PageInv(r) /\ request[r] \in PageRequests /\ dialog[r] = "commanding"
      /\ objects \in [Ids -> Names \cup {"unborn", "deleted"}] /\ CommandInv(r)
  BY DEF RouterRefuses, PagesInv, PagesTyped, PageInv, CommandOut, InHand
<1>2. PICK why \in IF Reasons(r) = {} THEN OtherReasons(r) ELSE Reasons(r) :
          answer' = [answer EXCEPT ![r] = why]
  BY DEF RouterRefuses
<1>3. UNCHANGED <<unknown, objects, dialog, request, args, wrote, flash, copies>>
  BY DEF RouterRefuses, deliveryVars
<1>4. why \in {"unknown parameter", "conflict", "not found", "other", "interface"}
  BY <1>2 DEF Reasons, OtherReasons
<1>5. why = "unknown parameter" => args[r] \cap unknown # {}
  BY <1>2 DEF Reasons, OtherReasons
<1>6. why = "not found" => request[r].id \notin Live /\ request[r].op # "create"
  BY <1>2 DEF Reasons, OtherReasons
<1>7. request[r].op = "delete" /\ why # "not found" => request[r].id \in Live
  <2>1. request[r].op = "delete" => args[r] = {}
    BY <1>1 DEF PageInv, CommandInv
  <2> QED
    BY <1>2, <2>1 DEF Reasons, OtherReasons, GivesName
<1>8. AnswerInv(r)'
  <2>1. answer'[r] = why
    BY <1>2 DEF PagesInv, PagesTyped
  <2>2. why = "not found" /\ request[r].op = "delete" => objects[request[r].id] = "deleted"
    BY <1>1, <1>6 DEF PageInv, PageRequests, Live
  <2>3. request[r].op = "delete" /\ why # "not found" => r \in there'
    BY <1>7 DEF RouterRefuses
  <2> QED
    BY <1>3, <1>4, <1>5, <2>1, <2>2, <2>3 DEF AnswerInv
<1>9. PageInv(r)'
  BY <1>1, <1>3, <1>8 DEF PageInv, CommandInv, CommandOut, Writing, InHand
<1> QED
  BY <1>2, <1>3, <1>9, OwnStepKeeps DEF RouterRefuses, PagesInv, PagesTyped

LEMMA PagesPreserved == PagesInv /\ [PagesNext]_pagesVars => PagesInv'
<1> SUFFICES ASSUME PagesInv, [PagesNext]_pagesVars PROVE PagesInv'
  OBVIOUS
<1>0. ASSUME NEW r \in Requests PROVE PageInv(r) /\ request[r] \in PageRequests
  BY DEF PagesInv, PagesTyped
<1>1. ASSUME NEW r \in Requests, NetworkDetail(r) PROVE PagesInv'
  <2>1. PICK i \in Live \cup {NoId} :
            request' = [request EXCEPT ![r] = [NoRequest EXCEPT !.id = i]]
    BY <1>1 DEF NetworkDetail, Editable
  <2>2. /\ request' \in [Requests -> PageRequests]
        /\ request'[r].op = "none" /\ request'[r].id = i
        /\ i # NoId => objects[i] # "unborn"
    BY <2>1, RequestKept
  <2>3. /\ dialog' = [dialog EXCEPT ![r] = "editing"] /\ flash' = [flash EXCEPT ![r] = "none"]
        /\ args' = [args EXCEPT ![r] = {}] /\ wrote' = [wrote EXCEPT ![r] = {}]
        /\ there' = there \ {r} /\ answer[r] = "none"
        /\ UNCHANGED <<unknown, objects, answer, copies>>
    BY <1>0, <1>1 DEF NetworkDetail, deliveryVars, PageInv
  <2>4. PageInv(r)'
    BY <2>2, <2>3 DEF PageInv, AnswerInv, CommandOut, Writing, InHand, PagesInv, PagesTyped
  <2> QED
    BY <2>1, <2>2, <2>3, <2>4, OwnStepKeeps DEF PagesInv, PagesTyped
<1>2. ASSUME NEW r \in Requests, PageSubmits(r) PROVE PagesInv'
  BY <1>2, SubmitsKeep
<1>3. ASSUME NEW r \in Requests, CannotReach(r) PROVE PagesInv'
  <2>1. NoRequest \in PageRequests /\ NoRequest.op = "none" /\ NoRequest.id = NoId
    BY DEF NoRequest, PageRequests
  <2>2. /\ dialog' = [dialog EXCEPT ![r] = "away"]
        /\ flash' = [flash EXCEPT ![r] = "unreachable"]
        /\ request' = [request EXCEPT ![r] = NoRequest]
        /\ answer[r] = "none"
        /\ UNCHANGED <<unknown, objects, args, answer, there, wrote, copies>>
    BY <1>0, <1>3 DEF CannotReach, deliveryVars, PageInv
  <2>3. PageInv(r)'
    BY <2>1, <2>2 DEF PageInv, AnswerInv, CommandOut, Writing, InHand, PagesInv, PagesTyped
  <2> QED
    BY <2>1, <2>2, <2>3, OwnStepKeeps DEF PagesInv, PagesTyped
<1>4. ASSUME NEW r \in Requests, NetworkDevice(r) PROVE PagesInv'
  <2>1. /\ dialog' = [dialog EXCEPT ![r] = "commanding"]
        /\ args' = [args EXCEPT ![r] = request[r].sent]
        /\ wrote' = [wrote EXCEPT ![r] = {}]
        /\ copies' = [copies EXCEPT ![r] = 0]
        /\ there' = there \ {r} /\ answer[r] = "none"
        /\ UNCHANGED <<unknown, objects, request, answer, flash>>
        /\ dialog[r] = "dialling"
    BY <1>0, <1>4 DEF NetworkDevice, Issue, PageInv
  <2>2. PageInv(r)'
    <3>1. /\ dialog'[r] = "commanding" /\ args'[r] = request[r].sent
          /\ wrote'[r] = {} /\ copies'[r] = 0
      BY <2>1 DEF PagesInv, PagesTyped
    <3>2. Writing(r) => request[r].sent # {}
      BY <1>0, <2>1 DEF PageInv, InHand
    <3>3. CommandInv(r)'
      BY <2>1, <3>1, <3>2 DEF CommandInv, Writing
    <3>4. flash[r] # "ok"
      BY <1>0, <2>1 DEF PageInv
    <3> QED
      BY <1>0, <2>1, <3>1, <3>3, <3>4 DEF PageInv, AnswerInv, Writing, InHand
  <2> QED
    BY <2>1, <2>2, OwnStepKeeps DEF PagesInv, PagesTyped
<1>5. ASSUME NEW r \in Requests, RouterApplies(r) PROVE PagesInv'
  BY <1>5, AppliesKeep
<1>6. ASSUME NEW r \in Requests, Applied(r) PROVE PagesInv'
  <2>1. dialog[r] = "commanding" /\ copies[r] > 0 /\ UNCHANGED copies /\ Report(r, "ok")
    BY <1>6 DEF Applied, Succeed
  <2> QED
    BY <2>1, ReportKeeps
<1>7. ASSUME NEW r \in Requests, DropsParameter(r) PROVE PagesInv'
  <2>1. PICK p \in args[r] \cap unknown :
            args[r] # {p} /\ args' = [args EXCEPT ![r] = args[r] \ {p}]
    BY <1>7 DEF DropsParameter
  <2>2. /\ UNCHANGED <<unknown, objects, dialog, request, there, wrote, flash, copies>>
        /\ answer' = [answer EXCEPT ![r] = "none"]
        /\ dialog[r] = "commanding" /\ Writing(r)
    <3>1. request[r].op # "delete" /\ request[r].op # "none"
      BY <1>0, <1>7, <2>1 DEF DropsParameter, PageInv, CommandInv, CommandOut, InHand
    <3> QED
      BY <1>0, <1>7, <3>1 DEF DropsParameter, deliveryVars, PageRequests, Writing
  <2>3. CommandInv(r) /\ args'[r] = args[r] \ {p} /\ answer'[r] = "none"
    BY <1>0, <2>1, <2>2 DEF PageInv, CommandOut, Writing, PagesInv, PagesTyped
  <2>4. CommandInv(r)'
    BY <2>1, <2>2, <2>3 DEF CommandInv, Writing
  <2>5. PageInv(r)'
    BY <1>0, <2>2, <2>3, <2>4 DEF PageInv, AnswerInv, Writing, InHand
  <2> QED
    BY <2>1, <2>2, <2>5, OwnStepKeeps DEF PagesInv, PagesTyped
<1>8. ASSUME NEW r \in Requests, AlreadyGone(r) PROVE PagesInv'
  BY <1>8, ReportKeeps DEF AlreadyGone, Fail, Writing
<1>9. ASSUME NEW r \in Requests, Declined(r) \/ Unreported(r) PROVE PagesInv'
  BY <1>9, ReportKeeps DEF Declined, Unreported, Fail
<1>10. ASSUME NEW r \in Requests, ExplainInterfaceRefusal(r) PROVE PagesInv'
  <2>1. /\ dialog' = [dialog EXCEPT ![r] = "editing"]
        /\ flash' = [flash EXCEPT ![r] = "refused"]
        /\ answer' = [answer EXCEPT ![r] = "none"]
        /\ dialog[r] = "commanding"
        /\ UNCHANGED <<unknown, objects, request, args, there, wrote, copies>>
    BY <1>10 DEF ExplainInterfaceRefusal, Fail
  <2>2. CommandOut(r)' => CommandOut(r)
    BY <2>1 DEF CommandOut
  <2>3. CommandInv(r) => CommandInv(r)'
    BY <2>1 DEF CommandInv, Writing
  <2>4. PageInv(r)'
    BY <1>0, <2>1, <2>2, <2>3 DEF PageInv, AnswerInv, Writing, InHand, PagesInv, PagesTyped
  <2> QED
    BY <2>1, <2>4, OwnStepKeeps DEF PagesInv, PagesTyped
<1>12. ASSUME NEW r \in Requests, RouterRefuses(r) PROVE PagesInv'
  BY <1>12, RefusalKeeps
<1>11. CASE UNCHANGED pagesVars
  <2>1. UNCHANGED <<unknown, objects, dialog, request, args, answer, there, wrote, flash, copies>>
    BY <1>11 DEF pagesVars, pageVars, deliveryVars
  <2>2. PagesTyped'
    BY <2>1 DEF PagesInv, PagesTyped
  <2> QED
    BY <2>1, <2>2, OthersKept DEF PagesInv, Grow
<1> QED
  BY <1>1, <1>2, <1>3, <1>4, <1>5, <1>6, <1>7, <1>8, <1>9, <1>10, <1>11, <1>12
  DEF PagesNext, PageSubmits

(* A page that reports a write done has written every property this build  *)
(* knows, and at least one, whichever properties the device does not know  *)
(* and however often the command was executed.                             *)
THEOREM PagesWriteWhatTheyReport == PagesSpec => []DoneMeansWritten
<1>1. PagesInv => DoneMeansWritten
  BY DEF PagesInv, PageInv, CommandInv, CommandOut, DoneMeansWritten, Writing
<1> QED
  BY <1>1, PagesInitially, PagesPreserved, PTL DEF PagesSpec

(* Why a page that deletes says what it says: a copy was executed, or the  *)
(* router said that the object is gone, or that it is not.                 *)
LEMMA DeletesTell ==
    ASSUME PagesInv, [PagesNext]_pagesVars, NEW r \in Requests,
           flash[r] = "none", request[r].op = "delete"
    PROVE  /\ flash'[r] = "ok" => request[r].id \notin Live'
           /\ flash'[r] = "refused" => r \in there
<1> DEFINE Said(f) == /\ f = "ok" => request[r].id \notin Live'
                      /\ f = "refused" => r \in there
<1> SUFFICES Said(flash'[r])
  OBVIOUS
<1>1. /\ PageInv(r) /\ DOMAIN flash = Requests /\ AnswerInv(r)
      /\ dialog[r] = "commanding" => CommandInv(r)
  BY DEF PagesInv, PagesTyped, PageInv, InHand, CommandOut
<1>3. ASSUME NEW q \in Requests, NetworkDetail(q) \/ CannotReach(q) \/ NetworkDevice(q)
      PROVE  Said(flash'[r])
  BY <1>1, <1>3 DEF NetworkDetail, CannotReach, NetworkDevice
<1>4. ASSUME NEW q \in Requests, PageSubmits(q) PROVE Said(flash'[r])
  <2>1. \E op, n, sent : Submit(q, op, n, sent)
    BY <1>4 DEF PageSubmits, HotspotServerPage, ServerProfilePage, UserProfilePage,
                WalledGardenPage, WalledGardenIPPage, IPPoolCreate, VLANCreate,
                Create, Update, Toggle, Delete, Save
  <2> QED
    BY <1>1, <2>1 DEF Submit
<1>5. ASSUME NEW q \in Requests,
             RouterApplies(q) \/ RouterRefuses(q) \/ DropsParameter(q)
      PROVE  Said(flash'[r])
  BY <1>5 DEF RouterApplies, RouterRefuses, DropsParameter
<1>6. ASSUME NEW q \in Requests, NEW outcome, Report(q, outcome),
             q = r => Said(outcome)
      PROVE  Said(flash'[r])
  <2>1. flash' = [flash EXCEPT ![q] = outcome]
    BY <1>6 DEF Report
  <2> QED
    BY <1>1, <1>6, <2>1
<1>7. ASSUME NEW q \in Requests, Applied(q) PROVE Said(flash'[r])
  <2>1. dialog[q] = "commanding" /\ copies[q] > 0 /\ Report(q, "ok") /\ objects' = objects
    BY <1>7 DEF Applied, Succeed, Report
  <2>2. q = r => request[r].id \notin Live'
    BY <1>1, <2>1, PagesConstants DEF CommandInv, Live
  <2> QED
    BY <1>6, <2>1, <2>2
<1>8. ASSUME NEW q \in Requests, AlreadyGone(q) PROVE Said(flash'[r])
  <2>1. Report(q, "ok") /\ answer[q] = "not found" /\ objects' = objects
    BY <1>8 DEF AlreadyGone, Report
  <2>2. q = r => request[r].id \notin Live'
    BY <1>1, <2>1, PagesConstants DEF AnswerInv, Live
  <2> QED
    BY <1>6, <2>1, <2>2
<1>9. ASSUME NEW q \in Requests, Declined(q) PROVE Said(flash'[r])
  <2>1. /\ Report(q, "refused") /\ answer[q] # "none"
        /\ answer[q] = "not found" => request[q].op # "delete"
    BY <1>9 DEF Declined
  <2>2. q = r => r \in there
    BY <1>1, <2>1 DEF AnswerInv
  <2> QED
    BY <1>6, <2>1, <2>2
<1>10. ASSUME NEW q \in Requests, ExplainInterfaceRefusal(q) PROVE Said(flash'[r])
  <2>1. answer[q] = "interface" /\ flash' = [flash EXCEPT ![q] = "refused"]
    BY <1>10 DEF ExplainInterfaceRefusal
  <2> QED
    BY <1>1, <2>1 DEF AnswerInv
<1>11. ASSUME NEW q \in Requests, Unreported(q) PROVE Said(flash'[r])
  BY <1>6, <1>11 DEF Unreported
<1>12. CASE UNCHANGED pagesVars
  BY <1>12 DEF pagesVars, pageVars
<1> HIDE DEF Said
<1> QED
  BY <1>3, <1>4, <1>5, <1>7, <1>8, <1>9, <1>10, <1>11, <1>12 DEF PagesNext, PageSubmits

(* Two operators, or one double click, delete the same object, over a      *)
(* connection on which the command may be executed, refused as already     *)
(* done, or overtaken by its own copy: the page reports ok only once the   *)
(* object is gone, and a refusal only when the object was there as the     *)
(* router refused.                                                         *)
THEOREM PagesTellTheTruthOfDeletes == PagesSpec => DeleteTellsTheTruth
<1>1. PagesInv /\ [PagesNext]_pagesVars =>
          \A r \in Requests :
              flash[r] = "none" /\ request[r].op = "delete" =>
                  /\ flash'[r] = "ok" => request[r].id \notin Live'
                  /\ flash'[r] = "refused" => r \in there
  BY DeletesTell
<1> QED
  BY <1>1, PagesInitially, PagesPreserved, PTL DEF PagesSpec, DeleteTellsTheTruth
=============================================================================
