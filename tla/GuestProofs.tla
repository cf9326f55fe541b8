------------------------------ MODULE GuestProofs ------------------------------
(***************************************************************************)
(* Theorems about the services every guest meets: the client that talks to *)
(* the router, the login page the portal heals, and the tariff a coin is   *)
(* priced by.                                                              *)
(*                                                                         *)
(* The router client implements the safety part of CommandDelivery, for    *)
(* any number of requests, attempts and services.  A copy is on the wire   *)
(* or executed, never both, and its attempt was begun: so the executed     *)
(* copies stay below the attempts allowed, those executed after the report *)
(* included.  That every command is answered is a liveness property and is *)
(* checked by TLC.                                                         *)
(***************************************************************************)
EXTENDS RouterClient, PortalHandoff, CoinTariff, FiniteInduction, TLAPS

Attempts == 1..RunAttempts

CopiesOK(c) ==
    /\ wire[c] \subseteq 1..attempt[c]
    /\ executed[c] \subseteq 1..attempt[c]
    /\ wire[c] \cap executed[c] = {}
    /\ at[c] \notin {"sent", "waiting"} /\ verdict[c] = "none" => wire[c] = {}
    /\ at[c] = "waiting" => attempt[c] < RunAttempts

ClientInv ==
    /\ at \in [Callers -> {"idle", "dialling", "connected", "sent", "waiting"}]
    /\ attempt \in [Callers -> 0..RunAttempts]
    /\ wire \in [Callers -> SUBSET Attempts]
    /\ executed \in [Callers -> SUBSET Attempts]
    /\ verdict \in [Callers -> Sentinels \cup {"none", "ok"}]
    /\ \A c \in Callers : CopiesOK(c)

(* The steps of a dial and the router's own change no command. *)
Idles(c) == BeginDial(c) \/ ProbeAnswers(c) \/ ProbeFails(c) \/ DialFails(c) \/ Close(c)

-----------------------------------------------------------------------------
(* The invariant *)

(* The outcomes Run reports: ok, or one of the sentinels callers test for. *)
LEMMA Outcomes ==
    /\ \A cause : Classify(cause) \in Sentinels
    /\ \A t : Refusals(t) \subseteq Sentinels
    /\ Sentinels \cap {"none", "ok"} = {}
<1>1. \A cause : Classify(cause) \in Sentinels
  BY DEF Classify, Sentinels, DeviceRefusals
<1>2. \A status : SentinelForStatus(status, "device") \in Sentinels
  BY DEF SentinelForStatus, Sentinels, DeviceRefusals
<1>3. \A status : SentinelForStatus(status, "conflict") \in Sentinels
  BY DEF SentinelForStatus, Sentinels, DeviceRefusals
<1>4. RefusedWith("device") \cup RefusedWith("conflict") \subseteq Sentinels
  BY <1>2, <1>3 DEF RefusedWith
<1>5. Sentinels \cap {"none", "ok"} = {}
  BY DEF Sentinels, DeviceRefusals
<1> QED BY <1>1, <1>4, <1>5 DEF Refusals, Sentinels

LEMMA ClientInvInitially == ClientInit => ClientInv
  BY ClientConstants DEF ClientInit, ClientInv, CopiesOK, Attempts

(* A command is decided; what is on the wire of it stays or is refused. *)
LEMMA DecideKeeps ==
    ASSUME ClientInv, NEW c \in Callers, NEW outcome \in Sentinels \cup {"ok"},
           Decide(c, outcome),
           wire' = wire \/ wire' = [wire EXCEPT ![c] = wire[c] \ {attempt[c]}]
    PROVE  ClientInv'
  BY ClientConstants, Outcomes DEF Decide, ClientInv, CopiesOK, Attempts

(* A refused command form leaves the refusal of the verb. *)
LEMMA NoCommandIsOutcome == "no command" \in Sentinels
  BY DEF Sentinels, DeviceRefusals

LEMMA ClientInvPreserved == ClientInv /\ [ClientNext]_clientVars => ClientInv'
<1> SUFFICES ASSUME ClientInv, [ClientNext]_clientVars PROVE ClientInv'
  OBVIOUS
<1> USE ClientConstants DEF ClientInv, CopiesOK, Attempts
<1>1. ASSUME NEW c \in Callers, Idles(c) PROVE ClientInv'
  BY <1>1 DEF Idles, BeginDial, ProbeAnswers, ProbeFails, DialFails, Close, command
<1>2. ASSUME NEW c \in Callers, Send(c) PROVE ClientInv'
  <2>1. wire' = [wire EXCEPT ![c] = {1}] \/ wire' = [wire EXCEPT ![c] = {}]
    BY <1>2 DEF Send
  <2>2. /\ at' = [at EXCEPT ![c] = "sent"]
        /\ attempt' = [attempt EXCEPT ![c] = 1]
        /\ executed' = [executed EXCEPT ![c] = {}]
        /\ verdict' = [verdict EXCEPT ![c] = "none"]
    BY <1>2 DEF Send
  <2> QED BY <2>1, <2>2
<1>3. ASSUME NEW c \in Callers, AsksAgainInCommandForm(c) PROVE ClientInv'
  BY <1>3 DEF AsksAgainInCommandForm
<1>4. ASSUME NEW c \in Callers, Answered(c) \/ Refused(c) \/ ReconnectFails(c)
      PROVE  ClientInv'
  BY <1>4, Outcomes, NoCommandIsOutcome, DecideKeeps DEF Answered, Refused, ReconnectFails
<1>5. ASSUME NEW c \in Callers, Reconnects(c) PROVE ClientInv'
  BY <1>5 DEF Reconnects
<1>6. ASSUME NEW c \in Callers, NEW cause \in Causes, Unanswered(c, cause) PROVE ClientInv'
  <2>1. CASE form[c] = "verb" /\ Retries(cause, attempt[c])
    BY <1>6, <2>1 DEF Unanswered, Retries, command
  <2>2. CASE ~(form[c] = "verb" /\ Retries(cause, attempt[c]))
    BY <1>6, <2>2, Outcomes, NoCommandIsOutcome, DecideKeeps DEF Unanswered
  <2> QED BY <2>1, <2>2
<1>7. ASSUME NEW c \in Callers, NEW n \in wire[c], RouterExecutes(c, n) PROVE ClientInv'
  BY <1>7 DEF RouterExecutes
<1>8. CASE RouterReboots \/ RouterStarts
  BY <1>8 DEF RouterReboots, RouterStarts, command
<1>9. CASE UNCHANGED clientVars
  BY <1>9 DEF clientVars, command
<1> QED
  BY <1>1, <1>2, <1>3, <1>4, <1>5, <1>6, <1>7, <1>8, <1>9
  DEF ClientNext, CommandStep, Idles

-----------------------------------------------------------------------------
(* The refinement, request by request *)

(* What a step of one request does to the promise made to the others. *)
OthersKept(c) ==
    \A d \in Callers \ {c} : StageOf(d)' = StageOf(d) /\ CopiesOf(d)' = CopiesOf(d)

LEMMA StuttersRefine ==
    ASSUME \A c \in Callers : StageOf(c)' = StageOf(c) /\ CopiesOf(c)' = CopiesOf(c)
    PROVE  UNCHANGED Delivery!deliveryVars
  BY DEF Delivery!deliveryVars

LEMMA IssueRefines ==
    ASSUME NEW c \in Callers, OthersKept(c),
           StageOf(c) # "running", StageOf(c)' = "running", CopiesOf(c)' = 0
    PROVE  Delivery!Issue(c)
  BY DEF OthersKept, Delivery!Issue

LEMMA ExecuteRefines ==
    ASSUME NEW c \in Callers, OthersKept(c),
           StageOf(c) # "idle", StageOf(c)' = StageOf(c),
           CopiesOf(c) < RunAttempts, CopiesOf(c)' = CopiesOf(c) + 1
    PROVE  Delivery!Execute(c)
  BY DEF OthersKept, Delivery!Execute

LEMMA SucceedRefines ==
    ASSUME NEW c \in Callers, OthersKept(c),
           StageOf(c) = "running", StageOf(c)' = "done",
           CopiesOf(c) > 0, CopiesOf(c)' = CopiesOf(c)
    PROVE  Delivery!Succeed(c)
  BY DEF OthersKept, Delivery!Succeed

LEMMA FailRefines ==
    ASSUME NEW c \in Callers, OthersKept(c),
           StageOf(c) = "running", StageOf(c)' = "failed", CopiesOf(c)' = CopiesOf(c)
    PROVE  Delivery!Fail(c)
  BY DEF OthersKept, Delivery!Fail

(* Copies are counted: one more when another is executed, fewer than the   *)
(* attempts while one is on the wire, and none when none is executed.      *)
LEMMA CopiesCount ==
    ASSUME ClientInv, NEW c \in Callers
    PROVE  /\ CopiesOf(c) \in Nat
           /\ executed[c] # {} => CopiesOf(c) > 0
           /\ \A n \in wire[c] :
                  /\ CopiesOf(c) < RunAttempts
                  /\ Cardinality(executed[c] \cup {n}) = CopiesOf(c) + 1
<1>1. /\ IsFiniteSet(Attempts) /\ Cardinality(Attempts) = RunAttempts
  BY ClientConstants, FS_Interval DEF Attempts
<1>2. executed[c] \subseteq Attempts /\ IsFiniteSet(executed[c])
  BY <1>1, FS_Subset DEF ClientInv
<1>3. CopiesOf(c) \in Nat
  BY <1>2, FS_CardinalityType DEF CopiesOf
<1>4. executed[c] # {} => CopiesOf(c) # 0
  BY <1>2, FS_EmptySet DEF CopiesOf
<1>5. ASSUME NEW n \in wire[c]
      PROVE  /\ CopiesOf(c) < RunAttempts
             /\ Cardinality(executed[c] \cup {n}) = CopiesOf(c) + 1
  <2>1. n \in Attempts /\ n \notin executed[c]
    BY <1>5 DEF ClientInv, CopiesOK
  <2>2. Cardinality(executed[c] \cup {n}) = CopiesOf(c) + 1
    BY <1>2, <2>1, FS_AddElement DEF CopiesOf
  <2>3. Cardinality(executed[c] \cup {n}) <= Cardinality(Attempts)
    BY <1>1, <1>2, <2>1, FS_Subset
  <2> QED BY <1>1, <1>3, <2>2, <2>3, ClientConstants
<1> QED BY <1>3, <1>4, <1>5

LEMMA DecideRefines ==
    ASSUME ClientInv, NEW c \in Callers, NEW outcome, Decide(c, outcome),
           at[c] \in {"sent", "waiting"}, outcome # "none",
           outcome = "ok" => executed[c] # {}
    PROVE  Delivery!Succeed(c) \/ Delivery!Fail(c)
<1>1. OthersKept(c) /\ CopiesOf(c)' = CopiesOf(c)
  BY DEF OthersKept, Decide, ClientInv, StageOf, CopiesOf
<1>2. StageOf(c) = "running"
  BY DEF StageOf
<1>3. at'[c] = "connected" /\ verdict'[c] = outcome
  BY DEF Decide, ClientInv
<1>4. CASE outcome = "ok"
  <2>1. StageOf(c)' = "done"
    BY <1>3, <1>4 DEF StageOf
  <2> QED BY <1>1, <1>2, <1>4, <2>1, CopiesCount, SucceedRefines
<1>5. CASE outcome # "ok"
  <2>1. StageOf(c)' = "failed"
    BY <1>3, <1>5 DEF StageOf
  <2> QED BY <1>1, <1>2, <2>1, FailRefines
<1> QED BY <1>4, <1>5

-----------------------------------------------------------------------------
LEMMA ClientStepRefines ==
    ClientInv /\ [ClientNext]_clientVars
        => Delivery!DeliveryNext \/ UNCHANGED Delivery!deliveryVars
<1> SUFFICES ASSUME ClientInv, [ClientNext]_clientVars
             PROVE  Delivery!DeliveryNext \/ UNCHANGED Delivery!deliveryVars
  OBVIOUS
<1>a. ASSUME NEW c \in Callers,
             Delivery!Issue(c) \/ Delivery!Execute(c) \/ Delivery!Succeed(c) \/ Delivery!Fail(c)
      PROVE  Delivery!DeliveryNext
  BY <1>a DEF Delivery!DeliveryNext
<1>b. ASSUME UNCHANGED <<verdict, executed>>, NEW c \in Callers,
             \A d \in Callers \ {c} : at'[d] = at[d],
             at[c] \in {"sent", "waiting"} <=> at'[c] \in {"sent", "waiting"}
      PROVE  UNCHANGED Delivery!deliveryVars
  <2>1. \A d \in Callers : StageOf(d)' = StageOf(d) /\ CopiesOf(d)' = CopiesOf(d)
    BY <1>b DEF StageOf, CopiesOf
  <2> QED BY <2>1, StuttersRefine
<1>c. ASSUME UNCHANGED <<at, verdict, executed>> PROVE UNCHANGED Delivery!deliveryVars
  BY <1>c, StuttersRefine DEF StageOf, CopiesOf
<1>1. ASSUME NEW c \in Callers, Idles(c) PROVE UNCHANGED Delivery!deliveryVars
  <2>1. /\ UNCHANGED <<verdict, executed>>
        /\ \A d \in Callers \ {c} : at'[d] = at[d]
        /\ at[c] \notin {"sent", "waiting"} /\ at'[c] \notin {"sent", "waiting"}
    BY <1>1 DEF Idles, BeginDial, ProbeAnswers, ProbeFails, DialFails, Close, command, ClientInv
  <2> QED BY <1>b, <2>1
<1>2. ASSUME NEW c \in Callers, Send(c) PROVE Delivery!DeliveryNext
  <2>1. /\ at' = [at EXCEPT ![c] = "sent"]
        /\ executed' = [executed EXCEPT ![c] = {}]
        /\ verdict' = [verdict EXCEPT ![c] = "none"]
    BY <1>2 DEF Send
  <2>2. OthersKept(c)
    BY <2>1 DEF ClientInv, OthersKept, StageOf, CopiesOf
  <2>3. StageOf(c) # "running" /\ StageOf(c)' = "running"
    BY <1>2, <2>1 DEF Send, ClientInv, StageOf
  <2>4. CopiesOf(c)' = 0
    BY <2>1, FS_EmptySet DEF ClientInv, CopiesOf
  <2> QED BY <1>a, <2>2, <2>3, <2>4, IssueRefines
<1>3. ASSUME NEW c \in Callers, AsksAgainInCommandForm(c)
      PROVE  UNCHANGED Delivery!deliveryVars
  BY <1>3, <1>c DEF AsksAgainInCommandForm
<1>4. ASSUME NEW c \in Callers, Answered(c) PROVE Delivery!DeliveryNext
  BY <1>4, <1>a, DecideRefines DEF Answered
<1>5. ASSUME NEW c \in Callers, Refused(c) PROVE Delivery!DeliveryNext
  <2>1. PICK s \in Sentinels : Decide(c, s)
    BY <1>5, Outcomes, NoCommandIsOutcome DEF Refused
  <2> QED BY <1>5, <1>a, <2>1, Outcomes, DecideRefines DEF Refused
<1>6. ASSUME NEW c \in Callers, Reconnects(c) PROVE UNCHANGED Delivery!deliveryVars
  BY <1>6, <1>b DEF Reconnects, ClientInv
<1>7. ASSUME NEW c \in Callers, ReconnectFails(c) PROVE Delivery!DeliveryNext
  <2>1. PICK cause \in Causes : Decide(c, Classify(cause))
    BY <1>7 DEF ReconnectFails
  <2> QED BY <1>7, <1>a, <2>1, Outcomes, DecideRefines DEF ReconnectFails
<1>8. ASSUME NEW c \in Callers, NEW cause \in Causes, Unanswered(c, cause)
      PROVE  Delivery!DeliveryNext \/ UNCHANGED Delivery!deliveryVars
  <2>1. CASE form[c] = "verb" /\ Retries(cause, attempt[c])
    BY <1>8, <1>b, <2>1 DEF Unanswered, command, ClientInv
  <2>2. CASE ~(form[c] = "verb" /\ Retries(cause, attempt[c]))
    <3>1. PICK s \in Sentinels : Decide(c, s)
      BY <1>8, <2>2, Outcomes, NoCommandIsOutcome DEF Unanswered
    <3> QED BY <1>8, <1>a, <3>1, Outcomes, DecideRefines DEF Unanswered
  <2> QED BY <2>1, <2>2
<1>9. ASSUME NEW c \in Callers, NEW n \in wire[c], RouterExecutes(c, n)
      PROVE  Delivery!DeliveryNext
  <2>1. executed' = [executed EXCEPT ![c] = executed[c] \cup {n}] /\ UNCHANGED <<at, verdict>>
    BY <1>9 DEF RouterExecutes
  <2>2. OthersKept(c)
    BY <2>1 DEF ClientInv, OthersKept, StageOf, CopiesOf
  <2>3. StageOf(c) # "idle" /\ StageOf(c)' = StageOf(c)
    BY <1>9, <2>1 DEF ClientInv, CopiesOK, StageOf
  <2>4. CopiesOf(c) < RunAttempts /\ CopiesOf(c)' = CopiesOf(c) + 1
    BY <1>9, <2>1, CopiesCount DEF ClientInv, CopiesOf
  <2> QED BY <1>a, <2>2, <2>3, <2>4, ExecuteRefines
<1>10. CASE RouterReboots \/ RouterStarts
  BY <1>10, <1>c DEF RouterReboots, RouterStarts, command
<1>11. CASE UNCHANGED clientVars
  BY <1>11, <1>c DEF clientVars, command
<1> QED
  BY <1>1, <1>2, <1>3, <1>4, <1>5, <1>6, <1>7, <1>8, <1>9, <1>10, <1>11
  DEF ClientNext, CommandStep, Idles

(* Done means executed, and at most runAttempts copies are executed,       *)
(* whatever the transports, the reconnects and the reboots of the router.  *)
THEOREM ClientImplementsDelivery == ClientSafety => Delivery!DeliverySafety
<1>1. ClientInit => Delivery!DeliveryInit
  BY FS_EmptySet DEF ClientInit, Delivery!DeliveryInit, StageOf, CopiesOf
<1> QED
  BY <1>1, ClientInvInitially, ClientInvPreserved, ClientStepRefines, PTL
  DEF ClientSafety, Delivery!DeliverySafety
-----------------------------------------------------------------------------
(***************************************************************************)
(* The login page, for any number of jobs, any window and any timeout that *)
(* is shorter than it.  A check at work was started by the claim that is   *)
(* being counted, or before it: its age is no less than the time since.    *)
(***************************************************************************)

HealInv ==
    /\ DOMAIN job = Jobs
    /\ age \in [Jobs -> Nat]
    /\ sinceClaim \in 0..HealWindow
    /\ OneHealAtATime
    /\ \A j \in HealJobs : Working(j) => sinceClaim <= age[j] /\ age[j] <= JobTimeout

(* A step that starts no check and leaves the clock alone keeps it. *)
LEMMA HealKept ==
    ASSUME HealInv, UNCHANGED <<sinceClaim, age>>, DOMAIN job' = Jobs,
           \A j \in HealJobs : Working(j)' => Working(j)
    PROVE  HealInv'
  BY DEF HealInv, OneHealAtATime, Working, Ended

LEMMA HealPreserved == HealInv /\ [HandoffNext]_handoffVars => HealInv'
<1> SUFFICES ASSUME HealInv, [HandoffNext]_handoffVars PROVE HealInv'
  OBVIOUS
<1> USE HandoffConstants
<1>1. ASSUME NEW j \in HealJobs, EnsureRouterHandoff(j) PROVE HealInv'
  <2>1. \A k \in HealJobs : ~Working(k)
    BY <1>1 DEF EnsureRouterHandoff, HealInv, Jobs
  <2>2. \A k \in HealJobs : Working(k)' => k = j
    BY <1>1, <2>1 DEF EnsureRouterHandoff, Start, Working, HealInv, Jobs
  <2>3. age' \in [Jobs -> Nat] /\ age'[j] = 0 /\ sinceClaim' = 0 /\ DOMAIN job' = Jobs
    BY <1>1 DEF EnsureRouterHandoff, Start, HealInv, Jobs
  <2> QED
    BY <2>2, <2>3 DEF HealInv, OneHealAtATime
<1>2. ASSUME NEW j \in ButtonJobs, PortalRouterInstall(j) PROVE HealInv'
  <2>1. \A k \in HealJobs : job'[k] = job[k] /\ age'[k] = age[k]
    BY <1>2 DEF PortalRouterInstall, Start, HealInv, Jobs
  <2>2. age' \in [Jobs -> Nat] /\ sinceClaim' = sinceClaim /\ DOMAIN job' = Jobs
    BY <1>2 DEF PortalRouterInstall, Start, HealInv, Jobs
  <2> QED
    BY <2>1, <2>2 DEF HealInv, OneHealAtATime, Working
<1>3. ASSUME NEW j \in Jobs, Repairs(j) \/ CallFails(j) PROVE HealInv'
  <2>1. Working(j) /\ ((\E where : Become(j, where)) \/ \E how \in Ended : End(j, how))
    BY <1>3 DEF Repairs, CallFails, FindsDirectory, HotspotPortalState, LooksUpOldFile,
                RemovesOldFile, Fetches, ReadsBack, Working, Ended
  <2>2. CASE \E where : Become(j, where)
    BY <2>1, <2>2, HealKept DEF Become, HealInv, Working
  <2>3. ASSUME NEW how \in Ended, End(j, how) PROVE HealInv'
    <3>1. /\ job' = [job EXCEPT ![j] = how] /\ age' = [age EXCEPT ![j] = 0]
          /\ sinceClaim' = sinceClaim
      BY <2>3 DEF End, Start
    <3>2. \A k \in HealJobs : Working(k)' => Working(k) /\ age'[k] = age[k]
      BY <2>3, <3>1 DEF HealInv, Working
    <3>3. age' \in [Jobs -> Nat] /\ DOMAIN job' = Jobs
      BY <3>1 DEF HealInv
    <3> QED
      BY <3>1, <3>2, <3>3 DEF HealInv, OneHealAtATime
  <2> QED
    BY <2>1, <2>2, <2>3
<1>4. CASE Tick
  <2>1. /\ age' \in [Jobs -> Nat] /\ job' = job
        /\ \A j \in HealJobs : Working(j) => age'[j] = age[j] + 1 /\ age[j] < JobTimeout
    BY <1>4 DEF Tick, HealInv, Jobs
  <2>2. sinceClaim' \in 0..HealWindow /\ sinceClaim' <= sinceClaim + 1
    BY <1>4 DEF Tick, HealInv
  <2> QED
    BY <2>1, <2>2 DEF HealInv, OneHealAtATime, Working, Jobs
<1>5. CASE PanelRestarts
  <2>1. \A j \in HealJobs : ~Working(j)'
    BY <1>5 DEF PanelRestarts, Working, Ended, Jobs
  <2> QED
    BY <1>5, <2>1 DEF PanelRestarts, HealInv, OneHealAtATime
<1>6. CASE (\E d \in Directories : PageBreaks(d)) \/ UNCHANGED handoffVars
  BY <1>6, HealKept DEF PageBreaks, handoffVars, HealInv, Working
<1> QED
  BY <1>1, <1>2, <1>3, <1>4, <1>5, <1>6 DEF HandoffNext

(* A crowd of guests never has two checks of the login page running, across *)
(* restarts of the panel too: the window is claimed before the work and    *)
(* outlasts the deadline of the check.                                     *)
THEOREM HandoffHealsOneAtATime == HandoffSpec => []OneHealAtATime
<1>1. HandoffInit => HealInv
  BY HandoffConstants DEF HandoffInit, HealInv, OneHealAtATime, Working, Ended, Jobs
<1>2. HealInv => OneHealAtATime
  BY DEF HealInv
<1> QED
  BY <1>1, <1>2, HealPreserved, PTL DEF HandoffSpec

(* The old file a job looked up: until the job removes it, it is the one   *)
(* there or something removed it; afterwards nothing brings it back.       *)
FetchedInv ==
    /\ DOMAIN job = Jobs /\ DOMAIN held = Jobs
    /\ dir \in [Jobs -> Directories] /\ DOMAIN loginPage = Directories
    /\ \A j \in Jobs :
        /\ job[j] \in {"finding", "checking", "installing", "clearing"} => j \notin cleared
        /\ job[j] \in {"fetching", "reading"} /\ j \in cleared \ meddled
               => loginPage[dir[j]] # "stale"
        /\ job[j] = "removing" /\ j \in cleared \ meddled
               => held[j] \/ loginPage[dir[j]] # "stale"

(* A job that begins or ends stands apart from the others. *)
LEMMA StartKeepsFetched ==
    ASSUME FetchedInv, NEW j \in Jobs, NEW where,
           where \notin {"fetching", "reading", "removing"},
           Start(j, where), UNCHANGED loginPage
    PROVE  FetchedInv'
<1>1. /\ \A k \in Jobs \ {j} : /\ job'[k] = job[k] /\ held'[k] = held[k] /\ dir'[k] = dir[k]
                               /\ k \in cleared' <=> k \in cleared
                               /\ k \in meddled' <=> k \in meddled
      /\ job'[j] = where /\ j \notin cleared'
  BY DEF Start, FetchedInv
<1>2. DOMAIN job' = Jobs /\ DOMAIN held' = Jobs /\ dir' \in [Jobs -> Directories]
  BY DEF Start, FetchedInv, Directories
<1> QED
  BY <1>1, <1>2 DEF FetchedInv

LEMMA FetchedPreserved == FetchedInv /\ [HandoffNext]_handoffVars => FetchedInv'
<1> SUFFICES ASSUME FetchedInv, [HandoffNext]_handoffVars PROVE FetchedInv'
  OBVIOUS
<1>1. ASSUME NEW j \in Jobs, EnsureRouterHandoff(j) \/ PortalRouterInstall(j)
      PROVE  FetchedInv'
  BY <1>1, StartKeepsFetched DEF EnsureRouterHandoff, PortalRouterInstall
<1>2. ASSUME NEW j \in Jobs, HotspotPortalState(j) PROVE FetchedInv'
  <2>1. CASE End(j, "verified")
    BY <2>1, StartKeepsFetched DEF End
  <2>2. CASE Become(j, "installing") /\ UNCHANGED <<loginPage, dir, held, cleared>>
    BY <1>2, <2>2 DEF HotspotPortalState, Become, FetchedInv
  <2> QED
    BY <1>2, <2>1, <2>2 DEF HotspotPortalState
<1>3. ASSUME NEW j \in Jobs, LooksUpOldFile(j) PROVE FetchedInv'
  BY <1>3 DEF LooksUpOldFile, Become, FetchedInv
<1>4. ASSUME NEW j \in Jobs, RemovesOldFile(j) PROVE FetchedInv'
  <2>1. CASE ~held[j]
    BY <1>4, <2>1 DEF RemovesOldFile, Become, FetchedInv
  <2>2. CASE held[j]
    <3>1. /\ loginPage' = [loginPage EXCEPT ![dir[j]] = "none"]
          /\ held' = [k \in Jobs |-> held[k] /\ dir[k] # dir[j]]
          /\ job' = [job EXCEPT ![j] = "fetching"]
          /\ UNCHANGED <<dir, cleared, meddled>>
      BY <1>4, <2>2 DEF RemovesOldFile, Replaced, Become
    <3>2. ASSUME NEW k \in Jobs
          PROVE  /\ dir[k] = dir[j] => loginPage'[dir[k]] = "none"
                 /\ dir[k] # dir[j] => loginPage'[dir[k]] = loginPage[dir[k]]
                 /\ dir[k] # dir[j] /\ held[k] => held'[k]
      <4>1. dir[k] \in DOMAIN loginPage /\ dir[j] \in DOMAIN loginPage
        BY DEF FetchedInv
      <4>2. held'[k] <=> held[k] /\ dir[k] # dir[j]
        BY <3>1, Zenon
      <4>3. /\ dir[k] = dir[j] => loginPage'[dir[k]] = "none"
            /\ dir[k] # dir[j] => loginPage'[dir[k]] = loginPage[dir[k]]
        BY <3>1, <4>1, SMT
      <4> QED
        BY <4>2, <4>3
    <3>3. DOMAIN loginPage' = Directories /\ DOMAIN held' = Jobs /\ DOMAIN job' = Jobs
      BY <3>1 DEF FetchedInv
    <3>4. \A k \in Jobs \ {j} : job'[k] = job[k]
      BY <3>1 DEF FetchedInv
    <3>5. job'[j] = "fetching"
      BY <3>1 DEF FetchedInv
    <3> QED
      BY <3>1, <3>2, <3>3, <3>4, <3>5 DEF FetchedInv
  <2> QED
    BY <2>1, <2>2
<1>5. ASSUME NEW j \in Jobs, NEW got \in {"handoff", "empty", "wrong"}, Fetches(j, got)
      PROVE  FetchedInv'
  <2>1. /\ job[j] = "fetching" /\ job' = [job EXCEPT ![j] = "reading"]
        /\ UNCHANGED <<dir, held, cleared, meddled>>
        /\ DOMAIN loginPage' = Directories
    BY <1>5 DEF Fetches, Become, FetchedInv
  <2>2. \A d \in Directories : loginPage[d] # "stale" => loginPage'[d] # "stale"
    BY <1>5 DEF Fetches, FetchedInv
  <2> QED
    BY <2>1, <2>2 DEF FetchedInv
<1>6. ASSUME NEW j \in Jobs, ReadsBack(j) \/ CallFails(j) PROVE FetchedInv'
  BY <1>6, StartKeepsFetched DEF ReadsBack, CallFails, End
<1>7. CASE Tick \/ UNCHANGED handoffVars
  BY <1>7 DEF Tick, handoffVars, FetchedInv
<1>8. CASE PanelRestarts
  BY <1>8 DEF PanelRestarts, FetchedInv, Working, Ended, Directories
<1>9. ASSUME NEW d \in Directories, PageBreaks(d) PROVE FetchedInv'
  <2>1. /\ meddled' = {j \in Jobs : Working(j)} \cup meddled
        /\ UNCHANGED <<job, dir, cleared>>
        /\ DOMAIN held' = Jobs /\ DOMAIN loginPage' = Directories
    BY <1>9 DEF PageBreaks, Replaced, FetchedInv
  <2>2. \A j \in Jobs : job[j] \in {"fetching", "reading", "removing"} => j \in meddled'
    BY <2>1 DEF Working, Ended
  <2> QED
    BY <2>1, <2>2 DEF FetchedInv
<1>10. ASSUME NEW j \in Jobs, NEW d \in Directories, FindsDirectory(j, d) PROVE FetchedInv'
  BY <1>10 DEF FindsDirectory, Become, FetchedInv
<1> QED
  BY <1>1, <1>2, <1>3, <1>4, <1>5, <1>6, <1>7, <1>8, <1>9, <1>10
  DEF HandoffNext, Repairs, Jobs

(* An install that reports the page verified, having looked the old file   *)
(* up, never verified that old file, whatever other installs did to it     *)
(* meanwhile, in whichever directory it looked.                            *)
THEOREM HandoffVerifiesWhatItFetched == HandoffSpec => VerifiedWasFetched
<1>1. HandoffInit => FetchedInv
  BY DEF HandoffInit, FetchedInv, Directories
<1>2. FetchedInv => \A j \in Jobs :
          job[j] = "reading" /\ job'[j] = "verified" /\ j \in cleared \ meddled
              => loginPage[dir[j]] # "stale"
  BY DEF FetchedInv
<1> QED
  BY <1>1, <1>2, FetchedPreserved, PTL DEF HandoffSpec, VerifiedWasFetched

-----------------------------------------------------------------------------
(***************************************************************************)
(* What a coin buys, for any table of tiers the operators' form can save   *)
(* and any number of pulses in one report.  The active tiers form a ladder *)
(* without gaps, the larger the higher; the walk goes down it one rung at  *)
(* a time, and after each rung the pulses left are those the tiers taken   *)
(* so far do not cover.                                                    *)
(***************************************************************************)

Tier == [pulses : Nat, cents : Nat, seconds : Nat, active : BOOLEAN]

TariffInv ==
    /\ tiers \in [TierIds -> Tier]
    /\ \A i \in Kept : tiers[i].pulses >= 1

LEMMA AwardedTime ==
    ASSUME NEW days, NEW hours, NEW minutes, AwardsTime(days, hours, minutes)
    PROVE  GrantedSeconds(days, hours, minutes) \in Nat
<1>1. days \in Nat /\ hours \in Nat /\ minutes \in Nat
  BY DEF AwardsTime, TimeAccepted
<1> QED
  BY <1>1 DEF GrantedSeconds

LEMMA FormRanges ==
    /\ \A n : n \in 1..MaxRatePulses => n \in Nat /\ n >= 1
    /\ \A n : n \in 0..MaxRateAmountCents => n \in Nat
<1>1. MaxRatePulses \in Nat /\ MaxRateAmountCents \in Nat
  BY DEF MaxRatePulses, MaxRateAmountCents
<1> QED
  BY <1>1

LEMMA AcceptedTiers == \A r \in Accepted : r \in Tier /\ r.pulses >= 1
<1>1. ASSUME NEW r \in Accepted
      PROVE  \E n, c, t, on : /\ r = [pulses |-> n, cents |-> c, seconds |-> t, active |-> on]
                              /\ n \in 1..MaxRatePulses /\ c \in 0..MaxRateAmountCents
                              /\ t \in Nat /\ on \in BOOLEAN
  <2>1. PICK f \in [pulses : FormPulses, terms : FormTerms, active : BOOLEAN] :
            /\ f.pulses \in 1..MaxRatePulses
            /\ f.terms[1] \in 0..MaxRateAmountCents
            /\ AwardsTime(f.terms[2], f.terms[3], f.terms[4])
            /\ r = [pulses |-> f.pulses,
                    cents |-> f.terms[1],
                    seconds |-> GrantedSeconds(f.terms[2], f.terms[3], f.terms[4]),
                    active |-> f.active]
    BY <1>1 DEF Accepted
  <2>2. GrantedSeconds(f.terms[2], f.terms[3], f.terms[4]) \in Nat
    BY <2>1, AwardedTime
  <2>3. f.active \in BOOLEAN
    OBVIOUS
  <2> QED
    BY <2>1, <2>2, <2>3
<1> QED
  BY <1>1, FormRanges DEF Tier

LEMMA TariffPreserved == TariffInv /\ [TariffNext]_tiers => TariffInv'
<1> SUFFICES ASSUME TariffInv, [TariffNext]_tiers PROVE TariffInv'
  OBVIOUS
<1>0. NoTier \in Tier
  BY DEF NoTier, Tier
<1>1. ASSUME NEW i \in TierIds, NEW r \in Accepted, CreateTier(i, r) \/ UpdateTier(i, r)
      PROVE  TariffInv'
  BY <1>1, AcceptedTiers DEF CreateTier, UpdateTier, TariffInv, Kept
<1>2. ASSUME NEW i \in TierIds, NEW on \in BOOLEAN, SetActive(i, on) PROVE TariffInv'
  BY <1>2 DEF SetActive, TariffInv, Kept, Tier
<1>3. ASSUME NEW i \in TierIds, DeleteTier(i) PROVE TariffInv'
  BY <1>0, <1>3 DEF DeleteTier, TariffInv, Kept
<1> QED
  BY <1>1, <1>2, <1>3 DEF TariffNext, RateSave, RateToggle, RateDelete, TariffInv, Kept

LEMMA TariffInitially == TariffInit => TariffInv
  BY DEF TariffInit, TariffInv, Kept, NoTier, Tier

(* What an active tier is: it takes a pulse at least, and is worth a       *)
(* natural number of seconds and cents for each.                           *)
LEMMA ActiveTiers ==
    ASSUME TariffInv
    PROVE  /\ IsFiniteSet(Active) /\ Cardinality(Active) \in Nat
           /\ \A i \in Active : /\ i \in Nat
                                /\ tiers[i].pulses \in Nat \ {0}
                                /\ tiers[i].seconds \in Nat /\ tiers[i].cents \in Nat
                                /\ SecondsPerPulse(i) \in Nat /\ CentsPerPulse(i) \in Nat
<1>1. IsFiniteSet(Active) /\ Cardinality(Active) \in Nat
  BY TariffConstants, FS_Subset, FS_CardinalityType DEF Active
<1>2. ASSUME NEW i \in Active
      PROVE  /\ i \in Nat /\ tiers[i].pulses \in Nat \ {0}
             /\ tiers[i].seconds \in Nat /\ tiers[i].cents \in Nat
  <2>1. tiers[i] # NoTier /\ i \in TierIds /\ tiers[i] \in Tier
    BY DEF Active, NoTier, TariffInv
  <2> QED
    BY <2>1, TariffConstants DEF Kept, TariffInv, Tier
<1>3. \A i \in Active : SecondsPerPulse(i) \in Nat /\ CentsPerPulse(i) \in Nat
  BY <1>2 DEF SecondsPerPulse, CentsPerPulse
<1> QED
  BY <1>1, <1>2, <1>3

-----------------------------------------------------------------------------
(* The ladder *)

Rungs == 1..Cardinality(Active)

(* Each tier's place in the order is the number of tiers up to it, which   *)
(* counts them through.                                                    *)
LEMMA LadderExists ==
    ASSUME TariffInv
    PROVE  \E s \in SetToSeqs(Active) : \A i, j \in DOMAIN s : i < j => Before(s[i], s[j])
<1> DEFINE Below(i) == {j \in Active : Before(j, i)}
           rank == [i \in Active |-> Cardinality(Below(i))]
<1>1. \A i, j, k \in Active :
          /\ Before(i, i) /\ (Before(i, j) \/ Before(j, i))
          /\ Before(i, j) /\ Before(j, k) => Before(i, k)
          /\ Before(i, j) /\ Before(j, i) => i = j
  BY ActiveTiers DEF Before
<1>2. \A i \in Active : /\ IsFiniteSet(Below(i)) /\ Below(i) \in SUBSET Active /\ i \in Below(i)
                        /\ Cardinality(Below(i)) \in Rungs
  <2> SUFFICES ASSUME NEW i \in Active
               PROVE  /\ IsFiniteSet(Below(i)) /\ Below(i) \in SUBSET Active /\ i \in Below(i)
                      /\ Cardinality(Below(i)) \in Rungs
    OBVIOUS
  <2>1. Below(i) \in SUBSET Active /\ i \in Below(i)
    BY <1>1
  <2> HIDE DEF Below
  <2>2. /\ IsFiniteSet(Below(i)) /\ Cardinality(Below(i)) <= Cardinality(Active)
        /\ Cardinality(Below(i)) \in Nat
    BY <2>1, ActiveTiers, FS_Subset, FS_CardinalityType
  <2>3. Cardinality(Below(i)) # 0
    BY <2>1, <2>2, FS_EmptySet
  <2> QED
    BY <2>1, <2>2, <2>3, ActiveTiers DEF Rungs
<1>3. \A i, j \in Active : Before(i, j) /\ i # j => Cardinality(Below(i)) < Cardinality(Below(j))
  <2> SUFFICES ASSUME NEW i \in Active, NEW j \in Active, Before(i, j), i # j
               PROVE  Cardinality(Below(i)) < Cardinality(Below(j))
    OBVIOUS
  <2>1. Below(i) \in SUBSET Below(j) /\ j \in Below(j) /\ j \notin Below(i)
    BY <1>1
  <2>2. /\ IsFiniteSet(Below(j)) /\ Cardinality(Below(i)) \in Nat
        /\ Cardinality(Below(j)) \in Nat
    BY <1>2 DEF Rungs
  <2> HIDE DEF Below
  <2> QED
    BY <2>1, <2>2, FS_Subset
<1>4. rank \in [Active -> Rungs] /\ \A i \in Active : rank[i] = Cardinality(Below(i))
  BY <1>2
<1>5. \A i, j \in Active : Before(i, j) /\ i # j => rank[i] < rank[j]
  BY <1>3, <1>4
<1> HIDE DEF rank, Below
<1>6. rank \in Injection(Active, Rungs)
  BY <1>1, <1>4, <1>5 DEF Injection, IsInjective, Rungs
<1>7. IsFiniteSet(Rungs) /\ Cardinality(Rungs) = Cardinality(Active)
  BY ActiveTiers, FS_Interval DEF Rungs
<1>8. rank \in Surjection(Active, Rungs)
  BY <1>6, <1>7, FS_Injection
<1>9. \A k \in Rungs : \E i \in Active : rank[i] = k
  BY <1>8 DEF Surjection
<1> DEFINE s == [k \in Rungs |-> CHOOSE i \in Active : rank[i] = k]
<1>10. \A k \in Rungs : s[k] \in Active /\ rank[s[k]] = k
  BY <1>9
<1>11. DOMAIN s = Rungs /\ s \in [Rungs -> Active]
  BY <1>9
<1> HIDE DEF s
<1>12. s \in SetToSeqs(Active)
  BY <1>10, <1>11 DEF SetToSeqs, Rungs
<1>13. ASSUME NEW i \in Rungs, NEW j \in Rungs, i < j PROVE Before(s[i], s[j])
  <2>1. s[i] \in Active /\ s[j] \in Active /\ rank[s[i]] = i /\ rank[s[j]] = j /\ i \in Nat /\ j \in Nat
    BY <1>10 DEF Rungs
  <2> QED
    BY <1>1, <1>5, <1>13, <2>1
<1> QED
  BY <1>11, <1>12, <1>13

LEMMA LadderFacts ==
    ASSUME TariffInv
    PROVE  /\ Ladder \in [Rungs -> Active]
           /\ \A i, j \in Rungs : Ladder[i] = Ladder[j] => i = j
           /\ \A i, j \in Rungs : i < j => Before(Ladder[i], Ladder[j])
           /\ \A a \in Active : \E i \in Rungs : Ladder[i] = a
<1>1. /\ Ladder \in SetToSeqs(Active)
      /\ \A i, j \in DOMAIN Ladder : i < j => Before(Ladder[i], Ladder[j])
  BY LadderExists DEF Ladder
<1> HIDE DEF Ladder
<1>2. Ladder \in [Rungs -> Active] /\ \A i, j \in Rungs : i # j => Ladder[i] # Ladder[j]
  BY <1>1 DEF SetToSeqs, Rungs
<1>3. Ladder \in Injection(Rungs, Active)
  BY <1>2 DEF Injection, IsInjective
<1>4. IsFiniteSet(Rungs) /\ Cardinality(Rungs) = Cardinality(Active)
  BY ActiveTiers, FS_Interval DEF Rungs
<1>5. Ladder \in Surjection(Rungs, Active)
  BY <1>3, <1>4, ActiveTiers, FS_Injection
<1>6. \A a \in Active : \E i \in Rungs : Ladder[i] = a
  BY <1>5 DEF Surjection
<1> QED
  BY <1>1, <1>2, <1>6

-----------------------------------------------------------------------------
(* The walk *)

Walks == [left : Nat, seconds : Nat, cents : Nat]

(* What is left and awarded above each rung: walk[1] is the result.        *)
WalksDown(walk, pulses) ==
    /\ walk \in [1..Cardinality(Active) + 1 -> Walks]
    /\ walk[Cardinality(Active) + 1] = [left |-> pulses, seconds |-> 0, cents |-> 0]
    /\ \A k \in Rungs : walk[k] = TakeTier(Ladder[k], walk[k + 1])

LEMMA TakingIsTyped ==
    ASSUME TariffInv, NEW i \in Active, NEW v \in Walks
    PROVE  /\ TakeTier(i, v) \in Walks
           /\ Takes(i, v.left) =>
                  /\ TakeTier(i, v).left = v.left - tiers[i].pulses
                  /\ TakeTier(i, v).seconds = v.seconds + tiers[i].pulses * SecondsPerPulse(i)
                  /\ TakeTier(i, v).cents = v.cents + tiers[i].pulses * CentsPerPulse(i)
           /\ ~Takes(i, v.left) => TakeTier(i, v) = v
<1>1. v.left \in Nat /\ v.seconds \in Nat /\ v.cents \in Nat /\ tiers[i].pulses \in Nat
  BY ActiveTiers DEF Walks
<1>2. /\ tiers[i].pulses * SecondsPerPulse(i) \in Nat
      /\ tiers[i].pulses * CentsPerPulse(i) \in Nat
  BY ActiveTiers
<1>3. Takes(i, v.left) => v.left - tiers[i].pulses \in Nat
  BY <1>1 DEF Takes
<1> QED
  BY <1>1, <1>2, <1>3 DEF TakeTier, Walks

LEMMA LeastOfRest ==
    ASSUME NEW n \in Nat, NEW k \in 1..n
    PROVE  Min(k..n) = k /\ (k..n) \ {k} = k + 1..n
<1>1. \A x : (x \in k..n /\ \A y \in k..n : x <= y) => x = k
  OBVIOUS
<1>2. k \in k..n /\ \A y \in k..n : k <= y
  OBVIOUS
<1>3. Min(k..n) \in k..n /\ \A y \in k..n : Min(k..n) <= y
  BY <1>2 DEF Min
<1> QED
  BY <1>1, <1>3

(* The fold over the ladder is this walk. *)
LEMMA WalkExists ==
    ASSUME TariffInv, NEW pulses \in Nat
    PROVE  \E walk : WalksDown(walk, pulses) /\ Walk(pulses) = walk[1]
<1> DEFINE n == Cardinality(Active)
           start == [left |-> pulses, seconds |-> 0, cents |-> 0]
<1>0. n \in Nat /\ start \in Walks /\ IsFiniteSet(Rungs) /\ DOMAIN Ladder = Rungs
  BY ActiveTiers, FS_Interval, LadderFacts DEF Rungs, Walks
<1>1. PICK pick : pick = [s \in SUBSET Rungs |-> Min(s)]
  OBVIOUS
<1>2. PICK next : next = [k \in Rungs |-> [v \in Walks |-> TakeTier(Ladder[k], v)]]
  OBVIOUS
<1>3. \A k \in Rungs, v \in Walks : next[k][v] = TakeTier(Ladder[k], v) /\ next[k][v] \in Walks
  BY <1>2, LadderFacts, TakingIsTyped
<1>4. \A s \in SUBSET Rungs : s # {} => pick[s] \in s
  <2> SUFFICES ASSUME NEW s \in SUBSET Rungs, s # {} PROVE Min(s) \in s
    BY <1>1
  <2>1. PICK i \in s : \A j \in s : i <= j
    BY LeastNatural DEF Rungs
  <2> QED
    BY <2>1 DEF Min
<1>5. PICK g \in [SUBSET Rungs -> Walks] : FoldsOver(g, Rungs, start, pick, next)
  <2> HIDE DEF start
  <2>1. Foldable(Rungs, Walks, start, pick, next)
    BY <1>0, <1>3, <1>4 DEF Foldable
  <2> QED
    BY <2>1, FoldExists
<1>6. \A s \in SUBSET Rungs :
          g[s] = IF s = {} THEN start ELSE TakeTier(Ladder[Min(s)], g[s \ {Min(s)}])
  <2> SUFFICES ASSUME NEW s \in SUBSET Rungs
               PROVE  g[s] = IF s = {} THEN start
                             ELSE TakeTier(Ladder[Min(s)], g[s \ {Min(s)}])
    OBVIOUS
  <2>1. g[s] = IF s = {} THEN start ELSE next[pick[s]][g[s \ {pick[s]}]]
    BY <1>5 DEF FoldsOver
  <2>2. CASE s # {}
    <3>1. pick[s] = Min(s) /\ pick[s] \in Rungs /\ s \ {pick[s]} \in SUBSET Rungs
      BY <1>1, <1>4, <2>2
    <3> QED
      BY <1>3, <2>1, <2>2, <3>1
  <2> QED
    BY <2>1, <2>2
<1> DEFINE Iterates(h) == h = [s \in SUBSET Rungs |->
                                  IF s = {} THEN start
                                  ELSE TakeTier(Ladder[Min(s)], h[s \ {Min(s)}])]
           iter == CHOOSE h : Iterates(h)
<1>7. Walk(pulses) = iter[Rungs]
  <2> HIDE DEF Ladder
  <2> QED
    BY <1>0 DEF Walk, FoldRight, MapThenFoldSet
<1>8. Iterates(g)
  BY <1>6
<1>9. Iterates(iter)
  BY <1>8
<1> HIDE DEF iter
<1>10. ASSUME NEW s \in SUBSET Rungs
       PROVE  iter[s] = IF s = {} THEN start
                        ELSE TakeTier(Ladder[Min(s)], iter[s \ {Min(s)}])
  BY <1>9
<1> DEFINE walk == [k \in 1..n + 1 |-> iter[k..n]]
<1>11. walk[n + 1] = start
  <2>1. n + 1..n = {} /\ n + 1 \in 1..n + 1
    BY <1>0
  <2> QED
    BY <1>10, <2>1
<1>12. ASSUME NEW k \in Rungs PROVE walk[k] = TakeTier(Ladder[k], walk[k + 1])
  <2>1. Min(k..n) = k /\ (k..n) \ {k} = k + 1..n
    BY <1>0, LeastOfRest DEF Rungs
  <2>2. k..n \in SUBSET Rungs /\ k..n # {} /\ k \in 1..n + 1 /\ k + 1 \in 1..n + 1
    BY <1>0 DEF Rungs
  <2> QED
    BY <1>10, <2>1, <2>2
<1>13. \A k \in 1..n + 1 : walk[k] \in Walks
  <2> DEFINE G == {k \in 1..n + 1 : walk[k] \in Walks}
  <2>1. n + 1 \in G
    BY <1>0, <1>11
  <2>2. \A k \in 1..n : k + 1 \in G => k \in G
    <3> SUFFICES ASSUME NEW k \in 1..n, k + 1 \in G PROVE k \in G
      OBVIOUS
    <3>1. k \in Rungs /\ k \in 1..n + 1 /\ walk[k + 1] \in Walks
      BY <1>0 DEF Rungs
    <3> HIDE DEF walk
    <3> QED
      BY <1>12, <3>1, LadderFacts, TakingIsTyped
  <2> HIDE DEF G
  <2>3. \A k \in 1..n + 1 : k \in G
    BY <1>0, <2>1, <2>2, CountingDown
  <2> QED
    BY <2>3 DEF G
<1>14. walk \in [1..n + 1 -> Walks] /\ walk[1] = iter[Rungs]
  BY <1>0, <1>13 DEF Rungs
<1> HIDE DEF walk
<1>15. WalksDown(walk, pulses)
  BY <1>11, <1>12, <1>14 DEF WalksDown
<1> QED
  BY <1>7, <1>14, <1>15

(* Of Ladder[1] every other active tier holds as many pulses or more. *)
LEMMA LadderStarts ==
    ASSUME TariffInv, Active # {}
    PROVE  1 \in Rungs /\ Ladder[1] \in Active /\ SecondsPerPulse(Ladder[1]) \in Nat
<1>1. 1 \in Rungs
  BY ActiveTiers, FS_EmptySet DEF Rungs
<1> QED
  BY <1>1, ActiveTiers, LadderFacts

LEMMA TimesMore ==
    ASSUME NEW a \in Nat, NEW q \in Nat, NEW r \in Nat, q >= r
    PROVE  a * q >= a * r /\ a * q \in Nat /\ a * r \in Nat
<1>1. a * q = a * r + a * (q - r) /\ q - r \in Nat
  OBVIOUS
<1>2. a * (q - r) \in Nat
  BY <1>1
<1> QED
  BY <1>1, <1>2

(* If no tier is worse than the rate, no rung of the walk falls below it.  *)
LEMMA WalkGrantsRate ==
    ASSUME TariffInv, NEW pulses \in Nat, NEW walk, WalksDown(walk, pulses),
           NEW rate \in Nat, \A i \in Active : SecondsPerPulse(i) >= rate
    PROVE  \A k \in 1..Cardinality(Active) + 1 :
               walk[k].seconds + walk[k].left * rate >= pulses * rate
<1> DEFINE n == Cardinality(Active)
           G == {k \in 1..n + 1 : walk[k].seconds + walk[k].left * rate >= pulses * rate}
<1>0. n \in Nat
  BY ActiveTiers
<1>1. n + 1 \in G
  BY <1>0 DEF WalksDown
<1>2. ASSUME NEW k \in 1..n, k + 1 \in G PROVE k \in G
  <2> DEFINE i == Ladder[k]
             v == walk[k + 1]
  <2>0. k \in Rungs /\ k + 1 \in 1..n + 1
    BY <1>0 DEF Rungs
  <2>a. i \in Active
    BY <2>0, LadderFacts
  <2>b. v \in Walks /\ walk[k] = TakeTier(i, v)
    BY <2>0 DEF WalksDown
  <2>1. i \in Active /\ v \in Walks /\ walk[k] = TakeTier(i, v)
    BY <2>a, <2>b
  <2>2. v.seconds + v.left * rate >= pulses * rate
    BY <1>2
  <2> HIDE DEF i, v
  <2>3. CASE Takes(i, v.left)
    <3> DEFINE a == tiers[i].pulses
               q == SecondsPerPulse(i)
    <3>1. a \in Nat /\ q \in Nat /\ q >= rate /\ v.left \in Nat /\ v.seconds \in Nat
      BY <2>1, ActiveTiers DEF Walks
    <3>2. walk[k].left = v.left - a /\ walk[k].seconds = v.seconds + a * q
      BY <2>1, <2>3, TakingIsTyped
    <3> HIDE DEF a, q
    <3>3. (v.left - a) * rate = v.left * rate - a * rate
      BY <3>1
    <3>4. a * q >= a * rate /\ a * q \in Nat /\ a * rate \in Nat
      BY <3>1, TimesMore
    <3>5. v.left * rate \in Nat /\ pulses * rate \in Nat
      BY <3>1
    <3>6. ASSUME NEW s \in Nat, NEW l \in Nat, NEW t \in Nat, NEW x \in Nat, NEW y \in Nat,
                 s + l >= t, x >= y
          PROVE  (s + x) + (l - y) >= t
      BY <3>6
    <3>7. (v.seconds + a * q) + (v.left * rate - a * rate) >= pulses * rate
      BY <2>2, <3>1, <3>4, <3>5, <3>6
    <3>8. walk[k].seconds + walk[k].left * rate >= pulses * rate
      BY <3>2, <3>3, <3>7
    <3> QED
      BY <1>0, <3>8
  <2>4. CASE ~Takes(i, v.left)
    <3>1. walk[k] = v
      BY <2>1, <2>4, TakingIsTyped
    <3> QED
      BY <1>0, <2>2, <3>1
  <2> QED
    BY <2>3, <2>4
<1> HIDE DEF G
<1>3. \A k \in 1..n + 1 : k \in G
  BY <1>0, <1>1, <1>2, CountingDown
<1> QED
  BY <1>3 DEF G

(* Nobody gets less than the rate shown on the page, whatever number of    *)
(* pulses one report carries and whatever tiers operators save, if no bulk *)
(* tier is worse than the smallest and the smallest awards a second for    *)
(* each pulse.                                                             *)
THEOREM TariffGrantsAdvertised == TariffSpec => []AdvertisedIsGranted
<1>1. TariffInv => AdvertisedIsGranted
  <2> SUFFICES ASSUME TariffInv,
                      \A i \in Active : SecondsPerPulse(i) >= SecondsPerPulse(Ladder[1]),
                      Active = {} \/ SecondsPerPulse(Ladder[1]) > 0,
                      NEW p \in PulseReports
               PROVE  Price(p).seconds >= p * Advertised
    BY DEF AdvertisedIsGranted
  <2>0. p \in Nat /\ CoinPulseSeconds \in Nat
    BY TariffConstants
  <2>1. CASE Active = {}
    BY <2>0, <2>1 DEF Price, Advertised
  <2>2. CASE Active # {}
    <3> DEFINE rate == SecondsPerPulse(Ladder[1])
    <3>1. rate \in Nat /\ Advertised = rate
      BY <2>2, LadderStarts DEF Advertised
    <3>2. PICK walk : WalksDown(walk, p) /\ Walk(p) = walk[1]
      BY <2>0, WalkExists
    <3>3. walk[1] \in Walks /\ 1 \in 1..Cardinality(Active) + 1
      BY <3>2, ActiveTiers DEF WalksDown
    <3> HIDE DEF rate
    <3>4. \A i \in Active : SecondsPerPulse(i) >= rate
      BY DEF rate
    <3>5. walk[1].seconds + walk[1].left * rate >= p * rate
      BY <2>0, <3>1, <3>2, <3>3, <3>4, WalkGrantsRate
    <3>6. Price(p).seconds = NeverFree(walk[1].seconds + walk[1].left * rate)
      BY <2>2, <3>2 DEF Price, WithLeftover, rate
    <3>7. p * rate \in Nat /\ walk[1].seconds + walk[1].left * rate \in Nat
      BY <2>0, <3>1, <3>3 DEF Walks
    <3> QED
      BY <3>1, <3>5, <3>6, <3>7 DEF NeverFree
  <2> QED
    BY <2>1, <2>2
<1> QED
  BY <1>1, TariffInitially, TariffPreserved, PTL DEF TariffSpec

-----------------------------------------------------------------------------
(* What the walk sells: the tiers it took from rung k upwards. *)

TakenAt(walk, k) == Takes(Ladder[k], walk[k + 1].left)
TakenFrom(walk, k) == {Ladder[i] : i \in {j \in k..Cardinality(Active) : TakenAt(walk, j)}}

LEMMA TakenStep ==
    ASSUME TariffInv, NEW walk, NEW k \in Rungs
    PROVE  /\ TakenFrom(walk, k) = IF TakenAt(walk, k)
                                    THEN TakenFrom(walk, k + 1) \cup {Ladder[k]}
                                    ELSE TakenFrom(walk, k + 1)
           /\ Ladder[k] \notin TakenFrom(walk, k + 1)
<1>1. /\ k \in Nat /\ Cardinality(Active) \in Nat
      /\ \A j : j \in k..Cardinality(Active) <=> j = k \/ j \in k + 1..Cardinality(Active)
  BY ActiveTiers DEF Rungs
<1>2. \A j \in k + 1..Cardinality(Active) : j \in Rungs /\ j # k
  BY ActiveTiers DEF Rungs
<1>3. Ladder[k] \notin TakenFrom(walk, k + 1)
  BY <1>2, LadderFacts DEF TakenFrom
<1>4. CASE TakenAt(walk, k)
  BY <1>1, <1>3, <1>4 DEF TakenFrom
<1>5. CASE ~TakenAt(walk, k)
  BY <1>1, <1>3, <1>5 DEF TakenFrom
<1> QED
  BY <1>3, <1>4, <1>5

LEMMA TakenActive ==
    ASSUME TariffInv, NEW walk, NEW k \in 1..Cardinality(Active) + 1
    PROVE  TakenFrom(walk, k) \in SUBSET Active
<1>1. \A j \in k..Cardinality(Active) : j \in Rungs
  BY ActiveTiers DEF Rungs
<1> QED
  BY <1>1, LadderFacts DEF TakenFrom

(* A sum over the active tiers grows by the tier that is added. *)
LEMMA SumOverTiers ==
    ASSUME TariffInv, NEW w \in [Active -> Int]
    PROVE  /\ SumFunctionOnSet(w, {}) = 0
           /\ \A taken \in SUBSET Active :
                  /\ SumFunctionOnSet(w, taken) \in Int
                  /\ \A i \in Active \ taken :
                         SumFunctionOnSet(w, taken \cup {i}) = w[i] + SumFunctionOnSet(w, taken)
<1>1. IsFiniteSet(Active)
  BY ActiveTiers
<1>2. ASSUME NEW taken \in SUBSET Active, NEW i \in Active \ taken
      PROVE  SumFunctionOnSet(w, taken \cup {i}) = w[i] + SumFunctionOnSet(w, taken)
  <2> DEFINE more == taken \cup {i}
  <2>1. more \in SUBSET Active /\ i \in more /\ more \ {i} = taken
    OBVIOUS
  <2> HIDE DEF more
  <2>2. SumFunctionOnSet(w, more) = w[i] + SumFunctionOnSet(w, taken)
    BY <1>1, <2>1, SumOfRest
  <2> QED
    BY <2>2 DEF more
<1> QED
  BY <1>1, <1>2, SumOfRest

LEMMA SumsOfTiers ==
    ASSUME TariffInv
    PROVE  /\ Covered({}) = 0 /\ Awarded({}) = 0 /\ FaceValue({}) = 0
           /\ \A taken \in SUBSET Active :
                  /\ Covered(taken) \in Int /\ Awarded(taken) \in Int
                  /\ FaceValue(taken) \in Int
                  /\ \A i \in Active \ taken :
                         /\ Covered(taken \cup {i}) = tiers[i].pulses + Covered(taken)
                         /\ Awarded(taken \cup {i}) =
                                tiers[i].pulses * SecondsPerPulse(i) + Awarded(taken)
                         /\ FaceValue(taken \cup {i}) =
                                tiers[i].pulses * CentsPerPulse(i) + FaceValue(taken)
<1>1. PICK w : w = [j \in Active |-> tiers[j].pulses]
  OBVIOUS
<1>2. PICK z : z = [j \in Active |-> tiers[j].pulses * SecondsPerPulse(j)]
  OBVIOUS
<1>3. PICK c : c = [j \in Active |-> tiers[j].pulses * CentsPerPulse(j)]
  OBVIOUS
<1>4. /\ w \in [Active -> Int] /\ z \in [Active -> Int] /\ c \in [Active -> Int]
      /\ \A j \in Active : /\ w[j] = tiers[j].pulses
                           /\ z[j] = tiers[j].pulses * SecondsPerPulse(j)
                           /\ c[j] = tiers[j].pulses * CentsPerPulse(j)
  <2>1. \A j \in Active : /\ tiers[j].pulses \in Int
                          /\ tiers[j].pulses * SecondsPerPulse(j) \in Int
                          /\ tiers[j].pulses * CentsPerPulse(j) \in Int
    BY ActiveTiers
  <2> QED
    BY <1>1, <1>2, <1>3, <2>1
<1>5. \A taken : Covered(taken) = SumFunctionOnSet(w, taken)
  BY <1>1 DEF Covered
<1>6. \A taken : Awarded(taken) = SumFunctionOnSet(z, taken)
  BY <1>2 DEF Awarded
<1>7. \A taken : FaceValue(taken) = SumFunctionOnSet(c, taken)
  BY <1>3 DEF FaceValue
<1>8. ASSUME NEW taken \in SUBSET Active, NEW i \in Active \ taken
      PROVE  /\ Covered(taken \cup {i}) = tiers[i].pulses + Covered(taken)
             /\ Awarded(taken \cup {i}) = tiers[i].pulses * SecondsPerPulse(i) + Awarded(taken)
             /\ FaceValue(taken \cup {i}) =
                    tiers[i].pulses * CentsPerPulse(i) + FaceValue(taken)
  <2>1. Covered(taken \cup {i}) = w[i] + Covered(taken)
    BY <1>4, <1>5, SumOverTiers
  <2>2. Awarded(taken \cup {i}) = z[i] + Awarded(taken)
    BY <1>4, <1>6, SumOverTiers
  <2>3. FaceValue(taken \cup {i}) = c[i] + FaceValue(taken)
    BY <1>4, <1>7, SumOverTiers
  <2> QED
    BY <1>4, <2>1, <2>2, <2>3
<1>9. /\ Covered({}) = 0 /\ Awarded({}) = 0 /\ FaceValue({}) = 0
      /\ \A taken \in SUBSET Active :
             Covered(taken) \in Int /\ Awarded(taken) \in Int /\ FaceValue(taken) \in Int
  BY <1>4, <1>5, <1>6, <1>7, SumOverTiers
<1> QED
  BY <1>8, <1>9

(* At every rung the walk has sold what the tiers taken cover and award.   *)
LEMMA WalkSells ==
    ASSUME TariffInv, NEW pulses \in Nat, NEW walk, WalksDown(walk, pulses)
    PROVE  \A k \in 1..Cardinality(Active) + 1 :
               /\ walk[k].left = pulses - Covered(TakenFrom(walk, k))
               /\ walk[k].seconds = Awarded(TakenFrom(walk, k))
               /\ walk[k].cents = FaceValue(TakenFrom(walk, k))
<1> DEFINE n == Cardinality(Active)
           Sold(k) == /\ walk[k].left = pulses - Covered(TakenFrom(walk, k))
                      /\ walk[k].seconds = Awarded(TakenFrom(walk, k))
                      /\ walk[k].cents = FaceValue(TakenFrom(walk, k))
           G == {k \in 1..n + 1 : Sold(k)}
<1>0. n \in Nat
  BY ActiveTiers
<1>1. n + 1 \in G
  <2>1. TakenFrom(walk, n + 1) = {}
    BY <1>0 DEF TakenFrom
  <2>2. walk[n + 1].left = pulses /\ walk[n + 1].seconds = 0 /\ walk[n + 1].cents = 0
    BY DEF WalksDown
  <2>3. /\ Covered(TakenFrom(walk, n + 1)) = 0 /\ Awarded(TakenFrom(walk, n + 1)) = 0
        /\ FaceValue(TakenFrom(walk, n + 1)) = 0
    BY <2>1, SumsOfTiers
  <2>4. Sold(n + 1)
    BY <2>2, <2>3
  <2> QED
    BY <1>0, <2>4
<1>2. ASSUME NEW k \in 1..n, k + 1 \in G PROVE k \in G
  <2> DEFINE i == Ladder[k]
             v == walk[k + 1]
             rest == TakenFrom(walk, k + 1)
  <2>1. k \in Rungs /\ i \in Active /\ v \in Walks /\ walk[k] = TakeTier(i, v)
    BY <1>0, LadderFacts DEF WalksDown, Rungs
  <2>2. rest \in SUBSET Active /\ i \notin rest
    BY <1>0, <2>1, TakenStep, TakenActive
  <2>3. /\ v.left = pulses - Covered(rest) /\ v.seconds = Awarded(rest)
        /\ v.cents = FaceValue(rest)
    BY <1>2
  <2>4. Covered(rest) \in Int /\ Awarded(rest) \in Int /\ FaceValue(rest) \in Int
    BY <2>2, SumsOfTiers
  <2>5. CASE TakenAt(walk, k)
    <3>1. TakenFrom(walk, k) = rest \cup {i}
      BY <2>1, <2>5, TakenStep
    <3>2. /\ walk[k].left = v.left - tiers[i].pulses
          /\ walk[k].seconds = v.seconds + tiers[i].pulses * SecondsPerPulse(i)
          /\ walk[k].cents = v.cents + tiers[i].pulses * CentsPerPulse(i)
      BY <2>1, <2>5, TakingIsTyped DEF TakenAt
    <3>3. /\ Covered(rest \cup {i}) = tiers[i].pulses + Covered(rest)
          /\ Awarded(rest \cup {i}) = tiers[i].pulses * SecondsPerPulse(i) + Awarded(rest)
          /\ FaceValue(rest \cup {i}) = tiers[i].pulses * CentsPerPulse(i) + FaceValue(rest)
      BY <2>1, <2>2, SumsOfTiers
    <3>4. /\ tiers[i].pulses \in Nat /\ tiers[i].pulses * SecondsPerPulse(i) \in Nat
          /\ tiers[i].pulses * CentsPerPulse(i) \in Nat
      BY <2>1, ActiveTiers
    <3> HIDE DEF i, v, rest
    <3>5. Sold(k)
      BY <2>3, <2>4, <3>1, <3>2, <3>3, <3>4
    <3> QED
      BY <1>0, <3>5
  <2>6. CASE ~TakenAt(walk, k)
    <3>1. TakenFrom(walk, k) = rest /\ walk[k] = v
      BY <2>1, <2>6, TakenStep, TakingIsTyped DEF TakenAt
    <3> QED
      BY <1>0, <2>3, <3>1
  <2> QED
    BY <2>5, <2>6
<1> HIDE DEF G
<1>3. \A k \in 1..n + 1 : k \in G
  BY <1>0, <1>1, <1>2, CountingDown
<1> QED
  BY <1>3 DEF G

(* Going down, the pulses left never grow. *)
LEMMA LeftShrinks ==
    ASSUME TariffInv, NEW pulses \in Nat, NEW walk, WalksDown(walk, pulses),
           NEW j \in 1..Cardinality(Active) + 1
    PROVE  \A k \in 1..Cardinality(Active) + 1 : k <= j => walk[k].left <= walk[j].left
<1> DEFINE n == Cardinality(Active)
           G == {k \in 1..n + 1 : k <= j => walk[k].left <= walk[j].left}
<1>0. n \in Nat /\ walk[j].left \in Nat
  BY ActiveTiers DEF WalksDown, Walks
<1>1. n + 1 \in G
  BY <1>0
<1>2. ASSUME NEW k \in 1..n, k + 1 \in G PROVE k \in G
  <2>0. k \in Rungs /\ k \in 1..n + 1 /\ k + 1 \in 1..n + 1
    BY <1>0 DEF Rungs
  <2>a. Ladder[k] \in Active
    BY <2>0, LadderFacts
  <2>b. /\ walk[k + 1] \in Walks /\ walk[k] \in Walks
        /\ walk[k] = TakeTier(Ladder[k], walk[k + 1])
    BY <2>0 DEF WalksDown
  <2>1. /\ Ladder[k] \in Active /\ walk[k + 1] \in Walks /\ walk[k] \in Walks
        /\ walk[k] = TakeTier(Ladder[k], walk[k + 1])
    BY <2>a, <2>b
  <2>2. /\ walk[k].left \in Nat /\ walk[k + 1].left \in Nat
        /\ tiers[Ladder[k]].pulses \in Nat
    BY <2>1, ActiveTiers DEF Walks
  <2>3. walk[k].left <= walk[k + 1].left
    BY <2>1, <2>2, TakingIsTyped
  <2>4. CASE k = j
    BY <1>0, <2>2, <2>4
  <2>5. CASE k < j
    BY <1>0, <1>2, <2>2, <2>3, <2>5
  <2> QED
    BY <1>0, <2>4, <2>5
<1> HIDE DEF G
<1>3. \A k \in 1..n + 1 : k \in G
  BY <1>0, <1>1, <1>2, CountingDown
<1> QED
  BY <1>3 DEF G

(* A tier is taken exactly when it fits what the larger ones taken leave.  *)
LEMMA WalkSoldAt ==
    ASSUME TariffInv, NEW pulses \in Nat, NEW walk, WalksDown(walk, pulses)
    PROVE  SoldAt(pulses, TakenFrom(walk, 1))
<1> DEFINE n == Cardinality(Active)
           taken == TakenFrom(walk, 1)
<1>0. n \in Nat
  BY ActiveTiers
<1> SUFFICES ASSUME NEW i \in Active
             PROVE  LET larger == {j \in taken \ {i} : Before(i, j)}
                    IN  i \in taken <=> tiers[i].pulses <= pulses - Covered(larger)
  BY DEF SoldAt
<1>1. PICK k \in Rungs : Ladder[k] = i
  BY LadderFacts
<1>2. {j \in taken \ {i} : Before(i, j)} = TakenFrom(walk, k + 1)
  <2>1. ASSUME NEW m \in Rungs, TakenAt(walk, m), m > k
        PROVE  Ladder[m] # i /\ Before(i, Ladder[m])
    BY <1>1, <2>1, LadderFacts DEF Rungs
  <2>2. ASSUME NEW m \in Rungs, Ladder[m] # i, Before(i, Ladder[m]) PROVE m > k
    <3>1. m \in Nat /\ k \in Nat /\ m # k
      BY <1>1, <2>2 DEF Rungs
    <3>2. CASE m < k
      <4>1. Before(Ladder[m], i) /\ Ladder[m] \in Active
        BY <1>1, <3>2, LadderFacts
      <4>2. Ladder[m] = i
        BY <2>2, <4>1, ActiveTiers DEF Before
      <4> QED
        BY <2>2, <4>2
    <3> QED
      BY <3>1, <3>2
  <2>3. \A m : m \in k + 1..n <=> m \in 1..n /\ m > k
    BY <1>0, <1>1 DEF Rungs
  <2> QED
    BY <2>1, <2>2, <2>3 DEF TakenFrom, Rungs
<1>3. i \in taken <=> TakenAt(walk, k)
  BY <1>1, LadderFacts DEF TakenFrom, Rungs
<1>4. k + 1 \in 1..n + 1
  BY <1>0, <1>1 DEF Rungs
<1>5. walk[k + 1].left = pulses - Covered(TakenFrom(walk, k + 1))
  BY <1>4, WalkSells
<1> QED
  BY <1>1, <1>2, <1>3, <1>5 DEF TakenAt, Takes

(* One coin that is a tier of its own is sold at that tier and no other.   *)
LEMMA WalkSellsOwnTier ==
    ASSUME TariffInv, NEW pulses \in Nat \ {0}, NEW walk, WalksDown(walk, pulses),
           NEW a \in Active, tiers[a].pulses = pulses
    PROVE  \E i \in TakenFrom(walk, 1) : TakenFrom(walk, 1) = {i} /\ tiers[i].pulses = pulses
<1> DEFINE n == Cardinality(Active)
           D == {m \in Nat : n - m \in Rungs /\ tiers[Ladder[n - m]].pulses = pulses}
<1>0. n \in Nat
  BY ActiveTiers
<1>1. D # {}
  <2>1. PICK k \in Rungs : Ladder[k] = a
    BY LadderFacts
  <2>2. n - k \in Nat /\ n - (n - k) = k
    BY <1>0 DEF Rungs
  <2>3. n - k \in D
    BY <2>1, <2>2
  <2> QED
    BY <2>3
<1>2. PICK m \in D : \A j \in D : m <= j
  BY <1>1, LeastNatural
<1>3. PICK k \in Rungs : k = n - m
  BY <1>2
<1>4. tiers[Ladder[k]].pulses = pulses /\ k \in Nat /\ k <= n /\ k >= 1
  BY <1>0, <1>2, <1>3 DEF Rungs
<1>5. \A j \in Rungs : j > k => tiers[Ladder[j]].pulses # pulses
  <2> SUFFICES ASSUME NEW j \in Rungs, j > k, tiers[Ladder[j]].pulses = pulses PROVE FALSE
    OBVIOUS
  <2>1. n - j \in Nat /\ n - (n - j) = j /\ n - j < m
    BY <1>0, <1>2, <1>3 DEF Rungs
  <2>2. n - j \in D
    BY <2>1
  <2> QED
    BY <1>2, <2>1, <2>2
<1> HIDE DEF D
<1>6. \A j \in 1..n + 1 : walk[j].left \in Nat
  BY DEF WalksDown, Walks
<1>7. ASSUME NEW j \in Rungs, j > k PROVE ~TakenAt(walk, j)
  <2>1. Before(Ladder[k], Ladder[j]) /\ Ladder[j] \in Active
    BY <1>7, LadderFacts
  <2>2. tiers[Ladder[j]].pulses > pulses
    BY <1>4, <1>5, <1>7, <2>1, ActiveTiers DEF Before
  <2>3. j + 1 \in 1..n + 1 /\ n + 1 \in 1..n + 1 /\ j + 1 <= n + 1
    BY <1>0 DEF Rungs
  <2>4. walk[j + 1].left <= walk[n + 1].left
    BY <2>3, LeftShrinks
  <2>5. walk[n + 1].left = pulses
    BY DEF WalksDown
  <2> QED
    BY <1>6, <2>1, <2>2, <2>3, <2>4, <2>5, ActiveTiers DEF TakenAt, Takes
<1>8. TakenFrom(walk, k + 1) = {}
  <2>1. \A j \in k + 1..n : j \in Rungs /\ j > k
    BY <1>0, <1>4 DEF Rungs
  <2> QED
    BY <1>7, <2>1 DEF TakenFrom
<1>9. k + 1 \in 1..n + 1 /\ k \in 1..n + 1
  BY <1>0, <1>4
<1>10. walk[k + 1].left = pulses
  <2>1. walk[k + 1].left = pulses - Covered(TakenFrom(walk, k + 1))
    BY <1>9, WalkSells
  <2>2. Covered(TakenFrom(walk, k + 1)) = 0
    BY <1>8, SumsOfTiers
  <2> QED
    BY <2>1, <2>2
<1>11. TakenAt(walk, k)
  BY <1>4, <1>10 DEF TakenAt, Takes
<1>12. walk[k].left = 0
  <2>1. Ladder[k] \in Active /\ walk[k + 1] \in Walks /\ walk[k] = TakeTier(Ladder[k], walk[k + 1])
    BY <1>9, LadderFacts DEF WalksDown
  <2> QED
    BY <1>4, <1>10, <1>11, <2>1, TakingIsTyped DEF TakenAt
<1>13. ASSUME NEW j \in Rungs, j < k PROVE ~TakenAt(walk, j)
  <2>1. j + 1 \in 1..n + 1 /\ j + 1 <= k
    BY <1>0, <1>4, <1>13 DEF Rungs
  <2>2. walk[j + 1].left <= 0
    BY <1>9, <1>12, <2>1, LeftShrinks
  <2>3. tiers[Ladder[j]].pulses \in Nat \ {0}
    BY LadderFacts, ActiveTiers
  <2> QED
    BY <1>6, <2>1, <2>2, <2>3 DEF TakenAt, Takes
<1>14. \A j \in 1..n : TakenAt(walk, j) <=> j = k
  <2>1. ASSUME NEW j \in 1..n PROVE j \in Rungs /\ (j = k \/ j < k \/ j > k)
    BY <1>0, <1>4 DEF Rungs
  <2> QED
    BY <1>7, <1>11, <1>13, <2>1
<1>15. TakenFrom(walk, 1) = {Ladder[k]}
  <2>1. {j \in 1..n : TakenAt(walk, j)} = {k}
    BY <1>14 DEF Rungs
  <2> QED
    BY <2>1 DEF TakenFrom
<1> QED
  BY <1>4, <1>15

(* "Every pulse is accounted for", in seconds and in cents: a report is    *)
(* sold at the tiers that fit, each of them once, and every other pulse at *)
(* the smallest tier, those of a second coin of a tier included; one coin  *)
(* that is a tier of its own is sold at that tier.  Whatever tiers         *)
(* operators save, and of any report.                                      *)
THEOREM TariffPricesEveryPulseOnce == TariffSpec => []EveryPulsePricedOnce
<1>1. TariffInv => EveryPulsePricedOnce
  <2> SUFFICES ASSUME TariffInv, Active # {}, NEW p \in PulseReports
               PROVE  \E taken \in SUBSET Active :
                          LET others == p - Covered(taken)
                          IN  /\ SoldAt(p, taken)
                              /\ Price(p).seconds =
                                     NeverFree(Awarded(taken)
                                               + others * SecondsPerPulse(Ladder[1]))
                              /\ Price(p).cents =
                                     FaceValue(taken) + others * CentsPerPulse(Ladder[1])
                              /\ (\E i \in Active : tiers[i].pulses = p) =>
                                     \E i \in taken : taken = {i} /\ tiers[i].pulses = p
    BY DEF EveryPulsePricedOnce
  <2>1. p \in Nat \ {0}
    BY TariffConstants
  <2>2. PICK walk : WalksDown(walk, p) /\ Walk(p) = walk[1]
    BY <2>1, WalkExists
  <2> DEFINE taken == TakenFrom(walk, 1)
  <2>3. 1 \in 1..Cardinality(Active) + 1
    BY ActiveTiers
  <2>4. taken \in SUBSET Active
    BY <2>3, TakenActive
  <2>5. /\ walk[1].left = p - Covered(taken) /\ walk[1].seconds = Awarded(taken)
        /\ walk[1].cents = FaceValue(taken)
    BY <2>1, <2>2, <2>3, WalkSells
  <2>6. SoldAt(p, taken)
    BY <2>1, <2>2, WalkSoldAt
  <2>7. (\E i \in Active : tiers[i].pulses = p) =>
            \E i \in taken : taken = {i} /\ tiers[i].pulses = p
    BY <2>1, <2>2, WalkSellsOwnTier
  <2>8. /\ Price(p).seconds =
               NeverFree(walk[1].seconds + walk[1].left * SecondsPerPulse(Ladder[1]))
        /\ Price(p).cents = walk[1].cents + walk[1].left * CentsPerPulse(Ladder[1])
    BY <2>2 DEF Price, WithLeftover
  <2> HIDE DEF taken
  <2> QED
    BY <2>4, <2>5, <2>6, <2>7, <2>8
<1> QED
  BY <1>1, TariffInitially, TariffPreserved, PTL DEF TariffSpec
=============================================================================
