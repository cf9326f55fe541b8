------------------------------ MODULE RouterClient ------------------------------
(***************************************************************************)
(* MikrotikClient: how one request reaches a router and has it run a       *)
(* command.  DialRouter walks the transports the router's mode allows and  *)
(* keeps the first that logs in; Run sends the command, and once more on a *)
(* fresh connection when the first one was lost.  Each request dials its   *)
(* own client; they share the inventory row (last transport, health) and   *)
(* the router, which may reboot or change its services at any point.       *)
(*                                                                         *)
(* A lost connection says nothing of the command: the copy on the wire may *)
(* still be executed, also after the caller has been told of the failure.  *)
(* Copies are counted for a command until its client sends the next one.   *)
(***************************************************************************)
EXTENDS Naturals, Sequences, FiniteSets

CONSTANTS
    Callers,          \* requests with a client of their own
    RunAttempts,      \* runAttempts
    Services,         \* bound: the sets of services the router may come up with
    Modes             \* transport modes an inventory row may hold

Transports == {"rest", "rest-ssl", "api", "api-ssl"}
REST == {"rest", "rest-ssl"}

ASSUME ClientConstants ==
    /\ RunAttempts \in Nat \ {0}
    /\ Services \subseteq SUBSET Transports
    /\ Modes \subseteq Transports \cup {"auto"}

VARIABLES
    mode,         \* inventory row: transport mode
    restPort,     \* inventory row: a REST port was entered
    remembered,   \* inventory row: last_transport
    health,       \* inventory row: last_status
    serving,      \* services the router listens on
    todo,         \* per caller: transports still to be probed
    session,      \* per caller: the transport its client keeps
    live,         \* per caller: its connection is up, broken (unnoticed) or none
    at,           \* per caller: where it is
    attempt,      \* per caller: which attempt of Run is under way
    wire,         \* per caller: attempts whose copy may yet be executed
    executed,     \* per caller: attempts whose copy was executed
    form,         \* per caller: REST verb, or the universal POST form
    verdict       \* per caller: outcome of its last command

row == <<mode, restPort, remembered, health>>
command == <<attempt, wire, executed, form, verdict>>
clientVars == <<row, serving, todo, session, live, at, command>>

-----------------------------------------------------------------------------
(* Candidates, refusals and failures *)

(* transportCandidates: an explicit mode is the only candidate; auto mode  *)
(* tries the secure order with the transport that answered last in front.  *)
Candidates(m, last) ==
    IF m # "auto" THEN <<m>>
    ELSE LET order == <<"rest-ssl", "api-ssl", "api">>
             Remembered(t) == t = last
             Other(t) == t # last
         IN  SelectSeq(order, Remembered) \o SelectSeq(order, Other)

(* What may end a call without an answer from the router. *)
Causes == {"cancelled", "slow answer", "connection broken", "refused dial", "certificate"}

(* isConnectionLoss: a slow answer on the binary API counts as a loss, the *)
(* end of the request's own deadline does not.                             *)
IsConnectionLoss(cause) ==
    cause \in {"slow answer", "connection broken", "refused dial"}

(* Seeded fault: the attempts are counted from the retry. *)
RetriesOnceMore(cause, n) == IsConnectionLoss(cause) /\ n <= RunAttempts

(* Run's loop condition: a lost connection, and an attempt left. *)
Retries(cause, n) == IsConnectionLoss(cause) /\ n < RunAttempts

(* classify, for a call the router did not answer. *)
Classify(cause) ==
    IF cause \in {"cancelled", "slow answer"} THEN "timeout" ELSE "unreachable"

(* classifyDeviceMessage: the refusals a trap text is told apart into. *)
DeviceRefusals ==
    {"auth", "no command", "unknown host", "conflict", "not found",
     "permission", "timeout", "device"}

(* sentinelForStatus: RouterOS prose decides first, the status after it. *)
SentinelForStatus(status, prose) ==
    IF prose # "device" THEN prose
    ELSE CASE status = 401 -> "auth"
           [] status = 403 -> "permission"
           [] status = 404 -> "not found"
           [] status \in {405, 406} -> "no command"
           [] status >= 500 -> "unreachable"
           [] OTHER -> "device"

Sentinels == DeviceRefusals \cup {"unreachable"}

RefusedWith(prose) ==
    {SentinelForStatus(s, prose) : s \in {400, 401, 403, 404, 406, 500}}

Refusals(t) ==
    IF t \in REST THEN RefusedWith("device") \cup RefusedWith("conflict")
    ELSE DeviceRefusals

-----------------------------------------------------------------------------
(* Dialling *)

ClientInit ==
    /\ mode \in Modes
    /\ restPort \in BOOLEAN
    /\ remembered \in {"none", "api"}
    /\ health = "unknown"
    /\ serving \in Services
    /\ todo = [c \in Callers |-> <<>>]
    /\ session = [c \in Callers |-> "none"]
    /\ live = [c \in Callers |-> "none"]
    /\ at = [c \in Callers |-> "idle"]
    /\ attempt = [c \in Callers |-> 0]
    /\ wire = [c \in Callers |-> {}]
    /\ executed = [c \in Callers |-> {}]
    /\ form = [c \in Callers |-> "verb"]
    /\ verdict = [c \in Callers |-> "none"]

(* DialRouter takes its candidates from the row the handler loaded. *)
BeginDial(c) ==
    /\ at[c] = "idle"
    /\ at' = [at EXCEPT ![c] = "dialling"]
    /\ todo' = [todo EXCEPT ![c] = Candidates(mode, remembered)]
    /\ UNCHANGED <<row, serving, session, live, command>>

(* Plain REST is never dialled on a port nobody entered. *)
MayProbe(t) == t # "rest" \/ restPort

(* The first candidate that logs in is kept, and dialRouter records it. *)
ProbeAnswers(c) ==
    /\ at[c] = "dialling"
    /\ todo[c] # <<>>
    /\ MayProbe(Head(todo[c]))
    /\ Head(todo[c]) \in serving
    /\ session' = [session EXCEPT ![c] = Head(todo[c])]
    /\ live' = [live EXCEPT ![c] = "up"]
    /\ at' = [at EXCEPT ![c] = "connected"]
    /\ todo' = [todo EXCEPT ![c] = <<>>]
    /\ health' = "online"
    /\ remembered' = Head(todo[c])
    /\ UNCHANGED <<mode, restPort, serving, command>>

(* Probes may also time out on a router that listens. *)
ProbeFails(c) ==
    /\ at[c] = "dialling"
    /\ Len(todo[c]) > 1
    /\ todo' = [todo EXCEPT ![c] = Tail(@)]
    /\ UNCHANGED <<row, serving, session, live, at, command>>

(* No candidate is left, or the request ended: the row is marked offline. *)
DialFails(c) ==
    /\ at[c] = "dialling"
    /\ at' = [at EXCEPT ![c] = "idle"]
    /\ todo' = [todo EXCEPT ![c] = <<>>]
    /\ health' = "offline"
    /\ UNCHANGED <<mode, restPort, remembered, serving, session, live, command>>

Close(c) ==
    /\ at[c] = "connected"
    /\ at' = [at EXCEPT ![c] = "idle"]
    /\ session' = [session EXCEPT ![c] = "none"]
    /\ live' = [live EXCEPT ![c] = "none"]
    /\ UNCHANGED <<row, serving, todo, command>>

-----------------------------------------------------------------------------
(* Run *)

(* connection, and Connect of the REST client: a dropped connection is     *)
(* dialled again, one that broke unnoticed is used as it is.               *)
Usable(c) ==
    \/ live[c] = "up"
    \/ (live[c] = "none" \/ session[c] \in REST) /\ session[c] \in serving

Send(c) ==
    /\ at[c] = "connected"
    /\ at' = [at EXCEPT ![c] = "sent"]
    /\ attempt' = [attempt EXCEPT ![c] = 1]
    /\ wire' = [wire EXCEPT ![c] = IF Usable(c) THEN {1} ELSE {}]
    /\ live' = [live EXCEPT ![c] = IF Usable(c) THEN "up" ELSE @]
    /\ executed' = [executed EXCEPT ![c] = {}]
    /\ form' = [form EXCEPT ![c] = "verb"]
    /\ verdict' = [verdict EXCEPT ![c] = "none"]
    /\ UNCHANGED <<row, serving, todo, session>>

RouterExecutes(c, n) ==
    /\ wire' = [wire EXCEPT ![c] = @ \ {n}]
    /\ executed' = [executed EXCEPT ![c] = @ \cup {n}]
    /\ UNCHANGED <<row, serving, todo, session, live, at, attempt, form, verdict>>

Decide(c, outcome) ==
    /\ at' = [at EXCEPT ![c] = "connected"]
    /\ verdict' = [verdict EXCEPT ![c] = outcome]
    /\ UNCHANGED <<row, serving, todo, session, attempt, executed, form>>

Answered(c) ==
    /\ at[c] = "sent"
    /\ attempt[c] \in executed[c]
    /\ live[c] = "up"
    /\ Decide(c, "ok")
    /\ UNCHANGED <<live, wire>>

(* A menu that refuses the REST verb is asked again in the command form. *)
AsksAgainInCommandForm(c) ==
    /\ at[c] = "sent"
    /\ attempt[c] \in wire[c]
    /\ session[c] \in REST
    /\ form[c] = "verb"
    /\ form' = [form EXCEPT ![c] = "post"]
    /\ UNCHANGED <<row, serving, todo, session, live, at, attempt, wire, executed, verdict>>

(* A refusal is the router's answer, and is never retried; the command     *)
(* form refused, the refusal of the verb is what the caller is told.       *)
Refused(c) ==
    /\ at[c] = "sent"
    /\ attempt[c] \in wire[c]
    /\ live[c] = "up"
    /\ \E s \in Refusals(session[c]) :
            Decide(c, IF form[c] = "post" THEN "no command" ELSE s)
    /\ wire' = [wire EXCEPT ![c] = @ \ {attempt[c]}]
    /\ UNCHANGED live

(* The call ends without an answer; a command form that got none is not    *)
(* retried either, and leaves the refusal of the verb.                     *)
Unanswered(c, cause) ==
    /\ at[c] = "sent"
    /\ live' = [live EXCEPT ![c] = "broken"]
    /\ IF form[c] = "verb" /\ Retries(cause, attempt[c])
       THEN /\ at' = [at EXCEPT ![c] = "waiting"]
            /\ UNCHANGED <<row, serving, todo, session, command>>
       ELSE /\ Decide(c, IF form[c] = "post" THEN "no command" ELSE Classify(cause))
            /\ UNCHANGED wire

(* After the pause: Reset, then Connect over the transport already chosen. *)
Reconnects(c) ==
    /\ at[c] = "waiting"
    /\ session[c] \in serving
    /\ at' = [at EXCEPT ![c] = "sent"]
    /\ live' = [live EXCEPT ![c] = "up"]
    /\ attempt' = [attempt EXCEPT ![c] = @ + 1]
    /\ wire' = [wire EXCEPT ![c] = @ \cup {attempt[c] + 1}]
    /\ form' = [form EXCEPT ![c] = "verb"]
    /\ UNCHANGED <<row, serving, todo, session, executed, verdict>>

(* The pause was cut short, or the fresh connection failed. *)
ReconnectFails(c) ==
    /\ at[c] = "waiting"
    /\ live' = [live EXCEPT ![c] = "none"]
    /\ \E cause \in Causes : Decide(c, Classify(cause))
    /\ UNCHANGED wire

-----------------------------------------------------------------------------
(* The router *)

(* A reboot breaks every connection and forgets what was on the wire. *)
RouterReboots ==
    /\ serving # {}
    /\ serving' = {}
    /\ live' = [c \in Callers |-> IF live[c] = "none" THEN "none" ELSE "broken"]
    /\ wire' = [c \in Callers |-> {}]
    /\ UNCHANGED <<row, todo, session, at, attempt, executed, form, verdict>>

RouterStarts ==
    /\ serving = {}
    /\ serving' \in Services
    /\ UNCHANGED <<row, todo, session, live, at, command>>

CommandStep(c) ==
    \/ Answered(c) \/ Refused(c) \/ Reconnects(c) \/ ReconnectFails(c)
    \/ \E cause \in Causes : Unanswered(c, cause)

ClientNext ==
    \/ \E c \in Callers :
        \/ BeginDial(c) \/ ProbeAnswers(c) \/ ProbeFails(c) \/ DialFails(c)
        \/ Close(c) \/ Send(c) \/ AsksAgainInCommandForm(c) \/ CommandStep(c)
        \/ \E n \in wire[c] : RouterExecutes(c, n)
    \/ RouterReboots \/ RouterStarts

(* Every call carries a deadline, so a command under way always gets on.   *)
ClientFairness == \A c \in Callers : WF_clientVars(CommandStep(c))

ClientSafety == ClientInit /\ [][ClientNext]_clientVars

ClientSpec == ClientSafety /\ ClientFairness

-----------------------------------------------------------------------------
(* Properties *)

(* What the caller of Run can tell of its last command. *)
StageOf(c) ==
    IF at[c] \in {"sent", "waiting"} THEN "running"
    ELSE IF verdict[c] = "none" THEN "idle"
    ELSE IF verdict[c] = "ok" THEN "done"
    ELSE "failed"

CopiesOf(c) == Cardinality(executed[c])

Delivery == INSTANCE CommandDelivery WITH
    Requests <- Callers,
    stage <- [c \in Callers |-> StageOf(c)],
    copies <- [c \in Callers |-> CopiesOf(c)]

(* Whatever the transport, the reconnects and the reboots of the router,   *)
(* Run keeps the promise of CommandDelivery: done means executed, at most  *)
(* runAttempts copies are executed, and every command is answered.         *)
ImplementsDelivery == Delivery!DeliverySpec
=============================================================================
