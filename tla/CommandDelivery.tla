---------------------------- MODULE CommandDelivery ----------------------------
(***************************************************************************)
(* What sending one command to a router promises its caller, and no more:  *)
(* a command that is reported done has been executed, no command is        *)
(* executed more often than it may be sent, and every command is answered. *)
(* A command reported failed may have been executed all the same, or may   *)
(* be executed after the report.                                           *)
(*                                                                         *)
(* RouterClient implements this; RouterPages and HotspotInstall are built  *)
(* on it.                                                                  *)
(***************************************************************************)
EXTENDS Naturals

CONSTANTS
    Requests,      \* requests that command the router
    RunAttempts    \* times one command may be sent (runAttempts)

ASSUME DeliveryConstants == RunAttempts \in Nat \ {0}

VARIABLES
    stage,    \* per request: idle, running, done or failed
    copies    \* copies of its command the router has executed

deliveryVars == <<stage, copies>>

DeliveryInit ==
    /\ stage = [r \in Requests |-> "idle"]
    /\ copies = [r \in Requests |-> 0]

(* A request has one command out at a time. *)
Issue(r) ==
    /\ stage[r] # "running"
    /\ stage' = [stage EXCEPT ![r] = "running"]
    /\ copies' = [copies EXCEPT ![r] = 0]

(* A copy may outlive the report on its command. *)
Execute(r) ==
    /\ stage[r] # "idle"
    /\ copies[r] < RunAttempts
    /\ copies' = [copies EXCEPT ![r] = @ + 1]
    /\ UNCHANGED stage

Succeed(r) ==
    /\ stage[r] = "running"
    /\ copies[r] > 0
    /\ stage' = [stage EXCEPT ![r] = "done"]
    /\ UNCHANGED copies

Fail(r) ==
    /\ stage[r] = "running"
    /\ stage' = [stage EXCEPT ![r] = "failed"]
    /\ UNCHANGED copies

DeliveryNext ==
    \E r \in Requests : Issue(r) \/ Execute(r) \/ Succeed(r) \/ Fail(r)

DeliverySafety == DeliveryInit /\ [][DeliveryNext]_deliveryVars

DeliverySpec ==
    /\ DeliverySafety
    /\ \A r \in Requests : WF_deliveryVars(Succeed(r) \/ Fail(r))
=============================================================================
