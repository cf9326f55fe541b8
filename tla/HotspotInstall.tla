----------------------------- MODULE HotspotInstall -----------------------------
(***************************************************************************)
(* The hotspot installer of the Network page: one request walks the        *)
(* RouterOS setup, from the gateway address to the walled garden rule.     *)
(* Each step looks for its object and adds it when it finds none, over a   *)
(* connection on which an add may be executed twice, or only after its     *)
(* setup has gone on (CommandDelivery).                                    *)
(*                                                                         *)
(* RouterOS refuses a second address, pool, DHCP server, profile, server   *)
(* or user of one name; it takes any number of masquerade rules and walled *)
(* garden rules.  Other operators delete objects at any time.              *)
(***************************************************************************)
EXTENDS CommandDelivery, Sequences, FiniteSets

CONSTANTS
    Kinds,          \* bound: the steps that are walked, by the object they add
    Forms,          \* bound: the optional kinds a form may ask for
    MaxRemovals,    \* bound: deletions by others
    MaxLateAdds     \* bound: adds still out after the report on them

(* The steps of InstallHotspot, in order, and those a form may leave out.  *)
SetupOrder == <<"address", "pool", "dhcp", "nat", "dns", "profile", "server",
                "admin", "garden">>
Walked == {i \in 1..Len(SetupOrder) : SetupOrder[i] \in Kinds}
Optional == {"nat", "dns", "garden"}
Unnamed == {"nat", "garden"}

ASSUME InstallConstants ==
    /\ SetupOrder[1] \in Kinds
    /\ Kinds \subseteq {SetupOrder[i] : i \in 1..Len(SetupOrder)}
    /\ Forms \subseteq SUBSET (Optional \cap Kinds)
    /\ MaxRemovals \in Nat /\ MaxLateAdds \in Nat

VARIABLES
    placed,       \* router: how many objects of each kind the setup left
    wanted,       \* per request: the optional kinds its form asks for
    setup,        \* per request: idle, looking, adding, complete or broken
    step,         \* per request: position in SetupOrder
    lateAdds,     \* kinds an add of which is out after the report on it
    stray,        \* observer: kinds an add of which was executed twice or late
    overlapped,   \* observer: two setups were under way at once
    removed,      \* bound: deletions so far
    touched       \* observer: requests during which something was deleted

setupVars == <<placed, wanted, setup, step, lateAdds, stray, overlapped, removed, touched>>
installVars == <<deliveryVars, setupVars>>

-----------------------------------------------------------------------------
UnderWay(r) == setup[r] \in {"looking", "adding"}
Kind(r) == SetupOrder[step[r]]
Asked(r, k) == k \notin Optional \/ k \in wanted[r]

(* On to the next step the form asks for; past the last one it is done. *)
MoveOn(r) ==
    LET left == {i \in Walked : i > step[r] /\ Asked(r, SetupOrder[i])}
    IN  IF left = {}
        THEN setup' = [setup EXCEPT ![r] = "complete"] /\ UNCHANGED step
        ELSE /\ step' = [step EXCEPT ![r] = CHOOSE i \in left : \A j \in left : i <= j]
             /\ setup' = [setup EXCEPT ![r] = "looking"]

Stop(r) == setup' = [setup EXCEPT ![r] = "broken"] /\ UNCHANGED step

InstallInit ==
    /\ DeliveryInit
    /\ placed = [k \in Kinds |-> 0]
    /\ wanted = [r \in Requests |-> {}]
    /\ setup = [r \in Requests |-> "idle"]
    /\ step = [r \in Requests |-> 1]
    /\ lateAdds = {}
    /\ stray = {}
    /\ overlapped = FALSE
    /\ removed = 0
    /\ touched = {}

(* A valid form reaches the router; an invalid one changes nothing. *)
HotspotInstall(r) ==
    /\ ~UnderWay(r)
    /\ \E w \in Forms : wanted' = [wanted EXCEPT ![r] = w]
    /\ setup' = [setup EXCEPT ![r] = "looking"]
    /\ step' = [step EXCEPT ![r] = 1]
    /\ overlapped' = (overlapped \/ \E q \in Requests \ {r} : UnderWay(q))
    /\ touched' = touched \ {r}
    /\ UNCHANGED <<deliveryVars, placed, lateAdds, stray, removed>>

(* DNS servers are set, not added: there is nothing to reuse. *)
Reusable(r) == Kind(r) # "dns" /\ placed[Kind(r)] > 0

Finds(r) ==
    /\ setup[r] = "looking"
    /\ Reusable(r)
    /\ MoveOn(r)
    /\ UNCHANGED <<deliveryVars, placed, wanted, lateAdds, stray, overlapped, removed, touched>>

(* Seeded fault: the object is added whatever the lookup found. *)
AddsUnseen(r) ==
    /\ setup[r] = "looking"
    /\ Issue(r)
    /\ setup' = [setup EXCEPT ![r] = "adding"]
    /\ UNCHANGED <<placed, wanted, step, lateAdds, stray, overlapped, removed, touched>>

Misses(r) ==
    /\ setup[r] = "looking"
    /\ ~Reusable(r)
    /\ Issue(r)
    /\ setup' = [setup EXCEPT ![r] = "adding"]
    /\ UNCHANGED <<placed, wanted, step, lateAdds, stray, overlapped, removed, touched>>

(* Seeded fault: a step whose lookup fails is taken for done. *)
LookPassesOver(r) ==
    /\ setup[r] = "looking"
    /\ MoveOn(r)
    /\ UNCHANGED <<deliveryVars, placed, wanted, lateAdds, stray, overlapped, removed, touched>>

(* A lookup that fails ends the setup; the steps done stay done. *)
LookFails(r) ==
    /\ setup[r] = "looking"
    /\ Stop(r)
    /\ UNCHANGED <<deliveryVars, placed, wanted, lateAdds, stray, overlapped, removed, touched>>

(* What the router makes of one copy of an add. *)
Accepts(k) == k = "dns" \/ k \in Unnamed \/ placed[k] = 0

AddExecuted(r) ==
    /\ setup[r] = "adding"
    /\ Accepts(Kind(r))
    /\ Execute(r)
    /\ placed' = [placed EXCEPT ![Kind(r)] = IF Kind(r) = "dns" THEN 1 ELSE @ + 1]
    /\ stray' = IF copies[r] > 0 THEN stray \cup ({Kind(r)} \cap Unnamed) ELSE stray
    /\ UNCHANGED <<wanted, setup, step, lateAdds, overlapped, removed, touched>>

(* A copy that is not executed yet may outlive the report. *)
MayLeaveCopy(r) ==
    \/ UNCHANGED lateAdds
    \/ /\ copies[r] < RunAttempts
       /\ Cardinality(lateAdds) < MaxLateAdds
       /\ lateAdds' = lateAdds \cup {Kind(r)}

AddReported(r) ==
    /\ setup[r] = "adding"
    /\ Succeed(r)
    /\ MoveOn(r)
    /\ MayLeaveCopy(r)
    /\ UNCHANGED <<placed, wanted, stray, overlapped, removed, touched>>

(* The add was refused, as the second of a name is, or no answer came. *)
AddFails(r) ==
    /\ setup[r] = "adding"
    /\ Fail(r)
    /\ Stop(r)
    /\ MayLeaveCopy(r)
    /\ UNCHANGED <<placed, wanted, stray, overlapped, removed, touched>>

LateAddExecuted(k) ==
    /\ k \in lateAdds
    /\ Accepts(k)
    /\ lateAdds' = lateAdds \ {k}
    /\ placed' = [placed EXCEPT ![k] = IF k = "dns" THEN 1 ELSE @ + 1]
    /\ stray' = stray \cup ({k} \cap Unnamed)
    /\ UNCHANGED <<deliveryVars, wanted, setup, step, overlapped, removed, touched>>

(* Another operator deletes the objects of one kind. *)
Deleted(k) ==
    /\ removed < MaxRemovals
    /\ k # "dns"
    /\ placed[k] > 0
    /\ placed' = [placed EXCEPT ![k] = 0]
    /\ removed' = removed + 1
    /\ touched' = touched \cup {r \in Requests : UnderWay(r) \/ setup[r] = "complete"}
    /\ UNCHANGED <<deliveryVars, wanted, setup, step, lateAdds, stray, overlapped>>

InstallNext ==
    \/ \E r \in Requests :
        \/ HotspotInstall(r) \/ Finds(r) \/ Misses(r) \/ LookFails(r)
        \/ AddExecuted(r) \/ AddReported(r) \/ AddFails(r)
    \/ \E k \in Kinds : Deleted(k) \/ LateAddExecuted(k)

InstallSpec == InstallInit /\ [][InstallNext]_installVars

-----------------------------------------------------------------------------
(* Properties *)

InstallTypeOK ==
    /\ stage \in [Requests -> {"idle", "running", "done", "failed"}]
    /\ copies \in [Requests -> 0..RunAttempts]
    /\ placed \in [Kinds -> Nat]
    /\ wanted \in [Requests -> SUBSET Optional]
    /\ setup \in [Requests -> {"idle", "looking", "adding", "complete", "broken"}]
    /\ step \in [Requests -> Walked]
    /\ lateAdds \subseteq Kinds
    /\ stray \subseteq Kinds
    /\ overlapped \in BOOLEAN
    /\ removed \in 0..MaxRemovals
    /\ touched \subseteq Requests

(* InstallHotspot's comment: a retry after a partial failure creates no    *)
(* duplicates.  Of the rules without a name it holds as long as no lost    *)
(* answer doubled or delayed an add and no two setups overlapped, whatever *)
(* step an earlier setup broke off at.                                     *)
RerunsAddNoDuplicates ==
    \A k \in Kinds :
        placed[k] > 1 => k \in Unnamed /\ (k \in stray \/ overlapped)

(* A setup reported complete has left every object its form asked for on   *)
(* the router, the ones it reused included, unless somebody deleted one    *)
(* while it ran.                                                           *)
CompleteMeansConfigured ==
    \A r \in Requests : setup[r] = "complete" /\ r \notin touched =>
        \A k \in Kinds : Asked(r, k) => placed[k] > 0
=============================================================================
