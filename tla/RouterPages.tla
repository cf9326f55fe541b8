------------------------------ MODULE RouterPages ------------------------------
(***************************************************************************)
(* The Network section (handlers/network.go): operators open the live rows *)
(* of one router menu and create, edit, toggle and delete them, each by    *)
(* one RouterOS command (CommandDelivery).  A property this build of the   *)
(* device does not know is dropped from the command, which is run again.   *)
(*                                                                         *)
(* A row is its name; what the other properties hold is left out, which of *)
(* them a command carries and which the router applied is kept.            *)
(***************************************************************************)
EXTENDS CommandDelivery, FiniteSets

CONSTANTS
    Menus,          \* bound: the menus that are opened
    Ids,            \* bound: object ids the router can assign
    Names,          \* bound: names an operator may type
    NewProperties,  \* properties an older build may not know
    NoId            \* no object: the form is a create form

Properties == {"name", "match", "note", "off"}

ASSUME PagesConstants ==
    /\ NewProperties \subseteq Properties \ {"name", "match"}
    /\ NoId \notin Ids
    /\ Names \cap {"unborn", "deleted"} = {}

VARIABLES
    menu,         \* the menu that is open, the same for every operator
    unknown,      \* properties this build of the device does not know
    objects,      \* router: name of each object, or unborn or deleted
    dialog,       \* per operator: away, editing, dialling or commanding
    request,      \* per operator: operation, object, name and properties sent
    args,         \* per operator: properties still in the command
    answer,       \* per operator: the refusal on its way back, or none
    there,        \* observer: who was refused the deletion of an object that was there
    wrote,        \* observer: properties the executed copies wrote
    flash         \* per operator: none, ok, refused or unreachable

pageVars == <<menu, unknown, objects, dialog, request, args, answer, there,
              wrote, flash>>
pagesVars == <<deliveryVars, pageVars>>

Live == {i \in Ids : objects[i] \in Names}

-----------------------------------------------------------------------------
(* The editors.  A blank optional field is left out of the command and asks *)
(* RouterOS to keep what it has; always is sent even when blank, so that it *)
(* can be cleared.                                                          *)

HotspotServerArgs == [optional |-> {"name", "match"}, always |-> {"note", "off"}]
HotspotServerProfileArgs == [optional |-> {"name", "match"}, always |-> {"off"}]
HotspotUserProfileArgs == [optional |-> {"name"}, always |-> {"off"}]
WalledGardenArgs == [optional |-> {"match"}, always |-> {"note", "off"}]
WalledGardenIPArgs == [optional |-> {"match"}, always |-> {"note", "off"}]
AddIPPoolArgs == [optional |-> {"name", "match", "note"}, always |-> {}]
AddInterfaceVLANArgs == [optional |-> {"name", "match", "note"}, always |-> {}]

(* What must be filled in to create an object. *)
Editor(spec, needs) ==
    [optional |-> spec.optional, always |-> spec.always, required |-> needs]

HotspotServerForm == Editor(HotspotServerArgs, {"name", "match"})
ServerProfileForm == Editor(HotspotServerProfileArgs, {"name"})
UserProfileForm == Editor(HotspotUserProfileArgs, {"name"})
WalledGardenForm == Editor(WalledGardenArgs, {"match"})
WalledGardenIPForm == Editor(WalledGardenIPArgs, {"match"})
IPPoolForm == Editor(AddIPPoolArgs, {"name", "match"})
VLANForm == Editor(AddInterfaceVLANArgs, {"name", "match"})

FormOf ==
    [server |-> HotspotServerForm, serverprofile |-> ServerProfileForm,
     userprofile |-> UserProfileForm, garden |-> WalledGardenForm,
     gardenip |-> WalledGardenIPForm, pool |-> IPPoolForm, vlan |-> VLANForm]

(* A walled garden rule must match something whenever it is saved. *)
Gardens == {"garden", "gardenip"}
Needed(op) ==
    IF op = "create" \/ menu \in Gardens THEN FormOf[menu].required ELSE {}

(* rosWriter: what a form with these optional fields filled in sends. *)
Sent(filled) == filled \cup FormOf[menu].always

(* validate: a form a field of which is malformed goes back to the operator. *)
Valid(op, filled, malformed) == Needed(op) \subseteq filled /\ ~malformed

-----------------------------------------------------------------------------
(* From the page to the router *)

NoRequest == [op |-> "none", id |-> NoId, name |-> "none", sent |-> {}]

PagesInit ==
    /\ DeliveryInit
    /\ menu \in Menus
    /\ unknown \in SUBSET NewProperties
    /\ objects = [i \in Ids |-> "unborn"]
    /\ dialog = [r \in Requests |-> "away"]
    /\ request = [r \in Requests |-> NoRequest]
    /\ args = [r \in Requests |-> {}]
    /\ answer = [r \in Requests |-> "none"]
    /\ there = {}
    /\ wrote = [r \in Requests |-> {}]
    /\ flash = [r \in Requests |-> "none"]

(* applyEdit: pools and VLANs are only added. *)
Editable == IF menu \in {"pool", "vlan"} THEN {} ELSE Live

(* The live rows are read, and the editor of one is opened; a row or a menu *)
(* that cannot be read leaves the create form.  Bound: no copy of a command *)
(* is out any longer than until its operator goes on to the next page.      *)
NetworkDetail(r) ==
    /\ dialog[r] \in {"away", "editing"}
    /\ \E i \in Editable \cup {NoId} :
         request' = [request EXCEPT ![r] = [NoRequest EXCEPT !.id = i]]
    /\ dialog' = [dialog EXCEPT ![r] = "editing"]
    /\ flash' = [flash EXCEPT ![r] = "none"]
    /\ args' = [args EXCEPT ![r] = {}]
    /\ wrote' = [wrote EXCEPT ![r] = {}]
    /\ there' = there \ {r}
    /\ UNCHANGED <<deliveryVars, menu, unknown, objects, answer>>

(* The form as submitted becomes the request. *)
Submit(r, op, name, sent) ==
    /\ dialog[r] = "editing"
    /\ dialog' = [dialog EXCEPT ![r] = "dialling"]
    /\ request' = [request EXCEPT ![r].op = op, ![r].name = name, ![r].sent = sent]
    /\ flash' = [flash EXCEPT ![r] = "none"]
    /\ UNCHANGED <<deliveryVars, menu, unknown, objects, args, answer, there, wrote>>

Save(r, op) ==
    \E filled \in SUBSET FormOf[menu].optional, malformed \in BOOLEAN :
        /\ Valid(op, filled, malformed)
        /\ \E n \in Names : Submit(r, op, n, Sent(filled))

Create(r) == request[r].id = NoId /\ Save(r, "create")
Update(r) == request[r].id # NoId /\ Save(r, "update")
Toggle(r) == request[r].id # NoId /\ Submit(r, "toggle", "none", {"off"})
Delete(r) == request[r].id # NoId /\ Submit(r, "delete", "none", {})

HotspotServerPage(r) ==
    menu = "server" /\ (Create(r) \/ Update(r) \/ Toggle(r) \/ Delete(r))
ServerProfilePage(r) ==
    menu = "serverprofile" /\ (Create(r) \/ Update(r) \/ Delete(r))
UserProfilePage(r) ==
    menu = "userprofile" /\ (Create(r) \/ Update(r) \/ Delete(r))
WalledGardenPage(r) ==
    menu = "garden" /\ (Create(r) \/ Update(r) \/ Toggle(r) \/ Delete(r))
WalledGardenIPPage(r) ==
    menu = "gardenip" /\ (Create(r) \/ Update(r) \/ Toggle(r) \/ Delete(r))
IPPoolCreate(r) == menu = "pool" /\ Create(r)
VLANCreate(r) == menu = "vlan" /\ Create(r)

(* networkDevice: a router that cannot be dialled is sent nothing. *)
CannotReach(r) ==
    /\ dialog[r] = "dialling"
    /\ dialog' = [dialog EXCEPT ![r] = "away"]
    /\ flash' = [flash EXCEPT ![r] = "unreachable"]
    /\ request' = [request EXCEPT ![r] = NoRequest]
    /\ UNCHANGED <<deliveryVars, menu, unknown, objects, args, answer, there, wrote>>

NetworkDevice(r) ==
    /\ dialog[r] = "dialling"
    /\ dialog' = [dialog EXCEPT ![r] = "commanding"]
    /\ args' = [args EXCEPT ![r] = request[r].sent]
    /\ wrote' = [wrote EXCEPT ![r] = {}]
    /\ there' = there \ {r}
    /\ Issue(r)
    /\ UNCHANGED <<menu, unknown, objects, request, answer, flash>>

-----------------------------------------------------------------------------
(* The router *)

(* Servers, profiles, pools and VLANs have unique names; rules have none. *)
Taken(n, i) == menu \notin Gardens /\ \E j \in Live \ {i} : objects[j] = n

GivesName(r) == request[r].op = "create" \/ (request[r].op = "update" /\ "name" \in args[r])

(* Why the router would refuse the command as it stands. *)
Reasons(r) ==
    (IF args[r] \cap unknown # {} THEN {"unknown parameter"} ELSE {})
    \cup (IF GivesName(r) /\ Taken(request[r].name, request[r].id) THEN {"conflict"} ELSE {})
    \cup (IF request[r].op # "create" /\ request[r].id \notin Live THEN {"not found"} ELSE {})

(* It may find another reason, such as an interface it does not have. *)
OtherReasons(r) ==
    {"other"} \cup
    (IF menu = "server" /\ request[r].op \in {"create", "update"} /\ "match" \in args[r]
     THEN {"interface"} ELSE {})

(* Until the next page, a copy may be out: before the report or after it. *)
CommandOut(r) == request[r].op # "none" /\ dialog[r] # "dialling"

RouterApplies(r) ==
    /\ CommandOut(r)
    /\ Reasons(r) = {}
    /\ Execute(r)
    /\ wrote' = [wrote EXCEPT ![r] = @ \cup args[r]]
    /\ CASE request[r].op = "create" ->
              \E i \in Ids : /\ objects[i] = "unborn"
                             /\ objects' = [objects EXCEPT ![i] = request[r].name]
         [] request[r].op = "delete" ->
              objects' = [objects EXCEPT ![request[r].id] = "deleted"]
         [] request[r].op = "update" /\ "name" \in args[r] ->
              objects' = [objects EXCEPT ![request[r].id] = request[r].name]
         [] OTHER -> UNCHANGED objects
    /\ UNCHANGED <<menu, unknown, dialog, request, args, answer, there, flash>>

(* Only afterwards does the handler see the refusal. *)
RouterRefuses(r) ==
    /\ dialog[r] = "commanding"
    /\ \E why \in IF Reasons(r) = {} THEN OtherReasons(r) ELSE Reasons(r) :
         answer' = [answer EXCEPT ![r] = why]
    /\ there' = IF request[r].op = "delete" /\ request[r].id \in Live
                THEN there \cup {r} ELSE there \ {r}
    /\ UNCHANGED <<deliveryVars, menu, unknown, objects, dialog, request, args, wrote, flash>>

-----------------------------------------------------------------------------
(* What the handler makes of the answer *)

(* The outcome of the command ends the request; what it asked for is kept  *)
(* for the copies that are still out.                                      *)
Report(r, outcome) ==
    /\ dialog' = [dialog EXCEPT ![r] = "away"]
    /\ flash' = [flash EXCEPT ![r] = outcome]
    /\ answer' = [answer EXCEPT ![r] = "none"]
    /\ UNCHANGED <<menu, unknown, objects, request, args, there, wrote>>

Applied(r) ==
    /\ dialog[r] = "commanding"
    /\ Succeed(r)
    /\ Report(r, "ok")

(* Seeded fault: the last property is dropped like any other. *)
DropsLastParameter(r) ==
    /\ dialog[r] = "commanding"
    /\ answer[r] = "unknown parameter"
    /\ answer' = [answer EXCEPT ![r] = "none"]
    /\ \E p \in args[r] \cap unknown : args' = [args EXCEPT ![r] = @ \ {p}]
    /\ UNCHANGED <<deliveryVars, menu, unknown, objects, dialog, request, there, wrote, flash>>

(* addROSObject, setROSObject: the refused property is dropped and the     *)
(* command run again, unless nothing would be left of it.                  *)
DropsParameter(r) ==
    /\ dialog[r] = "commanding"
    /\ answer[r] = "unknown parameter"
    /\ answer' = [answer EXCEPT ![r] = "none"]
    /\ \E p \in args[r] \cap unknown :
         /\ args[r] # {p}
         /\ args' = [args EXCEPT ![r] = @ \ {p}]
    /\ UNCHANGED <<deliveryVars, menu, unknown, objects, dialog, request, there, wrote, flash>>

(* removeROSObject: an object that is already gone was deleted. *)
AlreadyGone(r) ==
    /\ dialog[r] = "commanding"
    /\ request[r].op = "delete"
    /\ answer[r] = "not found"
    /\ Fail(r)
    /\ Report(r, "ok")

(* Seeded fault: every refusal is an error. *)
DeclinedWhateverTheReason(r) ==
    /\ dialog[r] = "commanding"
    /\ answer[r] # "none"
    /\ Fail(r)
    /\ Report(r, "refused")

(* Every other refusal is the outcome. *)
Declined(r) ==
    /\ dialog[r] = "commanding"
    /\ CASE answer[r] = "none" -> FALSE
         [] answer[r] = "unknown parameter" -> Cardinality(args[r]) = 1
         [] answer[r] = "not found" -> request[r].op # "delete"
         [] answer[r] = "interface" -> FALSE
         [] OTHER -> TRUE
    /\ Fail(r)
    /\ Report(r, "refused")

(* A refused interface reopens the editor of the server. *)
ExplainInterfaceRefusal(r) ==
    /\ dialog[r] = "commanding"
    /\ answer[r] = "interface"
    /\ Fail(r)
    /\ dialog' = [dialog EXCEPT ![r] = "editing"]
    /\ flash' = [flash EXCEPT ![r] = "refused"]
    /\ answer' = [answer EXCEPT ![r] = "none"]
    /\ UNCHANGED <<menu, unknown, objects, request, args, there, wrote>>

(* No answer came: the command may have been executed all the same. *)
Unreported(r) ==
    /\ dialog[r] = "commanding"
    /\ Fail(r)
    /\ Report(r, "unreachable")

PagesNext ==
    \E r \in Requests :
        \/ NetworkDetail(r)
        \/ HotspotServerPage(r) \/ ServerProfilePage(r) \/ UserProfilePage(r)
        \/ WalledGardenPage(r) \/ WalledGardenIPPage(r)
        \/ IPPoolCreate(r) \/ VLANCreate(r)
        \/ CannotReach(r) \/ NetworkDevice(r)
        \/ RouterApplies(r) \/ RouterRefuses(r) \/ Applied(r) \/ DropsParameter(r)
        \/ AlreadyGone(r) \/ Declined(r) \/ ExplainInterfaceRefusal(r)
        \/ Unreported(r)

PagesSpec == PagesInit /\ [][PagesNext]_pagesVars

-----------------------------------------------------------------------------
(* Properties *)

(* A page that reports a write done has written every property this build  *)
(* knows, and at least one: a setting is dropped only because the device   *)
(* refused it, and a toggle it does not know is never reported done.       *)
DoneMeansWritten ==
    \A r \in Requests :
        flash[r] = "ok" /\ request[r].op \in {"create", "update", "toggle"} =>
            wrote[r] # {} /\ request[r].sent \ unknown = wrote[r]

(* Two operators, or one double click, delete the same object, over a      *)
(* connection on which the command may be executed, refused as already     *)
(* done, or overtaken by its own copy: the page reports ok only once the   *)
(* object is gone, and a refusal only when the object was there as the     *)
(* router refused.                                                         *)
DeleteTellsTheTruth ==
    [][\A r \in Requests :
          flash[r] = "none" /\ request[r].op = "delete" =>
              /\ flash'[r] = "ok" => request[r].id \notin Live'
              /\ flash'[r] = "refused" => r \in there]_pagesVars
=============================================================================
