---------------------------- MODULE MCPanelOperators ----------------------------
(* What operators do to a router from the Network section, one scene a       *)
(* behaviour: the pages of its menus, the hotspot installer.  The other      *)
(* scene is at rest.                                                         *)
EXTENDS RouterPages, HotspotInstall, TLC

VARIABLE scene

PanelInit ==
    /\ scene \in {"pages", "install"}
    /\ PagesInit /\ InstallInit
    /\ scene = "install" => menu = "server" /\ unknown = {}
    /\ menu \in {"pool", "vlan"} => unknown = {}  \* these send none of them

PanelNext ==
    /\ UNCHANGED scene
    /\ \/ scene = "pages" /\ PagesNext /\ UNCHANGED setupVars
       \/ scene = "install" /\ InstallNext /\ UNCHANGED pageVars

PanelVars == <<scene, deliveryVars, pageVars, setupVars>>

PanelSpec == PanelInit /\ [][PanelNext]_PanelVars

(* A form asks for no optional step, or for both that are walked. *)
MCForms == {{}, {"nat", "dns"}}

(* Objects get a second name on one of the menus only, from one operator at  *)
(* a time: no action on names asks for the menu.  Where the form is part of  *)
(* another menu's, one operator is enough.                                   *)
PagesBound ==
    /\ Cardinality({r \in Requests : request[r].name = "lan"})
           <= IF menu = "userprofile" THEN 1 ELSE 0
    /\ menu \in {"serverprofile", "gardenip", "vlan"} =>
           \E r \in Requests : request[r].op = "none"

(* Late adds are looked at in setups that do not overlap. *)
InstallBound == overlapped => lateAdds = {}

RequestSymmetry == Permutations(Requests)
=============================================================================
