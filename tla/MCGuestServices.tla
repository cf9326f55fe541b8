---------------------------- MODULE MCGuestServices ----------------------------
(* What a guest's request rests on, one scene a behaviour: the client that   *)
(* reaches the router, and the login page on the router.  The other scene is *)
(* at rest; fairness is asked of the scene that plays.                       *)
EXTENDS RouterClient, PortalHandoff

VARIABLE scene

guestVars == <<scene, clientVars, handoffVars>>

AtRest(s) ==
    CASE s = "client" -> /\ mode = "auto" /\ ~restPort /\ remembered = "none"
                         /\ serving = {}
      [] s = "handoff" -> loginPage = [d \in Directories |-> "handoff"] /\ readable

Scenes == {"client", "handoff"}

GuestInit ==
    /\ scene \in Scenes
    /\ ClientInit /\ HandoffInit
    /\ \A s \in Scenes \ {scene} : AtRest(s)

GuestNext ==
    /\ UNCHANGED scene
    /\ \/ scene = "client" /\ ClientNext /\ UNCHANGED handoffVars
       \/ scene = "handoff" /\ HandoffNext /\ UNCHANGED clientVars

GuestSpec ==
    /\ GuestInit /\ [][GuestNext]_guestVars
    /\ ClientFairness
    /\ scene = "handoff" => HandoffFairness

MCServices == {{}, {"api"}, {"rest-ssl"}}
=============================================================================
