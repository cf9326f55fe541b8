----------------------------- MODULE PortalHandoff -----------------------------
(***************************************************************************)
(* The login page on the router, the one file every guest passes through.  *)
(* A guest that reaches the panel without the hotspot's parameters makes   *)
(* it check that page, at most once per window, and install it again when  *)
(* it is missing or provably broken; an operator's button installs it      *)
(* whenever it is pressed.  Both drive the same router: find out where it  *)
(* keeps its pages, look the file up, remove it, have the router fetch the *)
(* page, read it back.  The check and the install each find out anew, and  *)
(* a failed read sends them to another directory than the one guests are   *)
(* served from.                                                            *)
(*                                                                         *)
(* /tool/fetch never overwrites a file.  Some builds return no contents.   *)
(***************************************************************************)
EXTENDS Naturals

CONSTANTS
    HealJobs,     \* checks a guest's request may start
    ButtonJobs,   \* installs an operator may start
    HealWindow,   \* portalHealInterval, in ticks
    JobTimeout,   \* portalHealTimeout, in ticks
    MaxIncidents  \* bound: presses of the button, and changes by something else

Jobs == HealJobs \cup ButtonJobs

(* Where guests are served from, and where a failed read leads. *)
Directories == {"served", "other"}

ASSUME HandoffConstants ==
    /\ HealJobs \cap ButtonJobs = {}
    /\ HealWindow \in Nat /\ JobTimeout \in Nat /\ JobTimeout < HealWindow
    /\ MaxIncidents \in Nat

VARIABLES
    loginPage,    \* per directory: none, empty, stale, handoff, or fetched but wrong
    readable,     \* router: /file/print returns the contents
    sinceClaim,   \* panel: ticks since the window was claimed, capped
    job,          \* per job: where it is; idle unless it ended with verified
    age,          \* per job: ticks since it started
    dir,          \* per job: the directory it found
    held,         \* per job: the file it looked up is still the one there
    cleared,      \* observer: jobs whose look-up of the old file worked
    meddled,      \* observer: jobs during which something else wrote the file
    incidents     \* bound: presses and changes so far

handoffVars == <<loginPage, readable, sinceClaim, job, age, dir, held, cleared, meddled,
                incidents>>

Ended == {"idle", "verified"}
Working(j) == job[j] \notin Ended

-----------------------------------------------------------------------------
(* portalPageLooksInstalled and the size check: contents the router does   *)
(* not return are no evidence of damage.                                   *)
LooksInstalled(d) ==
    loginPage[d] = "handoff" \/ (loginPage[d] \in {"stale", "wrong"} /\ ~readable)

HandoffInit ==
    /\ loginPage \in [Directories -> {"none", "empty", "stale", "handoff"}]
    /\ readable \in BOOLEAN
    /\ sinceClaim = HealWindow
    /\ job = [j \in Jobs |-> "idle"]
    /\ age = [j \in Jobs |-> 0]
    /\ dir = [j \in Jobs |-> "served"]
    /\ held = [j \in Jobs |-> FALSE]
    /\ cleared = {}
    /\ meddled = {}
    /\ incidents = 0

Start(j, where) ==
    /\ job' = [job EXCEPT ![j] = where]
    /\ age' = [age EXCEPT ![j] = 0]
    /\ dir' = [dir EXCEPT ![j] = "served"]
    /\ held' = [held EXCEPT ![j] = FALSE]
    /\ cleared' = cleared \ {j}
    /\ meddled' = meddled \ {j}

(* Seeded fault: the window is claimed once the check is over. *)
UnclaimedHeal(j) ==
    /\ ~Working(j)
    /\ sinceClaim = HealWindow
    /\ Start(j, "finding")
    /\ UNCHANGED <<loginPage, readable, sinceClaim, incidents>>

(* Seeded fault: the window must have passed and is capped before that. *)
HealNeverDue(j) ==
    /\ ~Working(j)
    /\ sinceClaim > HealWindow
    /\ Start(j, "finding")
    /\ sinceClaim' = 0
    /\ UNCHANGED <<loginPage, readable, incidents>>

(* ensureRouterHandoff: the guest's request claims the window and goes on. *)
EnsureRouterHandoff(j) ==
    /\ ~Working(j)
    /\ sinceClaim = HealWindow
    /\ Start(j, "finding")
    /\ sinceClaim' = 0
    /\ UNCHANGED <<loginPage, readable, incidents>>

PortalRouterInstall(j) ==
    /\ ~Working(j)
    /\ incidents < MaxIncidents
    /\ incidents' = incidents + 1
    /\ Start(j, "installing")
    /\ UNCHANGED <<loginPage, readable, sinceClaim>>

Become(j, where) ==
    /\ job' = [job EXCEPT ![j] = where]
    /\ UNCHANGED <<readable, sinceClaim, age, meddled, incidents>>

(* What a job that is over found out is forgotten. *)
End(j, how) ==
    /\ Start(j, how)
    /\ UNCHANGED <<loginPage, readable, sinceClaim, incidents>>

(* hotspotHTMLDirectory: a menu that cannot be read is passed over, down   *)
(* to the stock directory.  For a check, and again for an install.         *)
FindsDirectory(j, d) ==
    /\ job[j] \in {"finding", "installing"}
    /\ Become(j, IF job[j] = "finding" THEN "checking" ELSE "clearing")
    /\ dir' = [dir EXCEPT ![j] = d]
    /\ UNCHANGED <<loginPage, held, cleared>>

(* HotspotPortalState: only a page that is missing or provably wrong is    *)
(* installed again.                                                        *)
HotspotPortalState(j) ==
    /\ job[j] = "checking"
    /\ IF LooksInstalled(dir[j])
       THEN End(j, "verified")
       ELSE Become(j, "installing") /\ UNCHANGED <<loginPage, dir, held, cleared>>

(* removeFileByName: a look-up that fails is taken for a missing file. *)
LooksUpOldFile(j) ==
    LET missing == loginPage[dir[j]] = "none" IN
    /\ job[j] = "clearing"
    /\ \/ /\ Become(j, IF missing THEN "fetching" ELSE "removing")
          /\ held' = [held EXCEPT ![j] = ~missing]
          /\ cleared' = cleared \cup {j}
       \/ Become(j, "fetching") /\ UNCHANGED <<held, cleared>>
    /\ UNCHANGED <<loginPage, dir>>

(* Seeded fault: the old file is left for the fetch to replace. *)
LeavesOldFile(j) ==
    /\ job[j] = "removing"
    /\ Become(j, "fetching")
    /\ UNCHANGED <<loginPage, dir, held, cleared>>

(* Nobody's look-up found the file that is in this directory now. *)
Replaced(d) == held' = [k \in Jobs |-> held[k] /\ dir[k] # d]

(* The file is removed by its id: one that is gone already is no error. *)
RemovesOldFile(j) ==
    /\ job[j] = "removing"
    /\ Become(j, "fetching")
    /\ IF held[j]
       THEN loginPage' = [loginPage EXCEPT ![dir[j]] = "none"] /\ Replaced(dir[j])
       ELSE UNCHANGED <<loginPage, held>>
    /\ UNCHANGED <<dir, cleared>>

(* The router fetches the page from the panel, or something else that      *)
(* answers there; a file that is in the way stays.                         *)
Fetches(j, got) ==
    /\ job[j] = "fetching"
    /\ Become(j, "reading")
    /\ loginPage' = [loginPage EXCEPT ![dir[j]] = IF @ = "none" THEN got ELSE @]
    /\ UNCHANGED <<dir, held, cleared>>

ReadsBack(j) ==
    /\ job[j] = "reading"
    /\ End(j, IF LooksInstalled(dir[j]) THEN "verified" ELSE "idle")

(* Any call may fail, and leaves the steps before it done.                 *)
CallFails(j) ==
    /\ Working(j)
    /\ End(j, "idle")

(* The deadline ends a check before it is JobTimeout ticks old. *)
Tick ==
    /\ \A j \in HealJobs : Working(j) => age[j] < JobTimeout
    /\ sinceClaim' = IF sinceClaim < HealWindow THEN sinceClaim + 1 ELSE sinceClaim
    /\ age' = [j \in Jobs |-> IF j \in HealJobs /\ Working(j) THEN age[j] + 1 ELSE 0]
    /\ UNCHANGED <<loginPage, readable, job, dir, held, cleared, meddled, incidents>>

(* The windows and the jobs are the panel's memory only. *)
PanelRestarts ==
    /\ sinceClaim' = HealWindow
    /\ job' = [j \in Jobs |-> IF Working(j) THEN "idle" ELSE job[j]]
    /\ age' = [j \in Jobs |-> 0]
    /\ dir' = [j \in Jobs |-> "served"]
    /\ held' = [j \in Jobs |-> FALSE]
    /\ cleared' = {} /\ meddled' = {}
    /\ UNCHANGED <<loginPage, readable, incidents>>

(* A reset of the router, or an operator's upload, changes the file. *)
PageBreaks(d) ==
    /\ incidents < MaxIncidents
    /\ incidents' = incidents + 1
    /\ \E found \in {"none", "empty", "stale"} : loginPage' = [loginPage EXCEPT ![d] = found]
    /\ Replaced(d)
    /\ meddled' = {j \in Jobs : Working(j)} \cup meddled
    /\ UNCHANGED <<readable, sinceClaim, job, age, dir, cleared>>

Repairs(j) ==
    \/ \E d \in Directories : FindsDirectory(j, d)
    \/ HotspotPortalState(j) \/ LooksUpOldFile(j) \/ RemovesOldFile(j)
    \/ \E got \in {"handoff", "empty", "wrong"} : Fetches(j, got)
    \/ ReadsBack(j)

HandoffNext ==
    \/ \E j \in HealJobs : EnsureRouterHandoff(j)
    \/ \E j \in ButtonJobs : PortalRouterInstall(j)
    \/ \E j \in Jobs : Repairs(j) \/ CallFails(j)
    \/ Tick \/ PanelRestarts
    \/ \E d \in Directories : PageBreaks(d)

(* A check of the page that guests are served. *)
OfServed(j) == j \in HealJobs /\ dir[j] = "served"

(* Guests keep coming, the clock runs, a check ends at its deadline, and   *)
(* of a call that is made again and again one is answered, by the router   *)
(* and by the panel, the read of the directory among them.  The operator   *)
(* does not press the button forever.                                      *)
HandoffFairness ==
    /\ WF_handoffVars(Tick)
    /\ WF_handoffVars(\E j \in HealJobs : EnsureRouterHandoff(j))
    /\ WF_handoffVars(\E j \in HealJobs : age[j] = JobTimeout /\ CallFails(j))
    /\ \A at \in {"finding", "installing"} :
         SF_handoffVars(\E j \in HealJobs : job[j] = at /\ FindsDirectory(j, "served"))
    /\ SF_handoffVars(\E j \in Jobs : OfServed(j) /\ HotspotPortalState(j))
    /\ SF_handoffVars(\E j \in Jobs : OfServed(j) /\ LooksUpOldFile(j) /\ j \in cleared')
    /\ SF_handoffVars(\E j \in Jobs : OfServed(j) /\ RemovesOldFile(j))
    /\ SF_handoffVars(\E j \in Jobs : /\ OfServed(j) /\ loginPage["served"] = "none"
                                      /\ Fetches(j, "handoff"))

HandoffSpec == HandoffInit /\ [][HandoffNext]_handoffVars /\ HandoffFairness

-----------------------------------------------------------------------------
(* Properties *)

(* A crowd of guests starts one check: the window is claimed before the    *)
(* work, and outlasts it.  A restart of the panel ends what it forgets.    *)
OneHealAtATime ==
    \A j, k \in HealJobs : Working(j) /\ Working(k) => j = k

(* An install that reports the page verified, having looked the old file   *)
(* up, never verified that old file, whatever another install did to it    *)
(* meanwhile and even where the router returns no contents.  It speaks of  *)
(* the directory the install found, which need not be the one served from. *)
VerifiedWasFetched ==
    [][\A j \in Jobs :
          job[j] = "reading" /\ job'[j] = "verified" /\ j \in cleared \ meddled
              => loginPage[dir[j]] # "stale"]_handoffVars

(* As long as guests keep coming, a login page that is missing, empty or   *)
(* readably wrong is replaced where guests are served from, unless         *)
(* somebody puts a page there whose damage the router does not show; no    *)
(* read of the directory that failed keeps the repair away for good.       *)
BrokenPageHeals ==
    ~LooksInstalled("served") ~> LooksInstalled("served")
=============================================================================
