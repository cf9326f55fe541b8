---------------------------- MODULE RouterInventory ----------------------------
(***************************************************************************)
(* The inventory of routers and the router a guest is served by.           *)
(* Operators register, edit and remove routers; one of them may be marked  *)
(* the default portal device, with a write of its own row and a second     *)
(* write that clears the mark of every other row.  A guest's request is    *)
(* attributed by its hotspot's name, by the address in either of its login *)
(* links, by the mark, or because there is only one router: one query      *)
(* each, and a query that fails counts as one that finds nothing.          *)
(*                                                                         *)
(* The order of names, which decides between routers that match alike, is  *)
(* the operator's choice: any of them may come first.                      *)
(***************************************************************************)
EXTENDS Naturals, FiniteSets

CONSTANTS
    RouterIds,
    Operators,    \* pages an operator has open
    Guests,
    Hosts, Tags,  \* bound: addresses and hotspot names in use
    NoTag, NoHost

ASSUME InventoryConstants ==
    /\ RouterIds \subseteq Nat \ {0} /\ IsFiniteSet(RouterIds)
    /\ Operators \cap Guests = {} /\ NoTag \notin Tags /\ NoHost \notin Hosts

VARIABLES
    routers,      \* table: rows by id; a router nobody registered is Absent
    clearing,     \* per page: the router it has yet to clear the others for
    asking,       \* per guest: the query its request is at, or how it ended
    asked,        \* per guest: hotspot name of its request, hosts of its links
    unclean,      \* observer: a mark was added without a clear, none worked since
    steady        \* observer: guests whose request saw the mark only move, and
                  \* whose query for it did not fail

inventoryVars == <<routers, clearing, asking, asked, unclean, steady>>

Absent == [tag |-> NoTag, host |-> NoHost, default |-> FALSE]
Rows == [tag : Tags \cup {NoTag}, host : Hosts, default : BOOLEAN]
NoRouter == 0

HotspotRequests ==
    [server : Tags \cup {NoTag}, login : Hosts \cup {NoHost}, loginOnly : Hosts \cup {NoHost}]
Bare == [server |-> NoTag, login |-> NoHost, loginOnly |-> NoHost]

Registered == {i \in RouterIds : routers[i] # Absent}
Defaults == {i \in RouterIds : routers[i].default}

InventoryInit ==
    /\ routers \in [RouterIds -> {Absent} \cup Rows]
    /\ \A i, j \in Defaults : i = j
    /\ clearing = [o \in Operators |-> NoRouter]
    /\ asking = [g \in Guests |-> "nothing"]
    /\ asked = [g \in Guests |-> Bare]
    /\ unclean = FALSE
    /\ steady = {}

-----------------------------------------------------------------------------
(* Operators *)

Quiet == \A o \in Operators : clearing[o] = NoRouter

(* A form's row is written; one that asks for the mark has to clear the    *)
(* mark of the others next.                                                *)
Writes(o, i, r) ==
    /\ clearing[o] = NoRouter
    /\ routers' = [routers EXCEPT ![i] = r]
    /\ clearing' = [clearing EXCEPT ![o] = IF r.default THEN i ELSE NoRouter]
    /\ steady' = IF Quiet /\ (routers[i].default => r.default) THEN steady ELSE {}
    /\ UNCHANGED <<asking, asked, unclean>>

(* Ids are never used twice: one a page still clears for is not free. *)
Unused == {i \in RouterIds \ Registered : \A o \in Operators : clearing[o] # i}

RouterCreate(o) ==
    \E i \in Unused, r \in Rows : Writes(o, i, r)

(* Seeded fault: an edit saves the mark with the rest of the form. *)
SavesMarkOnly(o) ==
    \E i \in Registered, r \in Rows :
        /\ clearing[o] = NoRouter
        /\ routers' = [routers EXCEPT ![i] = r]
        /\ steady' = IF Quiet /\ (routers[i].default => r.default) THEN steady ELSE {}
        /\ UNCHANGED <<clearing, asking, asked, unclean>>

RouterUpdate(o) ==
    \E i \in Registered, r \in Rows : Writes(o, i, r)

(* The JSON API writes the row and nothing else: a second mark stays until *)
(* a page clears it, and the oldest router marked is the one that counts.  *)
ApiWrites(i, r) ==
    /\ routers' = [routers EXCEPT ![i] = r]
    /\ unclean' = (unclean \/ (r.default /\ Defaults \ {i} # {}))
    /\ steady' = IF Quiet /\ (routers[i].default => r.default) THEN steady ELSE {}
    /\ UNCHANGED <<clearing, asking, asked>>

ApiRouterCreate == \E i \in Unused, r \in Rows : ApiWrites(i, r)
ApiRouterUpdate == \E i \in Registered, r \in Rows : ApiWrites(i, r)

RouterDelete(o) ==
    /\ clearing[o] = NoRouter
    /\ \E i \in Registered :
        /\ routers' = [routers EXCEPT ![i] = Absent]
        /\ steady' = IF routers[i].default THEN {} ELSE steady
    /\ UNCHANGED <<clearing, asking, asked, unclean>>

Unmarked(row) == [tag |-> row.tag, host |-> row.host, default |-> FALSE]

(* Seeded fault: the clear spares no router. *)
ClearsEveryMark(o) ==
    /\ clearing[o] # NoRouter
    /\ routers' = [i \in RouterIds |-> Unmarked(routers[i])]
    /\ clearing' = [clearing EXCEPT ![o] = NoRouter]
    /\ unclean' = FALSE
    /\ steady' = IF routers[clearing[o]].default THEN steady ELSE {}
    /\ UNCHANGED <<asking, asked>>

ClearDefaultPortal(o) ==
    /\ clearing[o] # NoRouter
    /\ routers' = [i \in RouterIds |->
                      IF i = clearing[o] THEN routers[i]
                      ELSE Unmarked(routers[i])]
    /\ clearing' = [clearing EXCEPT ![o] = NoRouter]
    /\ unclean' = FALSE
    /\ steady' = IF routers[clearing[o]].default THEN steady ELSE {}
    /\ UNCHANGED <<asking, asked>>

(* The statement fails and is only logged, or the panel stops before it. *)
ClearFails(o) ==
    /\ clearing[o] # NoRouter
    /\ clearing' = [clearing EXCEPT ![o] = NoRouter]
    /\ unclean' = TRUE
    /\ UNCHANGED <<routers, asking, asked, steady>>

-----------------------------------------------------------------------------
(* Guests *)

ByTag(tag) == {i \in Registered : tag # NoTag /\ routers[i].tag = tag}
ByHost(host) == {i \in Registered : routers[i].host = host}

Arrives(g, requests) ==
    /\ asking[g] = "nothing"
    /\ asking' = [asking EXCEPT ![g] = "tag"]
    /\ \E r \in requests : asked' = [asked EXCEPT ![g] = r]
    /\ steady' = IF Quiet /\ Defaults # {} THEN steady \cup {g} ELSE steady \ {g}
    /\ UNCHANGED <<routers, clearing, unclean>>

(* The welcome page and the probes of operating systems carry nothing;     *)
(* with a hotspot's parameters either is the sign-in form.                 *)
PortalIndex(g) == Arrives(g, {Bare})
PortalLogin(g) == Arrives(g, HotspotRequests \ {Bare})

(* The check operators make of how a request would be attributed. *)
PortalStatus(g) == Arrives(g, HotspotRequests)

(* What is asked when a query finds nothing. *)
NextQuery ==
    [tag |-> "login", login |-> "loginOnly", loginOnly |-> "default", default |-> "only",
     only |-> "refused"]

Asks(g, query, found) ==
    /\ asking[g] = query
    /\ asking' = [asking EXCEPT ![g] = IF found # {} THEN "served" ELSE NextQuery[query]]
    /\ UNCHANGED <<routers, clearing, asked, unclean, steady>>

FindByPortalTag(g) == Asks(g, "tag", ByTag(asked[g].server))
FindByHost(g, link) == Asks(g, link, ByHost(asked[g][link]))
Default(g) == Asks(g, "default", Defaults)

OnlyRouter(g) ==
    Asks(g, "only", IF Cardinality(Registered) = 1 THEN Registered ELSE {})

(* The database cannot answer: the request goes on as if nothing was found. *)
QueryFails(g) ==
    /\ asking[g] \in DOMAIN NextQuery
    /\ asking' = [asking EXCEPT ![g] = NextQuery[@]]
    /\ steady' = IF asking[g] = "default" THEN steady \ {g} ELSE steady
    /\ UNCHANGED <<routers, clearing, asked, unclean>>

Leaves(g) ==
    /\ asking[g] \in {"served", "refused"}
    /\ asking' = [asking EXCEPT ![g] = "nothing"]
    /\ asked' = [asked EXCEPT ![g] = Bare]
    /\ steady' = steady \ {g}
    /\ UNCHANGED <<routers, clearing, unclean>>

InventoryNext ==
    \/ ApiRouterCreate \/ ApiRouterUpdate
    \/ \E o \in Operators :
        \/ RouterCreate(o) \/ RouterUpdate(o) \/ RouterDelete(o)
        \/ ClearDefaultPortal(o) \/ ClearFails(o)
    \/ \E g \in Guests :
        \/ PortalIndex(g) \/ PortalLogin(g) \/ PortalStatus(g)
        \/ FindByPortalTag(g) \/ \E link \in {"login", "loginOnly"} : FindByHost(g, link)
        \/ Default(g) \/ OnlyRouter(g) \/ QueryFails(g) \/ Leaves(g)

InventorySpec == InventoryInit /\ [][InventoryNext]_inventoryVars

-----------------------------------------------------------------------------
(* Properties *)

(* The rows on file are rows the forms can write, and a page only clears   *)
(* for a router it may have saved.                                         *)
InventoryTypeOK ==
    /\ routers \in [RouterIds -> Rows \cup {Absent}]
    /\ clearing \in [Operators -> RouterIds \cup {NoRouter}]
    /\ unclean \in BOOLEAN

(* However the edits of several pages interleave, two routers are marked   *)
(* the default only while a page still has to clear one of the marks, or   *)
(* after a clear that failed or a mark set through the JSON API.           *)
OneDefaultAtRest ==
    Quiet /\ ~unclean => \A i, j \in Defaults : i = j

(* While the mark only moves from router to router, by one page at a time, *)
(* no guest is turned away: at each of the separate queries one router at  *)
(* least carries it.  Any query but the one for the mark may fail.         *)
MovingTheMarkTurnsNobodyAway ==
    \A g \in steady : asking[g] # "refused"
=============================================================================
