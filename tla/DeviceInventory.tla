---------------------------- MODULE DeviceInventory ----------------------------
(***************************************************************************)
(* The DEVICES page: what operators saved about the clients of a router,   *)
(* joined with what the router itself says of them.  A page reads the      *)
(* saved records, then the router's DHCP leases, then its hotspot          *)
(* sessions, one after the other, while operators save and remove records  *)
(* and clients come and go.  The join is by hardware address, which forms, *)
(* leases and sessions spell differently; a spelling that is malformed     *)
(* stays a client of its own.                                              *)
(***************************************************************************)
EXTENDS Naturals, FiniteSets

CONSTANTS
    DeviceIds,
    Clients,      \* hardware addresses
    Spellings,    \* ways to write one
    Malformed,    \* those that NormalizeMAC can only lowercase
    Addresses,    \* network addresses
    SessionIds,   \* ids of hotspot sessions without any address
    NoOne         \* an empty field

ASSUME DeviceConstants ==
    /\ DeviceIds \subseteq Nat \ {0} /\ IsFiniteSet(DeviceIds)
    /\ Malformed \subseteq Spellings
    /\ NoOne \notin Clients \cup Spellings \cup Addresses \cup SessionIds

VARIABLES
    saved,        \* table: the address each record is about, NoMAC for no record
    paging,       \* page: what it reads next
    listing,      \* page: its rows, by key
    known,        \* observer: records on file ever since the page read them
    reported      \* observer: addresses the router listed, by list

deviceVars == <<saved, paging, listing, known, reported>>

NoMAC == <<NoOne, NoOne>>
SpelledMACs == (Clients \X Spellings) \cup {NoMAC}

(* NormalizeMAC and FormatMAC leave nothing of a well-formed spelling. *)
Normalize(mac) == IF mac[2] \in Malformed THEN mac ELSE <<mac[1], NoOne>>

NoneReported == [leased |-> {}, connected |-> {}]

-----------------------------------------------------------------------------
(* Operators: one router's records, unique by address *)

DevicesInit ==
    /\ saved = [d \in DeviceIds |-> NoMAC]
    /\ paging = "closed"
    /\ listing = <<>>
    /\ known = {}
    /\ reported = NoneReported

(* validateDeviceForm asks for an address; a duplicate is refused. *)
WriteDevice(d, mac) ==
    /\ Normalize(mac) # NoMAC
    /\ \A e \in DeviceIds \ {d} : saved[e] # Normalize(mac)
    /\ saved' = [saved EXCEPT ![d] = Normalize(mac)]
    /\ known' = IF saved[d] = Normalize(mac) THEN known ELSE known \ {d}
    /\ UNCHANGED <<paging, listing, reported>>

DeviceCreate == \E d \in DeviceIds, mac \in SpelledMACs : saved[d] = NoMAC /\ WriteDevice(d, mac)

(* An empty field of the edit form keeps the address on file. *)
DeviceUpdate ==
    \E d \in DeviceIds, mac \in SpelledMACs :
        /\ saved[d] # NoMAC
        /\ WriteDevice(d, IF Normalize(mac) = NoMAC THEN saved[d] ELSE mac)

(* By hand, or with the router the record belongs to. *)
DeviceDelete ==
    \E d \in DeviceIds :
        /\ saved[d] # NoMAC
        /\ saved' = [saved EXCEPT ![d] = NoMAC]
        /\ known' = known \ {d}
        /\ UNCHANGED <<paging, listing, reported>>

-----------------------------------------------------------------------------
(* The page *)

(* Seeded fault: the join compares addresses as they are spelled. *)
SpelledKey(mac, address, id) ==
    IF mac # NoMAC THEN <<"mac", mac[1], mac[2]>>
    ELSE IF address # NoOne THEN <<"ip", address, NoOne>> ELSE <<"id", id, NoOne>>

(* macKey; a client without a hardware address goes by its network address *)
(* or by its session.                                                      *)
RowKey(mac, address, id) ==
    IF Normalize(mac) # NoMAC THEN <<"mac", Normalize(mac)[1], Normalize(mac)[2]>>
    ELSE IF address # NoOne THEN <<"ip", address, NoOne>> ELSE <<"id", id, NoOne>>

UnknownClient == [id |-> 0, client |-> NoMAC, leased |-> FALSE, connected |-> FALSE]

Row(key) == IF key \in DOMAIN listing THEN listing[key] ELSE UnknownClient

(* DevicesList, as far as the saved records. *)
BuildDevicesPage ==
    /\ paging = "closed"
    /\ paging' = "leases"
    /\ known' = {d \in DeviceIds : saved[d] # NoMAC}
    /\ reported' = NoneReported
    /\ LET KeyOf(d) == RowKey(saved[d], NoOne, NoOne)
       IN  listing' = [k \in {KeyOf(d) : d \in known'} |->
               LET d == CHOOSE e \in known' : KeyOf(e) = k
               IN  [UnknownClient EXCEPT !.id = d, !.client = saved[d]]]
    /\ UNCHANGED saved

(* What the router lists; a lease without any address is passed over, a    *)
(* session goes by its id.                                                 *)
Addressed ==
    {e \in [mac : SpelledMACs, address : Addresses \cup {NoOne}, id : {NoOne}] :
        e.mac # NoMAC \/ e.address # NoOne}
Entries == Addressed \cup [mac : {NoMAC}, address : {NoOne}, id : SessionIds]

(* A lease names the address it was made for and the one bound to it now.  *)
EffectiveMAC(made, bound) == IF bound # NoMAC THEN bound ELSE made

(* collectRouterDevices: every entry joins the row of its key. *)
Joins(entries, mark) ==
    LET KeyOf(e) == RowKey(e.mac, e.address, e.id)
    IN  /\ listing' = [k \in DOMAIN listing \cup {KeyOf(e) : e \in entries} |->
               IF \E e \in entries : KeyOf(e) = k
               THEN LET e == CHOOSE f \in entries : KeyOf(f) = k
                    IN  [Row(k) EXCEPT ![mark] = TRUE, !.client = Normalize(e.mac)]
               ELSE listing[k]]
        /\ reported' = [reported EXCEPT
               ![mark] = (@ \cup {Normalize(e.mac) : e \in entries}) \ {NoMAC}]

(* A list the router does not return is a warning on the page. *)
ReadsLeases ==
    /\ paging = "leases"
    /\ paging' = "actives"
    /\ \E made, bound \in [mac : SpelledMACs, address : Addresses \cup {NoOne}] :
           LET lease == [mac |-> EffectiveMAC(made.mac, bound.mac),
                         address |-> IF bound.address # NoOne THEN bound.address
                                     ELSE made.address,
                         id |-> NoOne]
           IN  Joins({lease} \cap Addressed, "leased")
    /\ UNCHANGED <<saved, known>>

ReadsActives ==
    /\ paging = "actives"
    /\ paging' = "shown"
    /\ \/ Joins({}, "connected")
       \/ \E e, f \in Entries : Joins({e, f}, "connected")
    /\ UNCHANGED <<saved, known>>

(* The router is out of reach: the page shows what is saved. *)
CannotDial ==
    /\ paging = "leases"
    /\ paging' = "shown"
    /\ UNCHANGED <<saved, listing, known, reported>>

ClosesPage ==
    /\ paging = "shown"
    /\ paging' = "closed"
    /\ listing' = <<>>
    /\ known' = {}
    /\ reported' = NoneReported
    /\ UNCHANGED saved

DevicesNext ==
    \/ DeviceCreate \/ DeviceUpdate \/ DeviceDelete
    \/ BuildDevicesPage \/ ReadsLeases \/ ReadsActives \/ CannotDial \/ ClosesPage

DevicesSpec == DevicesInit /\ [][DevicesNext]_deviceVars

-----------------------------------------------------------------------------
(* Properties *)

(* Whatever is saved, removed or reported while the page is put together,  *)
(* no client has two rows; a client that stayed on file has one, under its *)
(* record's id; and a client's row says that it has a lease, or a session, *)
(* just when the router listed one for it, in whichever spelling.          *)
ClientsListedOnce ==
    /\ \A k, l \in DOMAIN listing :
           listing[k].client = listing[l].client /\ listing[k].client # NoMAC => k = l
    /\ paging # "closed" =>
           \A d \in known : \E k \in DOMAIN listing :
               listing[k].id = d /\ listing[k].client = saved[d]
    /\ \A mark \in {"leased", "connected"} :
           /\ \A k \in DOMAIN listing : listing[k].client # NoMAC =>
                  (listing[k][mark] <=> listing[k].client \in reported[mark])
           /\ \A mac \in reported[mark] : \E k \in DOMAIN listing : listing[k].client = mac
=============================================================================
