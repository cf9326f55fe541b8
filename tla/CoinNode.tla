-------------------------------- MODULE CoinNode --------------------------------
(***************************************************************************)
(* The NodeMCU coin acceptor (hardware/nodemcu_coin_slot.ino) reporting    *)
(* pulses to the coin tally: the interrupt handler, the main loop, the     *)
(* two-line journal in flash, power cuts, and a network that loses         *)
(* requests, loses answers, or delivers a request after the board has      *)
(* given it up.                                                            *)
(*                                                                         *)
(* A node is one sequential program (its point is node[n].at) interrupted  *)
(* anywhere by onCoinPulse and by power cuts.  Only edges that pass the    *)
(* debounce window are pulses here.  The tally is CoinLedger's; a pulse is *)
(* priced at one second.                                                   *)
(***************************************************************************)
EXTENDS CoinLedger

CONSTANTS
    Nodes,        \* coin acceptors
    ClientOf,     \* the subject each node credits (CLIENT_MAC)
    MaxPending,   \* the uint16_t ceiling of pendingPulses
    MaxBatch,     \* MAX_PULSES_PER_REPORT
    FlashMayFail, \* whether SPIFFS may refuse to read, write or remove the journal
    MaxInserted,  \* bound: pulses a node's acceptor emits
    MaxFailures,  \* bound: report attempts per node that end unconfirmed
    MaxCuts       \* bound: power cuts per node

ASSUME NodeConstants ==
    /\ ClientOf \in [Nodes -> Subjects]
    /\ FlashMayFail \in BOOLEAN
    /\ MaxPending \in Nat /\ MaxBatch \in Nat \ {0}
    /\ MaxInserted \in Nat /\ MaxFailures \in Nat /\ MaxCuts \in Nat

VARIABLES
    node,      \* RAM of each board
    journal,   \* its /pending file
    late,      \* requests on the network that no board waits for any more
    inserted,  \* observer: pulses each acceptor emitted
    counted,   \* observer: pulses of each node the tally accepted
    retried,   \* observer: pulses of the reports each node gave up
    failures,  \* observer: attempts of each node that ended unconfirmed
    cuts,      \* observer: power cuts
    flashFailed \* observer: nodes whose journal could not be read or written

nodeVars == <<credits, now, idle, bought, spent, lapsed, node, journal, late,
              inserted, counted, retried, failures, cuts, flashFailed>>

Points == {"off", "booting", "idle", "journalling", "writing", "posting",
           "awaiting", "clearing", "resaving", "rewriting"}

RAM == [at : Points, pending : Nat, eventCounter : Nat, batch : Nat,
        saving : Nat, wifiReady : BOOLEAN, answered : BOOLEAN]

Off == [at |-> "off", pending |-> 0, eventCounter |-> 0, batch |-> 0,
        saving |-> 0, wifiReady |-> FALSE, answered |-> FALSE]

(* The journal is missing, torn (opened for writing, which truncates it,   *)
(* and not closed yet) or complete.                                        *)
Complete == [state : {"complete"}, pulses : Nat, event : Nat]
Missing  == [state |-> "missing", pulses |-> 0, event |-> 0]
Torn     == [state |-> "torn", pulses |-> 0, event |-> 0]

Request(n) == [node |-> n, event |-> node[n].eventCounter, pulses |-> node[n].batch]

NodeInit ==
    /\ LedgerInit
    /\ node = [n \in Nodes |-> Off]
    /\ journal = [n \in Nodes |-> Missing]
    /\ late = {}
    /\ inserted = [n \in Nodes |-> 0]
    /\ counted = [n \in Nodes |-> 0]
    /\ retried = [n \in Nodes |-> 0]
    /\ failures = [n \in Nodes |-> 0]
    /\ cuts = [n \in Nodes |-> 0]
    /\ flashFailed = {}

observers == <<inserted, counted, retried, failures, cuts, flashFailed>>

(* onCoinPulse: runs at any point once the interrupt is attached. *)
OnCoinPulse(n) ==
    /\ node[n].at # "off"
    /\ inserted[n] < MaxInserted
    /\ node' = [node EXCEPT ![n].pending = IF @ < MaxPending THEN @ + 1 ELSE @]
    /\ inserted' = [inserted EXCEPT ![n] = @ + 1]
    /\ UNCHANGED <<ledgerVars, journal, late, counted, retried, failures, cuts, flashFailed>>

(* setup(): the interrupt is attached before the journal is read. *)
Boot(n) ==
    /\ node[n].at = "off"
    /\ node' = [node EXCEPT ![n] = [Off EXCEPT !.at = "booting"]]
    /\ UNCHANGED <<ledgerVars, journal, late, observers>>

(* loadPending, then the first connectWiFi.  Recovered pulses overwrite    *)
(* whatever the interrupt has counted since it was attached.               *)
LoadPending(n) ==
    /\ node[n].at = "booting"
    /\ \E associated \in BOOLEAN :
        node' = [node EXCEPT ![n] =
            [node[n] EXCEPT
                !.at = "idle",
                !.wifiReady = associated,
                !.pending = IF journal[n].pulses > 0 THEN journal[n].pulses
                            ELSE node[n].pending,
                !.eventCounter = journal[n].event]]
    /\ UNCHANGED <<ledgerVars, journal, late, observers>>

(* connectWiFi at the top of loop(): once associated, wifiReady is never   *)
(* taken back.                                                             *)
ConnectWiFi(n) ==
    /\ node[n].at = "idle"
    /\ ~node[n].wifiReady
    /\ node' = [node EXCEPT ![n].wifiReady = TRUE]
    /\ UNCHANGED <<ledgerVars, journal, late, observers>>

(* Seeded fault: the report goes out without the journal. *)
BeginReportUnjournalled(n) ==
    /\ node[n].at = "idle"
    /\ node[n].pending > 0
    /\ node[n].wifiReady \/ failures[n] < MaxFailures
    /\ node' = [node EXCEPT ![n] =
            [node[n] EXCEPT !.at = "posting",
                            !.batch = Least(node[n].pending, MaxBatch),
                            !.eventCounter = node[n].eventCounter + 1]]
    /\ UNCHANGED <<ledgerVars, journal, late, observers>>

(* The acceptor has settled: a batch is chosen and the event id advances,  *)
(* on a retry as on a first attempt.  A board that has used up the bound   *)
(* on failed attempts has its Wi-Fi by then.                               *)
BeginReport(n) ==
    /\ node[n].at = "idle"
    /\ node[n].pending > 0
    /\ node[n].wifiReady \/ failures[n] < MaxFailures
    /\ node' = [node EXCEPT ![n] =
            [node[n] EXCEPT !.at = "journalling",
                            !.batch = Least(node[n].pending, MaxBatch),
                            !.eventCounter = node[n].eventCounter + 1]]
    /\ UNCHANGED <<ledgerVars, journal, late, observers>>

(* Seeded fault: the journal is opened without being emptied. *)
OpenJournalInPlace(n) ==
    /\ node[n].at \in {"journalling", "resaving"}
    /\ node' = [node EXCEPT ![n] =
            [node[n] EXCEPT !.at = IF node[n].at = "journalling" THEN "writing"
                                                         ELSE "rewriting",
                            !.saving = node[n].pending]]
    /\ journal' = [journal EXCEPT ![n].state = "torn"]
    /\ UNCHANGED <<ledgerVars, late, observers>>

(* savePending opens the file for writing, which empties it. *)
OpenJournal(n) ==
    /\ node[n].at \in {"journalling", "resaving"}
    /\ node' = [node EXCEPT ![n] =
            [node[n] EXCEPT !.at = IF node[n].at = "journalling" THEN "writing"
                                                         ELSE "rewriting",
                            !.saving = node[n].pending]]
    /\ journal' = [journal EXCEPT ![n] = Torn]
    /\ UNCHANGED <<ledgerVars, late, observers>>

(* savePending writes both numbers and closes the file. *)
WriteJournal(n) ==
    /\ node[n].at \in {"writing", "rewriting"}
    /\ journal' = [journal EXCEPT ![n] =
            [state |-> "complete", pulses |-> node[n].saving, event |-> node[n].eventCounter]]
    /\ node' = [node EXCEPT ![n].at = IF @ = "writing" THEN "posting" ELSE "idle"]
    /\ UNCHANGED <<ledgerVars, late, observers>>

(* savePending, clearPending or, after a boot, loadPending found no file   *)
(* system; the sketch goes on as if there had been nothing to do, and a    *)
(* board that recovered nothing counts events from zero.                   *)
FlashFails(n) ==
    /\ FlashMayFail
    /\ node[n].at \in {"booting", "journalling", "resaving", "clearing"}
    /\ node' = [node EXCEPT ![n].at = IF @ = "journalling" THEN "posting" ELSE "idle"]
    /\ flashFailed' = flashFailed \cup {n}
    /\ UNCHANGED <<ledgerVars, journal, late, inserted, counted, retried, failures, cuts>>

(* Without Wi-Fi nothing is sent and nothing is cleared. *)
SkipPost(n) ==
    /\ node[n].at = "posting"
    /\ ~node[n].wifiReady
    /\ node' = [node EXCEPT ![n].at = "idle"]
    /\ failures' = [failures EXCEPT ![n] = @ + 1]
    /\ UNCHANGED <<ledgerVars, journal, late, inserted, counted, retried, cuts, flashFailed>>

(* reportPulses sends the POST and waits. *)
Post(n) ==
    /\ node[n].at = "posting"
    /\ node[n].wifiReady
    /\ node' = [node EXCEPT ![n] = [node[n] EXCEPT !.at = "awaiting", !.answered = FALSE]]
    /\ UNCHANGED <<ledgerVars, journal, late, observers>>

(* The controller's side of one request: a duplicate is answered like a    *)
(* fresh report and changes nothing.                                       *)
HandleReport(m) ==
    LET s == ClientOf[m.node]
        e == <<m.node, m.event>>
    IN  \/ /\ IsDuplicate(credits[s], e)
           /\ UNCHANGED <<ledgerVars, counted>>
        \/ /\ CoinPulse(s, NoMac, [pulses |-> m.pulses, secs |-> m.pulses], e)
           /\ counted' = [counted EXCEPT ![m.node] = @ + m.pulses]

(* The request arrives while the board waits, and is answered 200. *)
Handle(n) ==
    /\ node[n].at = "awaiting"
    /\ ~node[n].answered
    /\ HandleReport(Request(n))
    /\ node' = [node EXCEPT ![n].answered = TRUE]
    /\ UNCHANGED <<journal, late, inserted, retried, failures, cuts, flashFailed>>

(* The request arrives after the board has given it up. *)
HandleLate(m) ==
    /\ m \in late
    /\ HandleReport(m)
    /\ late' = late \ {m}
    /\ UNCHANGED <<node, journal, inserted, retried, failures, cuts, flashFailed>>

(* The request is lost, or refused without a trace (401, 400, 5xx). *)
DropLate(m) ==
    /\ m \in late
    /\ late' = late \ {m}
    /\ UNCHANGED <<ledgerVars, node, journal, observers>>

(* What the network still holds once n no longer listens. *)
LateAfter(n) ==
    IF node[n].at = "awaiting" /\ ~node[n].answered THEN late \cup {Request(n)} ELSE late

(* No 200 came back: nothing is cleared.  An answer already under way is   *)
(* lost; a request not handled yet may still arrive.                       *)
Timeout(n) ==
    /\ node[n].at = "awaiting"
    /\ failures[n] < MaxFailures
    /\ node' = [node EXCEPT ![n] = [node[n] EXCEPT !.at = "idle", !.answered = FALSE]]
    /\ late' = LateAfter(n)
    /\ retried' = [retried EXCEPT ![n] = @ + node[n].batch]
    /\ failures' = [failures EXCEPT ![n] = @ + 1]
    /\ UNCHANGED <<ledgerVars, journal, inserted, counted, cuts, flashFailed>>

(* Seeded fault: the counter is zeroed, as if no edge had come since. *)
TakeEverything(n) ==
    /\ node[n].at = "awaiting"
    /\ node[n].answered
    /\ node' = [node EXCEPT ![n] =
            [node[n] EXCEPT !.at = "clearing", !.pending = 0, !.answered = FALSE]]
    /\ UNCHANGED <<ledgerVars, journal, late, observers>>

(* Seeded fault: the confirmed batch stays on the counter. *)
TakeNothing(n) ==
    /\ node[n].at = "awaiting"
    /\ node[n].answered
    /\ node' = [node EXCEPT ![n] = [node[n] EXCEPT !.at = "resaving", !.answered = FALSE]]
    /\ UNCHANGED <<ledgerVars, journal, late, observers>>

(* Confirmed: the batch comes off the counter with interrupts disabled. *)
TakeBatch(n) ==
    LET left == Greatest(node[n].pending - node[n].batch, 0) IN
    /\ node[n].at = "awaiting"
    /\ node[n].answered
    /\ node' = [node EXCEPT ![n] =
            [node[n] EXCEPT !.at = IF left = 0 THEN "clearing" ELSE "resaving",
                            !.pending = left,
                            !.answered = FALSE]]
    /\ UNCHANGED <<ledgerVars, journal, late, observers>>

(* Seeded fault: the file of a drained counter is left behind. *)
ClearNothing(n) ==
    /\ node[n].at = "clearing"
    /\ node' = [node EXCEPT ![n].at = "idle"]
    /\ UNCHANGED <<ledgerVars, journal, late, observers>>

(* clearPending removes the file, and the event counter with it. *)
ClearPending(n) ==
    /\ node[n].at = "clearing"
    /\ journal' = [journal EXCEPT ![n] = Missing]
    /\ node' = [node EXCEPT ![n].at = "idle"]
    /\ UNCHANGED <<ledgerVars, late, observers>>

(* The power fails: the RAM is gone, the file is as it was. *)
PowerCut(n) ==
    /\ node[n].at # "off"
    /\ cuts[n] < MaxCuts
    /\ node' = [node EXCEPT ![n] = Off]
    /\ late' = LateAfter(n)
    /\ cuts' = [cuts EXCEPT ![n] = @ + 1]
    /\ UNCHANGED <<ledgerVars, journal, inserted, counted, retried, failures, flashFailed>>

(* The steps the board takes by itself. *)
Loop(n) ==
    \/ Boot(n)
    \/ LoadPending(n)
    \/ ConnectWiFi(n)
    \/ BeginReport(n)
    \/ OpenJournal(n)
    \/ WriteJournal(n)
    \/ SkipPost(n)
    \/ Post(n)
    \/ TakeBatch(n)
    \/ ClearPending(n)

NodeNext ==
    \/ \E n \in Nodes :
        \/ OnCoinPulse(n)
        \/ Loop(n)
        \/ FlashFails(n)
        \/ Handle(n)
        \/ Timeout(n)
        \/ PowerCut(n)
    \/ \E m \in late : HandleLate(m) \/ DropLate(m)

NodeSpec == NodeInit /\ [][NodeNext]_nodeVars

(* A powered board runs its loop, power comes back, and the controller     *)
(* serves a request that has reached it.  Failed attempts and power cuts   *)
(* are bounded, so some attempt is answered.                               *)
FairNodeSpec ==
    NodeSpec /\ \A n \in Nodes : WF_nodeVars(Loop(n)) /\ WF_nodeVars(Handle(n))

-----------------------------------------------------------------------------
(* RAM, journal and network hold what the sketch puts there. *)
NodeTypeOK ==
    /\ TypeOK
    /\ node \in [Nodes -> RAM]
    /\ journal \in [Nodes -> Complete \cup {Missing, Torn}]
    /\ late \subseteq [node : Nodes, event : Nat, pulses : Nat]
    /\ inserted \in [Nodes -> Nat] /\ counted \in [Nodes -> Nat]
    /\ retried \in [Nodes -> Nat] /\ failures \in [Nodes -> Nat]
    /\ cuts \in [Nodes -> Nat]
    /\ flashFailed \subseteq Nodes

(* "A failed POST leaves the pulses queued" and the batch comes off the    *)
(* counter with interrupts off: while the power holds, every pulse the     *)
(* acceptor emitted is in the tally or still pending, whatever the network *)
(* loses and wherever the interrupt strikes.                               *)
NoCoinLostWhilePowered ==
    \A n \in Nodes :
        cuts[n] = 0 => inserted[n] <= counted[n] + node[n].pending

(* While the power holds, a pulse is counted again only by a report that   *)
(* was given up: the tally exceeds the confirmed pulses by no more than    *)
(* the timed-out reports and the one being answered carried.               *)
OvercountBoundedByTimeouts ==
    \A n \in Nodes :
        cuts[n] = 0 =>
            counted[n] + node[n].pending <=
                inserted[n] + retried[n] + (IF node[n].answered THEN node[n].batch ELSE 0)

(* "The pending count is written to flash before it is sent": a power cut  *)
(* while a report is out finds all its pulses, and its event id, in flash, *)
(* unless the flash itself failed.                                         *)
JournalledBeforeSent ==
    \A n \in Nodes :
        node[n].at \in {"posting", "awaiting"} /\ n \notin flashFailed =>
            /\ journal[n].state = "complete"
            /\ journal[n].pulses >= node[n].batch
            /\ journal[n].event = node[n].eventCounter

(* Pulses the board remembers, in RAM or in flash, do not stay with it:    *)
(* "the pulses stay in the journal ... so they are retried" until they are *)
(* confirmed, across lost requests, lost answers and power cuts.  Only a   *)
(* flash that failed may keep a stale copy.                                *)
Remembers(n) ==
    \/ node[n].pending > 0
    \/ journal[n].pulses > 0 /\ n \notin flashFailed

NotRetriedForever == \A n \in Nodes : Remembers(n) ~> ~Remembers(n)

(* "The retry is recognised as a duplicate and the customer is charged     *)
(* exactly once": no more pulses are counted than were inserted.           *)
ChargedExactlyOnce == \A n \in Nodes : counted[n] <= inserted[n]

(* The event counter is "monotonic across reboots ... so a power cut       *)
(* mid-report cannot make the controller treat a fresh coin as a retry":   *)
(* a report about to be journalled and sent never carries the id of the    *)
(* last event the controller counted.                                      *)
EventIdNeverReused ==
    \A n \in Nodes :
        node[n].at = "journalling" =>
            ~IsDuplicate(credits[ClientOf[n]], <<n, node[n].eventCounter>>)
=============================================================================
