----------------------------- MODULE CoinNodeProofs -----------------------------
(***************************************************************************)
(* Theorems about the coin acceptors and the tally they report to, for any *)
(* number of boards and clients, any batch size, and any number of coins,  *)
(* lost answers, late requests and power cuts.                             *)
(***************************************************************************)
EXTENDS CoinNode, CoinLedgerProofs

(* A report's event id is the board's name and its event counter, and the  *)
(* tally takes any such id.  TLC cannot enumerate this set, so it is a     *)
(* hypothesis of the theorems and not an assumption of the module; the     *)
(* instances define Events as Nodes \X Nat.                                *)
EventIdsAreAccepted == Nodes \X Nat \subseteq Events

LateRequest == [node : Nodes, event : Nat, pulses : Nat]

-----------------------------------------------------------------------------
(* Types *)

(* What the controller does with a request is a step of the tally. *)
LEMMA HandleReportIsLedgerStep ==
    ASSUME EventIdsAreAccepted, NEW m \in LateRequest, HandleReport(m)
    PROVE  [LedgerStep]_ledgerVars
<1>1. /\ ClientOf[m.node] \in Subjects
      /\ [pulses |-> m.pulses, secs |-> m.pulses] \in Report
      /\ <<m.node, m.event>> \in Events
  BY NodeConstants DEF LateRequest, Report, EventIdsAreAccepted
<1>2. CASE UNCHANGED ledgerVars
  BY <1>2
<1>3. CASE CoinPulse(ClientOf[m.node], NoMac, [pulses |-> m.pulses, secs |-> m.pulses],
                     <<m.node, m.event>>)
  BY <1>1, <1>3 DEF LedgerStep
<1> QED
  BY <1>2, <1>3 DEF HandleReport

(* It counts the pulses of the request, or none. *)
LEMMA HandleReportCounts ==
    ASSUME NodeTypeOK, NEW m \in LateRequest, HandleReport(m)
    PROVE  /\ counted' \in [Nodes -> Nat]
           /\ \A q \in Nodes \ {m.node} : counted'[q] = counted[q]
           /\ \/ counted'[m.node] = counted[m.node]
              \/ counted'[m.node] = counted[m.node] + m.pulses
<1>1. m.node \in Nodes /\ m.pulses \in Nat /\ counted \in [Nodes -> Nat]
  BY DEF LateRequest, NodeTypeOK
<1>2. counted' = counted \/ counted' = [counted EXCEPT ![m.node] = @ + m.pulses]
  BY DEF HandleReport
<1> QED
  BY <1>1, <1>2

(* The request under way is one the network can hold. *)
LEMMA RequestType ==
    ASSUME NodeTypeOK, NEW n \in Nodes
    PROVE  /\ Request(n) \in LateRequest
           /\ Request(n).node = n /\ Request(n).event = node[n].eventCounter
           /\ Request(n).pulses = node[n].batch
           /\ LateAfter(n) \subseteq LateRequest
           /\ LateAfter(n) \in {late, late \cup {Request(n)}}
<1>1. node[n].eventCounter \in Nat /\ node[n].batch \in Nat
  BY DEF NodeTypeOK, RAM
<1>2. Request(n) = [node |-> n, event |-> node[n].eventCounter, pulses |-> node[n].batch]
  BY DEF Request
<1> QED
  BY <1>1, <1>2 DEF LateRequest, LateAfter, NodeTypeOK

(* Every step of the boards moves the tally by one of its own steps or not *)
(* at all.                                                                 *)
LEMMA NodeStepIsLedgerStep ==
    NodeTypeOK /\ EventIdsAreAccepted /\ [NodeNext]_nodeVars => [LedgerStep]_ledgerVars
<1> SUFFICES ASSUME NodeTypeOK, EventIdsAreAccepted, [NodeNext]_nodeVars
             PROVE  [LedgerStep]_ledgerVars
  OBVIOUS
<1>1. ASSUME NEW n \in Nodes, Handle(n) PROVE [LedgerStep]_ledgerVars
  BY <1>1, RequestType, HandleReportIsLedgerStep DEF Handle
<1>2. ASSUME NEW m \in late, HandleLate(m) PROVE [LedgerStep]_ledgerVars
  BY <1>2, HandleReportIsLedgerStep DEF HandleLate, NodeTypeOK, LateRequest
<1>3. ASSUME NEW n \in Nodes,
             OnCoinPulse(n) \/ Loop(n) \/ FlashFails(n) \/ Timeout(n) \/ PowerCut(n)
      PROVE  UNCHANGED ledgerVars
  BY <1>3 DEF OnCoinPulse, Loop, FlashFails, Timeout, PowerCut, Boot, LoadPending, ConnectWiFi,
     BeginReport, OpenJournal, WriteJournal, SkipPost, Post, TakeBatch, ClearPending
<1>4. ASSUME NEW m \in late, DropLate(m) PROVE UNCHANGED ledgerVars
  BY <1>4 DEF DropLate
<1>5. CASE UNCHANGED nodeVars
  BY <1>5 DEF nodeVars, ledgerVars
<1> QED
  BY <1>1, <1>2, <1>3, <1>4, <1>5 DEF NodeNext

(* The board's own steps keep its memory, its file and the network typed. *)
LEMMA LoopType ==
    ASSUME NodeTypeOK, NEW n \in Nodes, Loop(n)
    PROVE  /\ node' \in [Nodes -> RAM]
           /\ journal' \in [Nodes -> Complete \cup {Missing, Torn}]
           /\ late' = late /\ failures' \in [Nodes -> Nat]
           /\ UNCHANGED <<inserted, counted, retried, cuts, flashFailed>>
<1>0. /\ node \in [Nodes -> RAM] /\ failures \in [Nodes -> Nat]
      /\ journal \in [Nodes -> Complete \cup {Missing, Torn}]
      /\ journal[n].pulses \in Nat /\ journal[n].event \in Nat
  BY DEF NodeTypeOK, Complete, Missing, Torn
<1>1. CASE Boot(n)
  BY <1>0, <1>1 DEF Boot, RAM, Off, Points, observers
<1>2. CASE LoadPending(n)
  <2> DEFINE p == IF journal[n].pulses > 0 THEN journal[n].pulses ELSE node[n].pending
  <2>1. PICK associated \in BOOLEAN :
            node' = [node EXCEPT ![n] =
                [node[n] EXCEPT !.at = "idle", !.wifiReady = associated, !.pending = p,
                                !.eventCounter = journal[n].event]]
    BY <1>2 DEF LoadPending
  <2>2. p \in Nat /\ "idle" \in Points
    BY <1>0 DEF RAM, Points
  <2> HIDE DEF p
  <2>3. node' \in [Nodes -> RAM]
    BY <1>0, <2>1, <2>2 DEF RAM
  <2> QED
    BY <1>0, <1>2, <2>3 DEF LoadPending, observers
<1>3. CASE ConnectWiFi(n)
  BY <1>0, <1>3 DEF ConnectWiFi, RAM, Points, observers
<1>10. CASE Post(n)
  BY <1>0, <1>10 DEF Post, RAM, Points, observers
<1>4. CASE BeginReport(n)
  <2> DEFINE b == Least(node[n].pending, MaxBatch)
             e == node[n].eventCounter + 1
  <2>1. b \in Nat /\ e \in Nat /\ "journalling" \in Points
    BY <1>0, NodeConstants DEF RAM, Least, Points
  <2>2. node' = [node EXCEPT ![n] =
            [node[n] EXCEPT !.at = "journalling", !.batch = b, !.eventCounter = e]]
    BY <1>4 DEF BeginReport
  <2> HIDE DEF b, e
  <2>3. node' \in [Nodes -> RAM]
    BY <1>0, <2>1, <2>2 DEF RAM
  <2> QED
    BY <1>0, <1>4, <2>3 DEF BeginReport, observers
<1>5. CASE OpenJournal(n)
  <2> DEFINE next == IF node[n].at = "journalling" THEN "writing" ELSE "rewriting"
  <2>1. next \in Points
    BY DEF Points
  <2>2. node' = [node EXCEPT ![n] =
            [node[n] EXCEPT !.at = next, !.saving = node[n].pending]]
    BY <1>5 DEF OpenJournal
  <2> HIDE DEF next
  <2>3. node' \in [Nodes -> RAM]
    BY <1>0, <2>1, <2>2 DEF RAM
  <2> QED
    BY <1>0, <1>5, <2>3 DEF OpenJournal, observers
<1>6. CASE WriteJournal(n)
  <2>1. [state |-> "complete", pulses |-> node[n].saving, event |-> node[n].eventCounter]
            \in Complete
    BY <1>0 DEF RAM, Complete
  <2> QED
    BY <1>0, <1>6, <2>1 DEF WriteJournal, RAM, Points, observers
<1>7. CASE SkipPost(n)
  BY <1>0, <1>7 DEF SkipPost, RAM, Points
<1>8. CASE TakeBatch(n)
  <2> DEFINE left == Greatest(node[n].pending - node[n].batch, 0)
             next == IF left = 0 THEN "clearing" ELSE "resaving"
  <2>1. left \in Nat /\ next \in Points
    BY <1>0 DEF RAM, Points, Greatest
  <2>2. node' = [node EXCEPT ![n] =
            [node[n] EXCEPT !.at = next, !.pending = left, !.answered = FALSE]]
    BY <1>8 DEF TakeBatch
  <2> HIDE DEF left, next
  <2>3. node' \in [Nodes -> RAM]
    BY <1>0, <2>1, <2>2 DEF RAM
  <2> QED
    BY <1>0, <1>8, <2>3 DEF TakeBatch, observers
<1>9. CASE ClearPending(n)
  BY <1>0, <1>9 DEF ClearPending, RAM, Points, observers
<1> QED
  BY <1>1, <1>2, <1>3, <1>4, <1>5, <1>6, <1>7, <1>8, <1>9, <1>10 DEF Loop

LEMMA NodeTypeStep ==
    ASSUME EventIdsAreAccepted, NodeTypeOK, [NodeNext]_nodeVars
    PROVE  NodeTypeOK'
<1>0. TypeOK'
  BY NodeStepIsLedgerStep, TypeOKStep DEF NodeTypeOK
<1>1. ASSUME NEW n \in Nodes, OnCoinPulse(n) PROVE NodeTypeOK'
  BY <1>0, <1>1 DEF OnCoinPulse, NodeTypeOK, RAM
<1>2. ASSUME NEW n \in Nodes, Loop(n) PROVE NodeTypeOK'
  BY <1>0, <1>2, LoopType DEF NodeTypeOK
<1>3. ASSUME NEW n \in Nodes, FlashFails(n) PROVE NodeTypeOK'
  BY <1>0, <1>3 DEF FlashFails, NodeTypeOK, RAM, Points
<1>4. ASSUME NEW n \in Nodes, Handle(n) PROVE NodeTypeOK'
  <2>1. node' \in [Nodes -> RAM]
    BY <1>4 DEF Handle, NodeTypeOK, RAM
  <2>2. counted' \in [Nodes -> Nat]
    BY <1>4, RequestType, HandleReportCounts DEF Handle
  <2> QED
    BY <1>0, <1>4, <2>1, <2>2 DEF Handle, NodeTypeOK
<1>5. ASSUME NEW n \in Nodes, Timeout(n) PROVE NodeTypeOK'
  <2>1. node' \in [Nodes -> RAM]
    BY <1>5 DEF Timeout, NodeTypeOK, RAM, Points
  <2>2. retried' \in [Nodes -> Nat] /\ failures' \in [Nodes -> Nat]
    BY <1>5 DEF Timeout, NodeTypeOK, RAM
  <2>3. late' \subseteq [node : Nodes, event : Nat, pulses : Nat]
    BY <1>5, RequestType DEF Timeout, LateRequest
  <2> QED
    BY <1>0, <1>5, <2>1, <2>2, <2>3 DEF Timeout, NodeTypeOK
<1>6. ASSUME NEW n \in Nodes, PowerCut(n) PROVE NodeTypeOK'
  <2>1. Off \in RAM
    BY DEF Off, RAM, Points
  <2> QED
    BY <1>0, <1>6, <2>1, RequestType DEF PowerCut, NodeTypeOK, LateRequest
<1>7. ASSUME NEW m \in late, HandleLate(m) PROVE NodeTypeOK'
  BY <1>0, <1>7, HandleReportCounts DEF HandleLate, NodeTypeOK, LateRequest
<1>8. ASSUME NEW m \in late, DropLate(m) PROVE NodeTypeOK'
  BY <1>0, <1>8 DEF DropLate, NodeTypeOK, observers
<1>9. CASE UNCHANGED nodeVars
  BY <1>0, <1>9 DEF nodeVars, NodeTypeOK
<1> QED
  BY <1>1, <1>2, <1>3, <1>4, <1>5, <1>6, <1>7, <1>8, <1>9 DEF NodeNext

LEMMA NodeTypeStart == NodeInit => NodeTypeOK
<1>1. LedgerInit => TypeOK
  BY LedgerConstants DEF LedgerInit, TypeOK, NoRow, Row, Statuses
<1> QED
  BY <1>1 DEF NodeInit, NodeTypeOK, RAM, Points, Off, Complete, Missing

(* RAM, journal and network hold what the sketch puts there, whatever is    *)
(* lost and whenever the power fails.                                      *)
THEOREM NodeTypeCorrect ==
    ASSUME EventIdsAreAccepted PROVE NodeSpec => []NodeTypeOK
  BY NodeTypeStart, NodeTypeStep, PTL DEF NodeSpec

-----------------------------------------------------------------------------
(* One board at a time *)

(* What board n, or a late request of its, does next. *)
Acts(n) ==
    \/ OnCoinPulse(n) \/ Loop(n) \/ FlashFails(n)
    \/ Handle(n) \/ Timeout(n) \/ PowerCut(n)
    \/ \E m \in late : m.node = n /\ (HandleLate(m) \/ DropLate(m))

(* What the board q finds unchanged when another one acts: all that is its *)
(* own, and its event id on the row of its client unless the other board   *)
(* put one of its own there.                                               *)
Untouched(q, n) ==
    /\ node'[q] = node[q] /\ journal'[q] = journal[q]
    /\ inserted'[q] = inserted[q] /\ counted'[q] = counted[q]
    /\ retried'[q] = retried[q] /\ cuts'[q] = cuts[q]
    /\ q \in flashFailed' <=> q \in flashFailed
    /\ \A m \in LateRequest : m.node = q => (m \in late' <=> m \in late)
    /\ LET s == ClientOf[q] IN
       \/ credits'[s].lastEvent = credits[s].lastEvent
       \/ \E k \in Nat : credits'[s].lastEvent = <<n, k>>

LEMMA SomeBoardActs ==
    ASSUME NodeTypeOK, NodeNext PROVE \E n \in Nodes : Acts(n)
  BY DEF NodeNext, Acts, NodeTypeOK

(* Where the controller's side of a request leaves the last event.         *)
LEMMA HandleReportEvents ==
    ASSUME NodeTypeOK, NEW m \in LateRequest, HandleReport(m), NEW s \in Subjects
    PROVE  \/ credits'[s].lastEvent = credits[s].lastEvent
           \/ credits'[s].lastEvent = <<m.node, m.event>>
<1>1. CASE UNCHANGED ledgerVars
  BY <1>1 DEF ledgerVars
<1>2. CASE CoinPulse(ClientOf[m.node], NoMac, [pulses |-> m.pulses, secs |-> m.pulses],
                     <<m.node, m.event>>)
  <2> DEFINE c == ClientOf[m.node]
             new == CreditRow(credits[c], NoMac, m.pulses, Least(m.pulses, MaxReportSeconds),
                              <<m.node, m.event>>, now, Deadline)
  <2>1. credits' = [credits EXCEPT ![c] = new]
    BY <1>2 DEF CoinPulse
  <2>2. new.lastEvent = <<m.node, m.event>>
    BY DEF CreditRow
  <2> HIDE DEF new, c
  <2> QED
    BY <2>1, <2>2 DEF NodeTypeOK, TypeOK
<1> QED
  BY <1>1, <1>2 DEF HandleReport

LEMMA OthersUntouched ==
    ASSUME NodeTypeOK, NEW n \in Nodes, Acts(n), NEW q \in Nodes \ {n}
    PROVE  Untouched(q, n)
<1>0. /\ DOMAIN node = Nodes /\ DOMAIN journal = Nodes /\ DOMAIN inserted = Nodes
      /\ DOMAIN counted = Nodes /\ DOMAIN retried = Nodes /\ DOMAIN cuts = Nodes
      /\ ClientOf[q] \in Subjects /\ late \subseteq LateRequest
  BY NodeConstants DEF NodeTypeOK, LateRequest
<1>1. CASE OnCoinPulse(n)
  BY <1>0, <1>1 DEF OnCoinPulse, Untouched, ledgerVars
<1>2. CASE Loop(n)
  BY <1>0, <1>2 DEF Loop, Boot, LoadPending, ConnectWiFi, BeginReport, OpenJournal,
     WriteJournal, SkipPost, Post, TakeBatch, ClearPending, Untouched, ledgerVars, observers
<1>3. CASE FlashFails(n)
  BY <1>0, <1>3 DEF FlashFails, Untouched, ledgerVars
<1>4. CASE Handle(n)
  <2>1. Request(n) \in LateRequest /\ Request(n).node = n /\ HandleReport(Request(n))
    BY <1>4, RequestType DEF Handle
  <2>2. Request(n).event \in Nat
    BY <2>1 DEF LateRequest
  <2>3. /\ counted'[q] = counted[q]
        /\ \/ credits'[ClientOf[q]].lastEvent = credits[ClientOf[q]].lastEvent
           \/ credits'[ClientOf[q]].lastEvent = <<n, Request(n).event>>
    BY <1>0, <2>1, HandleReportCounts, HandleReportEvents
  <2> QED
    BY <1>0, <1>4, <2>2, <2>3 DEF Handle, Untouched
<1>5. CASE Timeout(n)
  BY <1>0, <1>5, RequestType DEF Timeout, Untouched, ledgerVars
<1>6. CASE PowerCut(n)
  BY <1>0, <1>6, RequestType DEF PowerCut, Untouched, ledgerVars
<1>7. ASSUME NEW m \in late, m.node = n, HandleLate(m) PROVE Untouched(q, n)
  <2>1. m \in LateRequest /\ m.event \in Nat /\ HandleReport(m)
    BY <1>0, <1>7 DEF LateRequest, HandleLate
  <2>2. /\ counted'[q] = counted[q]
        /\ \/ credits'[ClientOf[q]].lastEvent = credits[ClientOf[q]].lastEvent
           \/ credits'[ClientOf[q]].lastEvent = <<n, m.event>>
    BY <1>0, <1>7, <2>1, HandleReportCounts, HandleReportEvents
  <2> QED
    BY <1>0, <1>7, <2>1, <2>2 DEF HandleLate, Untouched
<1>8. ASSUME NEW m \in late, m.node = n, DropLate(m) PROVE Untouched(q, n)
  BY <1>0, <1>8 DEF DropLate, Untouched, ledgerVars, observers
<1> QED
  BY <1>1, <1>2, <1>3, <1>4, <1>5, <1>6, <1>7, <1>8 DEF Acts

-----------------------------------------------------------------------------
(* The program of one board *)

(* A report is under way from the choice of its batch to its confirmation. *)
Reporting == {"journalling", "writing", "posting", "awaiting"}

(* Its batch stays on the counter, and the journal in flash covers it once *)
(* it is sent.                                                             *)
BatchInv(n) ==
    /\ node[n].at \in Reporting => node[n].batch <= node[n].pending
    /\ node[n].answered => node[n].at = "awaiting"
    /\ node[n].at = "writing" => node[n].batch <= node[n].saving
    /\ node[n].at \in {"posting", "awaiting"} /\ n \notin flashFailed =>
           /\ journal[n].state = "complete"
           /\ journal[n].pulses >= node[n].batch
           /\ journal[n].event = node[n].eventCounter

LEMMA BatchInvStep ==
    ASSUME NodeTypeOK, NEW n \in Nodes, Acts(n), BatchInv(n)
    PROVE  BatchInv(n)'
<1>0. /\ node \in [Nodes -> RAM] /\ DOMAIN journal = Nodes
      /\ node[n].pending \in Nat /\ node[n].batch \in Nat /\ node[n].saving \in Nat
      /\ MaxBatch \in Nat /\ MaxPending \in Nat
  BY NodeConstants DEF NodeTypeOK, RAM
<1> USE DEF BatchInv, Reporting
<1>1. CASE OnCoinPulse(n)
  BY <1>0, <1>1 DEF OnCoinPulse, RAM
<1>2. CASE Boot(n) \/ PowerCut(n)
  BY <1>0, <1>2 DEF Boot, PowerCut, Off, RAM
<1>3. CASE LoadPending(n)
  BY <1>0, <1>3 DEF LoadPending, RAM
<1>4. CASE ConnectWiFi(n)
  BY <1>0, <1>4 DEF ConnectWiFi, RAM
<1>5. CASE BeginReport(n)
  BY <1>0, <1>5 DEF BeginReport, RAM, Least
<1>6. CASE OpenJournal(n)
  BY <1>0, <1>6 DEF OpenJournal, RAM
<1>7. CASE WriteJournal(n)
  BY <1>0, <1>7 DEF WriteJournal, RAM, observers
<1>8. CASE SkipPost(n)
  BY <1>0, <1>8 DEF SkipPost, RAM
<1>9. CASE Post(n)
  BY <1>0, <1>9 DEF Post, RAM, observers
<1>10. CASE TakeBatch(n)
  BY <1>0, <1>10 DEF TakeBatch, RAM
<1>11. CASE ClearPending(n)
  BY <1>0, <1>11 DEF ClearPending, RAM
<1>12. CASE FlashFails(n)
  BY <1>0, <1>12 DEF FlashFails, RAM
<1>13. CASE Handle(n)
  BY <1>0, <1>13 DEF Handle, RAM
<1>14. CASE Timeout(n)
  BY <1>0, <1>14 DEF Timeout, RAM
<1>15. ASSUME NEW m \in late, HandleLate(m) \/ DropLate(m) PROVE BatchInv(n)'
  BY <1>15 DEF HandleLate, DropLate, observers
<1> QED
  BY <1>1, <1>2, <1>3, <1>4, <1>5, <1>6, <1>7, <1>8, <1>9, <1>10, <1>11, <1>12, <1>13,
     <1>14, <1>15 DEF Acts, Loop

BoardInv == NodeTypeOK /\ \A n \in Nodes : BatchInv(n)

LEMMA BoardInvStep ==
    ASSUME EventIdsAreAccepted, BoardInv, [NodeNext]_nodeVars PROVE BoardInv'
<1>1. NodeTypeOK'
  BY NodeTypeStep DEF BoardInv
<1>2. ASSUME NEW n \in Nodes, Acts(n), NEW q \in Nodes PROVE BatchInv(q)'
  <2>1. CASE q = n
    BY <1>2, <2>1, BatchInvStep DEF BoardInv
  <2>2. CASE q # n
    BY <1>2, <2>2, OthersUntouched DEF BoardInv, Untouched, BatchInv
  <2> QED
    BY <2>1, <2>2
<1>3. CASE NodeNext
  BY <1>1, <1>2, <1>3, SomeBoardActs DEF BoardInv
<1>4. CASE UNCHANGED nodeVars
  BY <1>1, <1>4 DEF nodeVars, BoardInv, BatchInv
<1> QED
  BY <1>3, <1>4

LEMMA BoardInvStart == NodeInit => BoardInv
  BY NodeTypeStart DEF NodeInit, BoardInv, BatchInv, Reporting, Off

LEMMA BoardInvariant == ASSUME EventIdsAreAccepted PROVE NodeSpec => []BoardInv
  BY BoardInvStart, BoardInvStep, PTL DEF NodeSpec

(* Whenever the power fails while a report is out, the flash holds all its *)
(* pulses and its event id, unless the flash itself failed.                *)
THEOREM NodeJournalledBeforeSent ==
    ASSUME EventIdsAreAccepted PROVE NodeSpec => []JournalledBeforeSent
<1>1. BoardInv => JournalledBeforeSent
  BY DEF BoardInv, BatchInv, JournalledBeforeSent
<1> QED
  BY <1>1, BoardInvariant, PTL

-----------------------------------------------------------------------------
(* While the power holds *)

(* A board that has not started yet has no journal and has counted nothing. *)
BootInv(n) ==
    /\ node[n].at \in {"off", "booting"} =>
           journal[n] = Missing /\ node[n].eventCounter = 0
    /\ node[n].at = "off" => node[n].pending = 0

(* No request of the board on the network, and no event of its on the row  *)
(* of its client, is from after its event counter, or has the id of the    *)
(* report it is making now; a report answered already may be on the row.   *)
(* No two requests it gave up share an id.                                 *)
EventInv(n) ==
    /\ \A m \in late : m.node = n =>
           /\ m.event <= node[n].eventCounter
           /\ node[n].at \in Reporting => m.event < node[n].eventCounter
    /\ \A m, o \in late : m.node = n /\ o.node = n /\ m.event = o.event => m = o
    /\ \A k \in Nat : credits[ClientOf[n]].lastEvent = <<n, k>> =>
           /\ k <= node[n].eventCounter
           /\ node[n].at \in Reporting /\ ~node[n].answered => k < node[n].eventCounter

(* The batch of a report that was answered, and is not off the counter yet. *)
Confirmed(n) == IF node[n].answered THEN node[n].batch ELSE 0

(* No pulse is missing, unless the counter in RAM was ever full.            *)
CountInv(n) ==
    /\ node[n].pending <= inserted[n]
    /\ inserted[n] <= MaxPending =>
           inserted[n] + Confirmed(n) <= counted[n] + node[n].pending

(* A power cut leaves late requests, and event ids, whose reports the board *)
(* has forgotten: the invariant is about boards that never lost power.      *)
PoweredInv(n) == cuts[n] = 0 => BootInv(n) /\ EventInv(n) /\ CountInv(n)

(* A request that is not a duplicate is counted, and leaves its id on the   *)
(* row.                                                                     *)
LEMMA FreshReportIsCounted ==
    ASSUME NodeTypeOK, NEW m \in LateRequest, HandleReport(m),
           credits[ClientOf[m.node]].lastEvent # <<m.node, m.event>>
    PROVE  /\ counted'[m.node] = counted[m.node] + m.pulses
           /\ \A k \in Nat : credits'[ClientOf[m.node]].lastEvent = <<m.node, k>> => k = m.event
<1>1. /\ m.node \in Nodes /\ ClientOf[m.node] \in Subjects /\ m.event \in Nat
      /\ counted \in [Nodes -> Nat]
  BY NodeConstants DEF LateRequest, NodeTypeOK
<1>2. CoinPulse(ClientOf[m.node], NoMac, [pulses |-> m.pulses, secs |-> m.pulses],
                <<m.node, m.event>>)
      /\ counted' = [counted EXCEPT ![m.node] = @ + m.pulses]
  BY DEF HandleReport, IsDuplicate
<1>3. counted'[m.node] = counted[m.node] + m.pulses
  BY <1>1, <1>2
<1> DEFINE c == ClientOf[m.node]
           new == CreditRow(credits[c], NoMac, m.pulses, Least(m.pulses, MaxReportSeconds),
                            <<m.node, m.event>>, now, Deadline)
<1>4. credits' = [credits EXCEPT ![c] = new]
  BY <1>2 DEF CoinPulse
<1>5. new.lastEvent = <<m.node, m.event>>
  BY DEF CreditRow
<1> HIDE DEF new, c
<1>6. c \in Subjects
  BY <1>1 DEF c
<1>7. credits'[c].lastEvent = <<m.node, m.event>>
  BY <1>4, <1>5, <1>6 DEF NodeTypeOK, TypeOK
<1> QED
  BY <1>3, <1>7 DEF c

(* The board's own step, and one of a late request of its, keep each part. *)
LEMMA BootInvStep ==
    ASSUME NodeTypeOK, NEW n \in Nodes, Acts(n), cuts[n] = 0, cuts'[n] = 0, BootInv(n)
    PROVE  BootInv(n)'
<1>0. node \in [Nodes -> RAM] /\ DOMAIN journal = Nodes /\ cuts \in [Nodes -> Nat]
  BY DEF NodeTypeOK
<1> USE DEF BootInv
<1>1. CASE OnCoinPulse(n)
  BY <1>0, <1>1 DEF OnCoinPulse, RAM
<1>2. CASE Boot(n)
  BY <1>0, <1>2 DEF Boot, Off
<1>3. CASE LoadPending(n)
  BY <1>0, <1>3 DEF LoadPending
<1>4. CASE ConnectWiFi(n)
  BY <1>0, <1>4 DEF ConnectWiFi, RAM
<1>5. CASE BeginReport(n) \/ OpenJournal(n) \/ Post(n)
  <2>1. CASE BeginReport(n)
    BY <1>0, <2>1 DEF BeginReport
  <2>2. CASE OpenJournal(n)
    BY <1>0, <2>2 DEF OpenJournal
  <2>3. CASE Post(n)
    BY <1>0, <2>3 DEF Post
  <2> QED
    BY <1>5, <2>1, <2>2, <2>3
<1>12. CASE TakeBatch(n)
  <2>1. node'[n].at \in {"clearing", "resaving"}
    BY <1>0, <1>12 DEF TakeBatch
  <2> QED
    BY <2>1
<1>6. CASE WriteJournal(n) \/ SkipPost(n) \/ ClearPending(n)
  BY <1>0, <1>6 DEF WriteJournal, SkipPost, ClearPending, RAM
<1>7. CASE FlashFails(n)
  BY <1>0, <1>7 DEF FlashFails, RAM
<1>8. CASE Handle(n)
  BY <1>0, <1>8 DEF Handle, RAM
<1>9. CASE Timeout(n)
  BY <1>0, <1>9 DEF Timeout
<1>10. CASE PowerCut(n)
  BY <1>0, <1>10 DEF PowerCut
<1>11. ASSUME NEW m \in late, HandleLate(m) \/ DropLate(m) PROVE BootInv(n)'
  BY <1>11 DEF HandleLate, DropLate, observers
<1> QED
  BY <1>1, <1>2, <1>3, <1>4, <1>5, <1>6, <1>7, <1>8, <1>9, <1>10, <1>11, <1>12
     DEF Acts, Loop

LEMMA EventInvStep ==
    ASSUME NodeTypeOK, NEW n \in Nodes, Acts(n), cuts[n] = 0, cuts'[n] = 0,
           BatchInv(n), BootInv(n), EventInv(n)
    PROVE  EventInv(n)'
<1>0. /\ node \in [Nodes -> RAM] /\ node[n].eventCounter \in Nat
      /\ cuts \in [Nodes -> Nat] /\ late \subseteq LateRequest
      /\ ClientOf[n] \in Subjects
  BY NodeConstants DEF NodeTypeOK, RAM, LateRequest
<1>k. ASSUME late' = late, UNCHANGED credits,
             node'[n].eventCounter >= node[n].eventCounter,
             node'[n].at \in Reporting =>
                 \/ node'[n].eventCounter > node[n].eventCounter
                 \/ /\ node[n].at \in Reporting
                    /\ node'[n].answered \/ ~node[n].answered,
             node'[n].eventCounter \in Nat
      PROVE  EventInv(n)'
  <2>1. \A m \in late : m.event \in Nat
    BY <1>0 DEF LateRequest
  <2> QED
    BY <1>k, <2>1, <1>0 DEF EventInv
<1>1. CASE OnCoinPulse(n)
  BY <1>0, <1>1, <1>k DEF OnCoinPulse, RAM, ledgerVars
<1>2. CASE Boot(n)
  BY <1>0, <1>2, <1>k DEF Boot, BootInv, Off, Reporting, ledgerVars
<1>3. CASE LoadPending(n)
  <2>1. journal[n].event = 0 /\ node[n].eventCounter = 0
    BY <1>3 DEF LoadPending, BootInv, Missing
  <2>2. node'[n].eventCounter = 0 /\ node'[n].at = "idle"
    BY <1>0, <1>3, <2>1 DEF LoadPending
  <2> QED
    BY <1>0, <1>3, <1>k, <2>1, <2>2 DEF LoadPending, Reporting, ledgerVars
<1>4. CASE ConnectWiFi(n) \/ WriteJournal(n) \/ SkipPost(n) \/ ClearPending(n) \/ FlashFails(n)
  BY <1>0, <1>4, <1>k DEF ConnectWiFi, WriteJournal, SkipPost, ClearPending, FlashFails,
     Reporting, RAM, ledgerVars
<1>5. CASE BeginReport(n)
  BY <1>0, <1>5, <1>k DEF BeginReport, ledgerVars
<1>6. CASE OpenJournal(n) \/ TakeBatch(n)
  <2>1. CASE OpenJournal(n)
    BY <1>0, <1>k, <2>1 DEF OpenJournal, Reporting, ledgerVars
  <2>2. CASE TakeBatch(n)
    <3>1. node'[n].at \notin Reporting /\ node'[n].eventCounter = node[n].eventCounter
      BY <1>0, <2>2 DEF TakeBatch, Reporting
    <3> QED
      BY <1>0, <1>k, <2>2, <3>1 DEF TakeBatch, ledgerVars
  <2> QED
    BY <1>6, <2>1, <2>2
<1>7. CASE Post(n)
  BY <1>0, <1>7, <1>k DEF Post, BatchInv, Reporting, ledgerVars
<1>8. CASE Handle(n)
  <2>1. /\ Request(n) \in LateRequest /\ HandleReport(Request(n)) /\ Request(n).node = n
        /\ Request(n).event = node[n].eventCounter
    BY <1>8, RequestType DEF Handle
  <2>2. credits[ClientOf[n]].lastEvent # <<n, node[n].eventCounter>>
    BY <1>0, <1>8 DEF Handle, EventInv, Reporting
  <2>3. \A k \in Nat : credits'[ClientOf[n]].lastEvent = <<n, k>> => k = node[n].eventCounter
    BY <2>1, <2>2, FreshReportIsCounted
  <2>4. node'[n].eventCounter = node[n].eventCounter /\ node'[n].at = node[n].at
        /\ node'[n].answered
    BY <1>0, <1>8 DEF Handle, RAM
  <2>5. late' = late
    BY <1>8 DEF Handle
  <2> QED
    BY <1>0, <2>3, <2>4, <2>5 DEF EventInv
<1>9. CASE Timeout(n)
  <2>1. /\ Request(n) \in LateRequest /\ Request(n).node = n
        /\ Request(n).event = node[n].eventCounter
        /\ late' \in {late, late \cup {Request(n)}}
    BY <1>9, RequestType DEF Timeout
  <2>2. node'[n].eventCounter = node[n].eventCounter /\ node'[n].at = "idle"
    BY <1>0, <1>9 DEF Timeout
  <2>3. node[n].at \in Reporting /\ UNCHANGED credits
    BY <1>9 DEF Timeout, Reporting, ledgerVars
  <2>4. \A m \in late : m.node = n => m.event < node[n].eventCounter /\ m.event \in Nat
    BY <1>0, <2>3 DEF EventInv, LateRequest
  <2> QED
    BY <1>0, <2>1, <2>2, <2>3, <2>4 DEF EventInv, Reporting
<1>10. CASE PowerCut(n)
  BY <1>0, <1>10 DEF PowerCut
<1>11. ASSUME NEW m \in late, m.node = n, HandleLate(m) PROVE EventInv(n)'
  <2>1. m \in LateRequest /\ m.event \in Nat /\ HandleReport(m) /\ late' = late \ {m}
        /\ node' = node
    BY <1>0, <1>11 DEF HandleLate, LateRequest
  <2>2. \/ credits'[ClientOf[n]].lastEvent = credits[ClientOf[n]].lastEvent
        \/ credits'[ClientOf[n]].lastEvent = <<n, m.event>>
    BY <1>0, <1>11, <2>1, HandleReportEvents
  <2> QED
    BY <1>0, <1>11, <2>1, <2>2 DEF EventInv
<1>12. ASSUME NEW m \in late, DropLate(m) PROVE EventInv(n)'
  BY <1>12 DEF DropLate, EventInv, ledgerVars
<1> QED
  BY <1>1, <1>2, <1>3, <1>4, <1>5, <1>6, <1>7, <1>8, <1>9, <1>10, <1>11, <1>12 DEF Acts, Loop

LEMMA CountInvStep ==
    ASSUME NodeTypeOK, NEW n \in Nodes, Acts(n), cuts[n] = 0, cuts'[n] = 0,
           BatchInv(n), BootInv(n), EventInv(n), CountInv(n)
    PROVE  CountInv(n)'
<1>0. /\ node \in [Nodes -> RAM] /\ DOMAIN journal = Nodes
      /\ inserted \in [Nodes -> Nat] /\ counted \in [Nodes -> Nat]
      /\ node[n].pending \in Nat /\ node[n].batch \in Nat
      /\ cuts \in [Nodes -> Nat] /\ late \subseteq LateRequest /\ MaxPending \in Nat
  BY NodeConstants DEF NodeTypeOK, RAM, LateRequest
<1> USE DEF CountInv, Confirmed
<1>1. CASE OnCoinPulse(n)
  BY <1>0, <1>1 DEF OnCoinPulse, RAM
<1>2. CASE Boot(n)
  BY <1>0, <1>2 DEF Boot, BootInv, BatchInv, Off, observers
<1>3. CASE LoadPending(n)
  <2>1. node'[n].pending = node[n].pending /\ node'[n].answered = node[n].answered
        /\ node'[n].batch = node[n].batch
    BY <1>0, <1>3 DEF LoadPending, BootInv, Missing, RAM
  <2> QED
    BY <1>0, <1>3, <2>1 DEF LoadPending, observers
<1>4. CASE ConnectWiFi(n) \/ WriteJournal(n) \/ ClearPending(n) \/ OpenJournal(n)
  <2>1. CASE OpenJournal(n)
    BY <1>0, <2>1 DEF OpenJournal, RAM, observers
  <2>2. CASE ConnectWiFi(n) \/ WriteJournal(n) \/ ClearPending(n)
    BY <1>0, <2>2 DEF ConnectWiFi, WriteJournal, ClearPending, RAM, observers
  <2> QED
    BY <1>4, <2>1, <2>2
<1>5. CASE SkipPost(n) \/ FlashFails(n)
  BY <1>0, <1>5 DEF SkipPost, FlashFails, RAM
<1>6. CASE BeginReport(n)
  BY <1>0, <1>6 DEF BeginReport, BatchInv, RAM, observers
<1>7. CASE Post(n)
  BY <1>0, <1>7 DEF Post, BatchInv, RAM, observers
<1>8. CASE Handle(n)
  <2>1. /\ Request(n) \in LateRequest /\ HandleReport(Request(n)) /\ Request(n).node = n
        /\ Request(n).event = node[n].eventCounter /\ Request(n).pulses = node[n].batch
    BY <1>8, RequestType DEF Handle
  <2>2. credits[ClientOf[n]].lastEvent # <<n, node[n].eventCounter>>
    BY <1>0, <1>8 DEF Handle, EventInv, Reporting, RAM
  <2>3. counted'[n] = counted[n] + node[n].batch
    BY <2>1, <2>2, FreshReportIsCounted
  <2>4. node'[n].pending = node[n].pending /\ node'[n].batch = node[n].batch
        /\ inserted' = inserted /\ ~node[n].answered
    BY <1>0, <1>8 DEF Handle, RAM
  <2> QED
    BY <1>0, <2>3, <2>4
<1>9. CASE TakeBatch(n)
  BY <1>0, <1>9 DEF TakeBatch, BatchInv, Reporting, Greatest, RAM, observers
<1>10. CASE Timeout(n)
  BY <1>0, <1>10 DEF Timeout, RAM
<1>11. CASE PowerCut(n)
  BY <1>0, <1>11 DEF PowerCut
<1>12. ASSUME NEW m \in late, m.node = n, HandleLate(m) PROVE CountInv(n)'
  <2>1. m \in LateRequest /\ m.pulses \in Nat /\ HandleReport(m)
    BY <1>0, <1>12 DEF HandleLate, LateRequest
  <2>2. counted'[n] \in Nat /\ counted'[n] >= counted[n]
    BY <1>0, <1>12, <2>1, HandleReportCounts
  <2> QED
    BY <1>0, <1>12, <2>2 DEF HandleLate
<1>13. ASSUME NEW m \in late, DropLate(m) PROVE CountInv(n)'
  BY <1>13 DEF DropLate, observers
<1> QED
  BY <1>1, <1>2, <1>3, <1>4, <1>5, <1>6, <1>7, <1>8, <1>9, <1>10, <1>11, <1>12, <1>13
     DEF Acts, Loop

PoweredBoards == BoardInv /\ \A n \in Nodes : PoweredInv(n)

(* What another board does leaves all of it as it was.                     *)
LEMMA PoweredInvFrame ==
    ASSUME BoardInv, NEW n \in Nodes, NEW q \in Nodes \ {n}, Untouched(q, n),
           NodeTypeOK', PoweredInv(q)
    PROVE  PoweredInv(q)'
<1>1. /\ late \subseteq LateRequest /\ late' \subseteq LateRequest
      /\ \A m \in LateRequest : m.node = q => (m \in late' <=> m \in late)
  BY DEF BoardInv, NodeTypeOK, LateRequest, Untouched
<1>2. /\ node'[q] = node[q] /\ journal'[q] = journal[q] /\ inserted'[q] = inserted[q]
      /\ counted'[q] = counted[q] /\ cuts'[q] = cuts[q]
      /\ \/ credits'[ClientOf[q]].lastEvent = credits[ClientOf[q]].lastEvent
         \/ \E k \in Nat : credits'[ClientOf[q]].lastEvent = <<n, k>>
  BY DEF Untouched
<1>3. ASSUME cuts[q] = 0 PROVE BootInv(q)' /\ CountInv(q)'
  BY <1>2, <1>3 DEF PoweredInv, BootInv, CountInv, Confirmed
<1>4. ASSUME cuts[q] = 0 PROVE EventInv(q)'
  <2>1. EventInv(q)
    BY <1>4 DEF PoweredInv
  <2>2. \A k \in Nat : credits'[ClientOf[q]].lastEvent = <<q, k>> =>
            credits[ClientOf[q]].lastEvent = <<q, k>>
    BY <1>2
  <2> QED
    BY <1>1, <1>2, <2>1, <2>2 DEF EventInv
<1> QED
  BY <1>2, <1>3, <1>4 DEF PoweredInv

(* Power that has been cut stays cut for the observer.                     *)
LEMMA PowerNeverUncut ==
    ASSUME NodeTypeOK, NEW n \in Nodes, Acts(n), cuts'[n] = 0 PROVE cuts[n] = 0
<1>1. cuts[n] \in Nat /\ DOMAIN cuts = Nodes
  BY DEF NodeTypeOK
<1>2. cuts' = cuts \/ cuts' = [cuts EXCEPT ![n] = @ + 1]
  BY DEF Acts, OnCoinPulse, Loop, FlashFails, Handle, Timeout, PowerCut, Boot,
     LoadPending, ConnectWiFi, BeginReport, OpenJournal, WriteJournal, SkipPost, Post,
     TakeBatch, ClearPending, HandleLate, DropLate, observers
<1> QED
  BY <1>1, <1>2

LEMMA PoweredBoardsStep ==
    ASSUME EventIdsAreAccepted, PoweredBoards, [NodeNext]_nodeVars PROVE PoweredBoards'
<1>1. BoardInv /\ BoardInv' /\ NodeTypeOK /\ NodeTypeOK'
  BY BoardInvStep DEF PoweredBoards, BoardInv
<1>2. ASSUME NEW n \in Nodes, Acts(n), NEW q \in Nodes PROVE PoweredInv(q)'
  <2>1. CASE q = n
    <3>1. cuts'[n] = 0 => cuts[n] = 0
      BY <1>1, <1>2, PowerNeverUncut
    <3> QED
      BY <1>1, <1>2, <2>1, <3>1, BootInvStep, EventInvStep, CountInvStep
         DEF PoweredBoards, BoardInv, PoweredInv
  <2>2. CASE q # n
    BY <1>1, <1>2, <2>2, OthersUntouched, PoweredInvFrame DEF PoweredBoards
  <2> QED
    BY <2>1, <2>2
<1>3. CASE NodeNext
  BY <1>1, <1>2, <1>3, SomeBoardActs DEF PoweredBoards
<1>4. CASE UNCHANGED nodeVars
  <2>1. UNCHANGED <<node, journal, late, inserted, counted, cuts, credits>>
    BY <1>4 DEF nodeVars
  <2> QED
    BY <1>1, <2>1 DEF PoweredBoards, PoweredInv, BootInv, EventInv, CountInv, Confirmed
<1> QED
  BY <1>3, <1>4

LEMMA PoweredBoardsStart == EventIdsAreAccepted /\ NodeInit => PoweredBoards
<1> SUFFICES ASSUME EventIdsAreAccepted, NodeInit PROVE PoweredBoards
  OBVIOUS
<1>1. \A n \in Nodes : BootInv(n)
  BY DEF NodeInit, BootInv, Off
<1>2. \A n \in Nodes : CountInv(n)
  BY DEF NodeInit, CountInv, Confirmed, Off
<1>3. \A n \in Nodes : EventInv(n)
  <2>1. \A n \in Nodes : credits[ClientOf[n]].lastEvent = NoEvent
    BY NodeConstants DEF NodeInit, LedgerInit, NoRow
  <2>2. \A n \in Nodes, k \in Nat : NoEvent # <<n, k>>
    BY LedgerConstants DEF EventIdsAreAccepted
  <2> QED
    BY <2>1, <2>2 DEF EventInv, NodeInit
<1> QED
  BY <1>1, <1>2, <1>3, BoardInvStart DEF PoweredBoards, PoweredInv

LEMMA PoweredInvariant == ASSUME EventIdsAreAccepted PROVE NodeSpec => []PoweredBoards
  BY PoweredBoardsStart, PoweredBoardsStep, PTL DEF NodeSpec

(* The acceptor emits no more than its bound.                              *)
Emitted == \A n \in Nodes : inserted[n] <= MaxInserted

LEMMA EmittedStep ==
    ASSUME NodeTypeOK, Emitted, [NodeNext]_nodeVars PROVE Emitted'
<1>1. inserted \in [Nodes -> Nat] /\ MaxInserted \in Nat
  BY NodeConstants DEF NodeTypeOK
<1>2. ASSUME NEW n \in Nodes, OnCoinPulse(n) PROVE Emitted'
  BY <1>1, <1>2 DEF OnCoinPulse, Emitted
<1>3. ASSUME NEW n \in Nodes, Loop(n) \/ FlashFails(n) \/ Handle(n) \/ Timeout(n) \/ PowerCut(n)
      PROVE  inserted' = inserted
  BY <1>3 DEF Loop, FlashFails, Handle, Timeout, PowerCut, Boot, LoadPending, ConnectWiFi,
     BeginReport, OpenJournal, WriteJournal, SkipPost, Post, TakeBatch, ClearPending, observers
<1>4. ASSUME NEW m \in late, HandleLate(m) \/ DropLate(m) PROVE inserted' = inserted
  BY <1>4 DEF HandleLate, DropLate, observers
<1>5. CASE UNCHANGED nodeVars
  BY <1>5 DEF nodeVars, Emitted
<1> QED
  BY <1>2, <1>3, <1>4, <1>5 DEF NodeNext, Emitted

(* While the power holds, every pulse the acceptor emitted is in the tally *)
(* or still on the board's counter, whatever the network loses, duplicates *)
(* or delays and wherever the interrupt strikes.  The hypothesis is that   *)
(* the acceptor emits no more pulses than the 16-bit counter can hold; a   *)
(* full counter drops them.                                                *)
THEOREM NodeNoCoinLost ==
    ASSUME EventIdsAreAccepted, MaxInserted <= MaxPending
    PROVE  NodeSpec => []NoCoinLostWhilePowered
<1>1. NodeInit => Emitted
  BY NodeConstants DEF NodeInit, Emitted
<1>2. NodeTypeOK /\ Emitted /\ [NodeNext]_nodeVars => Emitted'
  BY EmittedStep
<1>3. PoweredBoards /\ Emitted => NoCoinLostWhilePowered
  <2> SUFFICES ASSUME PoweredBoards, Emitted, NEW n \in Nodes, cuts[n] = 0
               PROVE  inserted[n] <= counted[n] + node[n].pending
    BY DEF NoCoinLostWhilePowered
  <2>1. /\ inserted[n] \in Nat /\ counted[n] \in Nat /\ node[n].pending \in Nat
        /\ Confirmed(n) \in Nat
    BY DEF PoweredBoards, BoardInv, NodeTypeOK, RAM, Confirmed
  <2>2. inserted[n] <= MaxPending
    BY <2>1, NodeConstants DEF Emitted
  <2>3. inserted[n] + Confirmed(n) <= counted[n] + node[n].pending
    BY <2>2 DEF PoweredBoards, PoweredInv, CountInv
  <2> QED
    BY <2>1, <2>3
<1> QED
  BY <1>1, <1>2, <1>3, NodeTypeCorrect, PoweredInvariant, PTL DEF NodeSpec

-----------------------------------------------------------------------------
(* What a report that was given up may still add *)

(* The requests of the board on the network are a set, and the pulses they *)
(* carry may all be counted yet.  Instead of their sum the invariant keeps *)
(* a reserve: w[i] pulses for the requests with an id below i, growing at  *)
(* each id at least by what the request with that id carries.              *)
Reserves(n, w) ==
    /\ w \in [Nat -> Nat]
    /\ \A i, j \in Nat : i <= j => w[i] <= w[j]
    /\ \A m \in late : m.node = n => w[m.event] + m.pulses <= w[m.event + 1]

Tallied(n) == counted[n] + node[n].pending
Allowed(n) == inserted[n] + retried[n] + Confirmed(n)

(* Even if every request still on the network is counted, the tally stays  *)
(* within what was inserted and what the given-up reports carried.         *)
OverInv(n) ==
    cuts[n] = 0 =>
        \E w \in [Nat -> Nat] :
            Reserves(n, w) /\ Tallied(n) + w[node[n].eventCounter + 1] <= Allowed(n)

LEMMA OverTypes ==
    ASSUME NodeTypeOK, NEW n \in Nodes
    PROVE  /\ Tallied(n) \in Nat /\ Allowed(n) \in Nat /\ Confirmed(n) \in Nat
           /\ node[n].eventCounter \in Nat /\ node[n].batch \in Nat
           /\ counted[n] \in Nat /\ node[n].pending \in Nat
           /\ inserted[n] \in Nat /\ retried[n] \in Nat
           /\ \A m \in late : m.node \in Nodes /\ m.event \in Nat /\ m.pulses \in Nat
  BY DEF NodeTypeOK, RAM, Tallied, Allowed, Confirmed

(* A step that keeps the event counter, adds no request, and moves what is *)
(* tallied no further than what is allowed keeps the same reserve.         *)
LEMMA OverKept ==
    ASSUME NodeTypeOK, NodeTypeOK', NEW n \in Nodes, cuts[n] = 0, OverInv(n),
           node'[n].eventCounter = node[n].eventCounter,
           \A m \in late' : m.node = n => m \in late,
           Tallied(n)' + Allowed(n) <= Tallied(n) + Allowed(n)'
    PROVE  OverInv(n)'
<1>1. PICK w \in [Nat -> Nat] :
          Reserves(n, w) /\ Tallied(n) + w[node[n].eventCounter + 1] <= Allowed(n)
  BY DEF OverInv
<1>2. Reserves(n, w)'
  BY <1>1 DEF Reserves
<1>3. Tallied(n) \in Nat /\ Allowed(n) \in Nat /\ node[n].eventCounter \in Nat
  BY OverTypes
<1>4. Tallied(n)' \in Nat /\ Allowed(n)' \in Nat
  BY DEF NodeTypeOK, RAM, Tallied, Allowed, Confirmed
<1>5. w[node[n].eventCounter + 1] \in Nat
  BY <1>3
<1>6. Tallied(n)' + w[node'[n].eventCounter + 1] <= Allowed(n)'
  BY <1>1, <1>3, <1>4, <1>5
<1> QED
  BY <1>2, <1>6 DEF OverInv

(* A new report: no request has its id, so nothing is reserved beyond.     *)
LEMMA OverBegin ==
    ASSUME NodeTypeOK, NodeTypeOK', NEW n \in Nodes, cuts[n] = 0, EventInv(n), OverInv(n),
           node'[n].eventCounter = node[n].eventCounter + 1, late' = late,
           Tallied(n)' = Tallied(n), Allowed(n)' = Allowed(n)
    PROVE  OverInv(n)'
<1>0. PICK ec \in Nat : ec = node[n].eventCounter
  BY OverTypes
<1>1. PICK w \in [Nat -> Nat] : Reserves(n, w) /\ Tallied(n) + w[ec + 1] <= Allowed(n)
  BY <1>0 DEF OverInv
<1>2. /\ ec \in Nat /\ ec + 1 \in Nat /\ ec + 2 \in Nat
      /\ \A m \in late : m.event \in Nat /\ m.event + 1 \in Nat /\ m.pulses \in Nat
      /\ \A m \in late : m.node = n => m.event <= ec
  BY <1>0, OverTypes DEF EventInv
<1> DEFINE v == [i \in Nat |-> IF i <= ec + 1 THEN w[i] ELSE w[ec + 1]]
<1>3. v \in [Nat -> Nat] /\ v[ec + 2] = w[ec + 1]
  BY <1>1, <1>2
<1>4. \A i, j \in Nat : i <= j => v[i] <= v[j]
  <2> SUFFICES ASSUME NEW i \in Nat, NEW j \in Nat, i <= j PROVE v[i] <= v[j]
    OBVIOUS
  <2>1. /\ i <= ec + 1 => w[i] <= w[ec + 1]
        /\ w[i] <= w[j] /\ w[i] \in Nat /\ w[j] \in Nat /\ w[ec + 1] \in Nat
    BY <1>1, <1>2 DEF Reserves
  <2> QED
    BY <1>2, <2>1
<1>5. \A m \in late : m.node = n => v[m.event] + m.pulses <= v[m.event + 1]
  <2> SUFFICES ASSUME NEW m \in late, m.node = n
               PROVE  v[m.event] + m.pulses <= v[m.event + 1]
    OBVIOUS
  <2>1. v[m.event] = w[m.event] /\ v[m.event + 1] = w[m.event + 1]
    BY <1>2
  <2> QED
    BY <1>1, <2>1 DEF Reserves
<1> HIDE DEF v
<1>6. Reserves(n, v)'
  BY <1>3, <1>4, <1>5 DEF Reserves
<1>7. Tallied(n)' + v[node'[n].eventCounter + 1] <= Allowed(n)'
  <2>1. node'[n].eventCounter + 1 = ec + 2
    BY <1>0, <1>2
  <2> QED
    BY <1>1, <1>3, <2>1
<1> QED
  BY <1>3, <1>6, <1>7 DEF OverInv

(* A report given up before it was handled goes on the network with its    *)
(* own id, and its pulses into the reserve.                                *)
LEMMA OverGivenUp ==
    ASSUME NodeTypeOK, NodeTypeOK', NEW n \in Nodes, cuts[n] = 0, EventInv(n), OverInv(n),
           node[n].at \in Reporting, late' = late \cup {Request(n)},
           node'[n].eventCounter = node[n].eventCounter,
           Tallied(n)' = Tallied(n), Allowed(n)' = Allowed(n) + node[n].batch
    PROVE  OverInv(n)'
<1>0. PICK ec \in Nat, b \in Nat : ec = node[n].eventCounter /\ b = node[n].batch
  BY OverTypes
<1>1. PICK w \in [Nat -> Nat] : Reserves(n, w) /\ Tallied(n) + w[ec + 1] <= Allowed(n)
  BY <1>0 DEF OverInv
<1>2. /\ ec \in Nat /\ ec + 1 \in Nat /\ b \in Nat
      /\ Tallied(n) \in Nat /\ Allowed(n) \in Nat
      /\ \A m \in late : m.event \in Nat /\ m.event + 1 \in Nat /\ m.pulses \in Nat
      /\ \A m \in late : m.node = n => m.event < ec
      /\ Request(n).event = ec /\ Request(n).pulses = b
  BY <1>0, OverTypes, RequestType DEF EventInv
<1>3. node'[n].eventCounter = ec /\ Allowed(n)' = Allowed(n) + b
  BY <1>0
<1> DEFINE v == [i \in Nat |-> IF i <= ec THEN w[i] ELSE w[i] + b]
<1>4. v \in [Nat -> Nat] /\ v[ec + 1] = w[ec + 1] + b /\ v[ec] = w[ec]
  BY <1>1, <1>2
<1>5. \A i, j \in Nat : i <= j => v[i] <= v[j]
  <2> SUFFICES ASSUME NEW i \in Nat, NEW j \in Nat, i <= j PROVE v[i] <= v[j]
    OBVIOUS
  <2>1. w[i] <= w[j] /\ w[i] \in Nat /\ w[j] \in Nat
    BY <1>1 DEF Reserves
  <2> QED
    BY <1>2, <2>1
<1>6. \A m \in late' : m.node = n => v[m.event] + m.pulses <= v[m.event + 1]
  <2> SUFFICES ASSUME NEW m \in late', m.node = n
               PROVE  v[m.event] + m.pulses <= v[m.event + 1]
    OBVIOUS
  <2>1. CASE m \in late
    <3>1. v[m.event] = w[m.event] /\ v[m.event + 1] = w[m.event + 1]
      BY <1>2, <2>1
    <3> QED
      BY <1>1, <2>1, <3>1 DEF Reserves
  <2>2. CASE m = Request(n)
    <3>1. w[ec] <= w[ec + 1] /\ w[ec] \in Nat /\ w[ec + 1] \in Nat
      BY <1>1, <1>2 DEF Reserves
    <3> QED
      BY <1>2, <1>4, <2>2, <3>1
  <2> QED
    BY <2>1, <2>2
<1> HIDE DEF v
<1>7. Reserves(n, v)'
  BY <1>4, <1>5, <1>6 DEF Reserves
<1>8. Tallied(n)' + v[node'[n].eventCounter + 1] <= Allowed(n)'
  <2>1. w[ec + 1] \in Nat
    BY <1>1, <1>2
  <2> QED
    BY <1>1, <1>2, <1>3, <1>4, <2>1
<1> QED
  BY <1>4, <1>7, <1>8 DEF OverInv

(* A late request that is counted takes its pulses out of the reserve.     *)
LEMMA OverCounted ==
    ASSUME NodeTypeOK, NodeTypeOK', NEW n \in Nodes, cuts[n] = 0, EventInv(n), OverInv(n),
           NEW m \in late, m.node = n, late' = late \ {m},
           node'[n].eventCounter = node[n].eventCounter,
           Tallied(n)' = Tallied(n) + m.pulses, Allowed(n)' = Allowed(n)
    PROVE  OverInv(n)'
<1> DEFINE ec == node[n].eventCounter
           e == m.event
           p == m.pulses
<1>1. PICK w \in [Nat -> Nat] : Reserves(n, w) /\ Tallied(n) + w[ec + 1] <= Allowed(n)
  BY DEF OverInv
<1>2. /\ ec \in Nat /\ ec + 1 \in Nat /\ e \in Nat /\ e + 1 \in Nat /\ p \in Nat /\ e <= ec
      /\ Tallied(n) \in Nat /\ Allowed(n) \in Nat
      /\ \A o \in late : o.event \in Nat /\ o.event + 1 \in Nat /\ o.pulses \in Nat
      /\ \A o \in late' : o.node = n => o.event # e
  BY OverTypes DEF EventInv
<1>3. node'[n].eventCounter = ec /\ Tallied(n)' = Tallied(n) + p
  OBVIOUS
<1>4. w[e] + p <= w[e + 1]
  BY <1>1 DEF Reserves
<1> HIDE DEF ec, e, p
<1>5. \A i \in Nat : i > e => w[e + 1] <= w[i] /\ w[i] - p \in Nat /\ w[e] <= w[i] - p
  <2> SUFFICES ASSUME NEW i \in Nat, i > e
               PROVE  w[e + 1] <= w[i] /\ w[i] - p \in Nat /\ w[e] <= w[i] - p
    OBVIOUS
  <2>1. e + 1 <= i
    BY <1>2
  <2>2. w[e + 1] <= w[i]
    BY <1>1, <1>2, <2>1 DEF Reserves
  <2>3. w[e] \in Nat /\ w[i] \in Nat /\ w[e + 1] \in Nat
    BY <1>1, <1>2
  <2> QED
    BY <1>2, <1>4, <2>2, <2>3
<1> DEFINE v == [i \in Nat |-> IF i <= e THEN w[i] ELSE w[i] - p]
<1>6. v \in [Nat -> Nat] /\ v[ec + 1] = w[ec + 1] - p
  BY <1>1, <1>2, <1>5
<1>7. \A i, j \in Nat : i <= j => v[i] <= v[j]
  <2> SUFFICES ASSUME NEW i \in Nat, NEW j \in Nat, i <= j PROVE v[i] <= v[j]
    OBVIOUS
  <2>1. w[i] <= w[j] /\ w[i] \in Nat /\ w[j] \in Nat /\ (i <= e => w[i] <= w[e])
        /\ w[e] \in Nat
    BY <1>1, <1>2 DEF Reserves
  <2>2. j > e => w[e] <= w[j] - p
    BY <1>5
  <2> QED
    BY <1>2, <2>1, <2>2
<1>8. \A o \in late' : o.node = n => v[o.event] + o.pulses <= v[o.event + 1]
  <2> SUFFICES ASSUME NEW o \in late', o.node = n
               PROVE  v[o.event] + o.pulses <= v[o.event + 1]
    OBVIOUS
  <2>1. /\ o \in late /\ o.event # e /\ o.event \in Nat /\ o.event + 1 \in Nat
        /\ o.pulses \in Nat
    BY <1>2
  <2>2. w[o.event] + o.pulses <= w[o.event + 1]
    BY <1>1, <2>1 DEF Reserves
  <2>3. w[o.event] \in Nat /\ w[o.event + 1] \in Nat
    BY <1>1, <2>1
  <2>4. CASE o.event < e
    BY <1>2, <2>1, <2>2, <2>4
  <2>5. CASE o.event > e
    <3>1. v[o.event] = w[o.event] - p /\ v[o.event + 1] = w[o.event + 1] - p
      BY <1>2, <2>1, <2>5
    <3> QED
      BY <1>2, <2>1, <2>2, <2>3, <3>1
  <2> QED
    BY <1>2, <2>1, <2>4, <2>5
<1> HIDE DEF v
<1>9. Reserves(n, v)'
  BY <1>6, <1>7, <1>8 DEF Reserves
<1>10. Tallied(n)' + v[node'[n].eventCounter + 1] <= Allowed(n)'
  <2>1. w[ec + 1] \in Nat
    BY <1>1, <1>2
  <2> QED
    BY <1>1, <1>2, <1>3, <1>6, <2>1
<1> QED
  BY <1>6, <1>9, <1>10 DEF OverInv

LEMMA OverInvStep ==
    ASSUME NodeTypeOK, NodeTypeOK', NEW n \in Nodes, Acts(n), cuts[n] = 0, cuts'[n] = 0,
           BatchInv(n), BootInv(n), EventInv(n), OverInv(n)
    PROVE  OverInv(n)'
<1>0. /\ node \in [Nodes -> RAM] /\ DOMAIN journal = Nodes
      /\ inserted \in [Nodes -> Nat] /\ counted \in [Nodes -> Nat]
      /\ retried \in [Nodes -> Nat] /\ cuts \in [Nodes -> Nat]
      /\ node[n].pending \in Nat /\ node[n].batch \in Nat
      /\ late \subseteq LateRequest /\ node[n].eventCounter \in Nat
  BY DEF NodeTypeOK, RAM, LateRequest
<1>a. Tallied(n) \in Nat /\ Allowed(n) \in Nat
  BY OverTypes
(* The steps that move nothing the inequality counts. *)
<1>k. ASSUME node'[n].eventCounter = node[n].eventCounter, late' = late,
             node'[n].pending = node[n].pending, Confirmed(n)' = Confirmed(n),
             UNCHANGED <<inserted, counted, retried>>
      PROVE  OverInv(n)'
  <2>1. Tallied(n)' = Tallied(n) /\ Allowed(n)' = Allowed(n)
    BY <1>k DEF Tallied, Allowed
  <2> QED
    BY <1>k, <1>a, <2>1, OverKept
<1>1. CASE OnCoinPulse(n)
  <2>1. /\ node'[n].eventCounter = node[n].eventCounter /\ late' = late
        /\ Confirmed(n)' = Confirmed(n) /\ UNCHANGED <<counted, retried>>
        /\ node'[n].pending <= node[n].pending + 1 /\ node'[n].pending \in Nat
        /\ inserted'[n] = inserted[n] + 1
    BY <1>0, <1>1, NodeConstants DEF OnCoinPulse, Confirmed, RAM
  <2>2. Tallied(n)' + Allowed(n) <= Tallied(n) + Allowed(n)'
    BY <1>0, <2>1, OverTypes DEF Tallied, Allowed
  <2> QED
    BY <2>1, <2>2, OverKept
<1>2. CASE Boot(n)
  BY <1>0, <1>2, <1>k DEF Boot, BootInv, BatchInv, Off, Confirmed, observers
<1>3. CASE LoadPending(n)
  <2>1. journal[n].pulses = 0 /\ journal[n].event = 0 /\ node[n].eventCounter = 0
    BY <1>3 DEF LoadPending, BootInv, Missing
  <2>2. /\ node'[n].pending = node[n].pending /\ node'[n].answered = node[n].answered
        /\ node'[n].batch = node[n].batch /\ node'[n].eventCounter = 0
    BY <1>0, <1>3, <2>1 DEF LoadPending, RAM
  <2> QED
    BY <1>3, <1>k, <2>1, <2>2 DEF LoadPending, Confirmed, observers
<1>4. CASE ConnectWiFi(n)
  BY <1>0, <1>4, <1>k DEF ConnectWiFi, Confirmed, RAM, observers
<1>5. CASE BeginReport(n)
  <2>1. /\ node'[n].eventCounter = node[n].eventCounter + 1 /\ late' = late
        /\ node'[n].pending = node[n].pending /\ ~node'[n].answered /\ ~node[n].answered
        /\ UNCHANGED <<inserted, counted, retried>>
    BY <1>0, <1>5 DEF BeginReport, BatchInv, RAM, observers
  <2>2. Tallied(n)' = Tallied(n) /\ Allowed(n)' = Allowed(n)
    BY <2>1 DEF Tallied, Allowed, Confirmed
  <2> QED
    BY <2>1, <2>2, OverBegin
<1>6. CASE OpenJournal(n)
  BY <1>0, <1>6, <1>k DEF OpenJournal, Confirmed, RAM, observers
<1>7. CASE WriteJournal(n) \/ ClearPending(n)
  BY <1>0, <1>7, <1>k DEF WriteJournal, ClearPending, Confirmed, RAM, observers
<1>8. CASE SkipPost(n) \/ FlashFails(n)
  BY <1>0, <1>8, <1>k DEF SkipPost, FlashFails, Confirmed, RAM
<1>9. CASE Post(n)
  BY <1>0, <1>9, <1>k DEF Post, BatchInv, Confirmed, RAM, observers
<1>10. CASE Handle(n)
  <2>1. /\ Request(n) \in LateRequest /\ HandleReport(Request(n)) /\ Request(n).node = n
        /\ Request(n).event = node[n].eventCounter /\ Request(n).pulses = node[n].batch
    BY <1>10, RequestType DEF Handle
  <2>2. credits[ClientOf[n]].lastEvent # <<n, node[n].eventCounter>>
    BY <1>0, <1>10 DEF Handle, EventInv, Reporting, RAM
  <2>3. counted'[n] = counted[n] + node[n].batch
    BY <2>1, <2>2, FreshReportIsCounted
  <2>4. /\ node'[n].pending = node[n].pending /\ node'[n].batch = node[n].batch
        /\ node'[n].eventCounter = node[n].eventCounter /\ node'[n].answered
        /\ late' = late /\ UNCHANGED <<inserted, retried>> /\ ~node[n].answered
    BY <1>0, <1>10 DEF Handle, RAM
  <2>5. Tallied(n)' + Allowed(n) <= Tallied(n) + Allowed(n)'
    BY <1>0, <2>3, <2>4 DEF Tallied, Allowed, Confirmed
  <2> QED
    BY <2>4, <2>5, OverKept
<1>11. CASE TakeBatch(n)
  <2>1. /\ node'[n].pending = node[n].pending - node[n].batch /\ ~node'[n].answered
        /\ node'[n].eventCounter = node[n].eventCounter /\ node[n].answered
        /\ late' = late /\ UNCHANGED <<inserted, retried, counted>>
    BY <1>0, <1>11 DEF TakeBatch, BatchInv, Reporting, Greatest, observers
  <2>2. Tallied(n)' + Allowed(n) <= Tallied(n) + Allowed(n)'
    BY <1>0, <2>1 DEF Tallied, Allowed, Confirmed
  <2> QED
    BY <2>1, <2>2, OverKept
<1>12. CASE Timeout(n)
  <2>1. /\ node'[n].pending = node[n].pending /\ ~node'[n].answered
        /\ node'[n].eventCounter = node[n].eventCounter
        /\ UNCHANGED <<inserted, counted>> /\ retried'[n] = retried[n] + node[n].batch
        /\ node[n].at = "awaiting" /\ late' = LateAfter(n)
    BY <1>0, <1>12 DEF Timeout, RAM
  <2>2. CASE node[n].answered
    <3>1. late' = late
      BY <2>1, <2>2 DEF LateAfter
    <3>2. Tallied(n)' + Allowed(n) <= Tallied(n) + Allowed(n)'
      BY <1>0, <2>1, <2>2 DEF Tallied, Allowed, Confirmed
    <3> QED
      BY <2>1, <3>1, <3>2, OverKept
  <2>3. CASE ~node[n].answered
    <3>1. late' = late \cup {Request(n)} /\ node[n].at \in Reporting
      BY <2>1, <2>3 DEF LateAfter, Reporting
    <3>2. Tallied(n)' = Tallied(n) /\ Allowed(n)' = Allowed(n) + node[n].batch
      BY <1>0, <2>1, <2>3 DEF Tallied, Allowed, Confirmed
    <3> QED
      BY <2>1, <3>1, <3>2, OverGivenUp
  <2> QED
    BY <2>2, <2>3
<1>13. CASE PowerCut(n)
  BY <1>0, <1>13 DEF PowerCut
<1>14. ASSUME NEW m \in late, m.node = n, HandleLate(m) PROVE OverInv(n)'
  <2>1. /\ m \in LateRequest /\ HandleReport(m) /\ late' = late \ {m} /\ node' = node
        /\ UNCHANGED <<inserted, retried>> /\ m.pulses \in Nat
    BY <1>0, <1>14 DEF HandleLate, LateRequest
  <2>2. CASE counted'[n] = counted[n]
    <3>1. Tallied(n)' = Tallied(n) /\ Allowed(n)' = Allowed(n)
      BY <2>1, <2>2 DEF Tallied, Allowed, Confirmed
    <3> QED
      BY <1>a, <2>1, <3>1, OverKept
  <2>3. CASE counted'[n] = counted[n] + m.pulses
    <3>1. Tallied(n)' = Tallied(n) + m.pulses /\ Allowed(n)' = Allowed(n)
      BY <1>0, <2>1, <2>3 DEF Tallied, Allowed, Confirmed
    <3> QED
      BY <1>14, <2>1, <3>1, OverCounted
  <2> QED
    BY <1>14, <2>1, <2>2, <2>3, HandleReportCounts
<1>15. ASSUME NEW m \in late, DropLate(m) PROVE OverInv(n)'
  <2>1. /\ \A o \in late' : o \in late
        /\ node' = node /\ UNCHANGED <<inserted, counted, retried>>
    BY <1>15 DEF DropLate, observers
  <2>2. Tallied(n)' = Tallied(n) /\ Allowed(n)' = Allowed(n)
    BY <2>1 DEF Tallied, Allowed, Confirmed
  <2> QED
    BY <1>a, <2>1, <2>2, OverKept
<1> QED
  BY <1>1, <1>2, <1>3, <1>4, <1>5, <1>6, <1>7, <1>8, <1>9, <1>10, <1>11, <1>12, <1>13,
     <1>14, <1>15 DEF Acts, Loop

CountedBoards == PoweredBoards /\ \A n \in Nodes : OverInv(n)

LEMMA CountedBoardsStep ==
    ASSUME EventIdsAreAccepted, CountedBoards, [NodeNext]_nodeVars PROVE CountedBoards'
<1>1. /\ PoweredBoards /\ PoweredBoards' /\ BoardInv /\ NodeTypeOK /\ NodeTypeOK'
  BY PoweredBoardsStep DEF CountedBoards, PoweredBoards, BoardInv
<1>2. ASSUME NEW n \in Nodes, Acts(n), NEW q \in Nodes PROVE OverInv(q)'
  <2>1. CASE q = n
    <3>1. ASSUME cuts'[n] = 0 PROVE OverInv(n)'
      BY <1>1, <1>2, <3>1, PowerNeverUncut, OverInvStep
         DEF CountedBoards, PoweredBoards, BoardInv, PoweredInv
    <3> QED
      BY <2>1, <3>1 DEF OverInv
  <2>2. CASE q # n
    <3>1. Untouched(q, n)
      BY <1>1, <1>2, <2>2, OthersUntouched
    <3>2. /\ node'[q] = node[q] /\ cuts'[q] = cuts[q] /\ counted'[q] = counted[q]
          /\ inserted'[q] = inserted[q] /\ retried'[q] = retried[q]
      BY <3>1 DEF Untouched
    <3>3. \A m \in late' : m.node = q => m \in late
      BY <1>1, <3>1 DEF Untouched, NodeTypeOK, LateRequest
    <3>4. Tallied(q)' = Tallied(q) /\ Allowed(q)' = Allowed(q)
      BY <3>2 DEF Tallied, Allowed, Confirmed
    <3>5. Tallied(q) \in Nat /\ Allowed(q) \in Nat
      BY <1>1, OverTypes
    <3>6. ASSUME cuts[q] = 0 PROVE OverInv(q)'
      BY <1>1, <3>2, <3>3, <3>4, <3>5, <3>6, OverKept DEF CountedBoards
    <3> QED
      BY <3>2, <3>6 DEF OverInv
  <2> QED
    BY <2>1, <2>2
<1>3. CASE NodeNext
  BY <1>1, <1>2, <1>3, SomeBoardActs DEF CountedBoards
<1>4. CASE UNCHANGED nodeVars
  <2>1. UNCHANGED <<node, late, inserted, counted, retried, cuts>>
    BY <1>4 DEF nodeVars
  <2> QED
    BY <1>1, <2>1 DEF CountedBoards, OverInv, Reserves, Tallied, Allowed, Confirmed
<1> QED
  BY <1>3, <1>4

LEMMA CountedBoardsStart == EventIdsAreAccepted /\ NodeInit => CountedBoards
<1> SUFFICES ASSUME EventIdsAreAccepted, NodeInit, NEW n \in Nodes PROVE OverInv(n)
  BY PoweredBoardsStart DEF CountedBoards
<1> DEFINE w == [i \in Nat |-> 0]
<1>1. w \in [Nat -> Nat] /\ Reserves(n, w)
  BY DEF Reserves, NodeInit
<1>2. /\ Tallied(n) = 0 /\ Allowed(n) = 0 /\ node[n].eventCounter = 0
  BY DEF NodeInit, Tallied, Allowed, Confirmed, Off
<1>3. w[node[n].eventCounter + 1] = 0
  BY <1>2
<1> HIDE DEF w
<1> QED
  BY <1>1, <1>2, <1>3 DEF OverInv

(* While the power holds, a pulse is counted again only by a report that   *)
(* was given up, in whatever order the late requests arrive or are lost:   *)
(* the tally exceeds the inserted pulses by no more than those reports,    *)
(* and the one being answered, carried.                                    *)
THEOREM NodeOvercountBounded ==
    ASSUME EventIdsAreAccepted PROVE NodeSpec => []OvercountBoundedByTimeouts
<1>1. NodeSpec => []CountedBoards
  BY CountedBoardsStart, CountedBoardsStep, PTL DEF NodeSpec
<1>2. CountedBoards => OvercountBoundedByTimeouts
  <2> SUFFICES ASSUME CountedBoards, NEW n \in Nodes, cuts[n] = 0
               PROVE  Tallied(n) <= Allowed(n)
    BY DEF OvercountBoundedByTimeouts, Tallied, Allowed, Confirmed
  <2>1. NodeTypeOK
    BY DEF CountedBoards, PoweredBoards, BoardInv
  <2>2. PICK w \in [Nat -> Nat] : Tallied(n) + w[node[n].eventCounter + 1] <= Allowed(n)
    BY DEF CountedBoards, OverInv
  <2>3. /\ Tallied(n) \in Nat /\ Allowed(n) \in Nat
        /\ w[node[n].eventCounter + 1] \in Nat
    BY <2>1, <2>2, OverTypes
  <2> QED
    BY <2>2, <2>3
<1> QED
  BY <1>1, <1>2, PTL

(* Whatever boards, network and power do, the balances of the tally stay   *)
(* conserved and each row's status agrees with its balance.                *)
THEOREM NodeLedgerSound ==
    ASSUME EventIdsAreAccepted PROVE NodeSpec => [](Conservation /\ StatusMatchesBalance)
<1>1. NodeInit => LedgerInv
  BY LedgerInvStart DEF NodeInit
<1>2. EventIdsAreAccepted /\ NodeTypeOK /\ LedgerInv /\ [NodeNext]_nodeVars => LedgerInv'
  BY NodeStepIsLedgerStep, LedgerInvInductive, TypeOKStep DEF LedgerInv
<1>3. LedgerInv => Conservation /\ StatusMatchesBalance
  BY DEF LedgerInv
<1> QED
  BY <1>1, <1>2, <1>3, NodeTypeCorrect, PTL DEF NodeSpec
=============================================================================
