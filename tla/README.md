# A TLA+ model of the Aircoins MikroTik controller

Aircoins is a Go controller for coin-operated and voucher-operated Wi-Fi: a
SQLite file, a web panel for the operator, a captive portal for customers, a
MikroTik router that enforces who is online, and ESP8266 coin acceptors that
report coins over HTTP.  This directory models the parts of it where money moves
and the parts a router, an operator or a guest relies on, checks them with TLC on
small instances, and proves every safety property it checks for instances of
every size with TLAPS.

Contents: 1 inventory · 2 modules and their correspondence to the code · 3 runs,
bounds and fairness · 4 proofs · 5 disagreements between the code and its
documentation · 6 what is not modelled · 7 plan.

## 1. Inventory

| component | state | operations | correct when |
|---|---|---|---|
| **Coin tally** (`database/coins.go`, the report handler in `handlers/coin.go`, `sweeper.go`) | one `coin_credits` row per paying client: status, granted and used seconds, last event id, deadline | `Credit`, `Consume`, `Claim`, `ExpireIdle` | no second of access is minted or lost; the status agrees with the balance; a balance is released when abandoned and never earlier |
| **Coin connect** (`CoinConnect` in `handlers/coin.go`) | a request in flight: the row it read, the seconds it read | read, mint a voucher, have the router admit, redeem, deduct, claim | no request deducts more than it granted; no more is handed out than was bought |
| **Coin acceptor** (`hardware/nodemcu_coin_slot`) | `pendingPulses` (shared with an interrupt), `eventCounter`, `/pending` in flash | count, journal, report, subtract, clear, recover | every coin is in the tally or still pending; retries are harmless; nothing waits for ever |
| **Voucher store** (`database/vouchers.go`) | `vouchers`: status, uses, window | `CreateBatch`, `Redeem`, `SetStatus`, `MarkPushed`, `Delete`, `DeleteBatch`, `SyncExpired` | a key is redeemed as often as it was sold, inside its window, however many requests race |
| **Voucher redemption** (`redeemVoucher`, push and delete in `handlers/vouchers.go`) | a request or an operator's click in progress; the router's users and sessions | provision, log in, redeem, roll back; push; delete with revocation | a router failure burns no key; nobody stays online unpaid but for a logout or a login the handler could not know of; a pushed key has its user |
| **Session history** (`database/sessions.go`, `handlers/sessions.go`, the device page in `routers.go`) | `active_sessions` rows, open and closed | `Register`, `SyncDevice`, `Close`, `CloseByUser`, `CloseByMAC` | an online phone that was seen is in the table; the table converges to the router's list |
| **Operator account** (`admin_users.go`, `admin_sessions.go`, `adminauth.go`, `adminlogin.go`, `settings.go`) | the account's password, sessions, the sign-in guard's counters | sign in, sign out, change credentials, revoke | a reported change of password ended the sessions on file; a locked account counts few late failures |
| Rate limiter (`handlers/ratelimit.go`) | a token bucket per address | allow, prune | never more than the burst plus the refill |
| **Router client** (`mikrotik.go`, `mikrotik_rest.go`, `mikrotik_ros.go`) | a connection and its transport | dial, run, retry once after a lost connection | done means executed; never more copies than attempts; every command is answered |
| **Portal handoff** (`portal*.go`, `captive.go`) | the heal window, the login page on the router | check, repair, install on demand | one repair at a time; a verified page was fetched; a broken page is repaired |
| **Rates** (`database/rates.go`, `handlers/rates.go`) | the price tiers | `Price`, save, switch, delete | every pulse is priced once, in seconds and cents; nobody gets less than the page shows |
| **Router inventory** (`routers.go`) | inventory rows, the default portal device | create, edit, delete, mark, resolve a guest's router | one default at rest; moving the mark turns no guest away |
| **Device inventory** (`devices.go`) | saved records; a page's rows while it is built | edit, join with leases and sessions | each client is listed once, under its record |
| **Hotspot installer, network pages** (`mikrotik_hotspot_installer.go`, `mikrotik_hotspot.go`, `network.go`) | router configuration | sequences of commands; create, edit, toggle, delete | a setup run again adds no duplicate; a complete one configured everything; a page says done only of what was written |
| JSON API (`api.go`) | none of its own | forwards to the stores | as the stores |
| Schema, times, secrets, addresses; branding, editor, templates | files and rows | conversions and rendering | – |

**How they interact.** The HTTP server runs one goroutine per request, a sweeper
goroutine ticks every five minutes, and the acceptors are independent machines.
All of them meet in one SQLite file (WAL, a `busy_timeout`, a pool of four
connections), where a single statement is atomic and an explicit transaction is
*deferred*: it reads a snapshot first and takes the write lock only at its first
write, which is refused when anyone has committed since.  Nothing else serialises
two handlers.  Every handler that admits a customer calls the router over the
network between reading the row that pays for it and writing that row.

**What is hard**, at the line where it bites, is the hazard list of
`PROJECT.json`: two taps on Connect between the read of a balance and its
deduction; a router that acted and whose answer was lost; a crash between the
login and the redemption; an interrupt between choosing a batch and subtracting
it; a power cut between emptying the journal and rewriting it; a late copy of a
report; an idle window that changes across restarts; a router command executed
twice because its answer was lost; a setup broken off half-way and run again; a
repair that overtakes another; two operators at two pages; a lookup that fails
and passes for one that found nothing.

## 2. Modules and their correspondence to the code

```
            CoinLedger                 VoucherKeys          (abstract)
           /     |     \                    ^
  CoinConnect CoinNode CoinLedgerProofs     | implements
      |          |                     VoucherLedger --- VoucherProofs
 CoinConnectProofs  CoinNodeProofs          |              |
                                       VoucherRedeem ------+

  SessionHistory --- SessionHistoryProofs

                  CommandDelivery                           (abstract)
                   ^     |      |
        implements |     | used by both
        RouterClient  RouterPages  HotspotInstall

  RouterClient, PortalHandoff, CoinTariff --- GuestProofs
  RouterPages, HotspotInstall, RouterInventory,
  OperatorAccounts, DeviceInventory --------- PanelProofs
  GuestProofs, PanelProofs ------------------ FiniteInduction

  MCStores         = CoinLedger, CoinTariff, SessionHistory
  MCRecords        = VoucherLedger, RouterInventory, OperatorAccounts,
                     DeviceInventory
  MCPanelOperators = RouterPages, HotspotInstall
  MCGuestServices  = RouterClient, PortalHandoff

   MC<module>.tla + .cfg instantiate each, or the one they are named after
```

Conventions.  Clocks count the seconds the code's timestamps are rounded to. A
row that does not exist has the status `"absent"`.  Variables marked *observer*
are not in the code; they record history for the properties, and no guard of a
modelled operation reads them.  Guards that only stop counters (`MaxTime`,
`MaxBought`, `MaxPulses`, `MaxMinted`, `MaxNow`, `MaxInserted`, `MaxFailures`,
`MaxCuts`, `MaxIncidents`, `MaxRemovals`, `MaxLateAdds`, `MaxChanges`,
`MaxSessions`) are constants commented *bound*.  A definition headed *Seeded
fault* is a plausible mistake in the definition that follows it; nothing uses it.
Put in its place, it breaks the property `PROJECT.json` pairs it with, which is
how the project knows the property can fail.

**CoinLedger** – the `coin_credits` table.  `CoinPulse` is the report handler
with the upsert of `Credit` (cap of a report, duplicate test, top-up of an active
row, restart of any other, new deadline); `Consume`, `Claim` and `ExpireIdle` are
the other three statements; `Restart` is a restarted controller, whose
`COIN_IDLE` may differ.  The price of a report is an input (`Reports`), because
the tally only stores what the price list answered.

**CoinConnect** – `POST /portal/coin/connect` for any number of concurrent
`Taps`, one action per step of the handler, over CoinLedger.  `LookUpLease`,
`LookUpHardware` and `LookUpCarrier` are the queries of `coinCreditFor` in their
order (address, hardware address, latest row of that hardware address); between
two of them anything may happen, and one that fails (`FailingQueries`) passes for
a balance not found.  `SessionSeconds` is the cap and the rounding. `GiveUp`,
`RedeemFails` and `SettleFails` are the error returns; a failed `Claim` is only
logged, and `ClaimCredit` covers it; `Crash` ends all requests.  Router and
voucher are reduced to the outcomes the handler branches on; VoucherRedeem has
them in full.

**CoinNode** – the acceptor's sketch.  `node[n].at` is the program counter of
`setup`/`loop`; `OnCoinPulse` may run at any point after the interrupt is
attached; `OpenJournal` and `WriteJournal` are the two halves of `savePending`,
whose `open("w")` empties the file; `late` holds requests the board has given up,
which may still arrive.  `FlashFails` is a file system that does not open, in the
loop or at boot.  The tally at the other end is CoinLedger's. Only pulses that
pass the debounce window are events here.

**VoucherKeys** – what the store promises: keys whose operations each happen at
once.  `RedeemAt(v, t)` is a redemption at a time read off the clock not after
the present.

**VoucherLedger** – the store as written: `BeginRedeem` is the `SELECT` of the
deferred transaction and the test of `Redeemable`, `CommitRedeem` its `UPDATE`,
computed from the row read and the time read then.  Any commit to the file makes
every open snapshot stale (`Outdated`), and a stale transaction can only
`AbortRedeem`: SQLite's `BUSY_SNAPSHOT`.  That other tables share the file is
`OtherTableWrite`.  All statements other than `Redeem` are those of VoucherKeys.

**VoucherRedeem** – `redeemVoucher` by concurrent requests, each one device, next
to any number of push and delete `Clicks` under way at once.  A call to the
router has three outcomes: done, failed, and done but reported as failed; of a
login of the third kind the handler returns without a logout, and the observer
`unanswered` keeps those sessions apart from `slipped`, the logouts that the
router or a crash prevented.  `CommitUnread` is `Redeem`'s error after its
commit, when the row cannot be read back: the handler then undoes a login that
was paid. The test that the row is redeemable stands with its first load (the
code tests it again on the same loaded copy).  `PushStart` stands for
`VoucherPush`, which provisions a disabled key as well, and for `pushVouchers`,
which leaves those out, key by key; the mark comes after the user in both.
`SessionEnds` and `PageLogin` are the router's and the customer's own acts.

**SessionHistory** – the `active_sessions` table beside the router it copies.
`ReadList` and `SyncDevice` are the two halves of a page load or refresh; the
list it applies may be of any age, and several requests may hold one.
`PortalLogin` and `Register` are a portal login and the row it opens; a free
trial registers before the router knows of it, or without it ever knowing.
`Disconnect`, `CloseByKey`, `CloseByUser`, `BlockMAC` and `CloseByMAC` are the
steps of `SessionDisconnect`, `ClientBlock` the last two alone.  `ApiDisconnect`
and an API block (one of the reasons of `SessionEnds`) change the router only,
because they close the rows of router 0.  `Reconciled` is `SyncDevice` as a
function from a list to a table.  The observer `owed` is the set of online phones
that were given a row and had none taken away.

**CommandDelivery** – what sending one command to a router promises: done means
executed, at most `RunAttempts` copies, always an answer; a command reported
failed may have been executed, or may be executed later.  RouterPages and
HotspotInstall are written on top of it, so that what they show holds for any
client that keeps this promise, and RouterClient is shown to keep it.

**RouterClient** – `MikrotikClient`.  `Candidates` is `transportCandidates`;
`ProbeAnswers`, `ProbeFails` and `DialFails` are the loop of `DialRouter` and the
row `dialRouter` records.  `Send` to `ReconnectFails` are `Run`: an attempt, its
loss, the pause and the fresh connection.  `wire` holds the copies that may yet
be executed after their connection was lost, also once the failure was reported;
`AsksAgainInCommandForm` is REST's universal POST form, whose failure brings the
first refusal back.  `RouterReboots` breaks connections and changes services.
`SentinelForStatus`, `DeviceRefusals` and `Classify` are the error classes
callers branch on.  The mapping: `StageOf` is what the caller of `Run` can tell,
`CopiesOf` how many attempts the router executed.

**HotspotInstall** – `InstallHotspot` as its steps in order, each a lookup and an
add over CommandDelivery, by several requests, with other operators deleting
objects.  `LateAddExecuted` is an add executed after its step was over.  Which
second adds RouterOS refuses is external and stated in the module's header: names
are unique, rules have none.

**RouterPages** – the Network section.  A form's fields are the properties its
command carries: `Editor` and the definitions it is applied to say which are sent
even when blank and which must be filled in, per menu; an update may rename its
row.  The router decides a refusal (`RouterRefuses`) before the handler learns of
it: `DropsParameter` is the retry without a property the device refused,
`AlreadyGone` the refusal that counts as a deletion, `ExplainInterfaceRefusal`
the form that comes back, `Declined` every other.  A copy may be executed after
the report, until the operator's next page (`CommandOut`).

**PortalHandoff** – the login page on the router.  `EnsureRouterHandoff` claims
the window and starts the check; `FindsDirectory`, `HotspotPortalState`,
`LooksUpOldFile`, `RemovesOldFile`, `Fetches` and `ReadsBack` are the calls of
the repair, shared with the operator's button (`PortalRouterInstall`).  A check
and the install it leads to find the directory each for itself, and a menu that
cannot be read leads past the one guests are served from (`"served"`, `"other"`).
A file is removed by the id it was looked up under (`held`).  `readable` says
whether the router returns file contents; `age` is a check's deadline.

**RouterInventory** – `routers` rows.  A page's save and the clear that follows
are two steps (`Writes`, `ClearDefaultPortal`), the JSON API's save is one
(`ApiWrites`).  The resolution of a guest's router is one action per query, in
the order of `resolvePortalRouter`: tag, the hosts of two links, default, only
router; one the database cannot answer passes for no match (`QueryFails`).

**OperatorAccounts** – `AdminLoginSubmit`, `VerifyPassword` and `CreateSession`
are the steps of a sign-in around the guard's two critical sections;
`VerifiesCurrent` is the current password asked for before a change,
`WritesPassword` and `DeleteUserSessions` the two statements of a change, by a
browser or by the `passwd` command.  Clocks count units of the guard's base
delay.

**DeviceInventory** – the DEVICES page: `BuildDevicesPage`, `ReadsLeases` and
`ReadsActives` read the store and the router one after the other and join by
`RowKey` - the hardware address, else the network address, else the session's id
- while records are edited.  `Normalize` is `NormalizeMAC`, which gives all
well-formed spellings one form and keeps malformed ones apart.  The observer
`reported` is what the router listed, by list.

**CoinTariff** – the `rates` table and, as operators, `Price` (`Walk`,
`WithLeftover`), in seconds and cents, and the rate shown (`Advertised`).  Rates
per pulse are rounded down, as the code's divisions do: three pulses for 1000
cents are sold for 999.  The reference definition `SoldAt` says without a walk
which tiers a report is sold at.

**Scenes.** MCStores, MCRecords, MCPanelOperators and MCGuestServices compose
modules that share no state: every behaviour starts in one scene, and the other
modules stay in an initial state.  One run thus checks several modules without
the product of their states, and every property still speaks of every scene.

## 3. Runs, bounds and fairness

| run | instance | shows |
|---|---|---|
| `coin_connect` | 2 taps, one phone with both its keys, queries that may fail, minute of 2 seconds, session cap 4 | no tap deducts more than it redeemed; one tap at a time never overspends |
| `coin_connect_two_taps` | same | two overlapping taps do hand out more than was bought (§5) |
| `coin_connect_released` | 1 tap | a released balance is served to the next customer (§5) |
| `coin_node` | 1 board, 3 coins, batches of 2, 1 failed attempt, 1 power cut, flash that may fail | no coin lost while powered, over-counting bounded by time-outs, journal before send, nothing retried for ever |
| `coin_node_retry`, `coin_node_reboot` | same, without the other fault | a lost answer is charged twice; a reboot reuses an event id (§5) |
| `stores`, tally | 1 client, 2 event ids, window 0 or 1, 4 instants, reports of 0, 1 and 3 seconds under a cap of 2 | the arithmetic of the tally and its statuses in every order of pulses, deductions, sweeps and restarts; early release never, late release always |
| `stores`, tariff | 3 tiers, forms of 0, 1, 3, 4 and 70 pulses, three accepted sets of terms and three refused, reports of up to 75 pulses | coins priced as the reference says; nobody gets less than the rate shown |
| `stores`, history | 2 phones sharing a user, 1 `.id` or none, 2 page loads, 1 portal login, 1 operator | no online phone loses its row without a cause; refreshes repair the table after any mix of stale lists and half-done clicks |
| `tariff_bulk` | as `stores` | the second of two bulk coins is sold at the single-coin price (§5) |
| `records`, keys | 1 key, 3 transactions, offers of one use and of two uses in a window of 2, 5 instants | the store implements VoucherKeys; no double redemption; the window never moves |
| `records`, the rest | 2 routers and 2 pages, 1 guest; 2 browsers, 1 console, 2 changes; 2 records, 2 clients in 3 spellings of which 1 is malformed, 1 network address, 1 session id | one default at rest; changed passwords end sessions; clients listed once, as what the router said they are |
| `voucher_redeem` | 1 key, 2 devices, 2 clicks, 2 instants, every router outcome | no burnt key, nobody online unpaid but for the two exceptions, pushed keys have users |
| `panel_operators` | 2 operators; 7 menus, 2 names, 2 ids, 1 property an older build lacks; 3 installer steps, 1 deletion, 1 late add | pages report what the router has; setups can be run again |
| `guest_services` | 1 request, 2 attempts, 3 sets of services; 2 checks, 1 button, 1 incident, 2 directories | the client implements CommandDelivery; one repair at a time, which succeeds |

Why the bounds are enough.  The tally's rows do not interact, so one client shows
everything the table can do; CoinConnect needs the two keys one phone can have.
Its run lets the two queries by hardware address fail; a failing query by address
is covered by the proofs, which hold for any set of them. Two taps are the
smallest overlap, and with `SerialTapsNeverOverspend` proved for every number of
taps only the counterexample depends on it.  A minute of 2 and reports of 3 leave
a remainder to round.  Four instants let a window open, lapse and be reopened.
Three coins with batches of two give a full batch, a remainder and an edge that
arrives during a report.  Three transactions allow one to commit, one to be stale
and one to begin afterwards.  One key suffices for the stores because a commit to
another key acts on a transaction only through `Outdated`, which
`OtherTableWrite` does as well.  Two page loads are the smallest that apply their
lists in the wrong order; a single `.id` is the one that must be reused by the
second phone, and without `.id` both phones are online at once.  Tap, request and
device symmetry is used only where no property is a liveness property. Clicks on
a key may overlap as they please while it is sold for a single use
(`ClicksBound`): a second use adds nothing to a push racing a delete.  Two
operators are the smallest race, for pages, setups, marks and sign-ins alike. The
installer's three steps are the first, which every setup takes; a rule without a
name; and a setting, which cannot be doubled.  The proofs cover any steps.  A
late add is looked at in setups that do not overlap (`InstallBound`), since an
overlap is excepted by name anyway.  A second name, needed for a rename that
collides, is typed on one menu, by one operator at a time, and menus whose form
is part of another's have one operator (`PagesBound`): no action on names asks
for the menu beyond `Taken`.  One of the two routers has a hotspot name, and it
keeps its address (`InventoryBound`); which of two routers it is makes no
difference to the mark. One incident is a press of the button or a change to the
page; with two, checks, button and directories grow past what a run can hold, and
`OneHealAtATime` and `VerifiedWasFetched` are proved for any number.  Two
attempts are the code's own `runAttempts`, and the proof covers any number.
Router clients share only the inventory row, whose two last columns no property
reads, so one request shows what `Run` does.  A window of one tick and a check
that ends within it keep the order the code's minutes have.  Tiers of 1, 3, 4 and
70 pulses include one that smaller ones add up to, one that leaves a remainder,
one that awards less than a second for each pulse and one whose cents do not
divide.

`CHECK_DEADLOCK FALSE` appears only for CoinNode: once its coins are reported and
its bounds spent, a board has nothing left to do.

Fairness.  `LedgerFairness` assumes that time passes and that the sweep runs: the
sweeper goroutine ticks as long as the process lives.  Nobody is obliged to
insert a coin or press Connect.  `AbandonedBalanceReleased` also presumes that
`COIN_IDLE` stays configured, and speaks of deadlines before the horizon
`MaxTime`. `FairNodeSpec` assumes that a powered board runs its loop and that the
controller answers a request that has reached it; time-outs and cuts are bounded,
so some attempt is answered.  `TableConverges` states its own conditions instead
of a fair specification: nothing in the controller polls the router, so it speaks
of behaviours in which somebody keeps opening the page and everything else has
come to rest.  `ClientFairness` assumes that a command under way gets on: every
call carries a deadline.  `HandoffFairness` assumes that guests keep coming, that
the clock runs and ends a check, and that of a call made again and again one is
answered, the read of the directory among them; nothing obliges the operator to
press the button.  Fairness is asked of the scene that plays.  No other run
assumes fairness: the handlers have no background retry that would justify it.

## 4. Proofs

All proofs are checked by TLAPS from the named assumptions on constants
(`LedgerConstants`, `ConnectConstants`, `KeyConstants`, `LedgerTxConstants`,
`HistoryConstants`, `DeliveryConstants`, `InstallConstants`, `ClientConstants`,
`InventoryConstants`, `AccountConstants`, `NodeConstants`, `HandoffConstants`,
`TariffConstants`), which say of what kind each constant is, that a check of the
login page ends before its window does, and that tiers are finitely many.

**CoinLedgerProofs.**  `LedgerInv` – types, `Conservation`,
`StatusMatchesBalance` – is inductive: `Conservation` needs `used <= granted`,
without which `Remaining` would hide an over-deduction, and the status is what
tells whether a restart throws time away.  `NeverReleasedEarly` needs
`DeadlineInv`: a row's deadline lies a configured window after its last pulse,
and `updatedAt` not before it, so that neither branch of the sweep's condition
releases too early.  Theorems: `LedgerTypeCorrect`, `LedgerConservation`,
`LedgerStatusMatchesBalance`, `LedgerNeverReleasedEarly`.

**CoinConnectProofs.**  `ConnectTypeCorrect` carries the ledger's invariant
through the handlers.  `ConnectDeductsOnlyGranted` rests on `GrantInv`: a slot at
`settling` has redeemed at least what it deducted plus what it is about to
deduct.  `ConnectNeverOverspendsSerially` is the hard one: for a subject no two
taps ever overlapped on, `AloneInv` says at most one slot is busy with it, and
`SlackInv` says that what was sold plus what is still on the row is covered by
what was bought, where the seconds of a settling tap count once; and that the
seconds a tap in flight holds are covered (`Cover`) by what the row, as it now
stands or as it lapsed, still has.  It holds for every unit, cap and price list,
and whichever queries fail.

**CoinNodeProofs.**  `BoardInv` says of each program counter what batch, journal
and event number the board then holds, which gives `NodeJournalledBeforeSent`.
`NodeNoCoinLost` and `NodeOvercountBounded` count pulses: emitted, on the
counter, in the tally, and in late requests.  The first needs that a report
subtracted from the counter was answered as counted.  The second carries a
function `w` from event numbers to pulses that reserves room for every request
still on the network (`Reserves`): even if all of them are counted, the tally
stays within its bound, so the order of their arrival does not matter.
`NodeLedgerSound` shows that every step of boards and network is a step of the
tally or leaves it alone, and so inherits `LedgerInv`.  Two hypotheses stand in
these theorems rather than in the modules: `EventIdsAreAccepted` (any pair of a
board and an event number is an event id: the code compares ids as strings and
knows no other bound; the instances define `Events` this way, and TLC cannot
enumerate the set), and, for `NodeNoCoinLost` alone, `MaxInserted <= MaxPending`:
a full 16-bit counter does drop coins.

**VoucherProofs.**  `KeysInvariant` proves `KeyInv` (per row: `uses` equals the
redemptions and stays within `maxUses`; the window is the one its first
redemption opened and every use lies in it) of the abstract keys.
`LedgerSnapshots` proves that an open snapshot that is not stale is the current
row.  With it `LedgerImplementsKeys` shows step by step that a commit is a
`RedeemAt` at the time read and everything else a step of the abstract store or a
stutter; `LedgerNeverOverRedeemed` and `LedgerUsedWithinWindow` follow from the
abstract theorems through that implementation.

The second half is about VoucherRedeem.  `RedeemInv` adds to the store's
invariant that a transaction is open exactly while its request is committing, and
for the key of that request (`OpenInv`), and that the operator marks only a key
whose user was made (`MarkInv`).  On it rest `RedeemNobodyOnlineForFree` and
`RedeemPushedKeysWorkOffline`, one step per step of the handlers, and
`RedeemDeviceFailureNeverBurns`: the only steps that add a redemption are
`Commit` and `CommitUnread`, and they give up the admission of their request.
`RedeemNobodyOnlineForFree` names both ways a device may be online unpaid: a
logout the router or a crash prevented, and a login executed although the handler
was told it failed, after which it tries none (`handlers/vouchers.go:869-870`).
`RedeemImplementsKeys` shows that the whole path, crashes included, still
implements VoucherKeys; a crash ends several transactions at once, so this goes
to the abstract keys directly and not by way of `LedgerSpec`.

**SessionHistoryProofs.**  `HistoryInv` strengthens `LiveSessionShown` by what it
silently relies on: the router gives no two sessions one `.id` (`UniqueIds`), so
no list in flight stores two phones under one key (`ListsKeyed`), and a row under
a synthetic key belongs to the phone in that key (`PhoneKeys`), so that
registering one phone never overwrites the row of another.  Theorems:
`HistoryTypeCorrect`, `HistoryShowsLiveSessions`.

**GuestProofs**, the router client.  `ClientImplementsDelivery`: every step of
the client is a step of CommandDelivery or a stutter, and so the safety part of
`ImplementsDelivery` holds for any number of requests and attempts.  `ClientInv`
carries it: a copy is on the wire or executed, never both, and its attempt was
begun.  Hence fewer copies than attempts are executed whenever another one is
about to be.

**GuestProofs**, the login page.  `HandoffHealsOneAtATime` rests on `HealInv`:
the window was last claimed no earlier than the check under way began, that check
is within its deadline, and the window is longer than the deadline
(`HandoffConstants`; 15 minutes against 45 seconds, `portal_heal.go:27-31`).
`HandoffVerifiesWhatItFetched` follows the old file through the steps of an
install: from the moment a job looked it up, it is the file the job still holds,
in the directory it found, or somebody removed it (`FetchedInv`).

**GuestProofs**, the tariff.  `Price` is a fold over the sorted active tiers.
`LadderExists` and `LadderFacts` show that sorting them is possible and what the
result is; `WalkExists` unrolls the fold into one walk per rung.  Then
`TariffGrantsAdvertised` bounds each rung by the smallest tier's rate, and
`TariffPricesEveryPulseOnce` shows that after each rung the pulses left are those
the tiers taken so far do not cover (`WalkSells`), so that the tiers taken are
the ones of `SoldAt`, which mentions no walk; seconds and cents are summed along
the same walk.  The theorems cover every table the form can save and every
positive number of pulses.  `Ladder` is written as a choice among the orders of
the active tiers, which is how `ORDER BY` without ties is unique, so that it can
be reasoned about.

**FiniteInduction.**  The folds of the community modules are recursive.  An
induction over them is stated with sets in place of predicates: of the numbers,
or the finite sets, at which a claim fails, one is least.  `FoldExists` gives the
function a fold recurses through, `SumOfRest` that a sum may be taken in any
order, `LeastNatural` and `CountingDown` the rest.

**PanelProofs**, the installer.  `InstallRerunsSafely`: names are refused a
second time, and of a rule without a name a setup that runs alone saw none when
it sent its add (`UnseenInv`) and nobody else adds one before the first copy is
executed (`AloneInv`); so a second one is a copy of the same add, executed twice
or late (`stray`).  It holds for any subset of the steps and whatever the lookups
of other steps did. `InstallCompleteMeansConfigured`: behind the step a setup is
at, everything its form asked for is in place, and `MoveOn` skips only what the
form did not ask for.  A walk that may leave out any step but the first is
covered (`Walked`).

**PanelProofs**, the pages.  `PagesWriteWhatTheyReport` and
`PagesTellTheTruthOfDeletes` use only what CommandDelivery promises - a command
done was executed - and `CommandInv`: what a command carries shrinks only by
properties the device does not know, and once a copy was executed it wrote all
that the command carries, or left the object deleted.  A refused deletion is told
by the router's refusal, at which the object was there (`there`): another
operator may have deleted it by the time the page says so.

**PanelProofs**, the inventories.  `InventoryOneDefault` rests on `MarksInv`: of
two routers marked, some page still clears the others for one of them; the page
that saves a mark brings its own clear, and a clear leaves at most one mark.
`InventoryServesSteadyGuests` adds that a guest is steady only while there is a
mark to find.  `InventoryTypeCorrect` is what both compute with.
`DevicesListClientsOnce`: the listing's rows are keyed by the client they are
for, whatever the router spells its address like (`ListingInv`), the reads of
leases and sessions join rows under an existing key, and a row's two marks are
those of the lists read so far (`ReportsInv`).

**PanelProofs**, the accounts.  `AccountsRevokeSessions` numbers the sessions, so
that storing one never rewrites when another was stored.
`AccountsBoundLateFailures`: the browsers admitted and the failures counted since
the lock never add up to all browsers, because the one that caused the lock is in
neither (`GuardInv`).

Every invariant and action property of the passing runs is proved.  Only
model-checked: the liveness properties `AbandonedBalanceReleased`,
`NotRetriedForever`, `TableConverges`, `BrokenPageHeals` and the liveness part of
`ImplementsDelivery`, which are out of the prover's reach, and the violations of
§5, which are single behaviours.

## 5. Disagreements between the code and its documentation

Each is the one property of a run that TLC finds violated.

* **A retry is charged twice** (`coin_node_retry`).  The sketch promises that a
  retry "reuses the same eventCounter" (`nodemcu_coin_slot.ino:547`), but
  `loop()` advances it before every attempt (line 543).
  `OvercountBoundedByTimeouts` says how much this can cost.
* **An event id is reused after a reboot** (`coin_node_reboot`).  Draining the
  counter removes the journal and the event number with it (line 567); the
  sketch says the number is monotonic across reboots (lines 202-204).  A fresh
  coin is then answered as a duplicate and not counted.
* **Two taps spend one balance twice** (`coin_connect_two_taps`).
  `handlers/coin.go:6-10` says a coin is never counted twice; nothing holds the
  balance between its read (line 377) and its deduction (line 438).
* **A released balance is inherited** (`coin_connect_released`).
  `database/coins.go:19-21` says it is not; `coinCreditFor` never reads the
  status (`handlers/coin.go:467`).
* **Two bulk coins in one report** (`tariff_bulk`).  `database/rates.go:363-367`
  says "a bulk coin is never silently valued at the single-coin price", and so
  does `rates_test.go:104-106`; but the walk takes each tier once (line 392),
  and the second coin of a pair is priced at the smallest tier (lines 408-415).
  `EveryPulsePricedOnce` states what the walk does.

Read while modelling, and without a run of their own:

* **One default device.**  `database/routers.go:289-290` clears the other marks
  "so only one device can own the captive portal fallback"; the JSON API
  (`apiRouterCreate`, `apiRouterUpdate`) sets a mark and clears none.  Of two,
  the lowest id is used.  `OneDefaultAtRest` excepts such marks (`unclean`).
* **No default device.**  Two pages that move the mark at once each clear the
  other's.  `MovingTheMarkTurnsNobodyAway` is therefore about moves by one page
  at a time (`Quiet`).
* **A login whose answer is lost.**  `handlers/vouchers.go:876` drops a session
  "so the customer is not online for free", of a refused redemption; a login the
  router executed and the handler saw fail is not dropped (lines 869-870).
  `NobodyOnlineForFree` excepts it (`unanswered`).
* **A redemption that cannot be read back.**  `Redeem` reports an error after
  its commit when the row is gone or the customer left
  (`database/vouchers.go:494`); the handler then logs out a device that has
  paid.  In the model (`CommitUnread`); no property promises the session.
* **A tier below a second per pulse** is sold at one second for the whole report
  while the environment's rate is shown (`rates.go:431-440`);
  `AdvertisedIsGranted` excepts it.
* **A late sign-in.**  One that verified the old password may store its session
  after a change deleted the others; `CookiesDieWithThePassword` is about the
  sessions on file before.

## 6. What is not modelled

Rendering, form parsing, wording, logging, statistics and CSV; the LED, serial
log and debounce of the acceptor; the columns the models' headers name as copied
only.  Codes are drawn at random and assumed never drawn again, so a deleted code
does not come back.  The router is external: it is what the code's calls and
their error handling imply, a set of users and a set of sessions.  Three
behaviours are in a model without a property of their own, because no document
states what they should do: a rollback logs out every session of its key; it
leaves the hotspot user behind; and a redemption or a push that read its row
before a delete re-creates the user the delete revoked, with no row left.  A
device that logs in on the router's own page with a user that was provisioned but
not paid is outside `NobodyOnlineForFree`, which is about logins through the
controller.

Of the components in `PROJECT.json`: the rate limiter is floating-point
arithmetic over the wall clock behind one mutex, and appears as a request that
may be refused; migrations run before any request is served; branding, editor,
templates and views are rendering over a row each save overwrites; the tools
pages only read.  What follows a portal login (redirects, the status page) is
left out, and so are the wire formats of the two router transports, the contents
of network forms beyond which of them are sent, and the text of the handoff page.
A client with a lease by hardware address and a session known by its network
address only has two rows on the DEVICES page; rows without a hardware address
are outside `ClientsListedOnce`.  `BrokenPageHeals` and `VerifiedWasFetched`
speak of a check that found the right directory and of the directory an install
found; that a check of the other one reports nothing wrong is in the model.  The
prices of CoinTariff and the `Reports` of CoinLedger are not connected: the tally
is proved for every price list.

## 7. Plan

Done, in this order: CoinLedger, CoinConnect, CoinNode, VoucherKeys,
VoucherLedger, VoucherRedeem, SessionHistory, CommandDelivery, RouterClient,
RouterPages, HotspotInstall, PortalHandoff, RouterInventory, OperatorAccounts,
DeviceInventory, CoinTariff, with the proofs of §4.

Next proofs: that pages and setups keep the whole promise of CommandDelivery
(`DeliverySafety`) and not only the parts their properties use, and that the taps
of CoinConnect and the boards of CoinNode implement the tally's own
specification.

Then: VoucherRedeem over CommandDelivery, in place of its nondeterministic
outcomes; what a session's duration measures when its key is reused.
