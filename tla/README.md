# TLA+ verification of overwatch

`overwatchd` is a daemon for OpenWrt routers that shows how much traffic each
client of the LAN moves: it samples the kernel's connection table, keeps recent
history in RAM and older history in SQLite, optionally counts DNS queries, and
answers a LuCI web interface over a Unix socket. This directory holds a TLA+
model of its core, TLC runs over small instances of it, and TLAPS proofs of the
properties that matter most for every instance.

Paths below are relative to the daemon's crate (`src/` of the repository).

## 1. Inventory

| Component | Source | State | Operations |
|---|---|---|---|
| Accountant | `account.rs`, `classify.rs`, `flow.rs`, `conntrack.rs` | `last_flows` (flow key to counters), `stats` (address to totals, rates, connection counts), `last_ts` | `update` per scan |
| Names, snapshot | `names.rs`, `snapshot.rs` | none (built per scan) | address to MAC or its own text; list of views |
| Recorder | `recorder.rs`, `sample.rs` | per identity: realtime ring, minute ring, open minute; `last_ts` | `record` |
| Ring buffer | `ring.rs` | `buf`, `cap`, `head` | `push`, `iter`, `to_vec` |
| Store | `db.rs` | tables `clients`, `samples_min/hour/day`, `dns_counts_day` | insert, upsert, rollup, prune, add counts, queries |
| Monitoring loop | `main.rs` | `last_maint`, `Shared.clients` | one scan every `sample_interval`, maintenance every 300 s |
| DNS capture | `dns_capture.rs`, `dns_parse.rs` | `counts`, `seen_domains`, cached names, `last_flush` | count a query, flush |
| Control socket | `server.rs`, `control.rs`, `api.rs` | one worker thread per connection | `clients`, `status`, `summary`, `history`, `dns_top` |
| History | `history.rs`, `downsample.rs` | none | series of a tier from RAM or the store, thinned by LTTB |
| Configuration, probes | `config.rs`, `probe.rs` | read once | parse |
| Web views | `openwrt/luci-app-overwatch/.../*.js` | charts, timers, outstanding calls | poll, render |

How they interact. Three kinds of threads share one `Mutex<Shared>` (recorder,
store, published views): the scan loop (the main thread), the DNS thread, and a
worker per socket connection. The scan loop reads the kernel table and the
lease and ARP files outside the mutex and does recording, saving, maintenance
and publishing inside it. SQLite persists between processes; everything else is
RAM and starts empty when procd respawns the daemon.

What is hard: the process can die between any two statements; each SQL statement
is its own transaction and may fail, and failures are logged and passed over;
the identity of a client changes when its MAC becomes known; two addresses may
share a MAC; the wall clock is set by NTP after boot and may be set back;
connections come and go between two scans under reused 5-tuples; rollup and
prune work on the same rows at cutoffs that are not aligned.

What makes each part correct:

- ring: readers see the newest items in order; no index is out of range;
- recorder and store: every reading is in exactly one place and one bucket;
  nothing is dropped or counted twice when identities change or minutes roll
  over; rows in coarser tables account for what leaves the finer ones;
- loop: readers see one whole scan; a crash loses only what was in RAM;
- accountant: no byte is counted twice or in the wrong direction, and the rate
  shown is traffic of that interval;
- DNS: no query is counted twice, none vanishes but for named losses, the window
  stays within its cap and a domain is not split by it; the list of top domains
  is exact for what is saved;
- DNS parser: no read outside the packet, an end for every packet, and the name
  the bytes encode;
- threads: no reader sees half a scan, no client or panic stops the monitoring,
  and every thread that asks for the mutex gets it;
- history and API: charts run forward in time, totals are neither more nor less
  than their clients, thinning keeps the shape of a series;
- configuration: what the file says is what the daemon runs with, or the default.

`PROJECT.json` lists the hazards, each at its line with the properties that
would show it going wrong.

## 2. Modules

| Module | Role |
|---|---|
| `Window` | abstract specification of a bounded history: the newest `Width` items pushed |
| `Ledger` | abstract specification of a path from RAM to the database: things wait, are saved or lost, and saved ones expire |
| `Ring` | `ring.rs`; implements `Window` |
| `Tables` | SQL on tables as functions: insert-or-replace, bucket, group by, delete |
| `Recorder` | `recorder.rs` and `sample.rs` as operators on `series` and `last_ts` |
| `Store` | the `samples_*` and `clients` tables of `db.rs`, one operator per statement |
| `ScanLoop` | `main.rs`: composes Recorder and Store, with process deaths and failing statements; implements `Ledger` |
| `History` | `history.rs`, `Store::query` and the `history` method, on the state of `ScanLoop` |
| `Sorting` | listing a set in the order of a relation, as `sort` and `ORDER BY` do |
| `Downsample` | `lttb` of `downsample.rs` as a pure function, with the rounding of its bucket edges |
| `Chart` | the charts drawn from a `Ring`, thinned by `Downsample` |
| `Accounting` | `account.rs`, `classify.rs` and the key of `flow.rs`, beside the kernel's connection table |
| `Api` | the published snapshot and the `summary` method, on the state of `Accounting` |
| `DnsCapture` | `dns_capture.rs` and `dns_counts_day`, beside names that change and the scan loop's prune; implements `Ledger` |
| `DnsTop` | `Store::dns_top` and the `dns_top` method, on the state of `DnsCapture` |
| `DnsName` | `dns_parse.rs`: header checks and the walk over the labels of a name |
| `Daemon` | the threads around the mutex: scan loop, DNS thread, accept loop, workers (`server.rs`), with clients, panics and procd |
| `Config` | `config.rs`: sections, options, defaults and the retention arithmetic |
| `MC*` | constant values for TLC |
| `*_proofs` | theorems and proofs |

A definition that is named like the one after it with a suffix
(`DrainedKeepingSeen` before `Drained`) is a variant with a plausible bug. No
specification uses it; `PROJECT.json` lists under `mutants` which property finds
it out. Constants described as a bound exist only to make a model finite.

### Ring and Window

`buf` and `head` are the fields of the code, with TLA+ indices one higher.
`Grow` and `Overwrite` are the two branches of `push`. `ToVec` is `iter`
collected: the vector split at `head`, second part first. `IsWindow` maps the
abstract window to `ToVec`.

### Recorder, Store, ScanLoop

*Data.* A sample is one reading of one client, identified by its identity,
address, scan number, clock and span; an aggregated row is the **set** of
readings it sums. Union then stands for `SUM`: `RowsMatchBuckets` says that the
rows of a table are disjoint, so nothing is merged that the code would add
twice. Peaks (`MAX`) and byte counts are left out. Table rows are keyed by
`[ts, id]` as in the schema.

*Control.* One iteration is a sequence of steps:

| `pc` | Actions | Code |
|---|---|---|
| `sleeping` | `Tick`: account, name, snapshot, `record` | `main.rs:82-95`, `recorder.rs:30-72` |
| `saving` | `InsertRow`, `InsertRowFails`, `Upsert`, `UpsertFails`, `Saved` | `main.rs:96-106` |
| `rollup_hour`, `rollup_day` | `RollupHour`, `RollupDay`, `RollupFails` | `db.rs:235-255` |
| `prune_min`, `prune_hour`, `prune_day` | `PruneMin`, `PruneHour`, `PruneDay`, `PruneFails` | `db.rs:257-269`, `main.rs:109-110` |
| `publish` | `Publish` | `main.rs:112-121` |
| `down` | `Restart` (after `Crash` from any other value) | `overwatchd.init` (`respawn`) |

`Tick` is one step because nothing it does is visible outside the mutex or
survives a crash. The statements of saving and maintenance are separate steps
because a crash between them leaves a different database. History variables:
`recorded` and `lost` say which readings were ever taken and which a crash or a
failed insert destroyed, `failures` counts the statements that failed,
`unrolled` says whether the rollup of the latest maintenance did. The clock
`now` is the scan's `now_i`; it advances by 1 to `MaxGap` seconds per scan and
may be set back by up to `StepBack`.

`Books` maps the state to `Ledger`: what is in an open minute or awaiting its
insert *waits*, what is in `samples_min` is *saved*, what is neither nor lost is
*gone*.

### History and Downsample

A request runs under the mutex, so `History` evaluates its answers in the states
of `ScanLoop` between two iterations: `Charted` is `HistoryService::series`
before thinning, for each tier and for one client or all, and whether its SELECT
fails or not: the code then answers an empty chart (`history.rs:37-38`). `Answer`
is the request that names no range, `Always` the same while no SELECT fails.
`Downsample` is checked apart, on the histories a ring of six can hold (`Chart`): thinning sees
only a sequence of samples. The code computes bucket edges in `f64`; `Edge` is
the exact floor, lowered by one for the indices in `low`, and the properties
quantify over every set `low` of indices whose edge a rounded quotient can lower
(those whose exact edge is an integer while the quotient is not). For 505
samples thinned to 500 points the code's edge 498 does come out one lower.
Triangles are compared in integers; their rounding is left out.

### Accounting and Api

The kernel side (`Open`, `Carry`, `Close`) is external and takes any steps. A
key is the flow key of `flow.rs` (unordered endpoints, ports, protocol); a
connection has an originator, and `Share` turns its two counters into the
client's download and upload as `attribute` does. `Update` is the whole of
`Accountant::update`. A listing may lack an open connection (`Listings`): the
file is not read atomically; `missed` remembers whether one did. The other
history variables count what each key really moved (`carried`), what it moved
since the last scan (`fresh`), and what the running process has credited
(`credited`). Hash collisions and u64 overflow are left out. `Api` sorts and
sums: `Snapshots` is every order a `HashMap` and a stable sort can produce.

### DnsCapture and DnsTop

`Receive` is one packet of the inner loop, after parsing; `NotDue`,
`FlushNothing` and `Drain` are the end of an iteration at a clock reading;
`Write` and `WriteFails` are the transaction after the mutex is acquired, a
separate step because `Prune`, `Rename` and `Crash` may come between. A count is
the set of queries it counts. `names` is the table cached at the last flush and
`leases` what the files say now. `Books` maps it to the same `Ledger`: the
window and the drained batch *wait*, the table is *saved*.

### DnsName

One step per header and one per turn of the loop of `parse_dns_qname`. Header
fields are given, the DNS message is bytes; offsets count from 0 as in the code.
The history variable `touched` is how many bytes of the packet the latest step
had to be able to read. `AsksName` says of the packet alone whether it is a
message to a resolver, and `Dotted` is the reference for its name: the name at
an offset, defined from its other end.

### Daemon

Each thread has a control state (`main`, `dns`, `listener`, `conn[c]`), and
`holder` is who has the mutex. Of what the mutex protects only `ahead` is kept:
by how many scans the recorder is ahead of the list of clients. A panic unwinds
one thread, lets go of the mutex and poisons it; a panic of the main thread ends
the process. A connection that is over returns to `none` and may be opened
again, so two of them stand for any number over time. Clients are prompt, silent
(they send no full line), deaf (they do not read) or gone. `Die` leaves the path
of the socket behind, as the code does. procd's limit on quick respawns is left
out: with it the daemon may stay down after repeated crashes.

The actions of the socket follow `server.rs` with its error exits:

| Step of a connection | Actions | Code |
|---|---|---|
| `queued` to `accepted` | `Accept`; `AcceptFails` leaves it queued, `SpawnPanics` ends the listener | `server.rs:30-41` |
| `accepted` to `reading` | `Begin`; `BeginFails` ends the connection | `server.rs:47-48` |
| `reading` to `locking` | `ReadLine`; `ReadEnds` (time-out, end of the stream) and `ReadErrs` (I/O error, not UTF-8) end the connection | `server.rs:49-53` |
| `locking` to `dispatching` to `writing` | `LockShared`, `Dispatch`; `WorkerPanics` | `server.rs:57-61` |
| `writing` to `none` | `Write` | `server.rs:62-64` |

`fds` is the number of descriptors the system leaves for connections. An
accepted stream takes one and its clone a second (`Descriptors`); without a free
one `accept` and `try_clone` fail. `bind` fails only because the path exists, and
`remove_file` succeeds: a socket directory that cannot be written or is missing
is not in the model. There the accept loop returns after one message
(`server.rs:16-20`), and `ListenerComesUp` does not hold.

### Config

The file is a sequence of lines of bounded length; a value is an integer or a
text without one. Integers have `Width` bits and products wrap, as in a
release build: `Cargo.toml` sets no `overflow-checks`.

## 3. Runs

| Run | Question | Bounds |
|---|---|---|
| `ring` | legal indices, refinement of `Window`, and what thinning keeps of a history | capacity 6, items of three sizes: fills, wraps and laps; charts of 0 to 7 points |
| `scan_identity` | where readings end up when identities change or are shared and the process dies, and what charts show of them | 2 addresses, 3 identities, 4 scans over 4 minutes, 1 crash |
| `scan_faults` | maintenance over all tiers while a statement fails and the process dies; refinement of `Ledger` | 1 client with 2 names, minutes of 1 s, hours of 3, days of 6, retentions of 2, 4 and 6 s, 5 scans, 1 failure, 1 crash: every table is filled, rolled up and pruned at unaligned cutoffs |
| `scan_clock_step` | a clock set back by up to two minutes of the model | 1 client, 4 scans, 1 crash |
| `account` | what is credited, shown and summed | 2 clients and a remote, so a connection may be between two clients; one port, so keys are reused in both directions; 2 openings, 2 bytes, 3 scans, incomplete listings, a clock that goes back, 1 restart |
| `dns_ledger` | where queries end up and what `dns_top` answers; refinement of `Ledger` | 1 address that moves between 2 MACs, 2 domains, cap 1, 3 queries, clock to 8 with days of 4 s, 1 crash, any write may fail |
| `daemon` | the mutex, whole answers, and everybody's turn, with descriptors used up | 2 connections at a time, descriptors for one worker or for two, 1 panic, any number of process deaths |
| `dns_name` | no read outside, an end, the right name | every message of 1 to 5 bytes over {0, 1, 2, 64, 192} with a 1-byte header, headers cut off everywhere |

Small time units are enough because the code only compares, divides and takes
remainders of times: what matters is the order of scan, minute, hour, day and
cutoff, and all orders occur. Three or four scans are enough for a minute to be
opened, finished, rewritten by a mistake and looked at again. One crash suffices
for the invariants since a crash leads back to a state that differs from an
initial one only in the database, which the steps before it already vary. One
panic is enough to poison the mutex for good, whoever held it; what the invariants
say after more of them is proved. With descriptors for one worker a single deaf
client uses them up and the other one waits; with four both workers have theirs.
With
bytes 0, 1, 2, 64 and 192 every branch of the label walk is taken, a pointer may
lead into a label or before it, and a walk can run out of jumps.

`account` and `dns_ledger` reduce by symmetry: no definition tells one client or
one domain from another. No run with a liveness property does.

Deadlock is checked in `ring` and `daemon`, which never stop, and in the runs
that expect a violation and end there. The others stop at the bound on scans,
queries or time, or at the parser's result, and their cfg says so.

The runs check no type invariant: all are proved (section 4).

### Disagreements

Four runs expect a violation and document a disagreement between the code and
its comments; `findings` in `PROJECT.json` quotes both sides.

- `scan_rollup_twice`: `db.rs:250` calls rollup idempotent. It is not once prune
  has cut part of an hour: the next rollup replaces the hour's row by the sum of
  the minutes that are left. In the end each hour older than the minute
  retention keeps at most its last five minutes, and days follow, so the Week
  and Month charts under-report.
- `scan_reboot`: `config.rs:23` puts the database on flash so that history
  survives a reboot; the Day chart is served from RAM alone and starts empty.
- `daemon_panic`: `server.rs:58` recovers a poisoned lock because "a panic in the
  scan loop must not kill the control plane". The scan loop is the main thread:
  its panic ends the process. The recovery does help after a panic of a worker
  or of the DNS thread (`FlushesGetTheMutex`, `ScanLoopRuns`).
- `config`: `config.rs:86` rejects negative retentions, and then multiplies by
  3600 or 86400 unchecked, so that a large one wraps to a negative one. The run
  uses 8 bits; the arithmetic is the same at 64.

### What properties assume

`MinuteRowsImmutable`, `Conserved`, `BooksBalance`, `RingAgreesWithStore`,
`SpansDisjoint`, `RowsWithinClientLife`, `ChartsAscend`, `TotalIsOneScan`,
`QueriesConserved` and `FiledNearItsDay` need a clock that is not set back;
`RowsWithinClientLife` also needs statements that do not fail.
`PrunedIsSummarised` excepts a maintenance whose own rollup failed, since prune
runs all the same (`main.rs:108-109`). `NeverOvercredited`, `TotalsBounded`,
`ExactUnlessReused` and the bound of `RateIsTraffic` by fresh traffic hold until
a listing lacks an open connection, which the next scan then counts from zero.
`ChartKeepsSpike` excepts the last sample but one when the last bucket edge was
rounded down: that sample is then in no bucket. `TotalIsItsClients` lets the answer whose own SELECT failed
lack anything, and nothing else. No document of the repository promises any of
these otherwise.

`RequestsEnd` excepts clients that do not read, and a queue that waits while such
clients have every descriptor. The comments at `server.rs:10` and `32`, by which
a stalled client blocks only its own worker, hold for clients stalled in sending:
their read is timed out. Writes have no time-out, so enough clients that do not
read keep `accept` failing until one of them lets go. That a request which is
let in is answered is not promised: an error at `server.rs:47-51` ends it without
an answer.

### Fairness

`daemon` checks liveness under `Fairness`:

- weak fairness of each thread's own steps (the scheduler runs threads that can
  run), of a read's end (a line, the client's hanging up, the read timeout of
  `server.rs`, or its cap on the length of a line, which ends the read of a client
  that sends a byte now and then), and of `Restart` (procd's `respawn`);
- strong fairness of taking the mutex (`LockMain`, `LockDns`, `LockShared`).
  `std::sync::Mutex` promises no order, so weak fairness alone would let others
  overtake a thread for ever. That does not happen here in practice: critical
  sections do no waiting of their own, and the one thread that always comes back
  sleeps at least a second outside (`main.rs:121`), so a waiting thread finds the
  mutex free again and again;
- strong fairness of accepting a connection (`Serving`): a worker that clones its
  stream may take the free descriptor just before, but connections are accepted
  in the order in which they came, so one that is queued gets in if `accept`
  succeeds again and again;
- weak fairness of a worker's write only while its client reads: `write_all` has
  no timeout.

Nothing is assumed of clients, of errors (`AcceptFails`, `ReadErrs`, `ReadFails`),
panics or deaths, nor that the scan loop's read of the connection table ever
succeeds. `dns_name` assumes that the DNS thread runs.

## 4. Proofs

All with TLAPS, for every value of the constants that satisfies the named
assumptions (`CapAssumption`, `RecorderAssumption`, `StoreAssumption`,
`ScanLoopAssumption`, `HistoryAssumption`, `AccountingAssumption`,
`DnsAssumption`, `DaemonAssumption`, `DnsNameAssumption`). Every invariant and
action property that a passing run checks is a theorem; so are both refinements
of `Ledger` and the one of `Window`. `TypeCorrect` is the type invariant of
`ScanLoop`, `Accounting`, `DnsCapture`, `Daemon` and `DnsName`, each in its proof
module.

Three hypotheses appear in front of theorems. `StepBack = 0` is the clock that is
not set back; without it the properties are false, as the code bears out
(section 3). `FewAddressesPerClient` (for `ReadersSeeOneScan` and
`TotalIsOneScan`) says that at most `RealtimeCap` addresses have one identity at
a time: a scan pushes one reading per address into the ring of their client, so
a ring smaller than that would push out its own scan; the code's ring has 300
slots (`main.rs:62`). `Item \subseteq Nat` (for `ChartKeepsSpike`) gives the
items of a ring, which need no type otherwise, an order: rates are unsigned.

- `Data_proofs`: what the other modules need of the community modules' data.
  The prover cannot instantiate an induction theorem whose parameter is a
  predicate, so induction is stated over sets (`NatInduct`, `SetInduct`), from
  the well-foundedness of `<`. From it: `SumFunctionOnSet` is a sum whatever the
  order in which its fold chooses elements (`SumAdd`, `SumMono`, `SumOutside`,
  `SumBijection`, `SumOfParts`, `SumConstant`), a finite set can be listed in the
  order of a relation (`ListingBijects`), and a recursive definition has a
  solution when every step lowers a bounded measure (`RecursionExists`).
- `Ring_proofs`.
  - `IndicesLegal`: `Spec => []IInv`. `IInv` adds to the types that `head` is 0
    until the vector is full, without which "head is the oldest" cannot be shown
    at the step that fills it. `RingImplementsWindow`: `Spec => IsWindow`, from
    `IInv` and one lemma per branch of `push` that says what `Iter` yields.
  - `ChartsAlwaysKeepShape` and `ChartsAlwaysKeepSpike`, for a ring of any size
    and content, any number of points and any rounding. The edges of the buckets
    ascend strictly although each may come out one lower (`EdgesFollow`): where
    an edge is an exact integer the step to it is more than one. A bucket is then
    never empty and the point kept from it is one of its own (`KeptPlaces`), which
    gives the shape. For the spike: all other corners are level, so only the
    triangle of the spike has an area (`AreaFlat`, `AreaSpike`, `SpikePicked`),
    and the spike is in some bucket (`BucketHolds`).
- `ScanLoop_proofs`.
  - `RowsSumTheirOwnBucket`: `Spec => []RowsMatchBuckets`. The property speaks of
    tables only; `RowsInv` extends it to the readings on their way there, the
    open minutes and the finished ones. No assumption on clock or failures.
  - `SavedMinutesStay` and `NothingVanishes` (clock not set back). Both rest on
    `MinutesInv`: an open minute is never later than the clock's, a row is of an
    earlier minute than the one open for its client, and a finished row has a key
    the table does not hold. An insert then never replaces a row, also after a
    restart within the minute, where the new series starts from the clock.
  - `CoarserCoversFiner` and `PruneLosesNothing` (any clock, any failure).
    `SummaryInv` says what holds between the rollups and the deletes of one
    maintenance, so also at a crash, unless its rollup failed.
  - `LedgerHolds` (clock not set back): `LedgerInv` joins `RowsInv` and
    `MinutesInv` with `BooksInv`: only recorded readings are anywhere, and a lost
    one is nowhere else. `BooksAlwaysBalance`: the loop implements `Ledger`. One
    lemma per action says which account it moves readings between; that an insert
    saves exactly what waited needs that its key is new (`MinutesInv`) and that no
    reading is in two rows (`RowsInv`).
  - `NoSecondTwice`: `SpansInv` adds that the next span begins at the latest scan
    and that nothing recorded is later. `RowsAlwaysWithinLife`: `LifeInv` adds
    that a reading still in RAM is of a known client, or of the scan whose upserts
    are under way.
- `History_proofs`, on the invariants of `ScanLoop_proofs`.
  - `ReadersAlwaysSeeOneScan` (any clock, any failure): `ReadersInv` follows the
    snapshot from the scan that took it to its publication.
  - `RingAlwaysAgrees`: `RingInv` says of each minute in a ring where its row is:
    saved with the same contents, about to be, expired, or lost.
  - `TotalAlwaysItsClients` (any clock, any failure, any SELECT failing):
    `RingRows` gives the rings what `RowsInv` gives the tables, rows of one client
    and disjoint; `Groups` says what one point per time is.
  - `ChartsAlwaysAscend`: `OrderInv`, the rings are in the order of the clock and
    a finished minute is before the open one.
  - `TotalIsAlwaysOneScan`: `ScansInv` (a second has one scan, a scan one reading
    per address) and `RingsInv` (of a scan that some ring still shows, every
    reading is in the ring of its own client or that ring is full).
- `Accounting_proofs`.
  - `NoByteCountedTwice`: `Spec => []NeverOvercredited`, and `CreditIsCovered`,
    the invariant behind it: what the next scan would credit was moved and is not
    yet credited. That is what a packet, a scan, a close, a reuse of the key and a
    restart each preserve. `OnlyFreshIsDue`: after the first scan what the next
    one will credit was moved since the latest one.
  - `OneConnectionIsExact`: `ExactIInv` says that a key never used is unknown to
    the accountant, and that what was credited to one used once is what was
    remembered of it.
  - `TotalsSumTheCredit`: `TotalsIInv`, the totals of an address are the sum over
    all keys of what was credited, which turns the per-key facts into
    `TotalsAlwaysBounded` and `TotalsOnlyGrow`. `RatesAreTraffic` adds what the
    division of a scan's growth by its interval yields (`QuotientAverages`).
  - `SummaryAlwaysCoversAll`: summing a listing of the clients sums the clients
    (`SumBijection`), for every listing and every sorted order.
- `DnsCapture_proofs`.
  - `EachQueryOnce`, `WindowBounded`, `OneNamePerDomain` and `QueriesBalance` (it
    implements `Ledger`), for any clock. The invariant joins the numbering of
    queries (a new one is in no place yet), what the three places hold
    (`OnlyCounted`) and `WindowInv`: a query filed under `__other__` is of a
    domain the window does not track, without which a domain could be split.
  - `FiledOnTime` and `NoQueryVanishes` (clock not set back). `DaysInv`: what is
    counted now was counted since the last flush, at most one period ago.
  - `TopAlwaysExact` (clock not set back): counts that a query sums over days and
    flushes are the queries themselves, because rows are disjoint
    (`CountedOnce`), never empty (`NoEmptyRows`) and never of a day to come
    (`NothingAhead`): that is where the hypothesis is used.
- `Daemon_proofs`. `MutualExclusion` and `ReadersSeeWholeScans`, for any number of
  connections, descriptors and panics. `SafetyInv` adds that the recorder is not
  ahead of the list whenever the scan loop is not between the two, and that no
  thread outlives the process.
- `DnsName_proofs`.
  - `NothingReadOutside` and `EveryTurnProgresses` for packets of any length and
    content. `WalkInv` adds that the offset stays within the message and the
    headers fit the packet. Together with the bounds of `TypeOK` every turn makes
    progress towards one of two limits; the conclusion that the walk ends is
    liveness and checked by `Terminates`.
  - `NameAlwaysEncoded`. The reference is recursive in the place (jumps left and
    offset); it is well defined since every step leaves less of the walk
    (`LeftShrinks`, `NamesExist`). `EncodedInv`: what was collected, followed by
    the name at the offset where the walk stands, is the name at the beginning,
    and there is none here exactly if there was none there. It holds wherever the
    walk stands, offset 0 included, since it is tied to the stage of the parser.

Only model-checked:

- liveness (`RequestsEnd`, `ScanLoopRuns`, `FlushesGetTheMutex`,
  `ListenerComesUp`, `Terminates`): fairness and `ENABLED` are out of the prover's
  reach;
- the four violations, and `Config`, whose only run is one of them.

## 5. Not modelled

- Text: conntrack lines, leases, ARP, UCI quoting and addresses, JSON, and the
  fields `host`, peaks and connection counts of history rows. `clients` and
  `status` copy fields out and keep no state.
- Byte counts of samples: the rate is computed over one clock reading and
  multiplied by an interval of another (`main.rs:85`, `recorder.rs:36-46`), so
  the bytes of a sample are not those counted. No bound on that is promised.
- A failed `SqliteStore::open` falls back to a database in memory: it behaves as
  a database that a crash erases.
- What grows without bound because the code bounds nothing: `stats`, `series`,
  and the number of workers, of which `Daemon` shows that a failing spawn does not
  stop the scan loop and that used-up descriptors keep the queue waiting.
- Signals other than a kill, and procd's limit on respawns.
- `probe.rs` reads three facts at start and changes nothing. The LuCI views run
  in the browser, keep no state of the daemon, and nothing states what they
  promise when answers come out of order. Vendored chart libraries, translations
  and packaging.

No other part of the daemon is left that keeps state. Of the properties the
passing runs check, the five liveness properties are the only ones without a
theorem.
