# RelaySwarm in TLA+

Specifications of the parts of RelaySwarm whose correctness is hard to test:
the data channel between two viewers, the scheduler that fetches one object from
several holders and the origin at once, the loaders and the cache above it, the
mesh and the relays that connect viewers, the account upload ledger and the
supervision of broadcast workers. TLC checks each on small instances; the main safety
properties of the link, of loading ahead, of the mesh, of the relay pool, of the
account ledger and of the broadcast are proved for every value of their parameters. Paths below are
relative to the repository, `core/…` being `core/relayswarm-proto/src/…` and a
bare name a file of `src/` or `src/browser/`.

## 1. The system

A viewer plays HLS from an origin and shares segments with other viewers. The
protocol core is in Rust (`core/relayswarm-proto`), compiled to WASM for the
browser and to a C library for native clients; shells in JavaScript own the
channels, timers and promises and drive the core by calls that return events.

| Part | State | Operations | Works with | What makes it correct |
| --- | --- | --- | --- | --- |
| Peer link: `core/link.rs`, `src/browser/core-peer-link.mjs` | one pending request, a queue of uploads, the active upload, counters | request, range request, abort, tick, close, handle text and binary, serve, buffered-amount-low | data channel, loader (asks), held cache (serves) | each request settled once and whole; no response leaks into the next; counters right; closed is final |
| Piece scheduler: `core/scheduler.rs`, `#multiHolder` in `src/browser/hls-swarm.mjs` | a lane per source (queue, in flight), verified pieces, probes | start, delivered, failed, progress, tick | links, origin fetches, worker | no piece forgotten, no request orphaned, one end, holders give way at the floor |
| Segment loader: `#peerFirstLoader`, `#multiHolder` in `hls-swarm.mjs` | a token per load, claims on origin, leases on links, race slots | load in six plans, abort, destroy, withdraw, stop | scheduler, links, hls.js | each load answered once; a late result is ignored; everything taken is given back; somebody can always end it |
| Warm-ahead: `warm-ahead.mjs` | verified cache, fetches ahead, loads that joined one, pins | load, pump, clear, release, stop | loader, hls.js, host's permits | bounds hold; each load answered once, never stranded; pins freed |
| Mesh: `hls-swarm.mjs`, `neighbour-discovery.mjs` | links and dials by key, checks under way, discovery window | dial, seek, offer, answer, reject, open, close, stop | session, links, host's `admit` | link limits hold; both ends agree on a link; stale signalling is ignored |
| Relay pool and session: `relay-session.mjs` | sockets, retry timers, subscriptions, last presence | connect, redial, subscribe, announce, close | relays, mesh | every open relay has what the session says; it comes back; closed is quiet |
| Warm discovery: `core/discovery.rs` | demands, attempts, budgets | demand, hint, choose, begin, allocated, verified, failed, end | loader | an attempt is charged once and given back once |
| Upload pacing and peer selection | token bucket; samples of rates | take, refill; observe, rank | links, loader | the budget is never exceeded nor stuck |
| Transfer worker: `core-transfer-worker*.mjs` | outstanding calls, handles | transfer, call, free, retire | scheduler | a reply belongs to its call; none after retirement |
| Account upload budget: `account-upload-budget.mjs`, `demo/account-budget*.mjs` | accounts, grants, operations on disk; the batch being written; challenges; a page's grant | authorize, reserve, renew, revoke, link, settings, log out | HTTP service, pages | spent counts each operation once, over crashes and retries; what a page uploads was charged |
| Broadcast workers: `broadcast-pipeline.mjs`, `broadcast-worker-*.mjs`, `exclusive-state-lease.mjs` | two leases, dirty marker, guardian, worker groups | start, spawn, drain, stop, exit | operating system | one broadcast at a time; a drain is proved before a clean close; a crash recovers |
| Publisher: `hls-publisher.mjs`, `publisher-state.mjs` | signed segments, saved state | append, sign, save, recover | files | what was signed is not signed differently after a restart |
| Commitments, events, WASM and C interfaces, native client | none, or handles only | parse, verify, marshal | – | – |

What is hard in it: two ends of a channel that act at once over an ordered
stream of *untagged* binary chunks; calls into the core from promises, timers
and channel events in any order; work that moves between sources while their
answers are on the way; deadlines that race answers; and, in the services,
durable writes that several callers share. `PROJECT.json` lists each hazard at
its line, with the property that would catch it.

## 2. Modules

    Link           one end of a link: pure operators on a record
    PeerLink       two ends, a channel, hosts and timers     (extends Link)
    RequestPort    what a host is promised of one end        (refined by PeerLink)
    LinkServing    one end facing a far end that pipelines   (extends Link)
    Transfer       the scheduler and the shell that runs its commands
    Loader         the player's loaders, links and origin in one page
    WarmAhead      the cache, the fetches ahead and the loads that join them
    LoadContract   what a player is promised of a loader     (refined by both)
    Mesh           viewers that dial each other over a relay
    RelayPool      a viewer's sockets, its session and its start
    AccountBudget  ledger, HTTP handlers, disk and pages
    Allowance      what pages are promised of an account     (refined by it)
    Broadcast      publishers, guardians and worker groups in one directory
    PeerLinkProofs    the operators of Link, each end, and what is between them (extends PeerLink)
    TransferProofs    the scheduler's methods and the page   (extends Transfer)
    LoaderProofs      what loads take, wait for and are told (extends Loader)
    MeshProofs        slots, links and offers of the mesh    (extends Mesh)
    BudgetProofs      challenges, operations, charges (extends AccountBudget)
    WarmProofs        loads that wait, join and are answered (extends WarmAhead)
    RelayPoolProofs, BroadcastProofs                         (extend their modules)
    MC...                                                    instances for TLC

**Link.** The record `LinkState` is the Rust struct `Link` with the parts of the
shell that belong to it: `open` (`readyState`), `failed` (`#sendFailed`), and
`wire`, the frames sent and not yet received. Every entry point is an operator
from a record to the record it leaves: `StartRequest`, `Abort`,
`RequestTimeout` and `UploadTimeout` (the two halves of `tick`), `OnWant`,
`OnCancel`, `OnMeta`, `OnEof`, `OnNone`, `HandleBinary`, `ServeResponse`,
`BufferedAmountLow`, `Close`. Events that only tell the host something are
histories (`resolved`, `reported`) or counters (`granted`, `refunded`). Sizes
count 16 KiB chunks and a piece is one chunk. A chunk is a record naming its
object and place, so a chunk in the wrong result shows. Loops are closed forms:
`Skipped` for the run of cancelled uploads in `start_next`, `Burst` for the
chunks that `send_chunks` sends before the buffer is over its mark.

The value of `buffered` is whatever the channel may report, from 0 up to what
the link counted, so one action, `Drained`, stands for the low-water event and
for the call that `#process` makes at once when the real buffer is lower than
the link thinks. `Shell` is the shell's reaction to a throwing `send`: the core
has already moved on, and the link is closed after the call.

**PeerLink** joins two such ends. Each action is one call the shell makes; the
two directions share the channel, and what closes one end closes the other.
`Faults` says what else may happen: the channel goes down, a host closes, a host
refuses or throws, frames get lost.

**RequestPort** is the abstract specification of one end as its host sees it:
one request at a time, answered once with the whole of what was asked for or
with nothing, and nothing after the port shut. `PeerLink!Slot` is the refinement
mapping; `PortKept` states that each end implements it.

**LinkServing** keeps one end and replaces the other by an environment that
sends several wants before it has an answer, and cancels any id, which the
queue of `link.rs` allows and the JavaScript requester never does.

**Transfer** models `Transfer` of `scheduler.rs` in its three modes, *mixed*
(holders and origin, with the endgame), *exclusive* (origin's requests are not
duplicated) and *peer_only* (no origin). Each method is an operator from a
record to the *set* of records it may leave. Rates and times are abstracted to
what they can decide: how a plan divides the pieces (any division that some
rates give: `AlonePlans` for `split`, `TailPlans` for `tail_to_origin`), whether
a request is hopeless, whether a source is behind, how much of origin's work can
be moved. Of the clock one thing is left, whether the floor has passed (`due`).
An action is an answer or event that the shell brings: `PeerDelivers` with any
subset of its pieces good, `PeerFails`, `PeerFlows`, `OriginDelivers`,
`OriginFails`, `TickNow`. `page` is the side that runs the commands: its open
requests and fetches. With the core in a worker (`core-transfer-worker.mjs`) the
page goes on while replies are under way, so a holder may answer that the core
gave up before; calls are worked off in order with all they need, so `t` can be
the core after every call made, and only the `replies` queue. `live` are the
requests the core counts on. `PageEnds` is every way the page has of ending a
transfer by itself.

**Loader.** A load is a record with its plan (`peer`, `steady`, `mixed`,
`whole`, `cached`, `late`), its deadlines as stages of time (`due`), and whether
the player's own loader (`source`) runs for it; `jobs` are the promises that a
load began, each with the token it began under, so a job can outlive its load,
which is what `Current` tells apart. `fetches` is `originFetches.size`, `use`
the leases, `races` the set `#peerRaceCapacity` counts. Actions are the callbacks: a job
settles (`KeyKnown`, `WaitEnds`, `PeerEnds`), one of three timers fires, origin
progresses or ends, a link opens or closes, the player moves, contribution is
withdrawn, the swarm stops. The transfer itself is what it takes
(`Take`, `RangeBegins`) and whether it delivers.

**WarmAhead** has the loads of two wrapped loaders, the rows of `jobs` with
their authorise, load and check steps, the verified cache and the queue.
A `cont` is a promise of a load that is still to settle. `Task` makes a step the
code runs to the next `await` one action. Items are fragments of one rendition.

**LoadContract** is the abstract specification of both: a load asked for is
answered by one callback or given up, and the next is asked for after that.

**Mesh.** `mesh` is one record of what the callbacks of an event change: links,
dials with their stage, the handlers that wait for the host (`checks`), the
discovery window, and the signals published, which stay and so may arrive
late, twice or never. Viewers that are not modelled one by one are `crowd`.

**RelayPool.** A socket is dialling, open, or given up and not gone (`late`).
`connect()` runs in one of three modes; `RoundOver` is the settling of its last
attempt. The session's subscriptions and presence are compared with what each
socket was sent. `SwarmStarts` is `#start` of the swarm after its await.

**AccountBudget.** `disk` is the ledger as last written, `state` the one in
memory, `working` the copy a batch changes; an operation is a pure operator from
a ledger to a ledger and an outcome, released when the batch's write is done.
`requests` are the HTTP calls, each with its stage in the handler, which may be
left open, answered late or sent again by the browser. The pages are the client
of the demo: what they hold, drop and send next. `EventLoop` says that nothing
new comes in between the settling of a promise and its handler. `Crash` may come
at any step and keeps `disk`. **Allowance** is its abstract specification: a page
uploads only what the durable account was charged for, and a charge stays.

**Broadcast** has, for each of two publishers, its process, its guardian and its
worker groups (wrapper and encoder), and the files they share: both leases, lock
and dirty marker. Any process may die at any step; `trouble` records that
something failed which a guardian cannot put right.

Some definitions have a second one before them with a mistake in it
(`FinishAgain`, `ClaimNothing`, …), never used by a specification. Putting
one in the place of the other shows that a property can tell them apart;
`PROJECT.json` pairs each property of a run with one.

## 3. What TLC checks

| Run | Instance | Properties | States |
| --- | --- | --- | --- |
| `drain` | one viewer makes two requests out of: whole object of three chunks, an object of unstated size, a range; reliable channel, room for two chunks in the buffer, a host that refuses or closes, timers fair | `TypeOK` `SettledOnce` `GrantsAccounted` `CleanBoundary` `NoFalseAlarm` `CancelStopsChunks` `PortKept` `RequestsEnd` `UploadsEnd` | 324 962 |
| `lossy` | both viewers ask once; frames are lost, the channel goes down, hosts close and refuse; an object of the wrong size is held | `PayloadIsWhole` `InFlightCounts` | 418 460 |
| `serving` | three wants, two allowed in the queue, any cancels | `AnswersExact` `WantsAnswered` | 51 477 |
| `transfer` | two holders, four pieces, both holders planned, at most two pieces to a request, all modes, in the page or in a worker with two replies under way, timers, origin and worker fair | `NothingForgotten` `WorkMoves` `CancelsMatch` `OneFetchEach` `OnlyOriginFailsIt` `TransferEnds` | 337 177 |
| `stall` | three untried holders without origin, four pieces | `PendingMoves`, which is violated | |
| `loader` | two loaders, one link, two loads each in any plan, a race limit of two, two faults | `NothingKept` `NeverStranded` `AnsweredOnce` | 385 530 |
| `warm` | two loaders, two loads each, four fragments, room for two objects of three units | `BoundsKept` `NeverStranded` `PinsFreed` `AnsweredOnce` | 906 690 |
| `mesh` | three viewers, one that looks for a key, two slots, one dial at a time, two dials in all, one fault | `SlotsKept` `LinksAgree` `AnsweredOnce` | 513 832 |
| `relay` | two relays, each mode, two `connect()`, two presences, three faults | `EveryRelayKnows` `ClosedIsQuiet` `Rejoins` | 295 588 |
| `restart` | a reconnecting pool, two faults | `OutlivesRestart`, which is violated | |
| `budget` | two pages and identities, two waiting operations, three grants, three requests, one fault | `SpentIsCharged` `ChallengeOnce` `NothingStranded` `AllowanceKept` | 1 268 743 |
| `broadcast` | two publishers, an encoder and a forwarder, two spawns, two faults | `OneBroadcast` `CleanIsClean` `RecoversAlone` `LeaseFreed` | 270 280 |

What they show of the code:

- *A link can be used again.* Chunks carry no request id. `CleanBoundary` says
  why that is safe: a link is not free before nothing of the last response is on
  the wire and the far end has no upload left. `PayloadIsWhole` is the same seen
  from the result, on a channel that loses frames.
- *Every request settles once*, whichever of response, abort, timeout, drain end
  and close come and in which order (`SettledOnce`, `PortKept`), and it settles
  though no frame ever arrives (`RequestsEnd`, `UploadsEnd`).
- *Honest ends never accuse each other* (`NoFalseAlarm`): a cancel that crosses
  the end of its response, an early eof and a late `none` are all taken.
- *Accounting* (`GrantsAccounted`, `InFlightCounts`): the chunks a host was
  charged for are sent or given back, the upload counter returns to zero.
- *A holder's answers* are in order, one per want, exactly the bytes
  (`AnswersExact`), and none is left waiting (`WantsAnswered`).
- *No piece is lost* as holders fail, stall, lie or are overtaken
  (`NothingForgotten`), what is queued waits behind a request, and where there is
  an origin some request is always open (`WorkMoves`), every open
  request that ends early is cancelled, and once a worker's late replies are in
  the page has open just what the core counts on (`CancelsMatch`), an exclusive
  origin does not fetch what it gave away (`OneFetchEach`), and the transfer ends
  (`TransferEnds`).
- *A load is answered once* whichever plan ran, however often it was handed from
  one to another and whatever comes back late, in the loader and in the cache
  above it (`AnsweredOnce`, the refinements of LoadContract); somebody is always
  left to end it (`NeverStranded`); claims, leases, race slots and pins are given
  back (`NothingKept`, `PinsFreed`); and a cancelled fetch still counts while its
  validator owns its body (`BoundsKept`).
- *Slots and links*: no viewer exceeds its slots although the host is asked
  between the check and the dial (`SlotsKept`), the two ends of a link agree
  though offers cross (`LinksAgree`), a repeated offer is not answered again.
- *Relays* that open late know the subscriptions and the presence
  (`EveryRelayKnows`), none is open or waited for after `close()`
  (`ClosedIsQuiet`), and a reconnecting pool comes back (`Rejoins`).
- *The ledger* charges each reservation once, on disk before a page is told, over
  crashes, failed writes, links of accounts and repeated requests
  (`SpentIsCharged`, `AllowanceKept`); a challenge authorises once although two
  copies wait for the host together (`ChallengeOnce`); no operation is left in a
  queue that nobody drains (`NothingStranded`).
- *A broadcast* never runs twice in one directory (`OneBroadcast`), a clean close
  left no process (`CleanIsClean`), the crash of a publisher alone needs no
  operator (`RecoversAlone`) and its lease is freed (`LeaseFreed`).

**Disagreements found.** `PendingMoves` states what a test of peer-only transfers
asserts (`core/tests/scheduler.rs:1025`), that pending pieces continue without an
origin event. An attempt to prove it showed why it fails, with three holders and
no fewer. A holder of unknown rate is tried with one piece, and counts as tried
once an answer of its own *verified* a piece (`fresh`, `core/scheduler.rs:1153`).
Let the endgame give its piece to a second holder as well, and that holder answer
with this piece good and another one bad. `delivered` then bans the second holder
and returns before `drop_redundant`, so the first one's request goes on; its good
answer verifies nothing new, and it stays in `probe_peers` with its probe spent.
`refill_peer_only` gives such a holder nothing, neither as an idle one nor as a
probe. When the others have failed, a piece is pending, a good measured holder is
idle and nothing is in flight: the transfer waits for its floor and fails. With
an origin this cannot be, which is what `WorkMoves` says.

Of `maxHoldersPerObject` `CHANGELOG.md:387` says that a segment comes from *up to*
so many holders at once. `rebalance_origin` (`core/scheduler.rs:1258`) plans with
the number of idle holders as its limit, so after a first answer in mixed mode
origin's remaining pieces go to every idle holder, past the limit. The peer-only
paths (`refill_peer_only`, `peer_only_endgame_source`) do count. No run states it.

`OutlivesRestart` states what the comment at `relay-session.mjs:97` says of a
reconnecting pool, that a long-lived swarm outlives a relay restart. `#start`
(`hls-swarm.mjs:4345`) waits for the pool and the core together; if every relay
drops between the two, `session.start()` throws, the error is noted and nothing
tries again, although the pool redials. The viewer then plays from origin and
never announces.

Of the lock of a media directory the documents disagree with one another, and one of them with
the code. `docs/BROADCASTING.md:111` says of `.broadcast-lock`: "An unclean exit
may leave it and the next start fails closed", until an operator removes it by
hand. `startBroadcastPipeline` (`broadcast-pipeline.mjs:107`–`115`) takes such a
record over once it holds the lease that the kernel freed, if the record names that
lease's file and no lost guardian: `Crash` leaves the lock `"owned"`, and the next
`Start` goes on. Only a record of a lost guardian, one from before the leases, one
of another lease or an unsafe one refuses. `deploy/README.md:139`,
`docs/OPERATIONS.md:122` and the tests that kill a publisher
(`test/broadcast-guards.test.mjs:628`) agree with the code, and `RecoversAlone`
states what they say; `OneBroadcast` shows that the recovery is safe. An operator
who follows `BROADCASTING.md` stops a broadcast that would have come back by
itself; its line is out of date.

**Bounds.** Two ends are all a link has. Two requests in a row are needed for
one to disturb the next, and are enough, as a link keeps nothing of the request
before the last. Three chunks make a response with a first, a middle and a last
one, and one chunk of buffer makes it pause. Queue lengths of one and two give a
full queue and a queue with an order. Two holders are enough for one to take the
other's pieces; the stall needs a third, which fails. Four pieces
with requests of at most two leave work queued behind a request, and are two
more than the endgame's two. Two loads of one loader make the second meet the
promises of the first; two loaders share a link, a claim and a cache row. Three
fragments after the one that plays exceed the room for two. Two viewers make
glare and the third fills the slot that both looked at. Two relays are one that works and one that does not. Two
pages share an account; three requests are a challenge, its use and its copy, or
a reservation with its retry. Two publishers are an old and a new owner.
`MaxFaults` bounds everything that the surroundings may do wrong, and the
`Max…` constants of the modules bound histories: they stop growth and are
not the code's own limits.

**Deadlock** is not checked: a closed link, a finished transfer, a stopped page,
pool or publisher stop.

**Fairness.** `PeerLink` assumes of its surroundings only that an armed timer
fires (`setTimeout` in `#schedule`), that the promise of `onRequest` settles
(`Serve`: the host looks an object up), and that a channel which went down says
so. No frame need ever arrive. `LinkServing` assumes the timer and the host.
`Transfer` assumes that the shell starts a transfer it created, that time
passes, that the timer it sets after every call (`apply`) fires once the floor
has passed, that an origin fetch ends, as the loader's timeout makes it, and
that a worker answers, as its operation timer retires one that does not.
Holders may stay silent for ever. Those of the start, the timer and origin are
stated on states, that none stays due for ever, for TLC's sake; this says the
same, as a transfer has finitely many fetches. `RelayPool` assumes that retry timers fire
and that a relay which is dialled again and again and does not refuse opens in
the end; faults are finite, so a relay is not down for ever. `Broadcast` assumes
that the guardian's own steps, its notice of a vanished publisher and what
wrappers and groups do by themselves happen, as the operating system runs every
process; nobody need close, crash or clear anything. `Loader`, `WarmAhead`,
`Mesh` and `AccountBudget` assume nothing: that nobody waits in vain is stated
there as an invariant (`NeverStranded`, `NothingStranded`).

## 4. What is proved

For all values of the constants, from the assumptions stated with them, TLAPS
proves:

| Module | Theorem | Property of a run |
| --- | --- | --- |
| `PeerLinkProofs` | `TypeCorrect`, `UploadsCounted` | `TypeOK`, `InFlightCounts` |
| | `SettledExactlyOnce`, `EveryGrantAccounted` | `SettledOnce`, `GrantsAccounted` |
| | `EveryPayloadWhole`, `BoundariesAreClean` | `PayloadIsWhole`, `CleanBoundary` |
| | `CancelsStopUploads` (action property) | `CancelStopsChunks` |
| | `PortIsKept` (refinement) | `PortKept` |
| `TransferProofs` | `PiecesAreKept`, `WorkIsUnderWay` | `NothingForgotten`, `WorkMoves` |
| | `CommandsMatch`, `ExclusiveIsAlone` | `CancelsMatch`, `OneFetchEach` |
| | `PeersDoNotFailIt` (action property) | `OnlyOriginFailsIt` |
| `LoaderProofs` | `NothingIsKept`, `NoLoadStranded` | `NothingKept`, `NeverStranded` (Loader) |
| | `LoadsAnsweredOnce` (refinement) | `AnsweredOnce` (Loader) |
| `WarmProofs` | `NoLoadStranded`, `PinsAreFreed`, `BoundsAreKept` | `NeverStranded` (WarmAhead), `PinsFreed`, `BoundsKept` |
| | `LoadsAnsweredOnce` (refinement) | `AnsweredOnce` (WarmAhead) |
| `MeshProofs` | `SlotsAlwaysKept`, `LinksAlwaysAgree` | `SlotsKept`, `LinksAgree` |
| | `OffersAnsweredOnce` (action property) | `AnsweredOnce` |
| `BudgetProofs` | `ChallengesAuthoriseOnce`, `NoOperationStranded` | `ChallengeOnce`, `NothingStranded` |
| | `SpendingIsCharged` | `SpentIsCharged` |
| | `AllowanceIsKept` (refinement) | `AllowanceKept` |
| `RelayPoolProofs` | `RelaysKnow`, `ClosedStaysQuiet` | `EveryRelayKnows`, `ClosedIsQuiet` |
| `BroadcastProofs` | `OneAtATime`, `NoOperatorNeeded`, `CleanClose` | `OneBroadcast`, `RecoversAlone`, `CleanIsClean` |

**The link** is proved in four layers, each an inductive invariant that contains
the one before.

1. `IInv`: both ends are `Sound`, their type together with
   the count of uploads. Types alone are not inductive: `start_next` and
   `finish_upload` lower the counter with saturation and the queue on its own,
   and only together do they keep the count. The operators called between taking
   the active upload out and finishing it (`SendChunks`, `FinishUpload`) start
   from `Owing`, one more counted than held.
2. `PortInv`: every end is `AtRest`. What it has resolved and
   reported are the ids below the pending one, each once, in order (`Ledger`);
   what it was granted is what it sent, got back or still has to send
   (`Accounted`); a failed send has closed it. Each operator moves the asking
   side in one of four ways (`Moves`): not at all, frames of the answer taken,
   settled with an answer it may give (`Given`), or asked.
3. `ExchangeInv`: between an end that asks and one that holds
   there is one want, one upload or one response at a time (`Flow`). If nothing
   is pending there is none of them; a want on the wire is the pending one, at
   most one, with no upload beside it; an upload is the pending one and nothing
   follows what it has sent; a response on the wire is in order, its chunks are
   of the request's object and range, and its eof is last. This is what makes
   untagged chunks safe, and it holds on a lossy channel: `Within` says that a
   wire only loses frames. It ties both ends to both wires, so a step of either
   end is considered as that of the asker and of the holder (`Asker`, `Holder`).
   `CleanBoundary` is its case of a link that asks for nothing.
4. `WholeInv`: what was asked may be asked, and every answer is `None` or exactly
   what its request wants. `RestInv`: no paused upload is cancelled, which
   `CancelStopsChunks` needs, since a cancel may come while a response waits for
   the buffer.

`PortIsKept` is a step simulation under the mapping `Slot`: by `PortInv` each
action of PeerLink is, for each end, an `AskFor`, `Answer`, `Release` or `Shut` of
RequestPort or leaves its slot and answers alone, and by `WholeInv` an `Answer`
that is not empty is `Serve`.

Three things are assumed of the questions. `QuestionAssumption`: a range lies in
its object and a size that is named is that of what is asked
(`hls-swarm.mjs:3131` and `:3513` ask with the committed length). Where no size
is named (`:3931`), `CachedAssumption`: the holder has the object at its committed
size or not at all, as `hls-swarm.mjs` keeps verified bytes only. Without it an unsized request accepts what it gets, and the loader's hash is what
refuses it. With a size named the holder may have anything.

**The transfer.** `IInv` has two halves, the core and its page.

1. A core that runs is `Fit`. No range in a lane is empty (`SolidState`); a source
   that is out, or any source once the transfer is over, holds nothing; a peer has
   one request at most, and `live` are those with one (`Lanes`); work is queued
   behind a request only (`Behind`); and with an exclusive origin no two sources
   hold a piece in common (`Single`). Beside it `NoneLost`: a piece is verified, held
   by a lane or pending. `NothingForgotten`, `WorkMoves` and `OneFetchEach` follow.
   `Single` must also say of origin's own lane that no piece is in it twice, since
   `Claim` cuts pieces out of its queue and leaves its requests alone.
2. The page is `Tuned`: until it ends, or a reply that ends it is on its way, its
   open requests and those that replies will open, less those that replies will
   cancel, are `live`, and so for fetches. That alone is not inductive. A reply
   that asks a peer could come between a request of the same peer and its cancel,
   so `Once` says that nobody is asked twice, and `Known` why: the core asks a peer
   again only when its last request is answered, and a peer whose request the core
   took back is retired.

The core's methods call each other, so each of them is proved as a function of a fit
transfer, not as an action: `Post` and `Step` say what all of them owe (fit
again, nothing lost or newly verified), and compose. Between two calls a transfer
may be fit but for one source that is still to be served (`Fit(T, {s})`), or have
pieces in nobody's hands which are on their way to `assign`; the lemmas name them.
Work is handed out through one relation, `Handed`, for dealing a plan, giving and
refilling alike. Two loops go through the peers in order (`DropRedundant`, `Tick`); they are
recursive functions in Transfer, which `Chain` shows to exist, so that what one
round keeps the loop keeps. `Led` is what a method means to the page, and `Calm` that it does not
fail a transfer of a sound object that has an origin: methods are `Calm` but for
an answer or failure of the origin itself, which is `OnlyOriginFailsIt`. An answer
is compared with the core in which its request is over already (`Base`, `After`).

The proof was first tried with `WorkMoves` for peer-only transfers too, and failed
where `bad_piece` and `delivered` leave an idle probe; TLC then found the stall
that `PendingMoves` shows.

**The loaders.** `IInv` has four parts, of which `Good` are three.

1. `Orderly`, of one loader: its plan says whether the player's own loader runs for
   it, and a claim needs that (`LoaderOrderly`); what its unsettled work, its links,
   claims and race slot name is the load that is open, unless the work was told to
   end, and it has one promise of peers at most (`WorkKept`, `JobOrderly`). A
   key still awaited has not claimed yet, so no load claims twice.
2. `Backed`: a load without the player's own loader has a promise of peers, and
   what is taken is taken by a transfer that runs. `NeverStranded` and the second
   half of `NothingKept` are its cases; alone it is not inductive, since work
   that settles late could take the promise of the next load with it.
3. `History`: loads went in turn (`InTurn`), the last one open exactly when the
   loader is.
4. `Counted`: the count of claims is that of the transfers and loads which hold
   one. It cannot be said while a stop resets it, nor after, when late releases
   find zero; `Level` says it in the middle of a handler.

What a handler does is a chain of calls, each of which may break `Backed` for the
load it is about (`But`) but for no other. `Others` is what any of them does to the
loads that are not its own: at most it gives something back. `Makes(s, t)` is what a
whole handler owes, `Good` again, the count kept and each load `Told` no more
than it may be; there is a lemma of that form for each way a load goes on (answered,
sent to origin, begun once more, handed to a race, left without peers), and handlers
compose them. A stop, a withdrawal or a move of the player ends the work of many
loads at once, so those operators take a set of loads. A token is unlike any that
unsettled work still names, which there are finitely many of (`TokenLeft`).
`LoaderAssumption` says that there are finitely many loaders, for counting.

**Loading ahead.** `IInv` is `Core`, which every operator of WarmAhead keeps on its
way, and `Waits` (an open load has a player to answer for it or a promise that is
its own), which may fail inside a handler. `Core` says of each loader that its loads
went in turn and the last of them is open exactly when the loader is (`InTurn`); that
a pinned row is that of an open load which waits for its turn, which is `PinsFreed`
(`LoaderOrderly`); and of each promise that no other is of the same load, that its
fetch exists while it is pending, and that it finds its load undecided
(`PromiseOrderly`). A load's number is chosen to be unlike all
those that a promise or the page's latest demand still names. That such a number
is left among finitely many is a matter of counting: no more numbers are in use
than loads were asked (`Counted`). `clear()`, `stop()` and the end of a fetch
change many loads at once: `Quiet` is what any of them does to the loads that are
not its own, and it composes. `LoadsAnsweredOnce` is a step simulation: an
operator moves the history of a load one step along `Moves` or not at all, and
`InTurn` makes the result in order. `WarmAssumption` says that there are finitely
many loaders.

`BoundsKept` is an invariant of its own, `Within`, beside `IInv`: what is cached is
not fetched, a fetch has its fragment's bytes reserved from the permit until it ends,
and a fetch that no load took over is the active one, of which there is one. Most
calls only free (`Frees`: nothing cached, fetched or reserved that was not before),
which composes and keeps `Within`. The others are the pump, which begins a fetch
only below MaxObjects once the oldest fragments have made room; the permit, whose
bytes are reserved if they fit (`BytesMore`); and the check, which moves bytes from
the fetch to the cache. Bytes are counted as a set, one element each (`BytesHeld`), so that
sums are cardinalities.

**The mesh.** `IInv` says of the whole record that it is `Good`. None of the three
properties is inductive. `Fits` is `SlotsKept` at one viewer; that a replacement
may take the slot of the link that goes needs `Tidy`: nobody is linked and
dialled at once, what is over counts as no outgoing dial, and a window that is
over keeps no slot. `Paired` is `LinksAgree` and what it comes from: a channel
that has opened and that nobody closed is at both ends a dial or a link of its
request, so an end whose event comes late finds the other one there. That needs
`Named`, since ends are found by who made the request: a dial, a link, a handler
that waits or a signal names a request in use, of the two viewers concerned and in the
direction it says. `Counted` (no more requests in use than dials made, and room
for each dial whose handler waits) is what makes a new request unlike all that
are about.

Handlers end a window, give up a dial or a link, and may then take something on.
The first kind is one relation, `Less`: a viewer's slots do not grow, whatever of
its it gives up has its channel closed, and nothing else changes. It composes, and
`LessGood` says once that it keeps `Good`; ends of dials, links and windows, and
dropped links, are lemmas of the form `Less`. The second kind is an answer, a dial of
one's own, a link in the place of its dial, a member of the crowd or a handler
that waits (`AnsweringGood`, `CreatedGood`, `JoinedGood`, `CrowdGood`, `CheckedGood`),
each with the room that it needs as its hypothesis, which is what the handler looks
at again once the host has answered. `Alike` is a difference that no slot and no
channel depends on, and `SettledGood` says that what a handler forgets in the end
is of no consequence. For `AnsweredOnce`, `Kept` says of all but one step of a handler
that it answers no offer, and that step takes an offer that was not taken before.
That there are finitely many viewers is part of `MeshAssumption`, for counting.

**The relay pool.** `Sound` says of a pool in every mode that a closed one has
only given-up sockets and no timers (`Quiet`), that a socket which is open has
what the session would say (`Knows`), and the type; a started session is what
`Knows` needs of `#start`. Attempts that settle late and the redials of a
`connect()` go through one lemma each. The configuration lists finitely many
relays, which `RelayAssumption` says.

**The broadcast.** `IInv` says who may own what at each stage of a publisher and
of its guardian: the leases and their holders (`LeasesHeld`), that no group runs
before its guardian is ready (`NothingRuns`), that a marker has a holder or
trouble (`Marked`, `NoTrouble`), that one publisher at most is past the check of
the marker (`Alone`). `OneBroadcast` by itself says nothing of an orphaned
encoder whose publisher and guardian died, which is the case that the marker is
there for.

**The account budget.** `IInv` has four parts.

1. `RequestsOK`: a request is at a stage its kind can be at, and a reply that
   grants bytes is about a reservation that disk has charged (`Sound`).
2. `ChallengesOK`: a challenge is numbered by the request that brought it, and one
   that was used is no longer outstanding, so it cannot be used again.
3. `PhaseOK`: each request that waits for an operation has one entry, in the queue,
   in the batch or among the outcomes held for the write (`Queued`), at the stage
   that entry is for; outcomes are held only of a batch that writes, and a broken
   ledger writes nothing. `NothingStranded` is what it says of the loop.
4. `DurableOK`: what memory has charged is on disk, what a batch works on has all of
   that, a server that runs and is not broken has in memory what is on disk, and
   an outcome which is held grants only what the batch will write. A write that
   fails or a crash after it leaves disk ahead of memory, which is why memory's
   charges are a subset and why the broken ledger must stop.

What an operation does to the ledger is said by its shape (`Books`, `Charging`): it
keeps its fields, charges only grow, and it accepts only what it charges. Which
account pays need not be known for that.
`Queue…` lemmas move entries between the three places, and `Served` is what any
step of a handler or a page may do to the rest. `AllowanceIsKept` is a step
simulation: the step that writes is `Count` of Allowance or a stutter, and a page
that reads a grant is `Admit`, by `Sound`.

`SpentIsCharged` needs the accounts as well. `Root`, which follows aliases by
recursion, is shown to be the only solution of its equation as long as no set of
identities is closed under aliasing (`Acyclic`, `RootIs`, `RootOnly`): a link
then moves the roots of one account's aliases and no other (`RootMerged`).
`Booked` says that a ledger's accounts, grants and charges are in order, and
`Carries` what every operation but a reservation does to it: nothing charged is
lost but by a reset, and a decision is forgotten with its grant only. That a
retried reservation is never charged again is no property of one ledger: the
browser's copy must come under the token of the first (`Lineage`, of all requests
sent), and a copy of the ledger that has charged an operation must still know its
decision or no longer know the grant (`Remembered`). Both are kept by every step
because a step changes no request's kind, operation and token, and adds at most
one, which is new or a copy (`Descends`). `BooksInv` says so of all three copies
of the ledger.
The proof assumes of an owner's act (`ActAssumption`) that it signs in with an
identity at least, and a link with two: `authorize` refuses the others.

TLC checks the same properties on the runs of section 3, and checked the parts
of the invariants before they were proved.

**Only model-checked.**

- Liveness (`RequestsEnd`, `UploadsEnd`, `WantsAnswered`, `TransferEnds`,
  `Rejoins`, `LeaseFreed`), which is beyond the proof system, as ENABLED is.
- `AnswersExact` of LinkServing, which counts with a filter: what that computes is
  an induction over data.
- `NoFalseAlarm`, whose invariant must also say that on a reliable channel every
  place from what was received to what was sent is on the wire.

## 5. What is not modelled

- Link: the advisory messages (have, contribution, fetching), which touch no
  request or upload; a text `send` that throws; unordered channels; the values
  of deadlines; JSON that is not one of the protocol's frames. `peer-link.mjs`,
  the fallback without ranges.
- Transfer: bytes and hashes beyond a piece matching or not; an answer of the
  wrong length, which does what a failure does; the extra admission checks of
  `#multiHolder` one by one (each ends a transfer early, as `PageEnds` may
  whenever it likes); the worker's start and the limits transfers share in it.
- Loader: speculative loads, the wait for a lease by a single holder
  (`#waitForPeerLease`) and its retries, how holders are chosen and rated, which
  reason refused a late watch, a base loader that throws, the shadow loader. That
  loads end is not stated as liveness, only that somebody is left to end them.
- WarmAhead: the startup reservoir and its commit; more than one rendition (a
  change of scope is `clear()`); playlists whose geometry changes. Permits and
  validators are choices. The write to the cache and the end of its job are one
  step, where the code has a microtask between them.
- Mesh: cooldowns and retry counts, tickets and checks that are shared, ICE and
  SDP, candidates and hints, the 256 request ids that are remembered (all are),
  the payload of a refusal, announcements.
- RelayPool: validation, signatures, deduplication and filters of events, clock
  diagnostics, the limit on subscriptions, the length of delays.
- AccountBudget: a clock that runs back, the service's limits on requests at
  once and per minute, reservations of more than one unit and a repeated id with
  another size, the capacities for identities and accounts, the validation of a
  saved file, the half minute for which an expired grant is remembered.
- Broadcast: durability over a crash of the host (a marker is there once
  written), checks of paths and modes, ffmpeg's arguments, TLS, relayed output,
  the limit of four groups, the publisher's drain after it was ready, the
  publication of playlists. A marker that cannot be removed is a failed stop; the
  code reports it as a failure too when the publisher still runs, which then writes
  the record of a lost guardian (the model leaves it running, with `trouble` set).
  When the directory of a new marker cannot be synced, the code tries to remove the
  marker again and the model keeps it, the worse case. A start whose control fails
  to close after a late error leaves its lock `"owned"` where the model leaves
  none; `Start` treats the two alike.
- The parts of the table in section 1 that section 2 does not name. Warm
  discovery and pacing are tables driven by one caller; commitments, parsing,
  marshalling are sequential conversions; the publisher, whose signing joins
  callers over files that change, is next in the plan; the rest is glue around
  network libraries.

## 6. Plan

1. Link, PeerLink, RequestPort, LinkServing and the first proofs — done.
2. Transfer and the proofs of its invariants — done.
3. AccountBudget with Allowance, Loader and WarmAhead with LoadContract, Mesh,
   RelayPool, Broadcast — done.
4. Proofs for PeerLink: `SettledOnce`, the step simulation of RequestPort and
   `CleanBoundary`, whose invariant ties both ends to both wires — done. Next
   `NoFalseAlarm`, from the same invariant on a reliable channel.
5. Proofs for RelayPool, Broadcast and Mesh — done.
6. Proofs for AccountBudget, and that it implements Allowance — done. WarmAhead
   and Loader, each with LoadContract — done.
7. The publisher's signing and restart; warm
   discovery and upload pacing, as budgets.
