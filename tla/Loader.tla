------------------------------- MODULE Loader -------------------------------
(* The peer-first fragment loader of a page (src/browser/hls-swarm.mjs): one*)
(* load is a peer wait with a deadline, a funded window, origin ranges and  *)
(* peers together, a whole origin request, or a race of peers with it, and  *)
(* passes from one of these to another. Asynchronous work outlives the load *)
(* that began it. The page's loaders share its links, its race slots and    *)
(* the claims by which it tells neighbours what it fetches.                 *)
(* One segment, wanted by every loader; the loads of hls.js itself, not the *)
(* speculative ones of warm-ahead.                                          *)
EXTENDS Naturals, FiniteSets

CONSTANTS
    Loaders, Links,
    Plans,                      \* how a load may begin (see Load)
    MaxConcurrentRaces,         \* the option of this name
    MaxLoads,                   \* bound: loads asked for in all
    MaxFaults                   \* bound: links closed or opened, a player
                                \* that moves, serving withdrawn, a stop

None == "none"
RacePlans == {"cached", "late"}
AllPlans == {"peer", "steady", "mixed", "whole"} \union RacePlans

ASSUME LoaderAssumption ==
    /\ Plans \subseteq AllPlans /\ "whole" \in Plans
    /\ IsFiniteSet(Loaders) /\ None \notin Loaders
    /\ {MaxConcurrentRaces, MaxLoads} \subseteq Nat \ {0} /\ MaxFaults \in Nat

-----------------------------------------------------------------------------
(* `page` is what the callbacks of one event change together:               *)
(*   ld[l]    a loader: the plan that owns its load ("idle": none), the     *)
(*            token of that plan, how far its time has run (0, 1 past the   *)
(*            peer deadline, 2 past the recovery deadline too), whether its *)
(*            deadline timer has fired, its claim (releaseFetch), whether   *)
(*            the player's own loader runs (source), whether that has       *)
(*            delivered bytes or, in a mixed load, begun (claimed), and its *)
(*            late-peer watch                                               *)
(*   jobs     promises not yet settled: "peer" (#peerFirst), "key" (the     *)
(*            segment key behind a claim) and "wait" (#steadyWait)          *)
(*   use      which transfer has each link (peerLeases, and link.busy)      *)
(*   races    cachedRaces, as the loads that hold a slot                    *)
(*   ranges   transfers that hold a claim of their own (releaseOrigin)      *)
(*   fetches  originFetches for the segment                                 *)
(*   asked    history: what became of each load asked for                   *)
VARIABLES page, up, moved, serving, stopped, faults
vars == <<page, up, moved, serving, stopped, faults>>

Plan == AllPlans \union {"idle", "direct", "mixedWhole", "handed"}
Id(s, l) == [l |-> l, tok |-> s.ld[l].tok]
NoId == [l |-> None, tok |-> 0]
Open(s, l) == s.ld[l].plan # "idle"
Races(s, l) == s.ld[l].plan \in {"cached", "handed", "late"}

NewLoader == [plan |-> "idle", tok |-> 0, due |-> 0, fired |-> FALSE, claim |-> FALSE,
              source |-> FALSE, claimed |-> FALSE, watch |-> "none"]

Init ==
    /\ page = [ld |-> [l \in Loaders |-> NewLoader], jobs |-> {}, use |-> [k \in Links |-> NoId],
               races |-> {}, ranges |-> {}, fetches |-> 0,
               asked |-> [l \in Loaders |-> [n \in 1..MaxLoads |-> "unasked"]]]
    /\ up \in SUBSET Links
    /\ moved = FALSE /\ serving = TRUE /\ stopped = FALSE /\ faults = 0

-----------------------------------------------------------------------------
(* What ends work takes a set of loads, since a move of the player, the end *)
(* of serving or a stop ends that of several at once.                       *)
(* Claims. The page counts the claims on a segment and remembers no more    *)
(* segments than races; a release takes back what its claim added.          *)
MayClaim(s) ==
    serving /\ ~stopped /\ (IF s.fetches > 0 THEN 1 ELSE 0) < MaxConcurrentRaces
Unclaimed(s, n) == [s EXCEPT !.fetches = IF @ > n THEN @ - n ELSE 0]
ClaimFetch(s, l) ==
    IF MayClaim(s) THEN [s EXCEPT !.fetches = @ + 1, !.ld[l].claim = TRUE] ELSE s
ReleaseFetch(s, L) == Unclaimed(s, Cardinality({l \in L : s.ld[l].claim}))

\* Transfers that end, or are told to, give back their links and claims.
EndTransfers(s, ids) ==
    [Unclaimed(s, Cardinality(s.ranges \intersect ids)) EXCEPT
        !.ranges = @ \ ids, !.use = [k \in Links |-> IF @[k] \in ids THEN NoId ELSE @[k]]]

\* controller.abort(): the work stays until its promise settles.
Aborted(j) == [j EXCEPT !.aborted = TRUE, !.run = FALSE, !.multi = FALSE]
AbortPeers(s, L) ==
    LET ids == {Id(s, l) : l \in L}
        theirs == {j \in s.jobs : j.id \in ids /\ j.kind \in {"peer", "wait"}}
    IN  [EndTransfers(s, ids) EXCEPT !.jobs = (@ \ theirs) \union {Aborted(j) : j \in theirs}]

\* stopPeer() of a cached race; close() of a late watch.
StopPeers(s, L) ==
    [AbortPeers(s, L) EXCEPT
        !.races = @ \ {Id(s, l) : l \in L},
        !.ld = [l \in Loaders |-> IF l \in L THEN [s.ld[l] EXCEPT !.watch = None] ELSE s.ld[l]]]

\* (For checking AnsweredOnce: the origin request of a race that peers won
\* is left to run.)
EndLoadKeeping(s, L) ==
    [StopPeers(ReleaseFetch(s, L), L) EXCEPT
        !.ld = [l \in Loaders |->
                  IF l \in L THEN [NewLoader EXCEPT !.source = s.ld[l].source] ELSE s.ld[l]]]

\* Any way a load ends: its token is over, its timers, peers and claim go.
EndLoad(s, L) ==
    [StopPeers(ReleaseFetch(s, L), L) EXCEPT
        !.ld = [l \in Loaders |-> IF l \in L THEN NewLoader ELSE s.ld[l]]]

Asked(a) == Cardinality({n \in 1..MaxLoads : a[n] # "unasked"})
Decided(a, fate) == [a EXCEPT ![Asked(a)] = IF @ = "open" THEN fate ELSE "twice"]
Fate(s, L, fate) ==
    [s EXCEPT !.asked =
        [l \in Loaders |-> IF l \in L THEN Decided(s.asked[l], fate) ELSE s.asked[l]]]
Answer(s, L) == Fate(EndLoad(s, L), L, "answered")

\* A token is unlike any that the loader or its unsettled work refers to.
NewToken(s, l, plan) ==
    LET seen == {s.ld[l].tok} \union {j.id.tok : j \in {i \in s.jobs : i.id.l = l}}
        tok == CHOOSE n \in 1..(Cardinality(seen) + 1) :
                  n \notin seen /\ \A m \in 1..(n - 1) : m \in seen
    IN  [s EXCEPT !.ld[l] = [NewLoader EXCEPT !.plan = plan, !.tok = tok]]
Job(id, kind) == [id |-> id, kind |-> kind, run |-> FALSE, multi |-> FALSE, aborted |-> FALSE]
NewJobs(s, L, kind) == [s EXCEPT !.jobs = @ \union {Job(Id(s, l), kind) : l \in L}]
NewJob(s, l, kind) == NewJobs(s, {l}, kind)

-----------------------------------------------------------------------------
(* The ways a load can go on.                                               *)

\* loadWholeOrigin: the player's own loader, and a claim once the key is known.
Whole(o) ==
    [NewLoader EXCEPT !.plan = IF o.plan = "mixed" THEN "mixedWhole" ELSE "whole",
                      !.tok = o.tok, !.source = TRUE,
                      !.due = IF o.plan = "mixed" THEN o.due ELSE 0]
StartWhole(s, L) ==
    NewJobs([AbortPeers(s, L) EXCEPT
               !.ld = [l \in Loaders |-> IF l \in L THEN Whole(s.ld[l]) ELSE s.ld[l]]], L, "key")

\* A fallback of a mixed load has what is left of the recovery budget.
Fallback(s, l) ==
    IF s.ld[l].plan = "mixed" /\ s.ld[l].due = 2 THEN Answer(s, {l}) ELSE StartWhole(s, {l})

StartRace(s, l) ==
    [NewJob(NewJob(s, l, "key"), l, "peer") EXCEPT !.races = @ \union {Id(s, l)},
                                                   !.ld[l].source = TRUE]
StartLate(s, l) ==
    [NewJob(s, l, "key") EXCEPT !.ld[l].source = TRUE, !.ld[l].watch = IF moved THEN None ELSE "dormant"]

Dormant(s) == {l \in Loaders : s.ld[l].watch = "dormant"}
RaceCapacity(s) == Cardinality(s.races) + Cardinality(Dormant(s)) < MaxConcurrentRaces
CanBegin(s, plan) ==             \* what the swarm allows; the rest is the player's buffer
    /\ stopped => plan = "direct"
    /\ plan \in RacePlans => RaceCapacity(s)
    /\ plan = "mixed" => ~moved

Begin(s, l, plan) ==
    LET t == NewToken(s, l, plan)
    IN  CASE plan \in {"peer", "mixed"} -> NewJob(t, l, "peer")
          [] plan = "steady" -> NewJob(t, l, "wait")
          [] plan = "whole" -> StartWhole(t, {l})
          [] plan = "cached" -> StartRace(t, l)
          [] plan = "late" -> StartLate(t, l)
          [] plan = "direct" -> [t EXCEPT !.ld[l].source = TRUE]

\* loadSteadyWindow's handBack: nothing when the budgets are spent, the whole
\* from origin, or the load once more without the window.
HandBacks(s, l, whole) ==
    IF s.ld[l].due = 2 THEN {Answer(s, {l})}
    ELSE IF whole THEN {StartWhole(s, {l})}
    ELSE LET t == EndLoad(s, {l})
         IN  {Begin(t, l, plan) : plan \in {p \in (Plans \ {"steady"}) \union {"direct"} : CanBegin(t, p)}}

\* A mixed load whose plan needs no origin lane becomes a cached race: a new
\* token, the old deadlines, and no look at the race slots.
HandToRace(s, l) ==
    LET t == NewToken(AbortPeers(s, {l}), l, "handed")
    IN  StartRace([t EXCEPT !.ld[l].due = s.ld[l].due], l)

\* abort() of the player: the pending callbacks are told, or the player's own
\* loader tells them itself.
AbortLoad(s, l) == IF Open(s, l) THEN Answer(s, {l}) ELSE s

-----------------------------------------------------------------------------
(* What the player asks for.                                                *)
Kept == UNCHANGED <<up, moved, serving, stopped, faults>>
Step(s) == page' = s /\ Kept

\* load(): whatever was open is aborted first.
Load(l, plan) ==
    LET s == AbortLoad(page, l)
        n == Asked(s.asked[l]) + 1
    IN  /\ Cardinality({m \in Loaders \X (1..MaxLoads) : s.asked[m[1]][m[2]] # "unasked"}) < MaxLoads
        /\ CanBegin(s, plan)
        /\ Step(Begin([s EXCEPT !.asked[l][n] = "open"], l, plan))
Abort(l) == Open(page, l) /\ Step(AbortLoad(page, l))
Destroy(l) == Open(page, l) /\ Step(Fate(EndLoad(page, {l}), {l}, "dropped"))

-----------------------------------------------------------------------------
(* What asynchronous work comes back with.                                  *)
Settled(j) == [page EXCEPT !.jobs = @ \ {j}]

\* (For checking NeverStranded: aborted work is taken for work nobody waits for.)
CurrentUnaborted(j) == Open(page, j.id.l) /\ Id(page, j.id.l) = j.id /\ ~ j.aborted

\* Whether the load that began the work is still the one that is open.
Current(j) == Open(page, j.id.l) /\ Id(page, j.id.l) = j.id

\* (For checking NothingKept: the key is known after the request has ended.)
KeyKnownLate(j) == j.kind = "key" /\ Step(ClaimFetch(Settled(j), j.id.l))

KeyKnown(j) ==
    /\ j.kind = "key"
    /\ Step(IF Current(j) /\ page.ld[j.id.l].source THEN ClaimFetch(Settled(j), j.id.l)
            ELSE Settled(j))

\* #steadyWait: a wait that was ended says "source", or "held" at the last.
\* It has no say once a stop has sent the load to origin.
WaitSays(j, next) == j.aborted \/ stopped => next # "ordinary"

WaitEnds(j, next) ==
    LET l == j.id.l
    IN  /\ j.kind = "wait" /\ WaitSays(j, next)
        /\ IF ~ Current(j) \/ page.ld[l].source THEN next = "source" /\ Step(Settled(j))
           ELSE IF next = "held"
           THEN Step([page EXCEPT !.jobs = (@ \ {j}) \union {[j EXCEPT !.kind = "peer"]}])
           ELSE \E s \in HandBacks(Settled(j), l, next = "source") : Step(s)

\* #multiHolder leases the holders it can have; one held by another transfer
\* or busy is not a candidate. A mixed plan claims and starts its origin lane.
Take(j, links, multi) ==
    LET l == j.id.l
        s == [page EXCEPT !.jobs = (@ \ {j}) \union {[j EXCEPT !.run = TRUE, !.multi = multi]},
                          !.use = [k \in Links |-> IF k \in links THEN j.id ELSE @[k]]]
    IN  /\ j.kind = "peer" /\ ~ j.run /\ ~ j.aborted /\ ~ stopped /\ page.ld[l].due = 0
        /\ links # {} /\ links \subseteq up /\ \A k \in links : page.use[k] = NoId
        /\ ~ multi => Cardinality(links) = 1 /\ page.ld[l].plan = "peer"
        /\ page.ld[l].plan \in {"mixed", "handed", "late"} => ~ moved
        /\ Step(IF page.ld[l].plan = "mixed"
                THEN LET t == [s EXCEPT !.ld[l].claimed = TRUE]
                     IN  IF MayClaim(t) THEN [t EXCEPT !.fetches = @ + 1, !.ranges = @ \union {j.id}]
                         ELSE t
                ELSE s)

\* The scheduler sends a piece of a peer load to origin by range.
RangeBegins(j) ==
    /\ j.run /\ j.multi /\ ~ j.aborted /\ page.ld[j.id.l].plan = "peer"
    /\ j.id \notin page.ranges /\ MayClaim(page)
    /\ Step([page EXCEPT !.fetches = @ + 1, !.ranges = @ \union {j.id}])

\* #peerFirst settles with a verified object, or with none. Each plan looks
\* again at what the wait may have changed.
InTime(j, got) ==
    LET o == page.ld[j.id.l]
    IN  /\ got
        /\ CASE o.plan = "peer" -> j.multi \/ o.due = 0
             [] o.plan = "steady" -> o.due = 0
             [] o.plan = "mixed" -> o.due < 2 /\ o.claimed /\ ~ moved
             [] o.plan \in {"handed", "late"} -> o.due = 0 /\ ~ o.claimed /\ ~ moved
             [] o.plan = "cached" -> o.due = 0 /\ ~ o.claimed
             [] OTHER -> FALSE

\* An object comes only from links taken, and not after the signal.
CanGive(j) == j.run /\ ~ j.aborted

PeerEnds(j, got) ==
    LET l == j.id.l
        o == page.ld[l]
        s == EndTransfers(Settled(j), {j.id})
    IN  /\ j.kind = "peer"
        /\ got => CanGive(j)
        /\ IF ~ Current(j) THEN Step(s)
           ELSE IF InTime(j, got) THEN Step(Answer(s, {l}))
           ELSE \/ o.plan = "peer" /\ Step(StartWhole(s, {l}))
                \/ /\ o.plan = "steady"
                   /\ \E whole \in BOOLEAN :
                         /\ ~ whole => ~ j.run /\ ~ j.aborted /\ o.due = 0
                         /\ \E t \in HandBacks(s, l, whole) : Step(t)
                \/ o.plan = "mixed" /\ Step(Fallback(s, l))
                \/ /\ o.plan = "mixed" /\ "cached" \in Plans
                   /\ ~ j.run /\ ~ j.aborted /\ ~ moved /\ ~ stopped /\ o.due < 2
                   /\ Step(HandToRace(s, l))
                \/ Races(page, l) /\ Step(StopPeers(s, {l}))
                \/ o.plan \in {"whole", "mixedWhole", "direct"} /\ Step(s)

\* A late watch finds a link with the segment: its one attempt.
WatchArms(l) ==
    LET s == [page EXCEPT !.ld[l].watch = "armed", !.races = @ \union {Id(page, l)}]
    IN  /\ page.ld[l].watch = "dormant" /\ page.ld[l].due = 0 /\ ~ moved
        /\ \A j \in page.jobs : j.id # Id(page, l)
        /\ \E k \in up : page.use[k] = NoId
        /\ Step(NewJob(s, l, "peer"))

\* Bytes from origin claim a race for it.
OriginProgress(l) ==
    /\ Races(page, l) /\ page.ld[l].source /\ ~ page.ld[l].claimed
    /\ Step(IF page.ld[l].plan = "handed" /\ page.ld[l].due = 2 THEN Answer(page, {l})
            ELSE StopPeers([page EXCEPT !.ld[l].claimed = TRUE], {l}))

\* The player's own loader ends with a response, an error or its timeout.
OriginEnds(l) == page.ld[l].source /\ Step(Answer(page, {l}))

-----------------------------------------------------------------------------
(* Timers. Time can run past a deadline before its timer is served.         *)
Timed == {"peer", "steady", "mixed", "mixedWhole", "handed"}
TimePasses(l) ==
    LET o == page.ld[l]
    IN  /\ (o.plan \in Timed /\ o.due < 2) \/ (o.plan \in RacePlans /\ o.due < 1)
        /\ Step([page EXCEPT !.ld[l].due = @ + 1])

\* A running transfer with an origin lane takes the deadline over.
OwnsDeadline(l) == \E j \in page.jobs : j.id = Id(page, l) /\ j.run /\ j.multi /\ ~ j.aborted

DeadlineTimer(l) ==
    LET o == page.ld[l]
        s == [page EXCEPT !.ld[l].fired = TRUE]
    IN  /\ o.due >= 1 /\ ~ o.fired
        /\ \/ o.plan = "peer" /\ Step(IF OwnsDeadline(l) THEN s ELSE StartWhole(s, {l}))
           \/ o.plan = "steady" /\ Step(AbortPeers(s, {l}))
           \/ Races(page, l) /\ Step(StopPeers(s, {l}))

SetupTimer(l) == page.ld[l].plan = "mixed" /\ ~ page.ld[l].claimed /\ Step(Fallback(page, l))

RecoveryTimer(l) ==
    /\ page.ld[l].plan \in {"mixed", "mixedWhole", "handed"} /\ page.ld[l].due = 2
    /\ Step(Answer(page, {l}))

-----------------------------------------------------------------------------
(* What happens to the page.                                                *)
Fault == faults < MaxFaults /\ faults' = faults + 1

LinkOpens(k) ==
    /\ Fault /\ ~ stopped /\ k \notin up /\ up' = up \union {k}
    /\ UNCHANGED <<page, moved, serving, stopped>>

LinkCloses(k) ==
    /\ Fault /\ k \in up /\ up' = up \ {k}
    /\ page' = [page EXCEPT !.use[k] = NoId]
    /\ UNCHANGED <<moved, serving, stopped>>

\* A pause, a seek or another stream: late watches close; mixed loads see it
\* at their next step.
CloseWatches(s) == StopPeers(s, {l \in Loaders : s.ld[l].watch \in {"dormant", "armed"}})
PlayerMoves ==
    /\ Fault /\ ~ moved /\ moved' = TRUE /\ page' = CloseWatches(page)
    /\ UNCHANGED <<up, serving, stopped>>

\* #withdrawContribution: the races are aborted where they are.
AbortRaces(s) == AbortPeers(s, {l \in Loaders : Id(s, l) \in s.races})
Withdraw ==
    /\ Fault /\ serving /\ serving' = FALSE /\ page' = AbortRaces(page)
    /\ UNCHANGED <<up, moved, stopped>>

\* A stop ends the waits for peers: those whose budgets are spent say nothing,
\* the others go to origin, and races and late watches go on without peers.
StopLoads(s) ==
    LET waiting == {l \in Loaders : s.ld[l].plan \in {"peer", "steady", "mixed"}}
        spent == {l \in waiting : s.ld[l].plan # "peer" /\ s.ld[l].due = 2}
        racing == {l \in Loaders : Races(s, l)}
    IN  StopPeers(StartWhole(Answer(s, spent), waiting \ spent), racing)
Stop ==
    /\ Fault /\ ~ stopped /\ stopped' = TRUE /\ up' = {}
    /\ page' = [StopLoads(page) EXCEPT !.use = [k \in Links |-> NoId],
                                       !.races = {}, !.fetches = 0]
    /\ UNCHANGED <<moved, serving>>

-----------------------------------------------------------------------------
JobEnds(j) ==
    \/ KeyKnown(j)
    \/ \E next \in {"held", "ordinary", "source"} : WaitEnds(j, next)
    \/ \E got \in BOOLEAN : PeerEnds(j, got)

Next ==
    \/ \E l \in Loaders :
          \/ \E plan \in Plans \union {"direct"} : Load(l, plan)
          \/ Abort(l) \/ Destroy(l)
          \/ WatchArms(l) \/ OriginProgress(l) \/ OriginEnds(l)
          \/ TimePasses(l) \/ DeadlineTimer(l) \/ SetupTimer(l) \/ RecoveryTimer(l)
    \/ \E j \in page.jobs :
          \/ JobEnds(j) \/ RangeBegins(j)
          \/ \E links \in SUBSET Links, multi \in BOOLEAN : Take(j, links, multi)
    \/ \E k \in Links : LinkOpens(k) \/ LinkCloses(k)
    \/ PlayerMoves \/ Withdraw \/ Stop

Spec == Init /\ [][Next]_vars

-----------------------------------------------------------------------------
(* Every load asked of a loader is answered exactly once, whichever of its  *)
(* plans was running, whatever came back late and however often it passed   *)
(* to another; never after it was destroyed (the tokens of                  *)
(* #peerFirstLoader).                                                       *)
Contract == INSTANCE LoadContract WITH asked <- page.asked
AnsweredOnce == Contract!Spec

\* Whatever a load takes it has given back when it ends, and nothing else has
\* it meanwhile: the claims counted in originFetches are those of running
\* origin requests and transfers, a link belongs to a transfer that still
\* runs, and a race slot to a race.
NothingKept ==
    /\ ~ stopped => page.fetches = Cardinality(page.ranges)
                                   + Cardinality({l \in Loaders : page.ld[l].claim})
    /\ \A l \in Loaders : page.ld[l].claim => page.ld[l].source
    /\ \A id \in page.ranges \union ({page.use[k] : k \in Links} \ {NoId}) :
          \E j \in page.jobs : j.id = id /\ j.run /\ ~ j.aborted
    /\ \A id \in page.races : Id(page, id.l) = id /\ Races(page, id.l)
                              /\ \E j \in page.jobs : j.id = id /\ j.kind = "peer"

\* No load is left with nobody to end it: while it is open the player's own
\* loader runs for it or a wait for peers does, and either ends of itself.
NeverStranded ==
    \A l \in Loaders : Open(page, l) =>
        \/ page.ld[l].source
        \/ \E j \in page.jobs : j.id = Id(page, l) /\ j.kind \in {"peer", "wait"}
=============================================================================
