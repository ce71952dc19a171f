------------------------------ MODULE WarmAhead -----------------------------
(* Loading ahead of the player (src/browser/warm-ahead.mjs) while it plays: *)
(* a loader that wraps the page's own, fetches the next two fragments       *)
(* before the player asks for them, and lets a genuine load join such a     *)
(* fetch or reuse its verified bytes. Authorisation, verification and the   *)
(* promises loads wait on outlive the load or fetch they were begun for.    *)
(* Fragments are numbered along one rendition (a change of rendition is a   *)
(* clear()); the reservoir that can hold the first fragment is left out.    *)
EXTENDS Naturals, FiniteSetsExt, SequencesExt

CONSTANTS
    Loaders, LastItem,          \* fragments 0..LastItem
    Size, MaxBytes, MaxObjects, \* a fragment's bytes; MAX_BYTES, MAX_OBJECTS
    Plays,                      \* bound: fragments the player asks for
    MaxLoads,                   \* bound: loads asked for in all
    MaxFaults                   \* bound: refusals and failures, clear(), a
                                \* pause, an eviction, a stop

Items == 0..LastItem
ASSUME WarmAssumption ==
    /\ IsFiniteSet(Loaders) /\ LastItem \in Nat /\ Plays \subseteq Items /\ Size \in [Items -> Nat \ {0}]
    /\ {MaxBytes, MaxObjects} \subseteq Nat \ {0} /\ {MaxLoads, MaxFaults} \subseteq Nat

(* `w` is what the callbacks of one event change together:                  *)
(*   ld[l]   a wrapped loader: its load (`token`, 0 when given up), whether *)
(*           that is pendingTerminal still (open), its fragment, whether    *)
(*           the inner loader was started for it, whether it waits on reuse *)
(*           (reuseWaiters), who has won it, what it pins                   *)
(*   conts   promises that loads wait on: [l, id, k, got]                   *)
(*   demand  loaders whose inner loader runs                                *)
(*   jobs[k] a fetch ahead: what it awaits, cancelled but validating still  *)
(*           (dead), its waiters, promoted, bytes reserved, reconsidered    *)
(*           and for which demand                                           *)
(*   active, queue, latest, declined   as in the code; a queued item that   *)
(*           has a deadline already is `kept`                               *)
(*   cache[k]   for each verified fragment, those that are here for longer  *)
(*           (the order of the Map)                                         *)
(*   due     a pump is queued as a microtask                                *)
(*   asked   history: what became of each load asked for                    *)
VARIABLES w, allowed, closed, faults
vars == <<w, allowed, closed, faults>>
env == <<allowed, closed>>

NewLoader == [token |-> 0, open |-> FALSE, k |-> 0, src |-> FALSE, reuse |-> FALSE,
              won |-> "none", pin |-> {}]
NoJob == [at |-> "none", dead |-> FALSE, by |-> {}, up |-> FALSE, size |-> 0,
          re |-> FALSE, seen |-> {}]

Init ==
    /\ w = [ld |-> [l \in Loaders |-> NewLoader], conts |-> {}, demand |-> {},
            jobs |-> [k \in Items |-> NoJob], active |-> {}, queue |-> <<>>, cache |-> <<>>,
            latest |-> {}, declined |-> {}, due |-> FALSE,
            asked |-> [l \in Loaders |-> [n \in 1..MaxLoads |-> "unasked"]]]
    /\ allowed = TRUE /\ closed = FALSE /\ faults = 0

Step(s) == w' = s

\* A timer, a network event or a call of the host finds no microtask left.
Task == ~w.due /\ \A c \in w.conts : c.got \in {"pending", "auth"}
Fault == faults < MaxFaults /\ faults' = faults + 1
Unless(good) == IF good THEN UNCHANGED faults ELSE Fault

\* next() of the fragment, its first two.
Upcoming(k) == {n \in Items : n \in {k + 1, k + 2}}
Wanted(s, k) == \E d \in s.latest : k \in Upcoming(d.k)

Cached(s) == DOMAIN s.cache
Fetching(s) == {k \in Items : s.jobs[k].at # "none"}
Live(s, k) == s.jobs[k].at # "none" /\ ~s.jobs[k].dead
\* row.genuine
Genuine(s, k) == Live(s, k) /\ \E l \in s.jobs[k].by : s.ld[l].open /\ s.ld[l].k = k
Promoted(s) == {k \in Fetching(s) : s.jobs[k].up}
Running(s) == Cardinality(s.demand) + Cardinality(Promoted(s))

\* (For checking BoundsKept: a cancelled fetch is counted no more.)
TrackedLive(s) == Cached(s) \union {k \in Items : Live(s, k)}

Tracked(s) == Cached(s) \union Fetching(s)

\* Verified and reserved, byte by byte.
Taken(s, k) == (IF k \in Cached(s) THEN Size[k] ELSE 0) + s.jobs[k].size
BytesHeld(s) == Cardinality(UNION {{k} \X (1..Taken(s, k)) : k \in Items})

NewItem(k) == [k |-> k, kept |-> FALSE, re |-> FALSE]
Queued(s) == {s.queue[n].k : n \in DOMAIN s.queue}
Without(s, K) == [s EXCEPT !.cache = [k \in Cached(s) \ K |-> s.cache[k] \ K]]
WithoutOldest(s, n) == Without(s, {k \in Cached(s) : Cardinality(s.cache[k]) < n})
Keep(s, k) ==
    [s EXCEPT !.cache = [i \in Cached(s) \union {k} |-> IF i = k THEN Cached(s) ELSE s.cache[i]]]
Asked(s, l) == Cardinality({n \in 1..MaxLoads : s.asked[l][n] # "unasked"})
Fate(s, l, fate) == [s EXCEPT !.asked[l][Asked(s, l)] = IF @ = "open" THEN fate ELSE "twice"]

\* (For checking PinsFreed: a promise of an earlier load is believed.)
CurrentAlways(s, c) == TRUE

Current(s, c) == c.id = s.ld[c.l].token

\* An id that no load and no promise of l refers to.
NewToken(s, l) ==
    Min(1..MaxLoads + 1 \ ({c.id : c \in {c \in s.conts : c.l = l}}
                           \union {d.id : d \in {d \in s.latest : d.l = l}}))

-----------------------------------------------------------------------------
(* Fetches and loads, as helpers on w.                                      *)

\* finishJob: the promise settles with `got`.
Finish(s, K, got) ==
    [s EXCEPT !.jobs = [k \in Items |-> IF k \in K THEN NoJob ELSE @[k]],
              !.active = @ \ K,
              !.conts = {IF c.k \in K /\ c.got = "pending" THEN [c EXCEPT !.got = got] ELSE c : c \in @},
              !.due = @ \/ K # {}]

\* cancelJob: an awaited validator may still own its body, so its slot and
\* reservation stay.
Cancel(s, K) ==
    LET hit == {k \in K : Live(s, k)}
        s1 == [s EXCEPT !.jobs = [k \in Items |-> IF k \in hit THEN [@[k] EXCEPT !.dead = TRUE] ELSE @[k]]]
    IN  Finish(s1, {k \in hit : s.jobs[k].at = "load"}, "null")

\* releasePending: a promoted fetch ends with the last load that waits on it.
Leave(s, l) ==
    LET left == {k \in Promoted(s) : s.jobs[k].by = {l}}
    IN  Cancel([s EXCEPT !.jobs = [k \in Items |-> [s.jobs[k] EXCEPT !.by = @ \ {l}]]], left)

\* start(): demand beyond one source ends the speculation.
StartInner(s, l) ==
    LET s1 == [s EXCEPT !.demand = @ \union {l}, !.ld[l].src = TRUE]
    IN  IF Running(s1) > 1 THEN Cancel(s1, s1.active) ELSE s1

Settle(s, l) == [s EXCEPT !.ld[l].reuse = FALSE, !.ld[l].pin = {}]      \* cleanup
StartOrigin(s, l) ==
    IF s.ld[l].won # "none" \/ s.ld[l].src THEN s ELSE StartInner(s, l)

Forget(s, l) == [s EXCEPT !.latest = {d \in @ : d.l # l \/ d.id # s.ld[l].token}]

\* complete and deliver: a load that failed is no guide to what comes next.
Deliver(s, l, good) ==
    IF ~s.ld[l].open THEN s
    ELSE Fate([IF good THEN s ELSE Forget(s, l) EXCEPT !.ld[l].open = FALSE], l, "answered")

\* (For checking AnsweredOnce: an aborted load is not told.)
GiveUpSilent(s, l, fate) ==
    [Leave(Settle(Forget(s, l), l), l) EXCEPT
        !.ld[l].token = 0, !.ld[l].src = FALSE, !.ld[l].open = FALSE, !.demand = @ \ {l}]

\* cancel(): all that the load waits on is left; onAbort unless destroyed.
GiveUp(s, l, fate) ==
    LET s1 == IF s.ld[l].open THEN Forget(s, l) ELSE s
        s2 == [Leave(Settle(s1, l), l) EXCEPT
                  !.ld[l].token = 0, !.ld[l].src = FALSE, !.ld[l].open = FALSE, !.demand = @ \ {l}]
    IN  IF s.ld[l].open THEN Fate(s2, l, fate) ELSE s2

\* (For checking NeverStranded: the waiting loads are cut off, not resumed.)
ClearUnresumed(s) ==
    [Without(Cancel([s EXCEPT !.queue = <<>>, !.latest = {}, !.declined = {}], Items), Items) EXCEPT
        !.conts = {}]

\* clear(): nothing speculative survives. Each load that waits on reuse goes
\* to its inner loader; its promise can tell it nothing any more (revision).
Clear(s) ==
    LET s1 == Without(Cancel([s EXCEPT !.queue = <<>>, !.latest = {}, !.declined = {}], Items), Items)
        waiting == {l \in Loaders : s.ld[l].reuse}
    IN  [s1 EXCEPT !.conts = {c \in @ : c.l \notin waiting},
                   !.ld = [l \in Loaders |->
                             IF l \in waiting
                             THEN [@[l] EXCEPT !.reuse = FALSE, !.pin = {}, !.src = TRUE]
                             ELSE @[l]],
                   !.demand = @ \union {l \in waiting : ~s.ld[l].src}]

-----------------------------------------------------------------------------
(* The page: loads, aborts and destroys.                                    *)

\* noteDemand: plan the two fragments after k, drop everything else. A plan
\* deferred before keeps its deadline.
Note(s, l, k) ==
    LET keep == {k} \union Upcoming(k)
        Planned(n) == LET old == {i \in ToSet(s.queue) : i.kept /\ i.k = n}
                      IN  IF old = {} THEN NewItem(n) ELSE CHOOSE i \in old : TRUE
        s1 == [s EXCEPT !.latest = {}, !.declined = {}]
    IN  IF closed THEN s1
        ELSE [Cancel(Without(s1, Items \ keep), Items \ keep) EXCEPT
                !.queue = [n \in 1..Cardinality(Upcoming(k)) |-> Planned(k + n)],
                !.latest = {[l |-> l, id |-> s.ld[l].token, k |-> k]}]

\* A load joins the fetch of its fragment: the first to do so takes it over
\* from the speculation and from its timer.
Join(s, l, k) ==
    LET s1 == [s EXCEPT !.jobs[k].by = @ \union {l}]
    IN  IF k \in s.active /\ Promoted(s) = {}
        THEN [s1 EXCEPT !.active = {}, !.jobs[k].up = TRUE]
        ELSE s1

Wait(s, l, k, got) ==
    [s EXCEPT !.ld[l].reuse = TRUE,
              !.conts = @ \union {[l |-> l, id |-> s.ld[l].token, k |-> k, got |-> got]}]

Load(l, k) ==
    /\ Cardinality({m \in Loaders \X (1..MaxLoads) : w.asked[m[1]][m[2]] # "unasked"}) < MaxLoads
    /\ LET s0 == GiveUp(w, l, "answered")
           s1 == [s0 EXCEPT !.ld[l] = [NewLoader EXCEPT !.token = NewToken(s0, l), !.open = TRUE, !.k = k],
                            !.asked[l][Asked(s0, l) + 1] = "open", !.due = TRUE]
           s2 == Note(s1, l, k)
       IN  Step(IF k \in Cached(s2) THEN Wait(s2, l, k, "row")
                ELSE IF Live(s2, k) THEN Wait(Join(s2, l, k), l, k, "pending")
                ELSE StartInner(s2, l))
    /\ UNCHANGED <<env, faults>>

Abort(l) == w.ld[l].open /\ Step(GiveUp(w, l, "answered")) /\ UNCHANGED <<env, faults>>

\* hls.js destroys a loader from inside the callback that answers it, too.
Destroy(l) ==
    /\ w.ld[l].token # 0
    /\ Step(GiveUp(w, l, "dropped")) /\ UNCHANGED <<env, faults>>

-----------------------------------------------------------------------------
(* A load that waits on reuse, and the inner loader it may run beside.      *)
Drop(s, c) == [s EXCEPT !.conts = @ \ {c}]

\* What it waited on has settled. A failure of the fetch is the load's own;
\* verified bytes are pinned while their authority is asked for again, and
\* `now` the player's buffer leaves no time for that.
Continue(c) ==
    /\ c.got \in {"row", "null", "fail"}
    /\ LET s == Leave(Drop(w, c), c.l) IN
       \/ ~Current(w, c) /\ Step(Drop(w, c))
       \/ Current(w, c) /\ c.got = "null" /\ Step(StartOrigin(Settle(s, c.l), c.l))
       \/ /\ Current(w, c) /\ c.got = "fail"
          /\ Step(Deliver([Settle(s, c.l) EXCEPT !.ld[c.l].won = "origin"], c.l, FALSE))
       \/ /\ Current(w, c) /\ c.got = "row"
          /\ LET held == [s EXCEPT !.ld[c.l].pin = {c.k}, !.conts = @ \union {[c EXCEPT !.got = "auth"]}]
             IN  \E now \in BOOLEAN : Step(IF now THEN StartOrigin(held, c.l) ELSE held)
    /\ UNCHANGED <<env, faults>>

\* reuseBudget has run out while authority is asked.
ReuseTimer(l) ==
    /\ Task /\ w.ld[l].reuse /\ w.ld[l].pin # {} /\ ~w.ld[l].src
    /\ Step(StartOrigin(w, l)) /\ UNCHANGED <<env, faults>>

AuthAnswers(c, ok) ==
    /\ c.got = "auth"
    /\ LET s == Drop(w, c) IN
       IF ~Current(w, c) \/ w.ld[c.l].won = "origin" THEN ok /\ Step(s)
       ELSE IF ok THEN Step([Deliver([Settle(s, c.l) EXCEPT !.ld[c.l].won = "cache"], c.l, TRUE) EXCEPT
                                !.demand = @ \ {c.l}, !.due = TRUE])
       ELSE Step(StartOrigin(Without(s, {c.k}), c.l))
    /\ Unless(ok) /\ UNCHANGED env

\* Its first bytes: reuse is too late.
OriginProgress(l) ==
    /\ Task /\ l \in w.demand /\ w.ld[l].reuse /\ w.ld[l].src /\ ~closed
    /\ Step([Settle(w, l) EXCEPT !.ld[l].won = "origin"])
    /\ UNCHANGED <<env, faults>>

OriginEnds(l, good) ==
    /\ Task /\ l \in w.demand
    /\ Step(Deliver([Settle(w, l) EXCEPT !.ld[l].won = "origin", !.demand = @ \ {l}, !.due = TRUE], l, good))
    /\ Unless(good) /\ UNCHANGED env

-----------------------------------------------------------------------------
(* Fetching ahead.                                                          *)

\* promotedHeadroom: a promoted fetch leaves room for another only while its
\* player has time (`headroom`).
Headroom(s, headroom) == \A k \in Promoted(s) : Live(s, k) => Genuine(s, k) /\ headroom
PumpMay(s, headroom) ==
    /\ ~closed /\ s.active = {} /\ allowed /\ s.queue # <<>>
    /\ Running(s) <= 1 /\ Headroom(s, headroom)

\* The oldest verified ones make room.
Room(s) == WithoutOldest(s, Cardinality(Tracked(s)) + 1 - MaxObjects)

\* One item of the queue, from a microtask. One that is here or coming, whose
\* old deadline has passed (`late`) or that is wanted no more is skipped.
Pump ==
    /\ w.due
    /\ \E headroom, late \in BOOLEAN :
        LET s == [w EXCEPT !.due = FALSE]
            item == Head(s.queue)
            rest == [s EXCEPT !.queue = Tail(@)]
            room == Room(rest)
            seen == IF item.re THEN s.latest ELSE {}
        IN  IF ~PumpMay(s, headroom) THEN Step(s)
            ELSE IF item.k \in Tracked(s) \/ (item.kept /\ (late \/ ~Wanted(s, item.k)))
            THEN Step([rest EXCEPT !.due = TRUE])
            ELSE IF Cardinality(Tracked(room)) >= MaxObjects THEN Step(room)
            ELSE Step([room EXCEPT
                    !.active = {item.k},
                    !.jobs[item.k] = [NoJob EXCEPT !.at = "auth", !.re = item.re, !.seen = seen]])
    /\ UNCHANGED <<env, faults>>

\* deferSpeculation: only metadata goes back, its deadline with it.
Defer(s, k) ==
    LET item == [k |-> k, kept |-> TRUE, re |-> s.jobs[k].re]
    IN  IF ~Wanted(s, k) THEN s
        ELSE [s EXCEPT !.queue = IF k \in Queued(s)
                                 THEN [n \in DOMAIN @ |-> IF @[n].k = k THEN item ELSE @[n]]
                                 ELSE <<item>> \o @]

\* A fragment left to another contributor may be reconsidered once.
Decline(s, k) ==
    IF s.jobs[k].re \/ ~Wanted(s, k) \/ Cardinality(s.declined) >= 2 THEN s
    ELSE [s EXCEPT !.declined = @ \union {k}]

\* Its bytes are reserved; the oldest verified ones make room for them.
Reserve(s, k) ==
    LET fits == {n \in 0..Cardinality(Cached(s)) : BytesHeld(WithoutOldest(s, n)) + Size[k] <= MaxBytes}
    IN  IF fits = {} THEN Finish(Without(s, Cached(s)), {k}, "null")
        ELSE [WithoutOldest(s, Min(fits)) EXCEPT !.jobs[k].at = "load", !.jobs[k].size = Size[k]]

\* The permit is here, or not: every condition is looked at again.
AuthEnds(k, ok) ==
    LET genuine == Genuine(w, k)
        stale == \/ w.jobs[k].dead \/ ~allowed
                 \/ w.jobs[k].re /\ ~genuine /\ w.latest # w.jobs[k].seen
    IN  /\ w.jobs[k].at = "auth"
        /\ \/ (stale => ok) /\ (stale \/ ~ok) /\ Step(Finish(w, {k}, "null"))
           \/ /\ ~stale /\ ok /\ ~genuine
              /\ \/ ~Headroom(w, FALSE) /\ Step(Finish(Defer(w, k), {k}, "null"))
                 \/ Headroom(w, TRUE) /\ Step(Finish(Decline(w, k), {k}, "null"))
           \/ ~stale /\ ok /\ (genuine \/ Headroom(w, TRUE)) /\ Step(Reserve(w, k))
        /\ Unless(ok) /\ UNCHANGED env

\* A failure goes to the loads that have joined.
LoadEnds(k, got) ==
    /\ Task /\ w.jobs[k].at = "load"
    /\ Step(IF got = "data" THEN [w EXCEPT !.jobs[k].at = "check"] ELSE Finish(w, {k}, got))
    /\ Unless(got = "data") /\ UNCHANGED env

CheckEnds(k, valid) ==
    /\ w.jobs[k].at = "check"
    /\ IF w.jobs[k].dead \/ ~valid THEN Step(Finish(w, {k}, "null"))
       ELSE Step(Finish(Keep(w, k), {k}, "row"))
    /\ Unless(valid) /\ UNCHANGED env

\* Eight seconds have passed, and no load has joined.
JobTimer(k) ==
    /\ Task /\ Live(w, k) /\ ~w.jobs[k].up
    /\ Step(Cancel(w, {k})) /\ UNCHANGED <<env, faults>>

\* reconsiderHave: a contributor has it now, unless the deadline has passed.
ReconsiderHave(k) ==
    /\ Task /\ k \in w.declined /\ ~closed
    /\ LET s == [w EXCEPT !.declined = @ \ {k}] IN
       \E late \in BOOLEAN :
         Step(IF late \/ ~allowed \/ ~Wanted(w, k) \/ k \in Cached(w) \union Queued(w) THEN s
              ELSE [s EXCEPT !.queue = Append(@, [k |-> k, kept |-> TRUE, re |-> TRUE]), !.due = TRUE])
    /\ UNCHANGED <<env, faults>>

-----------------------------------------------------------------------------
(* The page's host.                                                         *)
ClearAll == Task /\ ~closed /\ Step(Clear(w)) /\ Fault /\ UNCHANGED env     \* clear()
Stop == Task /\ ~closed /\ closed' = TRUE /\ Step(Clear(w)) /\ Fault /\ UNCHANGED allowed
Release(k) == Task /\ k \in Cached(w) /\ Step(Without(w, {k})) /\ Fault /\ UNCHANGED env
Allow == Task /\ ~closed /\ allowed' = ~allowed /\ (IF allowed THEN Fault ELSE UNCHANGED faults) /\ UNCHANGED <<w, closed>>

Next ==
    \/ \E l \in Loaders, k \in Plays : Load(l, k)
    \/ \E l \in Loaders : Abort(l) \/ Destroy(l) \/ ReuseTimer(l) \/ OriginProgress(l)
    \/ \E l \in Loaders, good \in BOOLEAN : OriginEnds(l, good)
    \/ \E c \in w.conts : Continue(c)
    \/ \E c \in w.conts, ok \in BOOLEAN : AuthAnswers(c, ok)
    \/ Pump
    \/ \E k \in Items, ok \in BOOLEAN : AuthEnds(k, ok) \/ CheckEnds(k, ok)
    \/ \E k \in Items, got \in {"data", "fail", "null"} : LoadEnds(k, got)
    \/ \E k \in Items : JobTimer(k) \/ ReconsiderHave(k) \/ Release(k)
    \/ ClearAll \/ Stop \/ Allow

Spec == Init /\ [][Next]_vars

-----------------------------------------------------------------------------
(* Every load asked of a wrapped loader is answered by exactly one callback,*)
(* whether the cache, a joined fetch, its own inner loader, an abort or a   *)
(* stop decides it (terminal.settled, the tokens of load() and cancel()).   *)
Contract == INSTANCE LoadContract WITH asked <- w.asked
AnsweredOnce == Contract!Spec

(* What is held and fetched ahead stays within MaxObjects and MAX_BYTES,    *)
(* counting cancelled fetches whose validators still own their bodies, and  *)
(* at most one live fetch is speculative (docs/API.md:163-173).             *)
BoundsKept ==
    /\ Cardinality(Cached(w) \union Fetching(w)) <= MaxObjects
    /\ BytesHeld(w) <= MaxBytes
    /\ Cardinality({k \in Items : Live(w, k) /\ ~w.jobs[k].up /\ w.jobs[k].by = {}}) <= 1

(* A load that is not answered yet has its inner loader running or waits on *)
(* a promise that will settle: a cancelled fetch, a clear() or a refused    *)
(* permit never leaves it with neither (startOrigin, reuseWaiters).         *)
NeverStranded ==
    \A l \in Loaders : w.ld[l].open =>
        \/ l \in w.demand
        \/ \E c \in w.conts : c.l = l /\ Current(w, c) /\ (c.got = "pending" => c.k \in Fetching(w))

(* Verified bytes are kept from eviction only for a load that is still      *)
(* waiting and for its own fragment: a promise that settles for an earlier  *)
(* load of the same loader pins nothing (current(), cleanup).               *)
PinsFreed ==
    \A l \in Loaders : w.ld[l].pin # {} =>
        w.ld[l].open /\ w.ld[l].reuse /\ w.ld[l].won = "none" /\ w.ld[l].pin = {w.ld[l].k}
=============================================================================
