------------------------------ MODULE Transfer ------------------------------
(***************************************************************************)
(* One object fetched by pieces from several holders and the origin at     *)
(* once: `Transfer' of core/relayswarm-proto/src/scheduler.rs.             *)
(*                                                                         *)
(* The state is one record, t, and each method of the Rust struct is an    *)
(* operator from a record to the set of records it may leave: rates and    *)
(* times are not modelled, so that a plan may divide the pieces among the  *)
(* sources in every way that some rates bring about.  Of the clock only    *)
(* one thing matters, whether the origin floor has passed (t.due).         *)
(*                                                                         *)
(* Before some definitions stands a variant of it with one mistake in it.  *)
(* Nothing uses those: they are what the properties are tried against.     *)
(***************************************************************************)
EXTENDS Integers, Sequences, FiniteSets

CONSTANTS
    PeerCount,    \* the holders are 1 .. PeerCount
    PieceCount,   \* the pieces are 0 .. PieceCount - 1
    MaxHolders,   \* TransferConfig.max_holders
    PeerCap,      \* the pieces of one request to a peer (peer_piece_cap)
    TailCap,      \* the pieces an exclusive origin may hold back (origin_tail_cap)
    EndgameSize,  \* ENDGAME_PIECES
    Case,         \* the transfers to consider: their mode, whether the object is
                  \* sound, and whether the core runs in a worker
    MaxReplies    \* bound on a worker's replies under way (maxPending, 32)

ASSUME CountAssumption == PeerCount \in Nat /\ PieceCount \in Nat \ {0}
ASSUME CapAssumption ==
    /\ MaxHolders \in Nat \ {0}
    /\ PeerCap \in Nat \ {0}
    /\ TailCap \in Nat
    /\ EndgameSize \in Nat
ASSUME CaseAssumption ==
    Case \subseteq [mode : {"mixed", "exclusive", "peer_only"}, sound : BOOLEAN,
                    worker : BOOLEAN]
ASSUME ReplyAssumption == MaxReplies \in Nat \ {0}

Peer == 1 .. PeerCount
Origin == 0
Source == Peer \cup {Origin}
Piece == 0 .. PieceCount - 1

-----------------------------------------------------------------------------
(* Ranges of pieces, end exclusive, and queues of them.                    *)

PieceRange == [start : 0 .. PieceCount, end : 0 .. PieceCount]

Span(r) == r.start .. r.end - 1
NonEmpty(r) == r.start < r.end
In(q) == UNION {Span(q[i]) : i \in DOMAIN q}

\* The pieces of a queue with their places, and how many there are.
Places(q) == UNION {{i} \X Span(q[i]) : i \in DOMAIN q}
Length(q) == Cardinality(Places(q))

Lesser(m, n) == IF m < n THEN m ELSE n
Less(m, n) == IF m > n THEN m - n ELSE 0    \* saturating_sub

\* The second members of a finite set of pairs of numbers, in the order of
\* the pairs; and the members of a set of numbers, in order.
Precedes(a, b) == a[1] < b[1] \/ (a[1] = b[1] /\ a[2] < b[2])
Place(P, a) == Cardinality({b \in P : Precedes(b, a)}) + 1
Listed(P) == [i \in 1 .. Cardinality(P) |-> (CHOOSE a \in P : Place(P, a) = i)[2]]
Ascending(S) == Listed({0} \X S)

\* The ranges of a sequence that are not empty.
Proper(q) == LET at == Ascending({i \in DOMAIN q : NonEmpty(q[i])})
             IN  [k \in DOMAIN at |-> q[at[k]]]

\* Where the first n pieces of queue q end in its i-th range.
Border(q, n, i) ==
    Lesser(q[i].end, q[i].start + Less(n, Length(SubSeq(q, 1, i - 1))))
First(q, n) == Proper([i \in DOMAIN q |-> [q[i] EXCEPT !.end = Border(q, n, i)]])
Rest(q, n) == Proper([i \in DOMAIN q |-> [q[i] EXCEPT !.start = Border(q, n, i)]])

\* The contiguous runs of a sequence of pieces: each begins where a piece
\* does not follow the one before, and goes on while the pieces do.
Run(pieces, i) ==
    [start |-> pieces[i],
     end |-> pieces[i] + Cardinality({j \in i .. Len(pieces) :
                             \A m \in i .. j : pieces[m] = pieces[i] + (m - i)})]
Runs(pieces) ==
    LET at == Ascending({i \in DOMAIN pieces : i = 1 \/ pieces[i] # pieces[i - 1] + 1})
    IN  [k \in DOMAIN at |-> Run(pieces, at[k])]
Ranges(S) == Runs(Ascending(S))

Without(q, i) == [j \in 1 .. Len(q) - 1 |-> IF j < i THEN q[j] ELSE q[j + 1]]

-----------------------------------------------------------------------------
(* The state of a transfer.                                                *)

\* What a source has queued and in flight.  Origin may have several ranges in
\* flight, a peer one.  `measured': a rate of this source is known.
Lane == [queue : Seq(PieceRange), flight : Seq(PieceRange), retired : BOOLEAN,
         measured : BOOLEAN]

\* `sound': the object whose pieces match has the committed hash.  `spare' is
\* probe_available, `begun' is origin_started.  `live' are the peers with a
\* Request that was neither answered nor taken back by Cancel or Abandon,
\* `ended' the Deliver and Fail commands so far.
TransferState ==
    [mode : {"mixed", "exclusive", "peer_only"}, sound : BOOLEAN,
     started : BOOLEAN, due : BOOLEAN, floor : BOOLEAN, finished : BOOLEAN,
     verified : SUBSET Piece, lane : [Source -> Lane],
     probes : SUBSET Peer, spare : SUBSET Peer, pending : SUBSET Piece,
     duplicated : SUBSET Piece, begun : BOOLEAN, live : SUBSET Peer,
     ended : Seq({"deliver", "fail"})]

EmptyLane(measured) == [queue |-> <<>>, flight |-> <<>>, retired |-> FALSE,
                        measured |-> measured]

\* Transfer::new, new_peer_only and with_exclusive_origin.
NewTransfer(mode, sound) ==
    [mode |-> mode, sound |-> sound, started |-> FALSE, due |-> FALSE,
     floor |-> FALSE, finished |-> FALSE, verified |-> {},
     lane |-> [s \in Source |-> EmptyLane(FALSE)], probes |-> {}, spare |-> {},
     pending |-> {}, duplicated |-> {}, begun |-> FALSE, live |-> {},
     ended |-> <<>>]

Held(T, s) == IF T.lane[s].retired THEN {}
              ELSE In(T.lane[s].queue) \cup In(T.lane[s].flight)
Covered(T) == T.verified \cup UNION {Held(T, s) : s \in Source}
Unverified(T) == Piece \ T.verified
Idle(T, s) == T.lane[s].queue = <<>> /\ T.lane[s].flight = <<>>
LivePeers(T) == {p \in Peer : ~T.lane[p].retired}
\* Peers that may take ordinary work at once.
Ready(T) == {p \in LivePeers(T) \ T.probes : Idle(T, p) /\ T.lane[p].measured}

-----------------------------------------------------------------------------
(* Ending.                                                                 *)

CloseOutQuietly(T) ==    \* with a mistake in it
    [T EXCEPT !.finished = TRUE, !.pending = {},
              !.lane = [s \in Source |-> [@[s] EXCEPT !.queue = <<>>, !.flight = <<>>]]]

CloseOut(T) ==
    [T EXCEPT !.finished = TRUE, !.pending = {},
              !.live = {p \in @ : T.lane[p].flight = <<>>},
              !.lane = [s \in Source |-> [@[s] EXCEPT !.queue = <<>>, !.flight = <<>>]]]

Fail(T) == [CloseOut(T) EXCEPT !.ended = Append(@, "fail")]

Finish(T) == IF T.sound THEN [CloseOut(T) EXCEPT !.ended = Append(@, "deliver")]
             ELSE Fail(T)

-----------------------------------------------------------------------------
(* Issuing work.                                                           *)

\* An exclusive origin keeps a tail back while a probe is out, so that a
\* peer the probe proves good can still be given something.
HoldTail(T) == /\ T.mode = "exclusive" /\ ~T.begun /\ ~T.floor
               /\ \E p \in T.probes : ~T.lane[p].retired /\ T.lane[p].flight # <<>>

\* The pieces that issue sends: one bounded range to an idle peer, all of
\* its queue to origin, but nothing to an exclusive one that has work in flight.
Sendable(T, s) ==
    LET lane == T.lane[s]
        queued == Length(lane.queue)
    IN  IF s # Origin
        THEN IF lane.flight # <<>> \/ queued = 0 THEN 0
             ELSE Lesser(PeerCap, Head(lane.queue).end - Head(lane.queue).start)
        ELSE IF T.mode = "exclusive" /\ lane.flight # <<>> THEN 0
        ELSE IF HoldTail(T) THEN queued - Lesser(TailCap, Less(queued, 1))
        ELSE queued

Sent(lane, n) == [lane EXCEPT !.flight = @ \o First(lane.queue, n),
                              !.queue = Rest(lane.queue, n)]

Issue(T, s) ==
    LET n == Sendable(T, s)
    IN  [T EXCEPT !.lane[s] = Sent(@, n),
                  !.begun = @ \/ (s = Origin /\ n > 0),
                  !.live = IF s # Origin /\ n > 0 THEN @ \cup {s} ELSE @]

\* Queue ranges for source s, and issue.
Give(T, s, ranges) == Issue([T EXCEPT !.lane[s].queue = @ \o ranges], s)

\* Each range is issued when it is queued: whatever origin does with the
\* first, it sends or keeps the others together.
QueueOriginLater(T, ranges) ==    \* with a mistake in it
    IF T.mode = "peer_only" THEN Fail(T)
    ELSE [T EXCEPT !.lane[Origin].queue = @ \o ranges]

QueueOrigin(T, ranges) ==
    IF ranges = <<>> THEN T
    ELSE IF T.mode = "peer_only" THEN Fail(T)
    ELSE Give(Give(T, Origin, <<Head(ranges)>>), Origin, Tail(ranges))

\* A plan is a function from pieces to the sources that get them; carry one
\* out.  The peers' shares go out first, and do not touch each other.
Share(plan, s) == {x \in DOMAIN plan : plan[x] = s}

Deal(T, plan) ==
    LET Served(p) == Give(T, p, Ranges(Share(plan, p)))
        dealt == [T EXCEPT
                    !.lane = [s \in Source |->
                                IF s = Origin \/ Share(plan, s) = {} THEN @[s]
                                ELSE Served(s).lane[s]],
                    !.live = {p \in Peer : p \in @ \/ (Share(plan, p) # {}
                                                       /\ p \in Served(p).live)}]
    IN  IF Share(plan, Origin) = {} THEN dealt
        ELSE Give(dealt, Origin, Ranges(Share(plan, Origin)))

-----------------------------------------------------------------------------
(* Planning.  Rates decide who comes first and who gets how much; here any *)
(* division is possible that some rates give: each peer gets a run of the  *)
(* needed pieces, and origin, where it has a part, the last of them.       *)

Together(plan) ==
    /\ \A x, y, z \in DOMAIN plan : x < y /\ y < z /\ plan[x] = plan[z] => plan[y] = plan[x]
    /\ \A x, y \in DOMAIN plan : x < y /\ plan[x] = Origin => plan[y] = Origin

\* Peers alone (split).
AlonePlans(needed, peers) == {plan \in [needed -> peers] : Together(plan)}

\* Peers keep what they can finish, origin takes the tail (tail_to_origin).
\* An untested peer the plan gets to has at least one piece; past the floor
\* nobody has more.
TailPlans(T, needed, peers) ==
    {plan \in [needed -> peers \cup {Origin}] :
        /\ Together(plan)
        /\ Share(plan, Origin) # {} =>
              \A p \in peers : ~T.lane[p].measured => Share(plan, p) # {}
        /\ T.due => \A p \in peers :
              Cardinality(Share(plan, p)) <= IF T.lane[p].measured THEN 0 ELSE 1}

\* `plan' serves at most `slots' of the peers, those with the best rates.
Chosen(peers, slots) ==
    {some \in SUBSET peers : Cardinality(some) = Lesser(Cardinality(peers), slots)}

Plans(T, needed, peers, slots) ==
    UNION {TailPlans(T, needed, some) : some \in Chosen(peers, slots)}

\* One piece each, in order, for the first `slots' of the peers.
Rank(S, x) == Cardinality({y \in S : y <= x})
Probes(needed, peers, slots) ==
    [x \in {x \in needed : Rank(needed, x) <= Lesser(slots, Cardinality(peers))} |->
        Ascending(peers)[Rank(needed, x)]]
Probed(probes) == {probes[x] : x \in DOMAIN probes}

ActiveHolders(T) == {s \in Source : ~T.lane[s].retired /\ ~Idle(T, s)}

\* refill_peer_only: idle holders that are measured take all that is
\* pending, or else probes take a piece each.
Refill(T) ==
    LET u == [T EXCEPT !.pending = @ \ Covered(T)]
        slots == Less(MaxHolders, Cardinality(ActiveHolders(T)))
        probes == Probes(u.pending, {p \in LivePeers(T) \cap T.spare : Idle(T, p)}, slots)
    IN  IF T.finished \/ ~T.started THEN {T}
        ELSE IF T.due THEN {Fail([T EXCEPT !.floor = TRUE])}
        ELSE IF LivePeers(T) = {} THEN {Fail(u)}
        ELSE IF slots = 0 \/ u.pending = {} THEN {u}
        ELSE IF Ready(T) # {}
             THEN {Deal([u EXCEPT !.pending = {}], plan) :
                     plan \in UNION {AlonePlans(u.pending, some) :
                                       some \in Chosen(Ready(T), slots)}}
        ELSE {Deal([u EXCEPT !.spare = @ \ Probed(probes),
                             !.pending = @ \ DOMAIN probes],
                   probes)}

\* assign.
Assign(T, pieces) ==
    LET probes == Probes(pieces, LivePeers(T) \cap T.probes \cap T.spare, MaxHolders)
        m == Cardinality(DOMAIN probes)
        others == IF m = MaxHolders THEN {} ELSE LivePeers(T) \ T.probes
        Both(plan) == [x \in pieces |-> IF x \in DOMAIN probes THEN probes[x] ELSE plan[x]]
    IN  IF T.mode = "peer_only"
        THEN Refill([T EXCEPT !.pending = @ \cup (pieces \ Covered(T))])
        ELSE IF pieces = {} \/ T.finished THEN {T}
        ELSE IF T.mode = "exclusive" /\ ~T.begun /\ Cardinality(pieces) = 1
             THEN {QueueOrigin(T, Ranges(pieces))}
        ELSE {Deal([T EXCEPT !.spare = @ \ Probed(probes)], Both(plan)) :
                plan \in Plans(T, pieces \ DOMAIN probes, others, MaxHolders - m)}

\* The methods that follow run one after the other on what an earlier one
\* may have left.
Then(states, Op(_)) == UNION {Op(u) : u \in states}

-----------------------------------------------------------------------------
(* Moving work.                                                            *)

Retired(T, s) == [T EXCEPT !.lane[s].retired = TRUE, !.lane[s].queue = <<>>,
                           !.lane[s].flight = <<>>]

\* What nobody else has when lane s is taken out (retire, then covered).
FreedInFlight(T, s) ==    \* with a mistake in it
    In(T.lane[s].flight) \ Covered(Retired(T, s))

Freed(T, s) == Held(T, s) \ Covered(Retired(T, s))

Cancelled(T, p) == [T EXCEPT !.live = @ \ {p}]

\* An exclusive origin drops from its queue what peers take over.
ClaimNothing(T, pieces) == T    \* with a mistake in it

Claim(T, pieces) ==
    IF T.mode # "exclusive" THEN T
    ELSE [T EXCEPT !.lane[Origin].queue =
            Runs(Listed({a \in Places(@) : a[2] \notin pieces}))]

\* Origin's pieces that no peer has go to idle measured peers, from the tail
\* (rebalance_origin).  A busy peer that works for itself keeps its share.
\* How many those idle can finish in time is not known here.
Rebalance(T) ==
    LET origin == T.lane[Origin]
        owed == Unverified(T) \cap
                  (In(origin.queue) \cup IF T.mode = "exclusive" THEN {} ELSE In(origin.flight))
        pending == owed \ UNION {Held(T, p) : p \in Peer}
        idle == Ready(T)
        busy == {p \in LivePeers(T) \ idle : owed \cap Held(T, p) = {}}
        both == Cardinality(idle) + Cardinality(busy)
        share == (Cardinality(pending) * Cardinality(idle) + both - 1) \div both
        LastOnes(n) == {x \in pending : Cardinality({y \in pending : y > x}) < n}
        InTurn(plan) == \A x, y \in DOMAIN plan : x < y => plan[x] <= plan[y]
    IN  IF T.finished \/ T.floor \/ pending = {} \/ idle = {} \/ T.due THEN {T}
        ELSE {T} \cup UNION {{Deal(Claim(T, LastOnes(n)), plan) :
                                plan \in {plan \in AlonePlans(LastOnes(n), idle) :
                                            InTurn(plan)}} :
                              n \in 1 .. share}

\* A request is given up as hopeless (abandon).
Abandon(T, p) ==
    Then(Assign(Retired(Cancelled(T, p), p), Freed(T, p)), Rebalance)

\* Peers whose range others have verified are cancelled, in turn.
DropRedundant(T, winner) ==
    LET redundant == {p \in LivePeers(T) \ {winner} :
                        T.lane[p].flight # <<>> /\ In(T.lane[p].flight) \subseteq T.verified}
        after[p \in 0 .. PeerCount] ==
            IF p = 0 THEN {T}
            ELSE IF p \notin redundant THEN after[p - 1]
            ELSE UNION {Assign(Retired(Cancelled(u, p), p), Freed(u, p)) :
                          u \in after[p - 1]}
    IN  after[PeerCount]

\* bad_piece: ban a peer and give away all that nobody has.
BadPieceFails(T, s) == {Fail(T)}    \* with a mistake in it

BadPiece(T, s) ==
    IF s = Origin THEN {Fail(T)}
    ELSE Assign(Retired(T, s), Piece \ Covered(Retired(T, s)))

\* failed: none, timeout, close or a wrong length.
Failed(T, s) ==
    IF T.finished THEN {T}
    ELSE IF s = Origin THEN {IF T.mode = "peer_only" THEN T ELSE Fail(T)}
    ELSE IF T.lane[s].retired THEN {T}
    ELSE Then(Assign(Retired(T, s), Freed(T, s)), Rebalance)

\* With few pieces left, a source behind its projection has them sent for a
\* second time, to the fastest idle peer or to origin.  Whether one is behind
\* is not known here.
EndgamePieces(T) ==
    IF T.mode = "exclusive" \/ T.floor \/ Cardinality(Unverified(T)) > EndgameSize THEN {}
    ELSE Unverified(T) \ T.duplicated

EndgameSources(T) ==
    IF T.mode = "peer_only"
    THEN IF Cardinality(ActiveHolders(T)) >= MaxHolders THEN {} ELSE Ready(T)
    ELSE LET idle == {p \in LivePeers(T) : Idle(T, p)} IN
         IF idle = {} THEN {Origin} ELSE idle

Endgame(T) ==
    LET pieces == EndgamePieces(T)
        late == {s \in Source : T.lane[s].flight # <<>> /\ Held(T, s) \cap pieces # {}}
        marked == [T EXCEPT !.duplicated = @ \cup pieces]
    IN  IF late = {} THEN {T}
        ELSE {T} \cup {Give(marked, s, Ranges(pieces)) : s \in EndgameSources(T)}

\* tick.  At the floor every peer loses what it has to origin; before it,
\* requests that stall are given up and the endgame may begin.
LateButProbes(T) ==    \* with a mistake in it
    {p \in LivePeers(T) \ T.probes : ~Idle(T, p)}

Late(T) == {p \in LivePeers(T) : ~Idle(T, p)}

AtFloor(T) ==
    LET peers == Late(T)
        floored == [T EXCEPT !.floor = TRUE, !.live = @ \ peers,
                             !.lane = [s \in Source |->
                                IF s \in peers
                                THEN [@[s] EXCEPT !.retired = TRUE, !.queue = <<>>,
                                                  !.flight = <<>>]
                                ELSE @[s]]]
        taken == UNION {Held(T, p) : p \in peers}
    IN  QueueOrigin(floored, Ranges(taken \ Covered(floored)))

Watched(T) == {p \in LivePeers(T) : T.lane[p].flight # <<>> /\ ~T.floor}

Tick(T) ==
    IF T.finished THEN {T}
    ELSE IF T.mode = "peer_only"
         THEN IF T.due THEN {Fail([T EXCEPT !.floor = TRUE])} ELSE Endgame(T)
    ELSE IF ~T.floor /\ T.due THEN {AtFloor(T)}
    ELSE LET judged[p \in 0 .. PeerCount] ==
                 IF p = 0 THEN {T}
                 ELSE IF p \notin Watched(T) THEN judged[p - 1]
                 ELSE judged[p - 1] \cup
                        UNION {IF u.finished THEN {u} ELSE Abandon(u, p) :
                                 u \in judged[p - 1]}
         IN  Then(UNION {Endgame(u) : u \in judged[PeerCount]}, Rebalance)

\* progress: a request that flows is judged.
Progress(T, p) ==
    IF T.mode = "peer_only" THEN IF T.due THEN Tick(T) ELSE {T}
    ELSE IF T.finished \/ T.floor THEN {T}
    ELSE {T} \cup Abandon(T, p)

\* delivered: the answer for range r, of which the pieces in `good' match
\* their hashes.  A peer that answers well is measured.
Delivered(T, s, r, good) ==
    LET at == CHOOSE i \in DOMAIN T.lane[s].flight : T.lane[s].flight[i] = r
        bad == Span(r) \ (T.verified \cup good)
        fresh == (Span(r) \cap good) \ T.verified
        taken == [T EXCEPT !.lane[s].flight = Without(@, at),
                           !.verified = @ \cup fresh]
        credited == [taken EXCEPT
                       !.lane[s].measured = @ \/ s # Origin,
                       !.probes = IF fresh = {} THEN @ ELSE @ \ {s},
                       !.spare = IF fresh = {} THEN @ ELSE @ \ {s}]
        Next1(u) == IF Unverified(u) = {} THEN {Finish(u)}
                    ELSE IF u.mode = "peer_only" THEN Refill(Issue(u, s))
                    ELSE Rebalance(Issue(u, s))
    IN  IF T.mode = "peer_only" /\ T.due THEN Tick(T)
        ELSE IF T.finished \/ \A i \in DOMAIN T.lane[s].flight : T.lane[s].flight[i] # r
        THEN {T}
        ELSE IF bad # {} THEN BadPiece(taken, s)
        ELSE Then(DropRedundant(credited, s), Next1)

-----------------------------------------------------------------------------
(* The page that brings the answers and runs the commands.  The core may   *)
(* run in a worker: a call is then posted, and its commands come back in a *)
(* reply, while the page goes on.  Calls are worked off in order and hold  *)
(* all that the core looks at, so that t is the core after all the calls   *)
(* made so far, and only the replies are late.                             *)

\* The commands of one call, for each peer their net effect: a peer that was
\* cancelled gets no further request.  `fetches' counts Origin commands, and
\* `ends' says that Deliver or Fail is among them.
Commands == [requests : SUBSET Peer, cancels : SUBSET Peer, fetches : Nat,
             ends : BOOLEAN]

\* `open': the peers with a request under way.  `fetching': how many of the
\* ranges that origin has in flight are being fetched, the first ones.
PageState == [worker : BOOLEAN, open : SUBSET Peer, fetching : Nat,
              replies : Seq(Commands), over : BOOLEAN]

VARIABLES t, page

vars == <<t, page>>

Init ==
    \E c \in Case :
        /\ t = NewTransfer(c.mode, c.sound)
        /\ page = [worker |-> c.worker, open |-> {}, fetching |-> 0,
                   replies |-> <<>>, over |-> FALSE]

\* What a call that took the core from T to u has it do.
Made(T, u) ==
    [requests |-> u.live \ T.live, cancels |-> T.live \ u.live,
     fetches |-> Less(Len(u.lane[Origin].flight), Len(T.lane[Origin].flight)),
     ends |-> u.ended # T.ended]

Nothing == [requests |-> {}, cancels |-> {}, fetches |-> 0, ends |-> FALSE]

\* finish: every request is aborted, and later replies are ignored.
Over(P) == [P EXCEPT !.open = {}, !.fetching = 0, !.replies = <<>>, !.over = TRUE]

\* apply and run.
Apply(P, commands) ==
    IF commands.ends THEN Over(P)
    ELSE [P EXCEPT !.open = (@ \cup commands.requests) \ commands.cancels,
                   !.fetching = @ + commands.fetches]

\* submit, from the core as the page's answer found it.
Submit(P, T, u) ==
    /\ t' = u
    /\ page' = IF ~P.worker THEN Apply(P, Made(T, u))
               ELSE IF Made(T, u) = Nothing THEN P
               ELSE [P EXCEPT !.replies = Append(@, Made(T, u))]

MaySubmit == ~page.over /\ Len(page.replies) < MaxReplies

\* start_with_probe_peers: some holders have a known rate, some are to be
\* tried with a piece first.  Without origin every unknown one is.
Start ==
    /\ ~t.started
    /\ \E measured, probes \in SUBSET Peer :
         LET tried == IF t.mode = "peer_only" THEN probes \cup (Peer \ measured) ELSE probes
             begun == [t EXCEPT !.started = TRUE, !.probes = tried, !.spare = tried,
                                !.lane = [s \in Source |-> EmptyLane(s \in measured)]]
         IN  \E u \in Assign(begun, Piece) : Submit(page, begun, u)

\* The page has an answer from p: its request is no longer outstanding.  The
\* core may have given p up meanwhile, with the reply still on its way.
Answered(p) == [t EXCEPT !.live = @ \ {p}]
Closed(p) == [page EXCEPT !.open = @ \ {p}]
Asked(p) == IF p \in t.live
            THEN {t.lane[p].flight[i] : i \in DOMAIN t.lane[p].flight}
            ELSE {[start |-> 0, end |-> 0]}

PeerDelivers(p) ==
    /\ MaySubmit /\ p \in page.open
    /\ \E r \in Asked(p) : \E good \in SUBSET Span(r) :
         \E u \in Delivered(Answered(p), p, r, good) : Submit(Closed(p), Answered(p), u)

PeerFails(p) ==
    /\ MaySubmit /\ p \in page.open
    /\ \E u \in Failed(Answered(p), p) : Submit(Closed(p), Answered(p), u)

PeerFlows(p) ==
    /\ MaySubmit /\ p \in page.open
    /\ \E u \in Progress(t, p) : Submit(page, t, u)

\* A fetch from origin ends, while the core may have ended already.
Fetched == [page EXCEPT !.fetching = @ - 1]
OneFetchLess == [t EXCEPT !.lane[Origin].flight = IF @ = <<>> THEN @ ELSE Tail(@)]

OriginDelivers ==
    /\ MaySubmit /\ page.fetching > 0
    /\ IF t.finished THEN Submit(Fetched, t, t)
       ELSE \E i \in 1 .. page.fetching :
              LET r == t.lane[Origin].flight[i] IN
              \E good \in SUBSET Span(r) : \E u \in Delivered(t, Origin, r, good) :
                 Submit(Fetched, OneFetchLess, u)

OriginFails ==
    /\ MaySubmit /\ page.fetching > 0
    /\ \E u \in Failed(t, Origin) : Submit(Fetched, OneFetchLess, u)

\* The timer, set to next_deadline by apply, may also come late.
TickNow ==
    /\ MaySubmit /\ t.started
    /\ \E u \in Tick(t) : Submit(page, t, u)

\* The worker's next reply.
ReplyArrives ==
    /\ page.replies # <<>>
    /\ page' = Apply([page EXCEPT !.replies = Tail(@)], Head(page.replies))
    /\ t' = t

\* The page ends the transfer before the core does: the load is aborted or
\* withdrawn, its last deadline passes, or the worker fails, is late or full.
\* The core's transfer is freed.
PageEnds ==
    /\ t.started /\ ~page.over
    /\ page' = Over(page)
    /\ t' = [NewTransfer(t.mode, t.sound) EXCEPT !.started = TRUE, !.finished = TRUE]

TimePasses ==
    /\ ~t.due /\ ~page.over
    /\ t' = [t EXCEPT !.due = TRUE]
    /\ UNCHANGED page

Next ==
    \/ Start
    \/ \E p \in Peer : PeerDelivers(p) \/ PeerFails(p) \/ PeerFlows(p)
    \/ OriginDelivers
    \/ OriginFails
    \/ TickNow
    \/ ReplyArrives
    \/ PageEnds
    \/ TimePasses

Spec == Init /\ [][Next]_vars

\* When the timer's call, or an answer from origin, changes the state.
TickDue == MaySubmit /\ t.started /\ ~t.finished /\ t.due /\ ~t.floor
OriginBusy == MaySubmit /\ page.fetching > 0

\* Weak fairness, written out as TLC is slow to find ENABLED.  The shell
\* starts what it creates and arms a timer for next_deadline after every call,
\* which is never later than the floor; after either step, the state that asked
\* for it is over.  Each fetch from origin ends, and no transfer begins
\* infinitely many.  A call to the worker is answered, or its timer retires the
\* worker.
FairSpec ==
    /\ Spec
    /\ []<>t.started
    /\ WF_vars(TimePasses)
    /\ []<>~TickDue
    /\ []<>~OriginBusy
    /\ WF_vars(ReplyArrives)

-----------------------------------------------------------------------------
(* Properties.                                                             *)

Running == t.started /\ ~t.finished

\* No piece is lost between the lanes: whatever sources were retired, banned
\* or cancelled, every piece is verified, held by a live lane or, without
\* origin, waiting to be given out (assign, retire, bad_piece, tick).
NothingForgotten == Running => Piece = Covered(t) \cup t.pending

\* What is queued waits behind a request of the same source, which may end;
\* and where there is an origin, some request is always under way.
WorkMoves ==
    Running =>
        /\ \A s \in Source : t.lane[s].queue # <<>> => t.lane[s].flight # <<>>
        /\ t.mode # "peer_only" => \E s \in Source : t.lane[s].flight # <<>>

\* What the page has under way once the replies so far are all in.
WillBeOpen ==
    LET Asks(i) == IF i = 0 THEN page.open ELSE page.replies[i].requests
        n == Len(page.replies)
    IN  UNION {{p \in Asks(i) : \A j \in i .. n : j > 0 => p \notin page.replies[j].cancels} :
                 i \in 0 .. n}
WillFetch ==
    page.fetching + Cardinality(UNION {{i} \X (1 .. page.replies[i].fetches) :
                                         i \in DOMAIN page.replies})

\* The peers the scheduler believes to be sending are those whose Request was
\* neither answered nor taken back: each that ends early was cancelled or
\* abandoned.  And when all replies are in, the page has just those requests
\* open and just those fetches under way that the core counts on, whatever
\* was answered while a reply was late.
CancelsMatch ==
    /\ t.live = {p \in Peer : t.lane[p].flight # <<>>}
    /\ \/ page.over \/ \E i \in DOMAIN page.replies : page.replies[i].ends
       \/ WillBeOpen = t.live /\ WillFetch = Len(t.lane[Origin].flight)

\* With an exclusive origin no piece is in the lanes of two sources at once, as
\* with_exclusive_origin promises for all but repeats after a failure: a
\* repeat, too, begins only when the piece was taken from the lane it was in.
OneFetchEach ==
    t.mode = "exclusive" =>
        \A s, u \in Source : s # u => Held(t, s) \cap Held(t, u) = {}

\* Where there is an origin, no peer's failure, slowness or bad piece, and no
\* clock, fails the transfer: only origin or the whole object's hash can.
OnlyOriginFailsIt ==
    [][t.sound /\ t.mode # "peer_only" /\ t.ended = <<>> /\ t'.ended = <<"fail">>
        => OriginDelivers \/ OriginFails]_vars

\* A transfer that was started ends on the page, however the peers behave.
TransferEnds == t.started ~> page.over

\* What a test asserts of transfers without origin: "pending pieces must
\* continue without an origin event".
PendingMoves ==
    Running /\ t.mode = "peer_only" => \E p \in Peer : t.lane[p].flight # <<>>
=============================================================================
