-------------------------------- MODULE Mesh --------------------------------
(* How viewers of a swarm link (src/browser/hls-swarm.mjs, and the windows  *)
(* of src/browser/neighbour-discovery.mjs): offers, answers and rejections  *)
(* by relays that lose, reorder and repeat; a host that is asked to admit a *)
(* neighbour before anything is disclosed; offers that cross; a bounded     *)
(* number of slots; rotation of one link for another.                       *)
(* Time is not counted: a timer may fire as soon as it is set, a cooldown   *)
(* may be over, a link may be old enough to rotate.                         *)
EXTENDS Naturals, FiniteSets

CONSTANTS
    Viewers,                    \* in the order of their public keys
    Seekers,                    \* those of mode "peer-first", who rotate
    MaxPeers, MaxDialsInFlight, \* the options of these names
    Crowds,                     \* bound: how many links each may start with
    MaxDials,                   \* bound: dials in all
    MaxFaults                   \* bound: refusals of the host, repeated
                                \* offers, links that die, stops

ASSUME MeshAssumption ==
    /\ IsFiniteSet(Viewers) /\ Viewers \subseteq Nat \ {0} /\ Seekers \subseteq Viewers
    /\ Crowds \in [Viewers -> SUBSET (0..MaxPeers)]
    /\ {MaxPeers, MaxDialsInFlight, MaxDials} \subseteq Nat \ {0} /\ MaxFaults \in Nat

Requests == 1..MaxDials
Nobody == 0

(* `mesh` is what the callbacks of one event change together:               *)
(*   link[v][w]  the request whose channel links v to w (0: not linked)     *)
(*   crowd[v]    how many links v has to others than Viewers                *)
(*   dial[v][w]  v's dial of w, or answer to its offer                      *)
(*   checks      handlers that wait for the host to admit a peer            *)
(*   win[v]      the discovery window: the candidate it attempts, whether a *)
(*               link was dropped for it (victim: which), whether that slot *)
(*               is vacant                                                  *)
(*   req[r]      a request: who offered it to whom, and whether the offer   *)
(*               says that its sender has no peers or wants a key           *)
(*   signals     what was published: it may arrive late, twice or never     *)
(*   taken       requests in receivedOffers                                 *)
(*   opened, closed   channels that opened; those either end has closed     *)
VARIABLES mesh, faults
vars == <<mesh, faults>>

NoDial == [req |-> 0, out |-> FALSE, stage |-> "none", disc |-> FALSE]
NoRequest == [from |-> Nobody, to |-> Nobody, poor |-> FALSE]
NoWindow == [phase |-> "none", attempt |-> Nobody,
             dropped |-> FALSE, victim |-> {}, vacant |-> FALSE]

Init ==
    /\ \E crowd \in {f \in [Viewers -> 0..MaxPeers] : \A v \in Viewers : f[v] \in Crowds[v]} :
        mesh = [link |-> [v \in Viewers |-> [w \in Viewers |-> 0]], crowd |-> crowd,
                dial |-> [v \in Viewers |-> [w \in Viewers |-> NoDial]], checks |-> {},
                win |-> [v \in Viewers |-> NoWindow],
                dials |-> 0, req |-> [r \in Requests |-> NoRequest], signals |-> {}, taken |-> {},
                opened |-> {}, closed |-> {}, stopped |-> {}]
    /\ faults = 0

-----------------------------------------------------------------------------
(* Slots.                                                                   *)
Linked(s, v, w) == s.link[v][w] # 0
Dialling(s, v, w) == s.dial[v][w].req # 0
LinkCount(s, v) == s.crowd[v] + Cardinality({w \in Viewers : Linked(s, v, w)})
Outgoing(s, v) == Cardinality({w \in Viewers : s.dial[v][w].out})
DialChecks(s, v) == {c \in s.checks : c.kind = "dial" /\ c.at = v}
InUse(s, v) == LinkCount(s, v) + Cardinality({w \in Viewers : Dialling(s, v, w)})
Reserved(s, v) == s.win[v].phase = "live" /\ s.win[v].vacant
HasCapacity(s, v) == InUse(s, v) + (IF Reserved(s, v) THEN 1 ELSE 0) < MaxPeers
HasOutgoingSlot(s, v) == Outgoing(s, v) + Cardinality(DialChecks(s, v)) < MaxDialsInFlight
Suppressed(s, v, w) == s.win[v].phase = "live" /\ w \in s.win[v].victim
Valid(s, v, w) == s.win[v].phase = "live" /\ s.win[v].attempt = w

-----------------------------------------------------------------------------
(* Ends of dials, links and windows.                                        *)
Retired(s, r) == [s EXCEPT !.closed = @ \union {r}]

Abandoned(s, v, w, vacant) ==
    IF s.win[v].attempt = w
    THEN [s EXCEPT !.win[v] = [@ EXCEPT !.attempt = Nobody, !.vacant = vacant]]
    ELSE s

\* (For checking LinksAgree: the channel of a failed dial is left open.)
FailDialOpen(s, v, w) ==
    LET d == s.dial[v][w]
        t == [s EXCEPT !.dial[v][w] = NoDial]
    IN  IF d.disc THEN Abandoned(t, v, w, s.win[v].dropped) ELSE t

\* The search for another neighbour that follows is a Seek.
FailDial(s, v, w) ==
    LET d == s.dial[v][w]
        t == [Retired(s, d.req) EXCEPT !.dial[v][w] = NoDial]
    IN  IF d.disc THEN Abandoned(t, v, w, s.win[v].dropped) ELSE t

\* Only a dial that the window still owns ends with it.
EndWindow(s, v) ==
    LET w == s.win[v].attempt
        t == IF w # Nobody /\ Dialling(s, v, w) /\ s.dial[v][w].disc THEN FailDial(s, v, w) ELSE s
    IN  [t EXCEPT !.win[v] = NoWindow]
KeepDial(s, v, w) ==
    IF s.dial[v][w].disc
    THEN [s EXCEPT !.dial[v][w].disc = FALSE, !.win[v] = NoWindow] ELSE s
Expired(s, v) ==
    IF s.win[v].phase = "lapsed" THEN EndWindow(s, v) ELSE s

EndLink(s, v, w) == [Retired(s, s.link[v][w]) EXCEPT !.link[v][w] = 0]
\* A link that may be dropped: {} stands for one to the crowd.
Victims(s, v) ==
    IF LinkCount(s, v) < 2 THEN {}
    ELSE {{w} : w \in {u \in Viewers : Linked(s, v, u)}}
         \union (IF s.crowd[v] > 0 THEN {{}} ELSE {})
Drop(s, v, victim) ==
    IF victim = {} THEN [s EXCEPT !.crowd[v] = @ - 1]
    ELSE EndLink(s, v, CHOOSE w \in victim : TRUE)

-----------------------------------------------------------------------------
(* Handlers. Each begins at `Active` viewers only and starts by ending a    *)
(* window that is over.                                                     *)
Active(v) == v \notin mesh.stopped
\* What no handler can tell apart any more is forgotten: signals nobody heeds
\* and requests that nobody has a dial, a link, a signal or a handler for.
Settled(s) ==
    LET Dialled(r) == LET q == s.req[r] IN r \in {s.dial[q.from][q.to].req, s.dial[q.to][q.from].req}
        Joins(r) == LET q == s.req[r] IN r \in {s.link[q.from][q.to], s.link[q.to][q.from]}
        Heeded(m) == IF m[1] = "offer" THEN m[2] \notin s.taken
                     ELSE LET q == s.req[m[2]] IN s.dial[q.from][q.to].req = m[2]
        signals == {m \in s.signals : Heeded(m)}
        live == {r \in Requests : /\ s.req[r] # NoRequest
                                  /\ \/ Dialled(r) \/ Joins(r) \/ \E m \in signals : m[2] = r
                                     \/ \E c \in s.checks : c.req = r}
    IN  [s EXCEPT !.signals = signals, !.opened = {r \in @ : Dialled(r)},
                  !.taken = @ \intersect live, !.closed = @ \intersect live,
                  !.req = [r \in Requests |-> IF r \in live THEN @[r] ELSE NoRequest]]
Become(s) == mesh' = Settled(s) /\ UNCHANGED faults
BecomeAt(cost, s) == mesh' = Settled(s) /\ faults' = faults + cost /\ faults' <= MaxFaults
Cost(b) == IF b THEN 1 ELSE 0
Check(kind, v, w, r, disc) == [kind |-> kind, at |-> v, peer |-> w, req |-> r, disc |-> disc]

\* A request is unlike any that is still about.
NextRequest(s) == CHOOSE r \in Requests : s.req[r] = NoRequest
Dialable(s, v, w) ==
    /\ v # w /\ ~Linked(s, v, w) /\ ~Dialling(s, v, w) /\ ~Suppressed(s, v, w)
    /\ \A c \in DialChecks(s, v) : c.peer # w
    /\ HasOutgoingSlot(s, v)
    /\ s.dials + Cardinality({c \in s.checks : c.kind = "dial"}) < MaxDials

\* A presence, a retry after a rejection, a referral or the host's own call.
Dial(v, w) ==
    LET s == Expired(mesh, v)
    IN  /\ Active(v) /\ Dialable(s, v, w) /\ HasCapacity(s, v)
        /\ Become([s EXCEPT !.checks = @ \union {Check("dial", v, w, 0, FALSE)}])

\* #seekNeighbours: a candidate that hints at a demanded key nobody serves.
Seek(v, w) ==
    LET s == Expired(mesh, v)
        room == InUse(s, v) < MaxPeers
    IN  /\ Active(v) /\ v \in Seekers /\ Dialable(s, v, w)
        /\ s.win[v].attempt = Nobody
        /\ room \/ Reserved(s, v) \/ (~s.win[v].dropped /\ Victims(s, v) # {})
        /\ Become([s EXCEPT !.checks = @ \union {Check("dial", v, w, 0, TRUE)},
                            !.win[v].phase = "live", !.win[v].attempt = w])

Created(s, v, w, disc) ==
    LET r == NextRequest(s)
        t == [s EXCEPT !.dial[v][w] = [req |-> r, out |-> TRUE, stage |-> "offering", disc |-> disc],
                       !.dials = @ + 1, !.req[r] = [from |-> v, to |-> w, poor |-> FALSE]]
    IN  IF disc THEN [t EXCEPT !.win[v].vacant = FALSE] ELSE t

\* (For checking SlotsKept: room is looked for before the host is asked only.)
MayDialHasty(s, v, c) == ~Linked(s, v, c.peer) /\ ~Dialling(s, v, c.peer)

\* Everything is looked at again once the host has answered.
MayDial(s, v, c) ==
    /\ ~Linked(s, v, c.peer) /\ ~Dialling(s, v, c.peer) /\ ~Suppressed(s, v, c.peer)
    /\ Outgoing(s, v) < MaxDialsInFlight
    /\ IF c.disc THEN Valid(s, v, c.peer) ELSE HasCapacity(s, v)

Replaced(s, v, w) ==
    {Created(Drop([s EXCEPT !.win[v].dropped = TRUE, !.win[v].victim = x], v, x), v, w, TRUE)
        : x \in IF s.win[v].dropped THEN {} ELSE Victims(s, v)}
DialAdmitted(c, ok, unmet) ==
    LET v == c.at
        t == [mesh EXCEPT !.checks = @ \ {c}]
        s == IF c.disc THEN t ELSE Expired(t, v)
        gone == IF c.disc THEN Abandoned(s, v, c.peer, s.win[v].vacant) ELSE s
        after == IF ~ok \/ ~MayDial(s, v, c) \/ (c.disc /\ ~unmet) THEN {gone}
                 ELSE IF c.disc /\ InUse(s, v) >= MaxPeers THEN {gone} \union Replaced(s, v, c.peer)
                 ELSE {Created(s, v, c.peer, c.disc)}
    IN  /\ c.kind = "dial"
        /\ \E u \in after : BecomeAt(Cost(~ok), u)

Current(s, v, w) == Dialling(s, v, w) /\ (s.dial[v][w].disc => Valid(s, v, w))
Publish(s, type, r) == [s EXCEPT !.signals = @ \union {<<type, r>>}]

\* Native calls, gathering and the host's last word before SDP is sent; any
\* of them may fail (DialFails).
OfferReady(v, w) ==
    LET d == mesh.dial[v][w]
    IN  /\ Current(mesh, v, w) /\ d.stage = "offering"
        /\ Become([Publish(mesh, "offer", d.req) EXCEPT
                     !.dial[v][w].stage = "sent",
                     !.req[d.req].poor = d.disc \/ LinkCount(mesh, v) = 0])
AnswerReady(v, w) ==
    LET d == mesh.dial[v][w]
    IN  /\ Current(mesh, v, w) /\ d.stage = "answering"
        /\ Become([Publish(mesh, "answer", d.req) EXCEPT !.dial[v][w].stage = "ready"])

-----------------------------------------------------------------------------
(* Signals.                                                                 *)
Ignored(s, v, w, r) ==
    \/ Suppressed(s, v, w) \/ Linked(s, v, w) \/ r \in s.taken
    \/ (s.dial[v][w].req = r /\ ~s.dial[v][w].out)
OfferArrives(r) ==
    LET v == mesh.req[r].to
        w == mesh.req[r].from
        s == Expired(mesh, v)
    IN  /\ <<"offer", r>> \in mesh.signals /\ Active(v) /\ ~Ignored(s, v, w, r)
        /\ Become([s EXCEPT !.checks = @ \union {Check("offer", v, w, r, FALSE)}])

Answering(s, v, w, r) ==
    [s EXCEPT !.dial[v][w] = [req |-> r, out |-> FALSE, stage |-> "answering", disc |-> FALSE]]
\* Offers crossed: the lower key keeps its own, the other takes up this one
\* in its place, unless its connection can no longer be used.
Crossed(s, v, w, r) ==
    {IF s.dial[v][w].stage \in {"installing", "ready"} \/ v < w THEN s
     ELSE IF ~usable \/ InUse(s, v) > MaxPeers THEN FailDial(s, v, w)
     ELSE Answering(Retired(KeepDial(s, v, w), s.dial[v][w].req), v, w, r) : usable \in BOOLEAN}
\* Room, or a link that may go for one with no peers or who wants a key.
Taken(s, v, w, r) ==
    LET t == IF Dialling(s, v, w) THEN FailDial(s, v, w) ELSE s
        victims == IF mesh.req[r].poor /\ ~Reserved(t, v) THEN Victims(t, v) ELSE {}
    IN  IF HasCapacity(t, v) THEN {Answering(t, v, w, r)}
        ELSE {Publish(t, "reject", r)} \union {Answering(Drop(t, v, x), v, w, r) : x \in victims}

\* (For checking AnsweredOnce: a repeated offer is looked for on arrival only.)
AgainUnchecked(s, v, w, r) == Suppressed(s, v, w) \/ Linked(s, v, w)

\* The offer is looked at again: its twin may have been answered meanwhile.
Again(s, v, w, r) == Ignored(s, v, w, r)

OfferAdmitted(c, ok, twin) ==
    LET v == c.at
        w == c.peer
        r == c.req
        t == IF twin THEN mesh ELSE [mesh EXCEPT !.checks = @ \ {c}]
        s == Expired(t, v)
        u == [s EXCEPT !.taken = @ \union {r}]
        after == IF ~ok \/ Linked(t, v, w) THEN {t}
                 ELSE IF Again(s, v, w, r) THEN {s}
                 ELSE IF s.dial[v][w].out THEN Crossed(u, v, w, r) ELSE Taken(u, v, w, r)
    IN  /\ c.kind = "offer" /\ (ok \/ ~twin)
        /\ \E x \in after : BecomeAt(Cost(~ok \/ twin), x)

Awaited(r) ==
    LET d == mesh.dial[mesh.req[r].from][mesh.req[r].to]
    IN  d.req = r /\ d.out /\ d.stage \notin {"installing", "ready"}
AnswerArrives(r) ==
    /\ <<"answer", r>> \in mesh.signals /\ Awaited(r)
    /\ Become([mesh EXCEPT !.checks =
                @ \union {Check("answer", mesh.req[r].from, mesh.req[r].to, r, FALSE)}])
AnswerAdmitted(c, ok) ==
    LET s == [mesh EXCEPT !.checks = @ \ {c}]
        d == s.dial[c.at][c.peer]
    IN  /\ c.kind = "answer"
        /\ BecomeAt(Cost(~ok),
               IF ~Current(s, c.at, c.peer) \/ d.req # c.req \/ ~d.out THEN s
               ELSE IF ~ok THEN FailDial(s, c.at, c.peer)
               ELSE IF ~Awaited(c.req) THEN s
               ELSE [s EXCEPT !.dial[c.at][c.peer].stage = "installing"])
AnswerInstalled(v, w) ==
    /\ Current(mesh, v, w) /\ mesh.dial[v][w].stage = "installing"
    /\ Become([mesh EXCEPT !.dial[v][w].stage = "ready"])
RejectArrives(r) ==
    LET v == mesh.req[r].from
        w == mesh.req[r].to
    IN  /\ <<"reject", r>> \in mesh.signals
        /\ mesh.dial[v][w].req = r /\ mesh.dial[v][w].out
        /\ Become(FailDial(mesh, v, w))

-----------------------------------------------------------------------------
(* Channels and links.                                                      *)
ChannelOpens(r) ==
    LET v == mesh.req[r].from
        w == mesh.req[r].to
    IN  /\ v # Nobody /\ r \notin mesh.opened \union mesh.closed
        /\ mesh.dial[v][w].req = r /\ mesh.dial[v][w].stage \in {"installing", "ready"}
        /\ mesh.dial[w][v].req = r /\ mesh.dial[w][v].stage = "ready"
        /\ Become([mesh EXCEPT !.opened = @ \union {r}])

\* The event may come when the other end has closed the channel.
LinkOpens(v, w) ==
    LET d == mesh.dial[v][w]
    IN  /\ Dialling(mesh, v, w) /\ d.stage = "ready" /\ d.req \in mesh.opened
        /\ Become(IF Current(mesh, v, w)
                  THEN [KeepDial(mesh, v, w) EXCEPT !.link[v][w] = d.req, !.dial[v][w] = NoDial]
                  ELSE Retired(mesh, d.req))

LinkCloses(v, w) ==
    Linked(mesh, v, w) /\ BecomeAt(Cost(mesh.link[v][w] \notin mesh.closed), EndLink(mesh, v, w))
CrowdCloses(v) ==
    mesh.crowd[v] > 0 /\ BecomeAt(1, [mesh EXCEPT !.crowd[v] = @ - 1])

\* One of the crowd dials v and is answered.
CrowdJoins(v) ==
    LET s == Expired(mesh, v)
    IN  Active(v) /\ HasCapacity(s, v) /\ BecomeAt(1, [s EXCEPT !.crowd[v] = @ + 1])

\* Its timer, a native call that failed, a host that says no before SDP.
DialFails(v, w) == Dialling(mesh, v, w) /\ Become(FailDial(mesh, v, w))

-----------------------------------------------------------------------------
(* The window's time and demand.                                            *)

\* Its time is over, or its demand is for another rendition.
Lapses(v) == mesh.win[v].phase = "live" /\ Become([mesh EXCEPT !.win[v].phase = "lapsed"])
\* Its timer; or a piece that was verified, or a hint that has changed.
WindowEnds(v) == mesh.win[v].phase # "none" /\ Become(EndWindow(mesh, v))

Stop(v) ==
    LET s == EndWindow(mesh, v)
        mine == {s.dial[v][w].req : w \in Viewers} \union {s.link[v][w] : w \in Viewers}
    IN  /\ Active(v)
        /\ BecomeAt(1, [s EXCEPT !.stopped = @ \union {v}, !.crowd[v] = 0,
                             !.dial[v] = [w \in Viewers |-> NoDial],
                             !.link[v] = [w \in Viewers |-> 0],
                             !.checks = {c \in @ : c.at # v},
                             !.closed = @ \union (mine \ {0})])

Next ==
    \/ \E v, w \in Viewers :
        \/ Dial(v, w) \/ Seek(v, w) \/ OfferReady(v, w) \/ AnswerReady(v, w)
        \/ AnswerInstalled(v, w) \/ LinkOpens(v, w) \/ LinkCloses(v, w) \/ DialFails(v, w)
    \/ \E c \in mesh.checks, ok, also \in BOOLEAN :
        DialAdmitted(c, ok, also) \/ OfferAdmitted(c, ok, also) \/ (also /\ AnswerAdmitted(c, ok))
    \/ \E r \in Requests :
        OfferArrives(r) \/ AnswerArrives(r) \/ RejectArrives(r) \/ ChannelOpens(r)
    \/ \E v \in Viewers :
        \/ Lapses(v) \/ WindowEnds(v) \/ CrowdCloses(v) \/ CrowdJoins(v) \/ Stop(v)

Spec == Init /\ [][Next]_vars

-----------------------------------------------------------------------------
\* No viewer uses more slots than it has, whatever arrives while its host is
\* asked: links, dials either way, and the slot kept for a replacement; and
\* no more dials of its own are under way or asked for than it may have.
SlotsKept ==
    \A v \in Viewers :
        /\ InUse(mesh, v) + (IF Reserved(mesh, v) THEN 1 ELSE 0) <= MaxPeers
        /\ Outgoing(mesh, v) + Cardinality(DialChecks(mesh, v)) <= MaxDialsInFlight

\* A link is one channel at both ends: while neither has closed it, the other
\* viewer is linked by the same request or about to be, however offers,
\* rejections and timeouts crossed.
LinksAgree ==
    \A v, w \in Viewers :
        LET r == mesh.link[v][w]
        IN  r \in Requests \ mesh.closed => r \in {mesh.link[w][v], mesh.dial[w][v].req}

\* An offer that was answered or rejected is not taken up again, though
\* relays repeat it and both copies may have waited for the host together.
AnsweredOnce ==
    [][\A v, w \in Viewers :
        LET d == mesh.dial[v][w]
            e == mesh'.dial[v][w]
        IN  e.req # d.req /\ e.req # 0 /\ ~e.out =>
                e.req \notin mesh.taken]_vars
=============================================================================
