------------------------------ MODULE RelayPool -----------------------------
(* The sockets of a viewer to its relays (RelayPool of                      *)
(* src/relay-session.mjs), the session that subscribes and announces over   *)
(* them (RelaySwarmSession), and the swarm that starts one (#start of       *)
(* src/browser/hls-swarm.mjs). The network opens, refuses, hangs and drops  *)
(* sockets as it likes; an attempt that was given up may open all the same. *)
EXTENDS Integers, FiniteSetsExt, Sequences

CONSTANTS
    Urls,
    Modes,          \* "reconnect", "first" (readyOnFirstRelay), "all"
    MaxConnects,    \* bound: calls of connect()
    MaxAnnounces,   \* bound: presences announced
    MaxFaults       \* bound: attempts that fail, sockets that drop, a
                    \* presence that gets too old

ASSUME RelayAssumption ==
    /\ Modes \subseteq {"reconnect", "first", "all"}
    /\ {MaxConnects, MaxAnnounces, MaxFaults} \subseteq Nat
    /\ IsFiniteSet(Urls)                \* one to eight relays

(* `net` is what the callbacks of one event change together:                *)
(*   socks    sockets: [id, url, round, at, subs, pres]: the connect() that *)
(*            made it (0: a redial); "dialling", "open", or given up and    *)
(*            not gone yet ("late"); the subscriptions and the presence     *)
(*            that it was sent                                              *)
(*   connected, closed, subs (subscriptions), retry[u] (retryTimers)        *)
(*   ends     how each connect() ended, wait while it has not               *)
(*   failed   the urls of each connect() that failed                        *)
(*   started, last (#lastPresence, 0: none), old (is it past its age)       *)
(* swarm: "core" (waits for connect() and the core), "session", "lost" (its *)
(* #start threw), "stopped". said: presences the swarm meant to announce.   *)
VARIABLES mode, net, swarm, said, faults
vars == <<mode, net, swarm, said, faults>>

Subs == {"presence", "signal"}

Init ==
    /\ mode \in Modes
    /\ net = [socks |-> {}, connected |-> FALSE, closed |-> FALSE, subs |-> {},
              retry |-> [u \in Urls |-> 0], ends |-> <<>>, failed |-> [n \in 1..MaxConnects |-> {}],
              started |-> FALSE, last |-> 0, old |-> FALSE]
    /\ swarm = "core" /\ said = 0 /\ faults = 0

Step(s) == net' = s /\ UNCHANGED mode
Fault == faults < MaxFaults /\ faults' = faults + 1

In(s, at) == {k \in s.socks : k.at = at}
UrlsIn(s, at) == {k.url : k \in In(s, at)}
Waits(s) == {n \in DOMAIN s.ends : s.ends[n] = "wait"}
Going(s, n) == \E k \in In(s, "dialling") : k.round = n
End(s, how) == [s EXCEPT !.ends = [n \in DOMAIN @ |-> IF @[n] = "wait" THEN how ELSE @[n]]]

\* #connectOne: a new socket. Those of one connect() differ in their url, so
\* only a redial needs an id of its own.
Socket(id, u, n) == [id |-> id, url |-> u, round |-> n, at |-> "dialling", subs |-> {}, pres |-> 0]
Dial(s, u) ==
    LET id == Min(1..Cardinality(s.socks) + 1 \ {k.id : k \in s.socks})
    IN  [s EXCEPT !.socks = @ \union {Socket(id, u, 0)}]

\* #redial
Redial(s, U) == IF s.closed THEN s ELSE [s EXCEPT !.retry = [u \in Urls |-> @[u] + IF u \in U THEN 1 ELSE 0]]

\* An attempt of connect() n has settled; if it was the last of them:
RoundOver(s, n) ==
    IF n = 0 \/ Going(s, n) THEN s
    ELSE IF mode = "reconnect" THEN Redial(s, s.failed[n])
    ELSE IF s.ends[n] # "wait" THEN s
    ELSE End(s, IF In(s, "open") = {} THEN "failed" ELSE "ready")

-----------------------------------------------------------------------------
(* The pool's sockets.                                                      *)

Connect ==
    /\ ~net.closed /\ Waits(net) = {} /\ ~(net.connected /\ In(net, "open") # {})
    /\ Len(net.ends) < MaxConnects
    /\ Step([net EXCEPT !.connected = TRUE, !.ends = Append(@, "wait"),
                        !.socks = @ \union {Socket(0, u, Len(net.ends) + 1) : u \in Urls}])
    /\ UNCHANGED <<swarm, said, faults>>

\* (For checking ClosedIsQuiet: an attempt that was given up joins the pool.)
OpenedLate(s, k) ==
    RoundOver([s EXCEPT !.socks = (@ \ {k}) \union {[k EXCEPT !.at = "open", !.subs = s.subs]}], k.round)

\* (For checking EveryRelayKnows: the presence is not replayed.)
OpenedSilently(s, k) ==
    IF k.at = "late" THEN [s EXCEPT !.socks = @ \ {k}]
    ELSE RoundOver([IF mode = "all" THEN s ELSE End(s, "ready") EXCEPT
                        !.socks = (@ \ {k}) \union {[k EXCEPT !.at = "open", !.subs = s.subs]}], k.round)

\* The socket is sent the live subscriptions, a connect() that waits may be
\* over, and the session's handler replays its presence unless it is too old.
Opened(s, k) ==
    LET replays == s.started /\ s.last # 0
        open == [k EXCEPT !.at = "open", !.subs = s.subs, !.pres = IF replays /\ ~s.old THEN s.last ELSE 0]
        ready == IF mode = "all" THEN s ELSE End(s, "ready")
        s1 == [ready EXCEPT !.socks = (@ \ {k}) \union {open},
                            !.last = IF replays /\ s.old THEN 0 ELSE @,
                            !.old = @ /\ ~replays]
    IN  IF k.at = "late" THEN [s EXCEPT !.socks = @ \ {k}] ELSE RoundOver(s1, k.round)

Opens(k) == k.at \in {"dialling", "late"} /\ Step(Opened(net, k)) /\ UNCHANGED <<swarm, said, faults>>

\* finish(error): the attempt is refused, closed or, `late`, timed out.
GivenUp(s, k, late) ==
    LET s1 == [s EXCEPT !.socks = (@ \ {k}) \union IF late THEN {[k EXCEPT !.at = "late"]} ELSE {}]
    IN  IF k.round # 0 THEN RoundOver([s1 EXCEPT !.failed[k.round] = @ \union {k.url}], k.round)
        ELSE IF s.connected /\ k.url \notin UrlsIn(s, "open") THEN Redial(s1, {k.url})
        ELSE s1

Fails(k) ==
    /\ k.at = "dialling" /\ \E late \in BOOLEAN : Step(GivenUp(net, k, late))
    /\ Fault /\ UNCHANGED <<swarm, said>>

\* (For checking Rejoins: only an attempt that failed is tried again.)
DroppedOnly(s, k) == [s EXCEPT !.socks = @ \ {k}]

Dropped(s, k) ==
    LET s1 == [s EXCEPT !.socks = @ \ {k}]
    IN  IF mode = "reconnect" /\ s.connected THEN Redial(s1, {k.url}) ELSE s1

Drops(k) == k.at = "open" /\ Step(Dropped(net, k)) /\ Fault /\ UNCHANGED <<swarm, said>>
Vanishes(k) == k.at = "late" /\ Step([net EXCEPT !.socks = @ \ {k}]) /\ UNCHANGED <<swarm, said, faults>>

RetryTimer(u) ==
    /\ net.retry[u] > 0
    /\ LET s == [net EXCEPT !.retry[u] = @ - 1]
       IN  Step(IF s.connected THEN Dial(s, u) ELSE s)
    /\ UNCHANGED <<swarm, said, faults>>

\* close(): the attempts under way are given up, the open sockets forgotten.
Close(s) ==
    [End(s, "failed") EXCEPT
        !.closed = TRUE, !.connected = FALSE, !.retry = [u \in Urls |-> 0], !.subs = {},
        !.socks = {[k EXCEPT !.at = "late"] : k \in @ \ In(s, "open")}]

-----------------------------------------------------------------------------
(* The session and its swarm.                                               *)

\* announcePresence: with no relay it throws and the presence is not kept.
Announced(s, n) ==
    IF In(s, "open") = {} THEN s
    ELSE [s EXCEPT !.last = n, !.old = FALSE,
                   !.socks = {IF k.at = "open" THEN [k EXCEPT !.pres = n] ELSE k : k \in @}]

\* session.start(): its handler, then its subscriptions.
Started(s) ==
    [s EXCEPT !.started = TRUE, !.subs = Subs,
              !.socks = {IF k.at = "open" THEN [k EXCEPT !.subs = Subs] ELSE k : k \in @}]

\* #start goes on when connect() is ready and the core has loaded or its time
\* is up. With no relay open by then, subscribe() throws.
SwarmStarts ==
    /\ swarm = "core" /\ "ready" \in {net.ends[n] : n \in DOMAIN net.ends} /\ ~net.closed
    /\ IF In(net, "open") = {} THEN swarm' = "lost" /\ Step(net) /\ UNCHANGED said
       ELSE swarm' = "session" /\ said' = 1 /\ Step(Announced(Started(net), 1))
    /\ UNCHANGED faults

Announce ==
    /\ swarm = "session" /\ said < MaxAnnounces /\ said' = said + 1
    /\ Step(Announced(net, said + 1)) /\ UNCHANGED <<swarm, faults>>

Expires ==
    /\ net.last # 0 /\ ~net.old /\ Step([net EXCEPT !.old = TRUE])
    /\ Fault /\ UNCHANGED <<swarm, said>>

\* stop(): the session closes, then the pool.
Stop ==
    /\ swarm # "stopped" /\ swarm' = "stopped"
    /\ Step(Close([net EXCEPT !.started = FALSE, !.last = 0, !.old = FALSE]))
    /\ UNCHANGED <<said, faults>>

Next ==
    \/ Connect \/ SwarmStarts \/ Announce \/ Expires \/ Stop
    \/ \E k \in net.socks : Opens(k) \/ Fails(k) \/ Drops(k) \/ Vanishes(k)
    \/ \E u \in Urls : RetryTimer(u)

Spec == Init /\ [][Next]_vars

\* Timers fire, and an attempt that is not refused opens in the end.
FairSpec ==
    /\ Spec
    /\ \A u \in Urls :
          /\ WF_vars(RetryTimer(u))
          /\ WF_vars(\E k \in net.socks : k.url = u /\ k.at = "dialling" /\ Opens(k))

-----------------------------------------------------------------------------
(* Every open relay has been sent every live subscription and the presence  *)
(* the session would replay now, whenever it opened and however often it    *)
(* dropped (docs/API.md:46-54, 1184: the open listener, #redial, replay).   *)
EveryRelayKnows ==
    /\ net.started => net.subs = Subs
    /\ \A k \in In(net, "open") :
          /\ k.subs = net.subs
          /\ net.last # 0 => k.pres = net.last

(* After close() no socket is open or dialled, no timer is left and no      *)
(* connect() waits, though attempts may still open or fail.                 *)
ClosedIsQuiet ==
    net.closed =>
        /\ In(net, "open") = {} /\ In(net, "dialling") = {} /\ Waits(net) = {}
        /\ \A u \in Urls : net.retry[u] = 0

(* A reconnecting pool comes back to every relay, one that was never        *)
(* reached included, once it accepts again (#redial, its retry after the    *)
(* slowest initial attempt).                                                *)
Rejoins ==
    \A u \in Urls :
        [](mode = "reconnect" /\ net.connected => <>(net.closed \/ u \in UrlsIn(net, "open")))

(* A swarm outlives a relay restart (relay-session.mjs:97, the comment on   *)
(* reconnect): whatever its relays do, its start is not lost.               *)
OutlivesRestart == swarm # "lost"
=============================================================================
