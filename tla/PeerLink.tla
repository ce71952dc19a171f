------------------------------ MODULE PeerLink ------------------------------
(***************************************************************************)
(* Two viewers joined by one data channel.  Each is a requester and a      *)
(* holder at once: both directions share the channel, so what closes one   *)
(* closes the other.  Every action is one call the shell makes into the    *)
(* link of module Link: a host call, an event of the channel, a timer.     *)
(***************************************************************************)
EXTENDS Link

CONSTANTS
    Node,         \* the two viewers
    Ask,          \* Ask[n]: what viewer n may request, [key, range, expected]
    HeldSize,     \* HeldSize[n][k]: chunks of the object n holds under k, or 0
    MaxRequests,  \* MaxRequests[n]: bound on the requests n starts
    Faults        \* which of "down", "host", "refuse", "lose" may happen

ASSUME NodeAssumption == \E a, b \in Node : a # b /\ Node = {a, b}
ASSUME AskAssumption ==
    Ask \in [Node -> SUBSET [key : Key, range : PieceRange, expected : Nat]]
ASSUME HeldAssumption == HeldSize \in [Node -> [Key -> Nat]]
ASSUME BoundAssumption == MaxRequests \in [Node -> Nat]
ASSUME FaultAssumption == Faults \subseteq {"down", "host", "refuse", "lose"}

VARIABLES
    link,    \* link[n]: n's end of the channel
    asked    \* asked[n][id]: history, what n's request id asks for

vars == <<link, asked>>

Other(n) == CHOOSE m \in Node : m # n

\* A viewer asks for ranges that fit the committed object, and names the size
\* of what it wants or, in the race for a cached object, no size at all.  In
\* that case a peer can pass for a holder only with an object of that size:
\* the digest, which the race compares afterwards, is not part of the link.
ASSUME QuestionAssumption ==
    \A n \in Node : \A q \in Ask[n] :
        /\ q.range = Whole \/ Fits(Size[q.key], q.range)
        /\ q.expected \in {0, Len(Wanted(q.key, q.range))}
ASSUME CachedAssumption ==
    \A n \in Node : \A q \in Ask[n] :
        q.expected = 0 /\ q.range = Whole
            => HeldSize[Other(n)][q.key] \in {0, Size[q.key]}

Init == /\ link = [n \in Node |-> NewLink]
        /\ asked = [n \in Node |-> <<>>]

\* One call into n's link that sends nothing but what its events say.
Call(n, after) == /\ link' = [link EXCEPT ![n] = Shell(after)]
                  /\ UNCHANGED asked

-----------------------------------------------------------------------------
(* Host calls.                                                             *)

Request(n) ==
    /\ link[n].nextId <= MaxRequests[n]
    /\ ~link[n].closed
    /\ ~Busy(link[n])
    /\ \E q \in Ask[n] :
         /\ link' = [link EXCEPT
                       ![n] = StartRequest(@, q.key, q.range, q.expected)]
         /\ asked' = [asked EXCEPT ![n] = Append(@, q)]

AbortRequest(n) ==
    /\ ~link[n].closed
    /\ Busy(link[n])
    /\ ~link[n].pending.draining
    /\ \E outcome \in {"abort", "abandoned"} : Call(n, Abort(link[n], outcome))

\* The host's answer arrives whenever its promise settles, after the link
\* closed or the upload was cancelled too.
Serve(n) ==
    LET k == link[n].active.upload.key
        held == Object(k, HeldSize[n][k])
    IN  /\ link[n].active.stage = "awaiting"
        /\ \E bytes \in {held} \cup (IF "refuse" \in Faults THEN {None} ELSE {}),
              buffered \in 0 .. link[n].buffered :
             Call(n, ServeResponse(link[n], bytes, buffered))

\* The host's callback throws.
ServeFails(n) ==
    /\ "refuse" \in Faults
    /\ link[n].active.stage = "awaiting"
    /\ Call(n, ServeResponse(Close(link[n], "serve-error"), None, link[n].buffered))

\* The host ends the link: stop, rotation, admission or a bad payload.
CloseLink(n) ==
    /\ "host" \in Faults
    /\ ~link[n].closed
    /\ Call(n, Close(link[n], "host"))

-----------------------------------------------------------------------------
(* Timers.                                                                 *)

FireRequestTimer(n) ==
    /\ Busy(link[n])
    /\ Call(n, RequestTimeout(link[n]))

FireUploadTimer(n) ==
    /\ link[n].active.stage = "draining"
    /\ Call(n, UploadTimeout(link[n]))

-----------------------------------------------------------------------------
(* The channel.                                                            *)

Receive(n) ==
    LET wire == link[Other(n)].wire IN
    /\ ~link[n].closed
    /\ wire # <<>>
    /\ link' = [link EXCEPT ![n] = Shell(Handle(@, Head(wire))),
                            ![Other(n)].wire = Tail(@)]
    /\ UNCHANGED asked

\* The channel reports that its buffer drained, and the shell tells a paused
\* response so when it finds the buffer below the high-water mark.
Drained(n) ==
    /\ link[n].active.stage = "draining"
    /\ \E buffered \in 0 .. link[n].buffered :
         /\ buffered <= HighWater
         /\ Call(n, BufferedAmountLow(link[n], buffered))

\* The channel of n leaves "open": a fault, or the other end closed it.
ChannelDown(n) ==
    /\ "down" \in Faults \/ link[Other(n)].closed
    /\ link[n].open
    /\ link' = [link EXCEPT ![n].open = FALSE]
    /\ UNCHANGED asked

\* Its close event follows.  Frames still on their way are lost with it.
ChannelClosed(n) ==
    /\ ~link[n].open
    /\ ~link[n].closed
    /\ Call(n, Close(link[n], "channel-close"))

\* An unreliable channel loses frames, and keeps the order of the rest.
LoseFrame(n) ==
    /\ "lose" \in Faults
    /\ ~Reliable
    /\ \E i \in DOMAIN link[n].wire :
         link' = [link EXCEPT
                    ![n].wire = SubSeq(@, 1, i - 1) \o SubSeq(@, i + 1, Len(@))]
    /\ UNCHANGED asked

Next == \E n \in Node :
    \/ Request(n)
    \/ AbortRequest(n)
    \/ Serve(n)
    \/ ServeFails(n)
    \/ CloseLink(n)
    \/ FireRequestTimer(n)
    \/ FireUploadTimer(n)
    \/ Receive(n)
    \/ Drained(n)
    \/ ChannelDown(n)
    \/ ChannelClosed(n)
    \/ LoseFrame(n)

\* What the platform and the host promise: an armed timer fires, a promise
\* settles and a channel that is down says so.  Nothing is promised of
\* frames: the network may deliver none of them.
Fairness == \A n \in Node :
    /\ WF_vars(FireRequestTimer(n))
    /\ WF_vars(FireUploadTimer(n))
    /\ WF_vars(Serve(n))
    /\ WF_vars(ChannelClosed(n))

Spec == Init /\ [][Next]_vars
FairSpec == Spec /\ Fairness

-----------------------------------------------------------------------------
(* Properties.                                                             *)

\* Every field of both ends stays in the set its Rust type and the checks on
\* each frame promise.
TypeOK ==
    /\ link \in [Node -> LinkState]
    /\ asked \in [Node -> Seq([key : Key, range : PieceRange, expected : Nat])]

\* A request resolves with None or with exactly the chunks it asked for, in
\* order.  Binary frames carry no request id, so this rests on the link
\* never taking a new request before the last response's boundary: the late
\* chunks of an abandoned response are not taken for the next one's.
PayloadIsWhole ==
    \A n \in Node : \A i \in DOMAIN link[n].resolved :
        LET r == link[n].resolved[i] IN
        r.bytes \in {None, Wanted(asked[n][r.id].key, asked[n][r.id].range)}

Settlements(n, id) == Cardinality({i \in DOMAIN link[n].resolved :
                                     link[n].resolved[i].id = id})
Reports(n, id) == Cardinality({i \in DOMAIN link[n].reported :
                                 link[n].reported[i].id = id})

\* Every request is settled and reported exactly once, at the latest when
\* the link forgets it, whichever of response, abort, timeout, drain end and
\* close come, in whatever order.
SettledOnce ==
    \A n \in Node : \A id \in 1 .. link[n].nextId - 1 :
        LET waits == link[n].pending.id = id /\ ~link[n].pending.draining
            times == IF waits THEN 0 ELSE 1
        IN  Settlements(n, id) = times /\ Reports(n, id) = times

\* outboundInFlight counts the uploads the link holds, neither less (the
\* queue limit would not hold) nor more (the link would look in transfer
\* for ever and refuse wants it has room for).
InFlightCounts ==
    \A n \in Node : link[n].inFlight =
        Len(link[n].queue) + (IF link[n].active.stage = "idle" THEN 0 ELSE 1)

\* While a link is up, the chunks the host was charged for are those of ended
\* responses, those an UploadCancelled event gave back and those of the
\* response under way.
GrantsAccounted ==
    \A n \in Node : CanSend(link[n]) =>
        link[n].granted = link[n].bytesOut + link[n].refunded
                            + Len(link[n].active.bytes)

Response(frame) == frame.t \in {"meta", "chunk", "eof", "none"}

\* When a link is free to ask again, nothing of an earlier request is left
\* anywhere: no frame of a response is on its way and the other end neither
\* holds nor will receive an upload for it.
CleanBoundary ==
    \A n \in Node : ~Busy(link[n]) /\ ~link[n].closed /\ link[n].open =>
        /\ \A i \in DOMAIN link[Other(n)].wire : ~Response(link[Other(n)].wire[i])
        /\ \A i \in DOMAIN link[n].wire : link[n].wire[i].t # "want"
        /\ link[Other(n)].inFlight = 0

\* Two ends that run this code, and hold what the commitments say, never
\* find each other in breach of the protocol or over the queue limit,
\* whatever races with whatever.
NoFalseAlarm ==
    \A n \in Node : link[n].reason \notin {"protocol", "upload-queue"}

\* In this step n reads a cancel of the upload it has in hand.
ReadsCancel(n) ==
    Receive(n) /\ Head(link[Other(n)].wire) = CancelFrame(link[n].active.upload.id)

\* From the step that reads its cancel on, no chunk goes out for an upload,
\* and it does not wait for the channel's buffer either, which could close a
\* healthy link when the upload's time is over.
CancelStopsChunks ==
    [][\A n \in Node :
         /\ link[n].active.stage # "idle"
         /\ link[n].active.upload.cancelled \/ ReadsCancel(n)
         => /\ \A i \in DOMAIN link'[n].wire :
                  i > Len(link[n].wire) => link'[n].wire[i].t # "chunk"
            /\ link'[n].active.stage # "draining"]_vars

\* How an end of the link looks to the host that asks through it.
Slot(n) == IF link[n].closed THEN "shut"
           ELSE IF ~Busy(link[n]) THEN "free"
           ELSE IF link[n].pending.draining THEN "draining" ELSE "waiting"

WantedBy(q) == Wanted(q.key, q.range)

Port(n) == INSTANCE RequestPort WITH
               Asks <- Ask[n],
               Whole <- WantedBy,
               None <- None,
               asked <- asked[n], answers <- link[n].resolved, slot <- Slot(n)

\* Each end keeps the promise of RequestPort: one request at a time, each
\* answered once with its whole object or nothing, and none after the link
\* closed.
PortKept ==
    /\ \A n \in Node : Port(n)!Init
    /\ [][\A n \in Node : [Port(n)!Next]_(Port(n)!vars)]_vars

\* A request does not hold its link for ever: the caller gets a result, and
\* the link is free again or closed, even if no frame ever arrives.
RequestsEnd == \A n \in Node : Busy(link[n]) ~> ~Busy(link[n])

\* Nor does an upload: the link stops counting as in transfer, so that it
\* can be rotated out and its handle freed.
UploadsEnd == \A n \in Node : link[n].inFlight > 0 ~> link[n].inFlight = 0
=============================================================================
