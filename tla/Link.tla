-------------------------------- MODULE Link --------------------------------
(***************************************************************************)
(* One end of the data channel between two viewers, as a state machine     *)
(* without I/O: core/relayswarm-proto/src/link.rs together with the shell  *)
(* that drives it, src/browser/core-peer-link.mjs.                         *)
(*                                                                         *)
(* The module has no variables.  The state of an end is a record, and each *)
(* entry point of the Rust `Link' is an operator from a record (and the    *)
(* input) to the record it leaves.  Sizes are counted in 16 KiB chunks, a  *)
(* piece is one chunk, and a payload is the sequence of the chunks it is   *)
(* made of, so that a chunk of the wrong object, or in the wrong place, is *)
(* visible.  Deadlines are left out: a timer that is armed may fire.       *)
(*                                                                         *)
(* Before some definitions stands a variant of it with one mistake in it   *)
(* (FinishAgain, BurstOn, ...).  Nothing uses those: they are what the     *)
(* properties are tried against.                                           *)
(***************************************************************************)
EXTENDS Integers, Sequences, FiniteSets

CONSTANTS
    Key,          \* the objects that can be requested
    Size,         \* the chunks of each object, as its commitment states them
    MaxSegment,   \* LinkConfig.max_segment_bytes, in chunks
    MaxQueued,    \* LinkConfig.max_queued_requests
    HighWater,    \* HIGH_WATER_BYTES, in chunks
    Reliable      \* LinkConfig.reliable: the channel is ordered and lossless

ASSUME KeyAssumption == Key # {}
ASSUME SizeAssumption == Size \in [Key -> Nat \ {0}]
ASSUME LimitAssumption ==
    /\ MaxSegment \in Nat \ {0}
    /\ MaxQueued \in Nat \ {0}
    /\ HighWater \in Nat
    /\ Reliable \in BOOLEAN

-----------------------------------------------------------------------------
(* Data.                                                                   *)

\* A piece range, end exclusive.  Whole stands for a request without one.
PieceRange == [start : Nat, end : Nat]
Whole == [start |-> 0, end |-> 0]

Chunk == [key : Key, at : Nat]
Payload == Seq(Chunk)

\* The answer of a host that does not hold an object, and the result of a
\* request that gets none.
None == <<>>

\* The object the host holds under key k, which may have another size than
\* the commitment says when the host holds something else.
Object(k, size) == [i \in 1 .. size |-> [key |-> k, at |-> i]]

\* Whether a range fits an object of `size' chunks (range_bytes is Some).
Fits(size, r) == r.start < r.end /\ r.end <= size

\* The bytes of one response: the whole object, or its range.
Slice(bytes, r) == IF r = Whole THEN bytes ELSE SubSeq(bytes, r.start + 1, r.end)

\* What a request for range r of key k must deliver.
Wanted(k, r) == Slice(Object(k, Size[k]), r)

-----------------------------------------------------------------------------
(* Frames.  The channel carries JSON control messages and, untagged, the   *)
(* chunks of the one response being sent.                                  *)

WantFrame(id, k, r)    == [t |-> "want", id |-> id, key |-> k, range |-> r]
MetaFrame(id, size, r) == [t |-> "meta", id |-> id, size |-> size, range |-> r]
ChunkFrame(c)          == [t |-> "chunk", chunk |-> c]
EofFrame(id)           == [t |-> "eof", id |-> id]
NoneFrame(id)          == [t |-> "none", id |-> id]
CancelFrame(id)        == [t |-> "cancel", id |-> id]

Frame == [t : {"want"}, id : Nat, key : Key, range : PieceRange]
           \cup [t : {"meta"}, id : Nat, size : Nat, range : PieceRange]
           \cup [t : {"chunk"}, chunk : Chunk]
           \cup [t : {"eof", "none", "cancel"}, id : Nat]

-----------------------------------------------------------------------------
(* The state of one end.                                                   *)

Reason == {"", "host", "request-timeout", "request-abort", "protocol",
           "channel-close", "serve-error", "upload-queue",
           "upload-drain-timeout"}
Outcome == {"payload", "none", "timeout", "abort", "abandoned", "closed",
            "send-error"}

\* The request that is waiting for its response; id 0 when there is none.
\* `expected' is 0 when the caller named no size, `size' before the meta.
Pending == [id : Nat, key : Key, range : PieceRange, expected : Nat, size : Nat,
            parts : Payload, received : Nat, draining : BOOLEAN,
            cancelled : BOOLEAN, resolved : BOOLEAN, reported : BOOLEAN,
            abandonReason : Reason]

Upload == [id : Nat, key : Key, range : PieceRange, cancelled : BOOLEAN]

\* The upload being answered: "idle" (none), "awaiting" the host's bytes or
\* "draining", paused with `sent' of `bytes' handed to the channel.
Active == {x \in [stage : {"idle", "awaiting", "draining"}, upload : Upload,
                  bytes : Payload, sent : Nat] : x.sent <= Len(x.bytes)}

AnyKey == CHOOSE k \in Key : TRUE
NoUpload  == [id |-> 0, key |-> AnyKey, range |-> Whole, cancelled |-> FALSE]
NoActive  == [stage |-> "idle", upload |-> NoUpload, bytes |-> None, sent |-> 0]
Awaiting(u) == [stage |-> "awaiting", upload |-> u, bytes |-> None, sent |-> 0]
NoPending ==
    [id |-> 0, key |-> AnyKey, range |-> Whole, expected |-> 0, size |-> 0,
     parts |-> None, received |-> 0, draining |-> FALSE, cancelled |-> FALSE,
     resolved |-> FALSE, reported |-> FALSE, abandonReason |-> ""]

\* `open' is the shell's readyState = "open" and `failed' its #sendFailed.
\* `wire' holds the frames this end sent that the other has not received;
\* `resolved' and `reported' are the Resolved and Report events so far;
\* `granted', `bytesOut' and `refunded' count chunks the host handed over,
\* chunks of ended responses, and chunks named by UploadCancelled events.
LinkState ==
    [open : BOOLEAN, failed : BOOLEAN, closed : BOOLEAN, reason : Reason,
     pending : Pending, nextId : Nat \ {0}, queue : Seq(Upload),
     active : Active, inFlight : Nat, buffered : Nat, wire : Seq(Frame),
     resolved : Seq([id : Nat, bytes : Payload]),
     reported : Seq([id : Nat, outcome : Outcome]),
     granted : Nat, bytesOut : Nat, refunded : Nat]

\* Link::new.
NewLink ==
    [open |-> TRUE, failed |-> FALSE, closed |-> FALSE, reason |-> "",
     pending |-> NoPending, nextId |-> 1, queue |-> <<>>, active |-> NoActive,
     inFlight |-> 0, buffered |-> 0, wire |-> <<>>, resolved |-> <<>>,
     reported |-> <<>>, granted |-> 0, bytesOut |-> 0, refunded |-> 0]

BusyUnlessDraining(L) == L.pending.id # 0 /\ ~L.pending.draining
Busy(L) == L.pending.id # 0
Transferring(L) == Busy(L) \/ L.inFlight > 0
CanSend(L) == ~L.closed /\ L.open

-----------------------------------------------------------------------------
(* Helpers the entry points share.                                         *)

SendText(L, frame) ==
    IF CanSend(L) THEN [L EXCEPT !.wire = Append(@, frame)] ELSE L

FinishAgain(L, bytes, outcome, reportNow) ==
    IF ~Busy(L) THEN L
    ELSE [L EXCEPT
            !.pending = NoPending,
            !.resolved = Append(@, [id |-> L.pending.id, bytes |-> bytes]),
            !.reported = Append(@, [id |-> L.pending.id, outcome |-> outcome])]

\* Settle the pending request: one Resolved and, with reportNow, one Report.
Finish(L, bytes, outcome, reportNow) ==
    LET p == L.pending IN
    IF ~Busy(L) THEN L
    ELSE [L EXCEPT
            !.pending = NoPending,
            !.resolved = IF p.resolved THEN @
                         ELSE Append(@, [id |-> p.id, bytes |-> bytes]),
            !.reported = IF p.reported \/ ~reportNow THEN @
                         ELSE Append(@, [id |-> p.id, outcome |-> outcome])]

Less(m, n) == IF m > n THEN m - n ELSE 0    \* saturating_sub

\* How many queued uploads start_next passes over before the one it serves:
\* every cancelled one at the front, and all of them on a closed link.
Skipped(L) ==
    Cardinality({i \in DOMAIN L.queue :
                    \A j \in 1 .. i : L.closed \/ L.queue[j].cancelled})

\* Start queued responses in order until one waits for its bytes.
StartNext(L) ==
    IF L.active.stage # "idle" THEN L
    ELSE LET n == Skipped(L)
             nones == [i \in 1 .. n |-> NoneFrame(L.queue[i].id)]
         IN  [L EXCEPT
                !.wire = IF CanSend(L) THEN @ \o nones ELSE @,
                !.inFlight = Less(@, n),
                !.queue = SubSeq(@, n + 2, Len(@)),
                !.active = IF n < Len(L.queue) THEN Awaiting(L.queue[n + 1])
                           ELSE @]

FinishUploadLeaks(L) == StartNext(L)
FinishUploadAlone(L) == [L EXCEPT !.inFlight = Less(@, 1)]
FinishUpload(L) == StartNext([L EXCEPT !.inFlight = Less(@, 1)])

\* Close the link: settle the request, and drop a response that waits for
\* the channel to drain.  One that waits for the host stays.
Close(L, reason) ==
    IF L.closed THEN L
    ELSE LET settled == Finish([L EXCEPT !.closed = TRUE, !.reason = reason],
                               None, "closed", TRUE)
         IN  IF settled.active.stage = "draining"
             THEN FinishUpload([settled EXCEPT !.active = NoActive])
             ELSE settled

\* The shell sends a call's frames after the call.  A channel that is no
\* longer open throws at a chunk, and the shell then closes the link.
Shell(L) == IF L.failed THEN Close(L, "serve-error") ELSE L

-----------------------------------------------------------------------------
(* The requesting side.                                                    *)

\* start_request, for a caller that found the link open and not busy: any
\* other gets its "closed" or "busy" report at once and nothing changes.
StartRequest(L, k, r, expected) ==
    LET asked == [L EXCEPT
                    !.nextId = @ + 1,
                    !.pending = [NoPending EXCEPT
                                   !.id = L.nextId, !.key = k, !.range = r,
                                   !.expected = expected,
                                   !.abandonReason = "request-timeout"]]
    IN  IF CanSend(L)
        THEN SendText(asked, WantFrame(L.nextId, k, r))
        ELSE Finish(asked, None, "send-error", TRUE)

\* Give the pending request up.  On a reliable channel the link stays and
\* discards the rest of the response; otherwise it closes.
Abandon(L, reason, outcome) ==
    LET p == L.pending IN
    IF ~(Reliable /\ L.open)
    THEN LET freed == Close(Finish(L, None, outcome, FALSE), reason)
         IN  [freed EXCEPT
                !.reported = Append(@, [id |-> p.id, outcome |-> outcome])]
    ELSE LET quit == [L EXCEPT
                        !.resolved = Append(@, [id |-> p.id, bytes |-> None]),
                        !.reported = Append(@, [id |-> p.id, outcome |-> outcome]),
                        !.pending = [p EXCEPT
                            !.draining = TRUE, !.parts = None,
                            !.abandonReason = reason, !.resolved = TRUE,
                            !.reported = TRUE, !.cancelled = CanSend(L)]]
         IN  SendText(quit, CancelFrame(p.id))

AbortMixed(L, outcome) ==
    IF Busy(L) /\ ~L.pending.draining THEN Abandon(L, outcome, outcome) ELSE L

\* abort, where `outcome' is "abort" or "abandoned".
Abort(L, outcome) ==
    IF Busy(L) /\ ~L.pending.draining THEN Abandon(L, "request-abort", outcome)
    ELSE L

RequestTimeoutOnce(L) ==
    IF L.pending.draining THEN L ELSE Abandon(L, "request-timeout", "timeout")

\* tick, when the request's timer is due.
RequestTimeout(L) ==
    IF L.pending.draining THEN Close(L, L.pending.abandonReason)
    ELSE Abandon(L, "request-timeout", "timeout")

\* A message for another request is ignored, but not while draining.
NamesPending(L, frame) == Busy(L) /\ frame.id = L.pending.id

Misnamed(L) == IF Busy(L) /\ L.pending.draining THEN Close(L, "protocol") ELSE L

OnMeta(L, frame) ==
    LET p == L.pending IN
    IF ~NamesPending(L, frame) THEN Misnamed(L)
    ELSE IF \/ p.size # 0
            \/ p.range # Whole /\ frame.range # p.range
            \/ p.expected # 0 /\ frame.size # p.expected
            \/ frame.size \notin 1 .. MaxSegment
         THEN Close(L, "protocol")
         ELSE [L EXCEPT !.pending.size = frame.size]

OnEofStrict(L, frame) ==
    LET p == L.pending IN
    IF ~NamesPending(L, frame) THEN Misnamed(L)
    ELSE IF p.size = 0 \/ p.size # p.received THEN Close(L, "protocol")
    ELSE IF p.draining THEN Finish(L, None, "none", TRUE)
    ELSE Finish(L, p.parts, "payload", TRUE)

OnEofShort(L, frame) ==
    IF ~NamesPending(L, frame) THEN Misnamed(L)
    ELSE IF L.pending.size = 0 THEN Close(L, "protocol")
    ELSE Finish(L, L.pending.parts, "payload", TRUE)

OnEof(L, frame) ==
    LET p == L.pending IN
    IF ~NamesPending(L, frame) THEN Misnamed(L)
    ELSE IF p.cancelled /\ p.size # 0 THEN Finish(L, None, "none", TRUE)
    ELSE IF p.size = 0 \/ p.size # p.received THEN Close(L, "protocol")
    ELSE IF p.draining THEN Finish(L, None, "none", TRUE)
    ELSE Finish(L, p.parts, "payload", TRUE)

OnNone(L, frame) ==
    IF ~NamesPending(L, frame) THEN Misnamed(L)
    ELSE IF L.pending.size # 0 THEN Close(L, "protocol")
    ELSE Finish(L, None, "none", TRUE)

\* One binary frame.  The chunk count's own limit, four times what the
\* largest object needs, cannot be reached by full chunks.
HandleBinary(L, frame) ==
    LET p == L.pending
        received == p.received + 1
    IN  IF L.closed \/ ~Busy(L) THEN L
        ELSE IF p.size = 0 THEN Close(L, "protocol")
        ELSE IF received > p.size
             THEN Close([L EXCEPT !.pending.received = received], "protocol")
        ELSE IF p.draining THEN [L EXCEPT !.pending.received = received]
        ELSE [L EXCEPT !.pending.received = received,
                       !.pending.parts = Append(@, frame.chunk)]

-----------------------------------------------------------------------------
(* The serving side.                                                       *)

OnWant(L, frame) ==
    IF L.inFlight >= MaxQueued THEN Close(L, "upload-queue")
    ELSE StartNext([L EXCEPT
            !.inFlight = @ + 1,
            !.queue = Append(@, [id |-> frame.id, key |-> frame.key,
                                 range |-> frame.range, cancelled |-> FALSE])])

BurstOn(L, u, left, resumed) ==
    LET room == IF L.buffered <= HighWater THEN HighWater - L.buffered + 1
                ELSE IF resumed THEN 1 ELSE 0
    IN  IF room < left THEN room ELSE left

\* How many of `left' chunks send_chunks hands to the channel before the
\* buffer is over the mark.  A resumed response always sends one more, and
\* a cancelled one none.
Burst(L, u, left, resumed) ==
    LET room == IF L.buffered <= HighWater THEN HighWater - L.buffered + 1
                ELSE IF resumed THEN 1 ELSE 0
    IN  IF u.cancelled THEN 0 ELSE IF room < left THEN room ELSE left

\* Hand chunks first .. last to the channel, which throws when not open.
SendBinary(L, bytes, first, last) ==
    IF first > last THEN L
    ELSE [L EXCEPT
            !.buffered = @ + (last - first) + 1,
            !.failed = @ \/ ~L.open,
            !.wire = IF L.open
                     THEN @ \o [i \in 1 .. (last - first) + 1 |->
                                  ChunkFrame(bytes[first + i - 1])]
                     ELSE @]

\* The end of a response of which `sent' chunks went out and `left' did not.
EndResponseUnpaid(L, u, sent, left) ==
    FinishUpload(SendText([L EXCEPT !.bytesOut = @ + sent], EofFrame(u.id)))

EndResponse(L, u, sent, left) ==
    FinishUpload(SendText([L EXCEPT !.bytesOut = @ + sent, !.refunded = @ + left],
                          EofFrame(u.id)))

\* L has no active upload: the caller took it out.
SendChunks(L, u, bytes, sent, resumed) ==
    LET left == Len(bytes) - sent
        n == Burst(L, u, left, resumed)
        pauses == /\ n < left
                  /\ ~(u.cancelled /\ (resumed \/ L.buffered <= HighWater))
        pushed == SendBinary(L, bytes, sent + 1, sent + n)
    IN  IF L.closed /\ left > 0 THEN FinishUpload(L)
        ELSE IF pauses
             THEN [pushed EXCEPT !.active = [stage |-> "draining", upload |-> u,
                                             bytes |-> bytes, sent |-> sent + n]]
        ELSE EndResponse(pushed, u, sent + n, left - n)

\* serve_response and serve_range_response: the host's answer, None or the
\* object it holds, to the upload that waits for it.  `buffered' is what
\* the shell reads off the channel before the call.
ServeResponse(L, bytes, buffered) ==
    LET u == L.active.upload
        taken == [L EXCEPT !.active = NoActive, !.buffered = buffered]
        slice == Slice(bytes, u.range)
        granted == [taken EXCEPT !.granted = @ + Len(slice)]
        declined == FinishUpload(SendText(taken, NoneFrame(u.id)))
    IN  IF L.active.stage # "awaiting" THEN L
        ELSE IF bytes = None \/ (u.range # Whole /\ ~Fits(Len(bytes), u.range))
             THEN declined
        ELSE IF u.cancelled
             THEN FinishUpload(SendText([granted EXCEPT !.refunded = @ + Len(slice)],
                                        NoneFrame(u.id)))
        ELSE IF ~CanSend(L) THEN FinishUpload(granted)
        ELSE SendChunks(SendText(granted, MetaFrame(u.id, Len(slice), u.range)),
                        u, slice, 0, FALSE)

ResumeSkips(L) ==
    SendChunks([L EXCEPT !.active = NoActive],
               L.active.upload, L.active.bytes, L.active.sent + 1, TRUE)

\* The upload that is paused goes on, or ends when it was cancelled.
Resume(L) ==
    SendChunks([L EXCEPT !.active = NoActive],
               L.active.upload, L.active.bytes, L.active.sent, TRUE)

BufferedAmountLow(L, buffered) ==
    IF L.active.stage # "draining" THEN L
    ELSE Resume([L EXCEPT !.buffered = buffered])

\* A cancel marks its uploads; a paused one ends at once, behind the chunks
\* the channel already has.
OnCancel(L, frame) ==
    LET marked == [L EXCEPT
                     !.queue = [i \in DOMAIN @ |->
                        IF @[i].id = frame.id
                        THEN [@[i] EXCEPT !.cancelled = TRUE] ELSE @[i]],
                     !.active.upload.cancelled =
                        @ \/ /\ L.active.stage # "idle"
                             /\ L.active.upload.id = frame.id]
    IN  IF L.active.stage = "draining" /\ L.active.upload.id = frame.id
        THEN Resume(marked) ELSE marked

UploadTimeoutLeaks(L) ==
    Close([L EXCEPT !.active = NoActive], "upload-drain-timeout")

\* tick, when the timer of a paused upload is due.
UploadTimeout(L) ==
    FinishUpload(Close([L EXCEPT !.active = NoActive], "upload-drain-timeout"))

\* One text frame.
HandleText(L, frame) ==
    IF L.closed THEN L
    ELSE CASE frame.t = "want"   -> OnWant(L, frame)
           [] frame.t = "cancel" -> OnCancel(L, frame)
           [] frame.t = "meta"   -> OnMeta(L, frame)
           [] frame.t = "eof"    -> OnEof(L, frame)
           [] frame.t = "none"   -> OnNone(L, frame)

Handle(L, frame) ==
    IF frame.t = "chunk" THEN HandleBinary(L, frame) ELSE HandleText(L, frame)
=============================================================================
